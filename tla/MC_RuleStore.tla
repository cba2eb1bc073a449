---------------------------- MODULE MC_RuleStore ----------------------------
(* Instances of RuleStore for TLC. *)
EXTENDS RuleStore, TLC

CONSTANTS i1, i2, in1, in2, in3

(* Every institution writes the same contents. *)
AuthoredAlike == [i \in Inst |-> Input]

(* Each institution writes contents of its own. *)
AuthoredApart == [i \in Inst |-> IF i = i1 THEN {in1} ELSE {in2}]

(* No rules file, or one with a rule of its own content. *)
NoFile  == EmptyDoc
FileOf(b) == [EmptyDoc EXCEPT ![CHOOSE c \in Case \ PoolCase : TRUE] =
                                 [input |-> b, extra |-> NoExtra]]
OneFile   == FileOf(in2)
OtherFile == FileOf(in3)

Symmetric == Permutations(Case)
=============================================================================
