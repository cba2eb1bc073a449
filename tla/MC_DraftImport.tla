--------------------------- MODULE MC_DraftImport ---------------------------
(* Instances of DraftImport for TLC. *)
EXTENDS DraftImport, TLC

TwoCases == 1 .. 2
OneCase  == {1}

Symmetric == Permutations(Request) \cup Permutations(Service)
=============================================================================
