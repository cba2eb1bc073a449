------------------------------ MODULE PoolRows ------------------------------
(***************************************************************************)
(* The testcase pool of one institution for one service, as pure           *)
(* functions: the current testcase of a case (fnx_testcase) and its        *)
(* versions (fnx_testcase_hist).                                           *)
(*                                                                         *)
(* A testcase is abstracted to its body, which stands for everything its   *)
(* checksum covers (name, method, endpoint, request, expectation); the     *)
(* body materialised from a rule is the rule's `input`.                    *)
(***************************************************************************)
EXTENDS RuleRows

CONSTANT NoTc   \* no fnx_testcase row

ASSUME PoolRowsAssumption == NoTc \notin Input

Pool   == [Case -> Input \cup {NoTc}]
TcHist == [Case -> Seq(Input)]

EmptyPool == [c \in Case |-> NoTc]

(* The bodies that the rules of document d materialise to. *)
Bodies(d) == [c \in Case |-> IF d[c] = NoRule THEN NoTc ELSE d[c].input]

(* Only fills holes: a testcase that exists keeps its old body. *)
MutUpserted(pool, new) ==
  [c \in Case |-> IF pool[c] = NoTc THEN new[c] ELSE pool[c]]

(* Upserting the testcases `new` into a pool ... *)
Upserted(pool, new) ==
  [c \in Case |-> IF new[c] = NoTc THEN pool[c] ELSE new[c]]

(* Numbers the versions from the newest. *)
MutUpsertedHist(hist, pool, new) ==
  [c \in Case |-> IF new[c] = NoTc \/ new[c] = pool[c]
                  THEN hist[c] ELSE <<new[c]>> \o hist[c]]

(* ... appends a version for each one that is new or has a new body. *)
UpsertedHist(hist, pool, new) ==
  [c \in Case |-> IF new[c] = NoTc \/ new[c] = pool[c]
                  THEN hist[c] ELSE Append(hist[c], new[c])]

(* Forgets the testcase's history even where nothing enforces the keys. *)
MutCascadedPool(hist) == [c \in Case |-> << >>]

(* What deleting every testcase leaves of their versions. *)
CascadedPool(hist) == IF Cascades THEN [c \in Case |-> << >>] ELSE hist
=============================================================================
