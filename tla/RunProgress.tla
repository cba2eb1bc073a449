---------------------------- MODULE RunProgress ----------------------------
(***************************************************************************)
(* What the progress of a run promises to whoever watches it: the steps    *)
(* begin and finish one after the other and none is left out, and only a   *)
(* run all of whose steps have finished is reported as done.  It says      *)
(* nothing of how the events of the run get there.                         *)
(***************************************************************************)
EXTENDS Naturals

CONSTANT Total \* the number of steps of the run

VARIABLES
  index,  \* the step that is shown
  status, \* of that step: "pending", "running", "passed" or "failed"
  told    \* how the run ended: "nothing", "done" or "error"

vars == <<index, status, told>>

Init == index = 0 /\ status = "pending" /\ told = "nothing"

(* The steps that have finished.                                            *)
Finished == IF status \in {"passed", "failed"} THEN index + 1 ELSE index

Start ==
  /\ told = "nothing" /\ status # "running" /\ Finished < Total
  /\ index' = Finished /\ status' = "running"
  /\ UNCHANGED told

Finish ==
  /\ told = "nothing" /\ status = "running"
  /\ status' \in {"passed", "failed"}
  /\ UNCHANGED <<index, told>>

End ==
  /\ told = "nothing"
  /\ \/ told' = "done" /\ Finished = Total
     \/ told' = "error"
  /\ UNCHANGED <<index, status>>

Next == Start \/ Finish \/ End

Spec == Init /\ [][Next]_vars
=============================================================================
