----------------------------- MODULE RunStream -----------------------------
(***************************************************************************)
(* The events of a run on their way to the browser.  The server runs one   *)
(* step after the other and frames an event for each beginning and end;    *)
(* the connection delivers the text in pieces that end anywhere and may    *)
(* break; the browser buffers the text until a frame is complete and       *)
(* handles one event at a time, keeping the end of a step in view.         *)
(*                                                                         *)
(* A frame is the two halves of its event, which stand for any place where *)
(* it may be cut, and an empty line, which is two line ends.               *)
(***************************************************************************)
EXTENDS Integers, FiniteSets, Sequences, SequencesExt, FiniteSetsExt

CONSTANTS
  Total, \* the number of steps of the run
  NL     \* a line end

VARIABLES
  ran,    \* the server: the steps that have finished
  at,     \* the server: "ready", "idle" or "step" while the run goes on; "failed";
          \* "sent" when its last event is sent, then "stored" or "lost"
  wire,   \* the text that is under way
  up,     \* the connection is open
  buffer, \* the text that was read and not handled
  index,  \* currentIndex
  status, \* the status that is shown
  seen,   \* doneEvent was received
  told    \* how the run ended for the browser

server == <<ran, at>>
shown  == <<index, status>>
vars == <<server, wire, up, buffer, shown, seen, told>>

Event ==
  [type : {"run_started", "done", "error"}]
    \cup [type : {"step_started"}, step : 0..(Total - 1)]
    \cup [type : {"step_finished"}, step : 0..(Total - 1), status : {"passed", "failed"}]

Half == [event : Event, half : {1, 2}]

Init ==
  /\ ran = 0 /\ at = "ready"
  /\ wire = << >> /\ up = TRUE
  /\ buffer = << >>
  /\ index = 0 /\ status = "pending"
  /\ seen = FALSE /\ told = "nothing"

-----------------------------------------------------------------------------
(* The server, and the connection. *)

Frame(e) == <<[event |-> e, half |-> 1], [event |-> e, half |-> 2], NL, NL>>

Sends(e) == /\ wire' = IF up THEN wire \o Frame(e) ELSE wire
            /\ UNCHANGED <<up, buffer, shown, seen, told>>

RunStarted == /\ at = "ready" /\ at' = "idle"
              /\ Sends([type |-> "run_started"])
              /\ UNCHANGED ran

StepStarted == /\ at = "idle" /\ ran < Total
               /\ at' = "step"
               /\ Sends([type |-> "step_started", step |-> ran])
               /\ UNCHANGED ran

StepFinished == /\ at = "step"
                /\ at' = "idle" /\ ran' = ran + 1
                /\ \E st \in {"passed", "failed"} :
                     Sends([type |-> "step_finished", step |-> ran, status |-> st])

(* The run is flushed as completed, which nobody else sees yet, and told.   *)
RunDone == /\ at = "idle" /\ ran = Total
           /\ at' = "sent"
           /\ Sends([type |-> "done"])
           /\ UNCHANGED ran

(* An exception becomes the last event.                                     *)
RunFails == /\ at \in {"ready", "idle", "step"} /\ at' = "failed"
            /\ Sends([type |-> "error"])
            /\ UNCHANGED ran

(* The session of the request commits when the last event was sent, and     *)
(* rolls back when that fails; no event tells the browser.                  *)
Commits == /\ at = "sent" /\ at' \in {"stored", "lost"}
           /\ UNCHANGED <<ran, wire, up, buffer, shown, seen, told>>

(* The connection breaks: what is under way is lost, and the next read      *)
(* fails or ends.                                                           *)
Breaks == /\ up /\ told = "nothing"
          /\ up' = FALSE /\ wire' = << >>
          /\ UNCHANGED <<server, buffer, shown, seen, told>>

-----------------------------------------------------------------------------
(* The browser. *)

(* The places where an empty line ends. *)
Ends(text) == {i \in 2..Len(text) : text[i - 1] = NL /\ text[i] = NL}

(* Forgets what it kept.                                                    *)
MutRead ==
  /\ told = "nothing" /\ Ends(buffer) = {} /\ wire # << >>
  /\ \E n \in DOMAIN wire :
       /\ buffer' = SubSeq(wire, 1, n)
       /\ wire' = SubSeq(wire, n + 1, Len(wire))
  /\ UNCHANGED <<server, up, shown, seen, told>>

(* The next piece is read when the text before it is handled; what follows  *)
(* the last empty line is kept and the piece is put behind it.              *)
Read ==
  /\ told = "nothing" /\ Ends(buffer) = {} /\ wire # << >>
  /\ \E n \in DOMAIN wire :
       /\ buffer' = buffer \o SubSeq(wire, 1, n)
       /\ wire' = SubSeq(wire, n + 1, Len(wire))
  /\ UNCHANGED <<server, up, shown, seen, told>>

(* Text of which a part is missing is no event and is ignored.              *)
EventsIn(text) ==
  {e \in Event : {[event |-> e, half |-> 1], [event |-> e, half |-> 2]} \subseteq ToSet(text)}

StepShown(e) ==
  /\ e.type \in {"step_started", "step_finished"}
  /\ index' = e.step
  /\ status' = IF e.type = "step_started" THEN "running" ELSE e.status
  /\ UNCHANGED <<seen, told>>

(* An error ends the run whatever was read behind it.                       *)
Ending(e) ==
  /\ e.type \in {"run_started", "done", "error"}
  /\ seen' = (seen \/ e.type = "done")
  /\ told' = IF e.type = "error" THEN "error" ELSE told
  /\ UNCHANGED shown

Parse(text) ==
  \/ \E e \in EventsIn(text) : StepShown(e) \/ Ending(e)
  \/ EventsIn(text) = {} /\ UNCHANGED <<shown, seen, told>>

(* The text up to the first empty line.                                     *)
Handle ==
  /\ told = "nothing" /\ Ends(buffer) # {}
  /\ Parse(SubSeq(buffer, 1, Min(Ends(buffer))))
  /\ buffer' = SubSeq(buffer, Min(Ends(buffer)) + 1, Len(buffer))
  /\ UNCHANGED <<server, wire, up>>

(* The text ends with the last event, before the commit.                    *)
Over ==
  /\ told = "nothing" /\ Ends(buffer) = {} /\ wire = << >>
  /\ ~up \/ at \notin {"ready", "idle", "step"}

(* The event before a missing empty line is handled at the end.             *)
Flush ==
  /\ Over /\ buffer # << >>
  /\ Parse(buffer) /\ buffer' = << >>
  /\ UNCHANGED <<server, wire, up>>

(* The stream ends, or the read fails: only the event says the run is done. *)
End ==
  /\ Over
  /\ \/ buffer = << >> /\ told' = IF seen THEN "done" ELSE "error"
     \/ ~up /\ told' = "error"
  /\ UNCHANGED <<server, wire, up, buffer, shown, seen>>

Server == RunStarted \/ StepStarted \/ StepFinished \/ RunDone \/ RunFails \/ Commits
Browser == Read \/ Flush \/ Handle \/ End

Next == Server \/ Breaks \/ Browser

Spec == Init /\ [][Next]_vars

-----------------------------------------------------------------------------
(* The list of steps, while the run is under way. *)

Overall == CASE status = "passed" -> "success"
             [] status = "failed" -> "error"
             [] OTHER -> "running"

(* finixProgressStepState                                                   *)
StepState(i) ==
  IF Overall = "success" \/ i < index THEN "done"
  ELSE IF i # index THEN "pending"
  ELSE IF Overall = "error" THEN "error" ELSE "running"

-----------------------------------------------------------------------------
(* Types of the variables. *)
TypeOK ==
  /\ ran \in 0..Total /\ at \in {"ready", "idle", "step", "failed", "sent", "stored", "lost"}
  /\ {wire, buffer} \subseteq Seq(Half \cup {NL})
  /\ {up, seen} \subseteq BOOLEAN
  /\ index \in 0..Total /\ status \in {"pending", "running", "passed", "failed"}
  /\ told \in {"nothing", "done", "error"}

(* Wherever the text is cut, the browser shows the steps in their order and *)
(* without a gap, and reports a run as done only after its last step        *)
(* (streamExecutionEvents, consumeExecutionProgressStream).                 *)
Progress == INSTANCE RunProgress
ShowsProgress == Progress!Spec

(* When a run is reported as done, no step is shown as running or to come.  *)
DoneShowsAll ==
  told = "done" => \A i \in 0..Total-1 : StepState(i) \in {"done", "error"}

(* A run that the browser reports as done is one that the server ran to its *)
(* end: every step has run and none of them raised an exception, wherever   *)
(* the connection broke (_iter_run_for_testcases, streamExecutionEvents).   *)
(* Whether it is stored is another matter: the commit comes later.          *)
DoneIsRun == told = "done" => ran = Total /\ at \in {"sent", "stored", "lost"}
=============================================================================
