---------------------------- MODULE ImportDialog ----------------------------
(***************************************************************************)
(* The dialog that imports a Postman collection: files are dropped into a  *)
(* slot for the collection and one for the environment, a preflight asks   *)
(* the server which services would lose a draft, and the import starts at  *)
(* once if there is none, or after a warning.                              *)
(*                                                                         *)
(* Neither the reading of files nor the preflight is cancelled, be it by   *)
(* other files, by the button to cancel or by closing the dialog.          *)
(***************************************************************************)
EXTENDS Naturals, FiniteSets, Sequences, SequencesExt

CONSTANTS
  Coll,      \* collections and single requests
  Env,       \* environments
  Junk,      \* a file that is neither
  Svc,       \* services
  Drafted,   \* Drafted[c, e]: the services with a draft that c and e match
  MaxReads,  \* bound on the batches that are being read
  MaxChecks, \* bound on preflights under way
  MaxJobs,   \* bound on the imports
  None       \* an empty slot, no warning

Slot(files) == files \cup {None}

VARIABLES
  open,     \* the dialog is open
  coll,     \* collection
  env,      \* environment
  checking, \* preflightLoading
  warned,   \* draftServices: the services that are shown, or None
  reads,    \* the batches that are being read
  checks,   \* the preflights under way
  jobs      \* the imports that were started, with what was shown before

vars == <<open, coll, env, checking, warned, reads, checks, jobs>>

File == Coll \cup Env \cup {Junk}
Batch == {<<f>> : f \in File} \cup (File \X File)
Pair == [coll : Coll, env : Slot(Env)]
Job == [coll : Coll, env : Slot(Env), overwrite : BOOLEAN,
        shown : SUBSET Svc, wanted : BOOLEAN]

Init ==
  /\ open = FALSE
  /\ coll = None /\ env = None /\ checking = FALSE /\ warned = None
  /\ reads = {} /\ checks = {} /\ jobs = {}

-----------------------------------------------------------------------------
(* Files. *)

Of(b, kind) == SelectSeq(b, LAMBDA f : f \in kind)

(* At most one file of either kind and nothing else.                        *)
Assignable(b) == /\ Junk \notin ToSet(b)
                 /\ Len(Of(b, Coll)) <= 1 /\ Len(Of(b, Env)) <= 1

(* A slot for which the batch has no file keeps what it has.                *)
Fill(slot, b, kind) == IF Of(b, kind) = << >> THEN slot ELSE Of(b, kind)[1]

(* There is no drop zone while the warning is shown.                        *)
Drop(b) ==
  /\ open /\ warned = None
  /\ Cardinality(reads) < MaxReads /\ b \notin reads
  /\ reads' = reads \cup {b}
  /\ UNCHANGED <<open, coll, env, checking, warned, checks, jobs>>

(* The files are read and assigned, or are refused altogether.              *)
Read(b) ==
  /\ b \in reads
  /\ reads' = reads \ {b}
  /\ \/ Assignable(b) /\ coll' = Fill(coll, b, Coll) /\ env' = Fill(env, b, Env)
     \/ UNCHANGED <<coll, env>>
  /\ UNCHANGED <<open, checking, warned, checks, jobs>>

-----------------------------------------------------------------------------
(* The dialog. *)

Reset ==
  /\ coll' = None /\ env' = None
  /\ checking' = FALSE /\ warned' = None

Open ==
  /\ ~open /\ open' = TRUE
  /\ UNCHANGED <<coll, env, checking, warned, reads, checks, jobs>>

(* Whoever closes the dialog does not want what was asked before.           *)
Close ==
  /\ open /\ open' = FALSE
  /\ Reset
  /\ checks' = {[c EXCEPT !.wanted = FALSE] : c \in checks}
  /\ UNCHANGED <<reads, jobs>>

Back ==
  /\ open /\ warned # None
  /\ warned' = None
  /\ UNCHANGED <<open, coll, env, checking, reads, checks, jobs>>

(* launchImport with the slots of the render it was created in.             *)
Launch(c, e, overwrite, shown, wanted) ==
  /\ Cardinality(jobs) < MaxJobs
  /\ jobs' = jobs \cup {[coll |-> c, env |-> e, overwrite |-> overwrite,
                         shown |-> shown, wanted |-> wanted]}
  /\ Reset /\ open' = FALSE

Submit ==
  /\ open /\ warned = None /\ ~checking
  /\ coll # None
  /\ Cardinality(checks) < MaxChecks
  /\ checking' = TRUE
  /\ checks' = checks \cup {[coll |-> coll, env |-> env, wanted |-> TRUE]}
  /\ UNCHANGED <<open, coll, env, warned, reads, jobs>>

(* No draft is in the way: the import starts, even in a dialog closed since. *)
Clean(c) ==
  /\ Drafted[c.coll, c.env] = {}
  /\ Launch(c.coll, c.env, FALSE, {}, c.wanted)
  /\ checks' = checks \ {c} /\ UNCHANGED reads

Conflict(c) ==
  /\ Drafted[c.coll, c.env] # {}
  /\ warned' = Drafted[c.coll, c.env]
  /\ checking' = FALSE
  /\ checks' = checks \ {c}
  /\ UNCHANGED <<open, coll, env, reads, jobs>>

Fails(c) ==
  /\ checking' = FALSE
  /\ checks' = checks \ {c}
  /\ UNCHANGED <<open, coll, env, warned, reads, jobs>>

(* The server answers, or fails to.                                         *)
Preflight(c) == c \in checks /\ (Clean(c) \/ Conflict(c) \/ Fails(c))

Overwrite ==
  /\ open /\ warned # None
  /\ coll # None
  /\ Launch(coll, env, TRUE, warned, TRUE)
  /\ UNCHANGED <<reads, checks>>

(* The checks go on. *)
Proceeds == \E c \in checks : Preflight(c)

Next ==
  \/ Open \/ Close \/ Back \/ Submit \/ Overwrite
  \/ \E b \in Batch : Drop(b) \/ Read(b)
  \/ Proceeds

Spec == Init /\ [][Next]_vars

-----------------------------------------------------------------------------
(* Types; what the dialog waits for is asked, and a warning is never empty. *)
TypeOK ==
  /\ {open, checking} \subseteq BOOLEAN
  /\ coll \in Slot(Coll) /\ env \in Slot(Env)
  /\ warned \in (SUBSET Svc \ {{}}) \cup {None}
  /\ reads \subseteq Batch
  /\ \A c \in checks : [coll |-> c.coll, env |-> c.env] \in Pair
  /\ jobs \subseteq Job
  /\ checking => checks # {}

(* An import that may not overwrite was checked, as it is, and found no     *)
(* draft in its way (launchImport(false) in submit).                        *)
CheckedAsItIs ==
  \A j \in jobs : ~j.overwrite => Drafted[j.coll, j.env] = {}

(* A slot is emptied only with the whole dialog: files dropped one after    *)
(* the other add up (the comment of applyFiles on slots).                   *)
SlotsAddUp ==
  /\ coll # None /\ coll' = None => env' = None
  /\ env # None /\ env' = None => coll' = None
=============================================================================
