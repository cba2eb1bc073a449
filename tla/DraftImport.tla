---------------------------- MODULE DraftImport ----------------------------
(***************************************************************************)
(* Drafting rules by AI, from Java source or from a Postman collection,    *)
(* while users edit the same services.  A request takes minutes: it checks *)
(* for working drafts, reads the rules it will merge into, waits for the   *)
(* LLM and saves the merged document, and between any two of these steps   *)
(* other requests commit.  Only its last step writes (db/session.py: one   *)
(* transaction, committed when the handler returns).                       *)
(*                                                                         *)
(* A user's request is one step.  The case table of RuleRows is the only   *)
(* state that matters here; testcases and the facade are in RuleStore.     *)
(***************************************************************************)
EXTENDS RuleRows, FiniteSets

CONSTANTS
  Service,    \* service codes of one institution
  Request,    \* requests to draft by AI
  MaxAdded    \* bound: cases that one request adds to one service

VARIABLES
  rows,  \* rows[s][c]: fnx_rule_case of service s
  req,   \* req[r]: request r
  held   \* held[r]: the services that have had a working draft at every
         \* moment since r was sent (a history variable)

vars == <<rows, req, held>>

(* Case ids carry a number, and the lowest free one is taken. *)
ASSUME DraftImportAssumption ==
  /\ Case \subseteq Nat
  /\ IsFiniteSet(Case)
  /\ MaxAdded \in Nat

(* asked: the services that the request names, which it checks for drafts.  *)
(* work: those it will write.  todo: those its current phase has not reached*)
(* yet.  base: the rules it read to merge into.                             *)
ReqType ==
  [pc : {"new", "guard", "match", "read", "done", "conflict", "failed"},
   kind : {"source", "postman"}, overwrite : BOOLEAN,
   asked : SUBSET Service, work : SUBSET Service, todo : SUBSET Service,
   base : [Service -> Doc]]

NewRequest ==
  [pc |-> "new", kind |-> "source", overwrite |-> FALSE,
   asked |-> {}, work |-> {}, todo |-> {}, base |-> [s \in Service |-> EmptyDoc]]

Init ==
  /\ rows = [s \in Service |-> [c \in Case |-> NoRow]]
  /\ req = [r \in Request |-> NewRequest]
  /\ held = [r \in Request |-> {}]

HasWorkingDraft(s) == \E c \in Case : HasDraft(rows[s], c)

Drafted == {s \in Service : HasWorkingDraft(s)}

-----------------------------------------------------------------------------
(* The request, step by step. *)

(* A request arrives: one service from source, those that the collection's  *)
(* paths match from Postman.                                                *)
Send(r, kind, S, overwrite) ==
  /\ req[r].pc = "new"
  /\ kind = "source" => Cardinality(S) = 1
  /\ req' = [req EXCEPT ![r] =
               [NewRequest EXCEPT !.pc = IF S = {} THEN "done"
                                         ELSE IF overwrite THEN "match" ELSE "guard",
                                  !.kind = kind, !.overwrite = overwrite,
                                  !.asked = S, !.todo = S]]
  /\ UNCHANGED rows

(* Finds no draft where there are only drafts. *)
MutGuard(r, s) ==
  /\ req[r].pc = "guard"
  /\ s \in req[r].todo
  /\ IF \E c \in Case : HasDraft(rows[s], c) /\ IsLive(rows[s], c)
     THEN req' = [req EXCEPT ![r].pc = "conflict"]
     ELSE req' = [req EXCEPT ![r].todo = @ \ {s},
                             ![r].pc = IF req[r].todo = {s} THEN "match" ELSE @]
  /\ UNCHANGED rows

(* Unless it may overwrite, a request stops at a service with a draft.      *)
Guard(r, s) ==
  /\ req[r].pc = "guard"
  /\ s \in req[r].todo
  /\ IF HasWorkingDraft(s)
     THEN req' = [req EXCEPT ![r].pc = "conflict"]
     ELSE req' = [req EXCEPT ![r].todo = @ \ {s},
                             ![r].pc = IF req[r].todo = {s} THEN "match" ELSE @]
  /\ UNCHANGED rows

(* From source the service checked is the service written.  A collection is *)
(* matched a second time, with the variables that its scripts set, which    *)
(* changes the paths and with them the services.                            *)
Match(r, W) ==
  /\ req[r].pc = "match"
  /\ req[r].kind = "source" => W = req[r].asked
  /\ req' = [req EXCEPT ![r].pc = IF W = {} THEN "done" ELSE "read",
                        ![r].work = W, ![r].todo = W]
  /\ UNCHANGED rows

(* The rules to merge into: the service's drafts, else its confirmed rules. *)
ReadBase(r, s) ==
  /\ req[r].pc = "read"
  /\ s \in req[r].todo
  /\ req' = [req EXCEPT ![r].todo = @ \ {s}, ![r].base[s] = EditorDoc(rows[s])]
  /\ UNCHANGED rows

(* The LLM, validation or the catalog fails: nothing is written. *)
Fail(r) ==
  /\ req[r].pc \in {"guard", "match", "read"}
  /\ req' = [req EXCEPT ![r].pc = "failed"]
  /\ UNCHANGED rows

Named(d) == {c \in Case : d[c] # NoRule}

(* The n lowest case ids that document d does not use. *)
FreshCases(d, n) ==
  {c \in Case \ Named(d) : Cardinality({e \in Case \ Named(d) : e < c}) < n}

(* A merge plan for document d: the cases it matches and what they now      *)
(* require, and the cases it adds.  Additions take the lowest free ids; a   *)
(* document made from source out of nothing keeps the ids the LLM chose.    *)
Plans(kind, d) ==
  {p \in [match : SUBSET Named(d), input : Input,
          new : SUBSET (Case \ Named(d)), extra : Extra \cup {NoExtra}] :
     /\ Cardinality(p.new) <= MaxAdded
     /\ p.new = FreshCases(d, Cardinality(p.new)) \/ (kind = "source" /\ d = EmptyDoc)
     /\ d = EmptyDoc => p.new # {}
     /\ p.new = {} => p.extra = NoExtra}

(* Keeps nothing but what the plan names. *)
MutMerged(d, p) ==
  [c \in Case |->
     CASE c \in p.match -> [d[c] EXCEPT !.input = p.input]
       [] c \in p.new   -> [input |-> p.input, extra |-> p.extra]
       [] OTHER         -> NoRule]

(* Matched cases keep everything but their input; the rest of d stays.      *)
Merged(d, p) ==
  [c \in Case |->
     CASE c \in p.match -> [d[c] EXCEPT !.input = p.input]
       [] c \in p.new   -> [input |-> p.input, extra |-> p.extra]
       [] OTHER         -> d[c]]

(* The merged documents become the working drafts of their services. *)
Save(r, plan) ==
  /\ req[r].pc = "read"
  /\ req[r].todo = {}
  /\ rows' = [s \in Service |->
                IF s \in req[r].work
                THEN SavedRows(rows[s], Merged(req[r].base[s], plan[s]))
                ELSE rows[s]]
  /\ req' = [req EXCEPT ![r].pc = "done"]

(* One plan per service that the request writes. *)
PlansOf(r) ==
  {plan \in [req[r].work -> UNION {Plans(req[r].kind, req[r].base[s]) : s \in req[r].work}] :
     \A s \in req[r].work : plan[s] \in Plans(req[r].kind, req[r].base[s])}

(* Request r writes in this step. *)
Writes(r) == req[r].pc = "read" /\ req'[r].pc = "done"

-----------------------------------------------------------------------------
(* Users' requests on the same services, which RuleStore has in full. *)

UserSave(s, d) ==
  /\ d # EmptyDoc
  /\ rows' = [rows EXCEPT ![s] = SavedRows(@, d)]
  /\ UNCHANGED req

(* Confirming the drafts of the cases C: all of them, or one. *)
UserConfirm(s, C) ==
  LET draft == Only(DraftDoc(rows[s]), C) IN
  /\ draft # EmptyDoc
  /\ rows' = [rows EXCEPT ![s] = ClearedDrafts(PublishedRows(@, draft), C)]
  /\ UNCHANGED req

UserDeactivate(s, c) ==
  /\ IsLive(rows[s], c)
  /\ rows' = [rows EXCEPT ![s][c] = DeactivatedRow(@)]
  /\ UNCHANGED req

-----------------------------------------------------------------------------
RequestStep(r) ==
  \/ \E kind \in {"source", "postman"}, S \in SUBSET Service, o \in BOOLEAN :
       Send(r, kind, S, o)
  \/ \E s \in Service : Guard(r, s) \/ ReadBase(r, s)
  \/ \E W \in SUBSET Service : Match(r, W)
  \/ Fail(r)
  \/ \E plan \in PlansOf(r) : Save(r, plan)

UserStep(s) ==
  \/ \E d \in Doc : UserSave(s, d)
  \/ \E C \in {Case} \cup {{c} : c \in Case} : UserConfirm(s, C)
  \/ \E c \in Case : UserDeactivate(s, c)

(* What held says after the step. *)
StillHeld ==
  held' = [r \in Request |->
             IF req[r].pc = "new" THEN Drafted \cap Drafted'
                                  ELSE held[r] \cap Drafted']

Next ==
  /\ (\E r \in Request : RequestStep(r)) \/ (\E s \in Service : UserStep(s))
  /\ StillHeld

Spec == Init /\ [][Next]_vars

-----------------------------------------------------------------------------
(* Properties. *)

(* The types of the variables. *)
TypeOK ==
  /\ rows \in [Service -> [Case -> Row \cup {NoRow}]]
  /\ req \in [Request -> ReqType]
  /\ held \in [Request -> SUBSET Service]

(* Drafting by AI never changes what scenarios run: a confirmed rule stays  *)
(* confirmed and as it is, however stale the rules the draft was made from. *)
ConfirmedSurvives ==
  [][\A r \in Request : Writes(r) =>
       \A s \in Service : AppliedDoc(rows'[s]) = AppliedDoc(rows[s])]_vars

(* If the rules of a service are still those that were read, drafting by AI *)
(* loses none of them: every case of the editor is still there afterwards,  *)
(* with its optional fields.                                                *)
UndisturbedMergeKeepsCases ==
  [][\A r \in Request : Writes(r) =>
       \A s \in req[r].work :
         EditorDoc(rows[s]) = req[r].base[s] =>
           \A c \in Named(EditorDoc(rows[s])) :
             /\ EditorDoc(rows'[s])[c] # NoRule
             /\ EditorDoc(rows'[s])[c].extra = EditorDoc(rows[s])[c].extra]_vars

(* From source, a draft that was there when the request was sent and ever   *)
(* since is never rewritten by a request that may not overwrite.            *)
OldDraftIsAskedFor ==
  [][\A r \in Request :
       Writes(r) /\ req[r].kind = "source" /\ ~ req[r].overwrite
         => req[r].work \cap held[r] = {}]_vars
=============================================================================
