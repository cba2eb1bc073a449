---------------------------- MODULE RulesHistory ----------------------------
(***************************************************************************)
(* The dialog with the snapshots of one service's rules: the list, the     *)
(* preview of the snapshot that is selected, and the requests that restore *)
(* or delete it.  Snapshots and the rows of the services in force are two  *)
(* tables, each with ids of its own, but one request reads both.           *)
(*                                                                         *)
(* The list is requested whenever the dialog opens and after each change,  *)
(* and no such request is cancelled; a preview is cancelled by the next    *)
(* one.  Others may put rules in force meanwhile.                          *)
(***************************************************************************)
EXTENDS Naturals, FiniteSets, Sequences, SequencesExt

CONSTANTS
  Svc,      \* services
  Text,     \* documents
  RowId,    \* RowId[s]: the id of the service's row in force
  MaxId,    \* bound on the ids of snapshots
  Uses,     \* the kinds of the calls that are made; "others" if others write
  MaxCalls, \* bound on lists and changes that are under way
  None,     \* no service, no snapshot, no answer
  Failed    \* the answer of a request that failed

VARIABLES
  live,      \* live[s]: the document in force
  draft,     \* draft[s]: the draft of the service, or None
  snaps,     \* the snapshots: id -> [svc, text]
  next,      \* the id of the next snapshot
  item,      \* the service the dialog is open for, or None
  versions,  \* the list that was loaded
  sel,       \* selectedId
  preview,   \* previewYaml: what the preview shows, or None
  listing,   \* listLoading
  looking,   \* previewLoading
  restoring, \* a restore is not over
  deleting,  \* a deletion is not over
  look,      \* the preview request that is not cancelled, or None
  calls      \* the other calls under way

db   == <<live, draft, snaps, next>>
dlg  == <<item, versions, sel, preview>>
busy == <<listing, looking, restoring, deleting>>
vars == <<db, dlg, busy, look, calls>>

Id == 1..MaxId
Snap == [svc : Svc, text : Text]
Version == [id : Id, svc : Svc, active : BOOLEAN]
Kind == {"list", "restore", "delete"}

(* One snapshot per service is left, be it of what is in force or not.      *)
Init ==
  /\ live \in [Svc -> Text] /\ draft = [s \in Svc |-> None]
  /\ next = Cardinality(Svc) + 1
  /\ \E old \in [1..Cardinality(Svc) -> Snap] :
       /\ {old[i].svc : i \in DOMAIN old} = Svc
       /\ snaps = old
  /\ item = None /\ versions = << >> /\ sel = None /\ preview = None
  /\ listing = FALSE /\ looking = FALSE /\ restoring = FALSE /\ deleting = FALSE
  /\ look = None /\ calls = {}

-----------------------------------------------------------------------------
(* The server. *)

(* list_versions_with_active_flag, newest first                             *)
VersionsOf(s) ==
  [i \in DOMAIN SetToSortSeq({j \in DOMAIN snaps : snaps[j].svc = s}, >) |->
     LET id == SetToSortSeq({j \in DOMAIN snaps : snaps[j].svc = s}, >)[i] IN
     [id |-> id, svc |-> s, active |-> snaps[id].text = live[s]]]

(* The row in force whose id it is, and the snapshot only if there is none. *)
GetBundle(s, id) ==
  LET rows == {r \in Svc : RowId[r] = id} IN
  IF rows # {}
  THEN IF s \in rows THEN IF draft[s] # None THEN draft[s] ELSE live[s] ELSE Failed
  ELSE IF id \in DOMAIN snaps /\ snaps[id].svc = s THEN snaps[id].text ELSE Failed

Snapshot(s, t) ==
  /\ next \in Id
  /\ snaps' = [i \in DOMAIN snaps \cup {next} |->
                 IF i = next THEN [svc |-> s, text |-> t] ELSE snaps[i]]
  /\ next' = next + 1

Belongs(s, id) == id \in DOMAIN snaps /\ snaps[id].svc = s

(* The document in force until now gets a snapshot, and the draft goes.     *)
Restored(s, id) ==
  /\ Snapshot(s, live[s])
  /\ live' = [live EXCEPT ![s] = snaps[id].text]
  /\ draft' = [draft EXCEPT ![s] = None]

Deleted(id) ==
  /\ snaps' = [i \in DOMAIN snaps \ {id} |-> snaps[i]]
  /\ UNCHANGED <<live, draft, next>>

(* Somebody else saves a draft, or puts it in force.                        *)
SaveElsewhere(s) ==
  /\ "others" \in Uses /\ draft[s] = None
  /\ \E t \in Text : draft' = [draft EXCEPT ![s] = t]
  /\ UNCHANGED <<live, snaps, next, dlg, busy, look, calls>>

ApplyElsewhere(s) ==
  /\ draft[s] # None
  /\ live' = [live EXCEPT ![s] = draft[s]]
  /\ draft' = [draft EXCEPT ![s] = None]
  /\ Snapshot(s, draft[s])
  /\ UNCHANGED <<dlg, busy, look, calls>>

-----------------------------------------------------------------------------
(* The dialog. *)

Starts(call) == call.kind \in Uses /\ Cardinality(calls) < MaxCalls /\ calls' = calls \cup {call}

New(kind, s, id) == [kind |-> kind, svc |-> s, id |-> id, at |-> "req", got |-> None]

(* The effect of the selection: it cancels the request before.              *)
Look(s, id) ==
  /\ sel' = id
  /\ IF s = None \/ id = None THEN look' = None /\ UNCHANGED looking
     ELSE IF id = sel /\ s = item THEN UNCHANGED <<look, looking>>
     ELSE look' = [svc |-> s, id |-> id] /\ looking' = TRUE

(* The preview of the selection before is begun, and cancelled.             *)
OpenHistory(s) ==
  /\ item = None
  /\ item' = s
  /\ sel' = None /\ look' = None
  /\ looking' = (looking \/ sel # None)
  /\ preview' = None
  /\ listing' = TRUE
  /\ Starts(New("list", s, None))
  /\ UNCHANGED <<db, versions, restoring, deleting>>

(* The button of a deletion under way goes with the dialog.                 *)
Close ==
  /\ item # None
  /\ item' = None
  /\ look' = None /\ deleting' = FALSE
  /\ UNCHANGED <<db, versions, sel, preview, listing, looking, restoring, calls>>

Select(id) ==
  /\ item # None /\ ~listing
  /\ \E v \in ToSet(versions) : v.id = id
  /\ Look(item, id)
  /\ UNCHANGED <<db, item, versions, preview, listing, restoring, deleting, calls>>

(* The version that is selected, if the list has it.                        *)
Selected == {v \in ToSet(versions) : v.id = sel}

Restore ==
  /\ item # None /\ ~restoring
  /\ \E v \in Selected : ~v.active
  /\ restoring' = TRUE
  /\ Starts(New("restore", item, sel))
  /\ UNCHANGED <<db, dlg, listing, looking, deleting, look>>

Delete ==
  /\ item # None /\ ~listing /\ ~restoring /\ ~deleting
  /\ \E v \in Selected : ~v.active
  /\ deleting' = TRUE
  /\ Starts(New("delete", item, sel))
  /\ UNCHANGED <<db, dlg, listing, looking, restoring, look>>

-----------------------------------------------------------------------------
(* Requests and answers. *)

Gets(c, got) == calls' = (calls \ {c}) \cup {[c EXCEPT !.got = got]}

(* "req" of a change is the change, every other request reads the list.     *)
Serve(c) ==
  /\ c \in calls /\ c.got = None
  /\ \/ Gets(c, Failed) /\ UNCHANGED db
     \/ /\ c.kind = "list" \/ c.at = "list"
        /\ Gets(c, VersionsOf(c.svc)) /\ UNCHANGED db
     \/ /\ c.kind = "restore" /\ c.at = "req" /\ Belongs(c.svc, c.id)
        /\ Restored(c.svc, c.id) /\ Gets(c, << >>)
     \/ /\ c.kind = "delete" /\ c.at = "req" /\ Belongs(c.svc, c.id)
        /\ Deleted(c.id) /\ Gets(c, << >>)
  /\ UNCHANGED <<dlg, busy, look>>

ListAnswer(c) ==
  /\ c \in calls /\ c.kind = "list" /\ c.got # None
  /\ IF c.got = Failed THEN versions' = << >> /\ UNCHANGED <<sel, look, looking>>
     ELSE /\ versions' = c.got
          /\ IF c.got = << >> THEN UNCHANGED <<sel, look, looking>>
             ELSE Look(item, c.got[1].id)
  /\ listing' = FALSE
  /\ calls' = calls \ {c}
  /\ UNCHANGED <<db, item, preview, restoring, deleting>>

(* onRestored closes the dialog, whichever service it is open for.          *)
RestoreAnswer(c) ==
  /\ c \in calls /\ c.kind = "restore" /\ c.at = "req" /\ c.got \notin {None, Failed}
  /\ item' = None
  /\ look' = None /\ deleting' = FALSE
  /\ calls' = (calls \ {c}) \cup {[c EXCEPT !.at = "list", !.got = None]}
  /\ UNCHANGED <<db, versions, sel, preview, listing, looking, restoring>>

DeleteAnswer(c) ==
  /\ c \in calls /\ c.kind = "delete" /\ c.at = "req" /\ c.got \notin {None, Failed}
  /\ calls' = (calls \ {c}) \cup {[c EXCEPT !.at = "list", !.got = None]}
  /\ UNCHANGED <<db, dlg, busy, look>>

(* refreshAll; after a deletion another version is selected.                *)
RefreshAnswer(c) ==
  /\ c \in calls /\ c.at = "list" /\ c.got \notin {None, Failed}
  /\ versions' = c.got
  /\ IF c.kind = "restore"
     THEN restoring' = FALSE /\ UNCHANGED <<item, sel, look, looking, deleting>>
     ELSE /\ deleting' = FALSE /\ UNCHANGED restoring
          /\ IF c.got = << >>
             THEN item' = None /\ look' = None /\ UNCHANGED <<sel, looking>>
             ELSE LET others == SelectSeq(c.got, LAMBDA v : v.id # c.id) IN
                  /\ Look(item, IF others = << >> THEN c.got[1].id ELSE others[1].id)
                  /\ UNCHANGED item
  /\ calls' = calls \ {c}
  /\ UNCHANGED <<db, preview, listing>>

(* The flag is only cleared on the way through.                             *)
MutFailAnswer(c) ==
  /\ c \in calls /\ c.kind # "list" /\ c.got = Failed
  /\ deleting' = IF c.kind = "delete" THEN FALSE ELSE deleting
  /\ calls' = calls \ {c}
  /\ UNCHANGED <<db, dlg, listing, looking, restoring, look>>

FailAnswer(c) ==
  /\ c \in calls /\ c.kind # "list" /\ c.got = Failed
  /\ restoring' = IF c.kind = "restore" THEN FALSE ELSE restoring
  /\ deleting' = IF c.kind = "delete" THEN FALSE ELSE deleting
  /\ calls' = calls \ {c}
  /\ UNCHANGED <<db, dlg, listing, looking, look>>


PreviewAnswer ==
  /\ look # None
  /\ preview' \in {None, [svc |-> look.svc, id |-> look.id,
                          text |-> GetBundle(look.svc, look.id)]}
  /\ looking' = FALSE /\ look' = None
  /\ UNCHANGED <<db, item, versions, sel, listing, restoring, deleting, calls>>

Answer(c) == \/ ListAnswer(c) \/ RestoreAnswer(c) \/ DeleteAnswer(c)
             \/ RefreshAnswer(c) \/ FailAnswer(c)

(* The requests of one kind go on. *)
Proceeds(kind) == \E c \in calls : c.kind = kind /\ (Serve(c) \/ Answer(c))

Next ==
  \/ \E s \in Svc : OpenHistory(s) \/ SaveElsewhere(s) \/ ApplyElsewhere(s)
  \/ Close \/ Restore \/ Delete \/ PreviewAnswer
  \/ \E id \in Id : Select(id)
  \/ \E kind \in Kind : Proceeds(kind)

Spec == Init /\ [][Next]_vars

-----------------------------------------------------------------------------
(* Types of the variables; a preview is requested only in an open dialog.   *)
TypeOK ==
  /\ live \in [Svc -> Text] /\ draft \in [Svc -> Text \cup {None}]
  /\ DOMAIN snaps \subseteq Id /\ \A i \in DOMAIN snaps : snaps[i] \in Snap
  /\ next \in 1..(MaxId + 1)
  /\ item \in Svc \cup {None} /\ ToSet(versions) \subseteq Version
  /\ sel \in Id \cup {None}
  /\ {listing, looking, restoring, deleting} \subseteq BOOLEAN
  /\ look # None => item # None /\ looking

(* A service is only ever given the document of a snapshot of its own, or   *)
(* its draft (the check of rollback, whatever list the dialog shows).       *)
RestoresOwn ==
  \A s \in Svc : live'[s] # live[s] =>
       \/ live'[s] = draft[s]
       \/ \E i \in DOMAIN snaps : snaps[i] = [svc |-> s, text |-> live'[s]]

(* The preview, once loaded, is the answer to the request for the version   *)
(* that is selected, or there is none (the cancelled flag of the preview's  *)
(* effect).  Which document that answer holds is another matter: the id of  *)
(* a version may also be that of a row in force, see GetBundle.             *)
PreviewOfSelection ==
  item # None /\ look = None /\ preview # None => preview.id = sel \/ sel = None
=============================================================================
