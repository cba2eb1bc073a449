-------------------------- MODULE ScenarioRegistry --------------------------
(***************************************************************************)
(* The page that keeps a browser's scenarios: collections (folders) and    *)
(* items in local storage, a wizard that edits one item, and the jobs that *)
(* write items to the database, run them and export them.                  *)
(*                                                                         *)
(* A handler runs to its first await and is one action up to there; every  *)
(* request is answered by an action of its own, so users and other jobs    *)
(* act between a job's requests.  An item is abstracted to its body (all   *)
(* that the wizard edits but the pins) and the version its picks pin.      *)
(***************************************************************************)
EXTENDS Naturals, Sequences, FiniteSets, SequencesExt

CONSTANTS
  Folder,   \* ids of collections
  Item,     \* ids of registry items
  Row,      \* ids of fnx_scenario rows
  Body,     \* what a wizard can hold, complete enough to be saved
  Blank,    \* a wizard without services
  Job,      \* asynchronous handlers that may be under way at once
  Top,      \* parentId null
  None,     \* no folder, item or row
  Uses,     \* what happens: kinds of jobs, "folder", "remove", "revisit", "delete"
  MaxPin    \* bound on the versions of the testcases

VARIABLES
  folders,  \* folders[f]: parentId of the collections there are
  selected, \* selectedFolderId
  items,    \* items[i]: the items there are
  wizard,   \* the sheet and its form
  dialog,   \* the dialog on top of the page and what it is about
  target,   \* scenarioRunTarget: what the run dialog is about
  job,      \* job[j]: a handler between two of its requests
  db,       \* db[r]: scenario rows
  latest,   \* the current version of the testcases that are picked
  minted    \* ids that were given to items

tree == <<folders, selected>>
page == <<folders, selected, items, wizard, dialog, target>>
rest == <<job, db, latest, minted>>
vars == <<page, rest>>

Pin == 0..MaxPin       \* 0: not pinned

ScenarioRegistryItem ==
  [folder : Folder, body : Body, pin : Pin, ready : BOOLEAN, row : Row \cup {None}]

(* editing: editingId; subject: the item whose data the form shows.         *)
Wizard == [open : BOOLEAN, editing : Item \cup {None}, subject : Item \cup {None},
           folder : Folder \cup {None}, body : Body \cup {Blank}, pin : Pin]

(* An item as a handler read it.                                            *)
Snapshot == [id : Item, folder : Folder, body : Body, pin : Pin,
             ready : BOOLEAN, row : Row \cup {None}]

(* `by` is the item a row was created for, `wrote` what was saved in it.    *)
ScenarioRow == [at : {"unused", "there", "gone"}, by : Item \cup {None},
                wrote : SUBSET Body]

(* A handler at its next request; shown: the page that started it is still  *)
(* there; own: and the wizard session too.                                  *)
JobState == [at : {"idle", "prepare", "create", "define", "recreate", "redefine", "finish"},
             kind : {"save", "open", "run", "runAll", "export", "exportAll"},
             queue : Seq(Snapshot), row : Row \cup {None}, rows : Seq(Item \X Row),
             ok : BOOLEAN, shown : BOOLEAN, own : BOOLEAN]

ClosedWizard == [open |-> FALSE, editing |-> None, subject |-> None,
                 folder |-> None, body |-> Blank, pin |-> 0]
NoDialog == [is |-> "none", of |-> None]
IdleJob  == [at |-> "idle", kind |-> "save", queue |-> << >>, row |-> None,
             rows |-> << >>, ok |-> FALSE, shown |-> FALSE, own |-> FALSE]
NewRow   == [at |-> "unused", by |-> None, wrote |-> {}]

(* defaultRegistryV2: one collection and no scenario.                       *)
Init ==
  /\ \E f \in Folder : folders = [g \in {f} |-> Top] /\ selected = f
  /\ items = << >>
  /\ wizard = ClosedWizard
  /\ dialog = NoDialog
  /\ target = None
  /\ job = [j \in Job |-> IdleJob]
  /\ db = [r \in Row |-> NewRow]
  /\ latest = 1
  /\ minted = {}

-----------------------------------------------------------------------------
(* Collections. *)

(* buildFolderOptions walks from the roots: a folder is shown unless its    *)
(* ancestors form a cycle or lead to a folder that is not there.            *)
FolderOptions(fs) ==
  {f \in DOMAIN fs : \A S \in SUBSET DOMAIN fs :
     f \in S => \E g \in S : fs[g] = Top \/ fs[g] \in DOMAIN fs \ S}

(* firstFolderIdInDisplayOrder: the root whose name comes first.            *)
FirstFolder(fs) ==
  LET roots == {f \in DOMAIN fs : fs[f] = Top} IN
  IF roots = {} THEN {None} ELSE roots

(* repairRegistryFolderLinks, which runs when the page is loaded and when   *)
(* collections come or go.                                                  *)
Repaired(fs, its, first) ==
  [i \in DOMAIN its |->
     IF its[i].folder \in DOMAIN fs \/ first = None THEN its[i]
     ELSE [its[i] EXCEPT !.folder = first]]

RepairedSelection(fs, sel, first) == IF sel \in DOMAIN fs THEN sel ELSE first

SetFolders(fs, its, sel, first) ==
  /\ folders' = fs
  /\ items' = Repaired(fs, its, first)
  /\ selected' = RepairedSelection(fs, sel, first)

OpenDialog(name, about) == dialog' = [is |-> name, of |-> about]

OpenFolderDialog ==
  /\ "folder" \in Uses
  /\ \/ OpenDialog("newFolder", None)
     \/ \E f \in FolderOptions(folders) : OpenDialog("editFolder", f)
  /\ UNCHANGED <<tree, items, wizard, target, rest>>

(* The dialog offers every collection that is shown but the edited one.     *)
ParentOptions ==
  {Top} \cup (FolderOptions(folders) \ {dialog.of})

SaveFolder ==
  \/ /\ dialog.is = "newFolder"
     /\ \E f \in Folder \ DOMAIN folders, p \in ParentOptions :
          LET fs == [g \in DOMAIN folders \cup {f} |-> IF g = f THEN p ELSE folders[g]] IN
          \E first \in FirstFolder(fs) :
            SetFolders(fs, items, IF selected = None THEN f ELSE selected, first)
     /\ dialog' = NoDialog
     /\ UNCHANGED <<wizard, target, rest>>
  \/ /\ dialog.is = "editFolder"
     /\ \E p \in ParentOptions : folders' = [folders EXCEPT ![dialog.of] = p]
     /\ dialog' = NoDialog
     /\ UNCHANGED <<items, selected, wizard, target, rest>>

(* removeFolder: refused while there are child collections.                 *)
RemoveFolder(f) ==
  /\ \A g \in DOMAIN folders : folders[g] # f
  /\ OpenDialog("rmFolder", f)
  /\ UNCHANGED <<tree, items, wizard, target, rest>>

(* Deletes the collection and the scenarios in it.                          *)
ApplyDeleteFolder ==
  LET f    == dialog.of
      fs   == [g \in DOMAIN folders \ {f} |-> folders[g]]
      kept == {i \in DOMAIN items : items[i].folder # f} IN
  /\ dialog.is = "rmFolder"
  /\ \E first \in FirstFolder(fs) :
       SetFolders(fs, [i \in kept |-> items[i]], selected, first)
  /\ dialog' = NoDialog
  /\ UNCHANGED <<wizard, target, rest>>

SelectFolder(f) ==
  /\ selected' = f
  /\ UNCHANGED <<folders, items, wizard, dialog, target, rest>>

FolderTreeList ==
  \/ OpenFolderDialog
  \/ \E f \in FolderOptions(folders) : RemoveFolder(f) \/ SelectFolder(f)

-----------------------------------------------------------------------------
(* The wizard. *)

(* No late answer is about the session that begins now.                     *)
NewSession == job' = [j \in Job |-> [job[j] EXCEPT !.own = FALSE]]

StartCreate ==
  /\ folders # << >>
  /\ \E f \in IF selected = None THEN FirstFolder(folders) ELSE {selected} :
       wizard' = [ClosedWizard EXCEPT !.open = TRUE, !.folder = f]
  /\ NewSession
  /\ UNCHANGED <<tree, items, dialog, target, db, latest, minted>>

StartEdit(i) ==
  /\ wizard' = [open |-> TRUE, editing |-> i, subject |-> i, folder |-> items[i].folder,
                body |-> items[i].body, pin |-> items[i].pin]
  /\ NewSession
  /\ UNCHANGED <<tree, items, dialog, target, db, latest, minted>>

(* Services, picks, bindings, texts and the collection of the scenario.     *)
EditForm ==
  /\ \E b \in Body, p \in {wizard.pin} \cup 0..latest, f \in FolderOptions(folders) :
       wizard' = [wizard EXCEPT !.body = b, !.pin = p, !.folder = f]
  /\ UNCHANGED <<tree, items, dialog, target, rest>>

(* The form is set anew whenever the sheet opens.                           *)
CloseWizard ==
  /\ wizard' = ClosedWizard
  /\ UNCHANGED <<tree, items, dialog, target, rest>>

Shown(kinds) == {j \in Job : job[j].at # "idle" /\ job[j].shown /\ job[j].kind \in kinds}

Begin(j, kind, at, queue) ==
  kind \in Uses /\ job' = [job EXCEPT ![j] =
    [IdleJob EXCEPT !.kind = kind, !.at = at, !.queue = queue,
                    !.row = queue[1].row, !.shown = TRUE, !.own = TRUE]]

(* The first request of persistRegistryScenarioToDb.                        *)
PersistAt(snap) == IF snap.row = None THEN "create" ELSE "define"

(* resolveScenarioFolderId.                                                 *)
ResolveFolder(f, sel) ==
  LET candidates == IF f # None THEN {f} ELSE IF sel # None THEN {sel} ELSE FirstFolder(folders)
  IN candidates \cap DOMAIN folders

(* buildScenarioRegistryItem: what the form says, on the edited item when   *)
(* it is still there and under a new id otherwise.                          *)
BuildItem(id, p, ready) ==
  LET existing == wizard.editing \in DOMAIN items
      sel      == IF selected # None THEN selected
                  ELSE IF existing THEN items[wizard.editing].folder ELSE None
      own      == IF existing THEN ResolveFolder(wizard.folder, items[wizard.editing].folder)
                  ELSE {} IN
  {[id |-> id, folder |-> f, body |-> wizard.body, pin |-> p, ready |-> ready,
    row |-> IF existing THEN items[id].row ELSE None] :
     f \in IF ResolveFolder(wizard.folder, sel) = {} THEN {}
           ELSE IF ~existing THEN ResolveFolder(wizard.folder, sel)
           ELSE IF own # {} THEN own ELSE {items[wizard.editing].folder}}

(* Up to the first request.  A pick without a version gets the one that the *)
(* wizard has loaded, if any.                                               *)
PersistWizard(j, ready) ==
  /\ Shown({"save"}) = {}
  /\ wizard.body # Blank
  /\ \E id \in IF wizard.editing \in DOMAIN items THEN {wizard.editing} ELSE Item \ minted,
        p \in IF wizard.pin # 0 THEN {wizard.pin} ELSE 0..latest :
       \E snap \in BuildItem(id, p, ready) :
         /\ Begin(j, "save", PersistAt(snap), <<snap>>)
         /\ minted' = minted \cup {id}
         /\ wizard' = [wizard EXCEPT !.pin = p]
  /\ UNCHANGED <<tree, items, dialog, target, db, latest>>

ItemOf(snap, r) == [folder |-> snap.folder, body |-> snap.body, pin |-> snap.pin,
                    ready |-> snap.ready, row |-> r]

(* The save's answer puts the item into the list, or back into it.          *)
StoredItems(snap, r) ==
  [i \in DOMAIN items \cup {snap.id} |-> IF i = snap.id THEN ItemOf(snap, r) ELSE items[i]]

(* A draft goes on being edited, as the item that was saved; a finished     *)
(* scenario closes the sheet.                                               *)
WizardSaved(j) ==
  LET snap == job[j].queue[1] IN
  IF snap.ready \/ ~wizard.open THEN ClosedWizard
  ELSE [wizard EXCEPT !.editing = snap.id,
                      !.subject = IF job[j].own THEN snap.id ELSE @]

SheetContent ==
  \/ EditForm
  \/ CloseWizard
  \/ \E j \in Job, ready \in BOOLEAN : job[j].at = "idle" /\ PersistWizard(j, ready)

-----------------------------------------------------------------------------
(* Runs and exports. *)

SnapshotOf(i) ==
  [id |-> i, folder |-> items[i].folder, body |-> items[i].body, pin |-> items[i].pin,
   ready |-> items[i].ready, row |-> items[i].row]

(* canExportRegistryScenarioPostman, canRunRegistryScenario.                *)
CanRun(i) == items[i].ready

(* What the table shows.                                                    *)
Filtered == {i \in DOMAIN items : selected = None \/ items[i].folder = selected}

Exportable == {i \in DOMAIN items : items[i].folder = selected /\ CanRun(i)}

OpenScenarioRunDialog(j, i) ==
  /\ CanRun(i)
  /\ Begin(j, "open", "prepare", <<SnapshotOf(i)>>)
  /\ UNCHANGED <<page, db, latest, minted>>

OpenPostmanExportDialog(i) ==
  /\ "export" \in Uses /\ CanRun(i)
  /\ OpenDialog("export", SnapshotOf(i))
  /\ UNCHANGED <<tree, items, wizard, target, rest>>

OpenCollectionDialog(kind) ==
  /\ kind \in Uses /\ selected # None
  /\ Exportable # {}
  /\ OpenDialog(kind, None)
  /\ UNCHANGED <<tree, items, wizard, target, rest>>

(* remove, and its confirmation.                                            *)
ConfirmRemoveScenario(i) ==
  /\ "remove" \in Uses
  /\ items' = [k \in DOMAIN items \ {i} |-> items[k]]
  /\ UNCHANGED <<tree, wizard, dialog, target, rest>>

ScenarioListTable ==
  \/ StartCreate
  \/ \E kind \in {"runAll", "exportAll"} : OpenCollectionDialog(kind)
  \/ \E i \in Filtered :
       \/ StartEdit(i)
       \/ ConfirmRemoveScenario(i)
       \/ OpenPostmanExportDialog(i)
       \/ \E j \in Job : job[j].at = "idle" /\ OpenScenarioRunDialog(j, i)

ListPage == ScenarioListTable \/ FolderTreeList

ConfirmScenarioRun(j) ==
  /\ target # None
  /\ Shown({"run"}) = {}
  /\ Begin(j, "run", "prepare", <<target>>)
  /\ UNCHANGED <<page, db, latest, minted>>

CloseScenarioRunDialog ==
  /\ target # None
  /\ Shown({"run"}) = {}
  /\ target' = None
  /\ UNCHANGED <<tree, items, wizard, dialog, rest>>

ConfirmPostmanExport(j) ==
  /\ dialog.is = "export"
  /\ Begin(j, "export", PersistAt(dialog.of), <<dialog.of>>)
  /\ UNCHANGED <<page, db, latest, minted>>

(* A collection's scenarios one after the other, as they are when it starts. *)
ConfirmCollection(j, kind) ==
  /\ dialog.is = kind
  /\ \E queue \in SetToSeqs({SnapshotOf(i) : i \in Exportable}) :
       /\ queue # << >>
       /\ Begin(j, kind, IF kind = "runAll" THEN "prepare" ELSE PersistAt(queue[1]), queue)
  /\ UNCHANGED <<page, db, latest, minted>>

(* What a dialog has started must end before it can be closed.              *)
CloseDialog ==
  /\ dialog' = NoDialog
  /\ UNCHANGED <<tree, items, wizard, target, rest>>

ExportDialogs ==
  /\ Shown({"export", "exportAll"}) = {}
  /\ \/ dialog.is \in {"export", "exportAll"} /\ CloseDialog
     \/ \E j \in Job : /\ job[j].at = "idle"
                       /\ ConfirmPostmanExport(j) \/ ConfirmCollection(j, "exportAll")

CollectionRunDialog ==
  /\ Shown({"runAll"}) = {}
  /\ \/ dialog.is = "runAll" /\ CloseDialog
     \/ \E j \in Job : job[j].at = "idle" /\ ConfirmCollection(j, "runAll")

FolderDialogs ==
  \/ dialog.is \in {"newFolder", "editFolder", "rmFolder"} /\ CloseDialog
  \/ SaveFolder
  \/ ApplyDeleteFolder

RunDialog ==
  \/ CloseScenarioRunDialog
  \/ \E j \in Job : job[j].at = "idle" /\ ConfirmScenarioRun(j)

-----------------------------------------------------------------------------
(* Leaving the page and coming back to it: nobody waits for its handlers    *)
(* any more, and what it shows is what local storage has.                   *)

Loaded(its) ==
  /\ \E first \in FirstFolder(folders) :
       SetFolders(folders, its, selected, first)
  /\ wizard' = ClosedWizard
  /\ dialog' = NoDialog
  /\ target' = None

Unshown(jobs) == [j \in Job |-> [jobs[j] EXCEPT !.shown = FALSE, !.own = FALSE]]

Revisit ==
  /\ "revisit" \in Uses
  /\ Loaded(items)
  /\ job' = Unshown(job)
  /\ UNCHANGED <<db, latest, minted>>

-----------------------------------------------------------------------------
(* Requests and their answers. *)

(* backendScenarioId of the items that a job has got rows for.              *)
WithRows(done) ==
  [i \in DOMAIN items |->
     IF \E d \in ToSet(done) : d[1] = i
     THEN [items[i] EXCEPT !.row = (CHOOSE d \in ToSet(done) : d[1] = i)[2]]
     ELSE items[i]]

(* A job that got nothing done leaves its dialog open with an error; after  *)
(* a run the browser goes to its result.                                    *)
EndJob(j, jb) ==
  LET ended == [job EXCEPT ![j] = IdleJob] IN
  IF ~jb.shown \/ ~jb.ok THEN job' = ended /\ UNCHANGED page
  ELSE IF jb.kind \in {"run", "runAll"} THEN Loaded(WithRows(jb.rows)) /\ job' = Unshown(ended)
  ELSE /\ items' = WithRows(jb.rows)
       /\ dialog' = NoDialog
       /\ job' = ended
       /\ UNCHANGED <<tree, wizard, target>>

(* The first scenario of the queue is done with.                            *)
Advance(j, jb) ==
  IF Len(jb.queue) > 1
  THEN /\ job' = [job EXCEPT ![j] =
            [jb EXCEPT !.queue = Tail(@), !.row = jb.queue[2].row,
                       !.at = IF jb.kind = "runAll" THEN "prepare" ELSE PersistAt(jb.queue[2])]]
       /\ UNCHANGED page
  ELSE EndJob(j, jb)

Fail(j) == Advance(j, job[j])

WithRow(jb) == [jb EXCEPT !.rows = Append(@, <<jb.queue[1].id, jb.row>>)]

Persisted(j) ==
  LET jb == job[j] IN
  IF jb.kind = "save"
  THEN /\ job' = [job EXCEPT ![j] = IdleJob]
       /\ IF jb.shown THEN /\ items' = StoredItems(jb.queue[1], jb.row)
                           /\ wizard' = WizardSaved(j)
                           /\ UNCHANGED <<tree, dialog, target>>
                      ELSE UNCHANGED page
  ELSE /\ job' = [job EXCEPT ![j] =
            [(IF jb.kind = "exportAll" THEN WithRow(jb) ELSE jb) EXCEPT !.at = "finish"]]
       /\ UNCHANGED page

(* Takes a lost answer for a good one.                                      *)
MutLostAnswer(j) == Persisted(j)

(* A row is there, or its definition was saved, but the answer is lost.     *)
LostAnswer(j) == Fail(j)

CreateShell(j) ==
  LET jb == job[j] IN
  /\ jb.at \in {"create", "recreate"}
  /\ \/ /\ Fail(j)
        /\ UNCHANGED db
     \/ \E r \in Row :
          /\ db[r].at = "unused"
          /\ db' = [db EXCEPT ![r] = [at |-> "there", by |-> jb.queue[1].id, wrote |-> {}]]
          /\ \/ /\ job' = [job EXCEPT ![j].row = r,
                             ![j].at = IF jb.at = "create" THEN "define" ELSE "redefine"]
                /\ UNCHANGED page
             \/ LostAnswer(j)
  /\ UNCHANGED <<latest, minted>>

(* saveScenarioDefinition; a row that is gone is created again, once.       *)
SaveDefinition(j) ==
  LET jb == job[j] IN
  /\ jb.at \in {"define", "redefine"}
  /\ \/ /\ db[jb.row].at = "there"
        /\ db' = [db EXCEPT ![jb.row].wrote = @ \cup {jb.queue[1].body}]
        /\ Persisted(j) \/ LostAnswer(j)
     \/ /\ Fail(j)
        /\ UNCHANGED db
     \/ /\ db[jb.row].at = "gone"
        /\ jb.at = "define"
        /\ job' = [job EXCEPT ![j].at = "recreate"]
        /\ UNCHANGED <<page, db>>
  /\ UNCHANGED <<latest, minted>>

(* preparePicksForLiveRun: picks without a version get the current one.     *)
Prepare(j) ==
  LET jb   == job[j]
      snap == jb.queue[1] IN
  /\ jb.at = "prepare"
  /\ \/ Fail(j)
     \/ \E p \in IF snap.pin # 0 THEN {snap.pin} ELSE {latest} :
          LET pinned == [snap EXCEPT !.pin = p] IN
          IF jb.kind = "open"
          THEN /\ job' = [job EXCEPT ![j] = IdleJob]
               /\ IF jb.shown
                  THEN /\ target' = pinned
                       /\ items' = [i \in DOMAIN items |->
                                     IF i = snap.id THEN [items[i] EXCEPT !.pin = p] ELSE items[i]]
                       /\ UNCHANGED <<tree, wizard, dialog>>
                  ELSE UNCHANGED page
          ELSE /\ job' = [job EXCEPT ![j].queue[1] = pinned, ![j].at = PersistAt(snap)]
               /\ UNCHANGED page
  /\ UNCHANGED <<db, latest, minted>>

(* The run, or the download.                                                *)
Finish(j) ==
  LET jb == job[j] IN
  /\ jb.at = "finish"
  /\ \/ Fail(j)
     \/ Advance(j, [(IF jb.kind = "exportAll" THEN jb ELSE WithRow(jb)) EXCEPT !.ok = TRUE])
  /\ UNCHANGED <<db, latest, minted>>

Answer(j) == CreateShell(j) \/ SaveDefinition(j) \/ Prepare(j) \/ Finish(j)

-----------------------------------------------------------------------------
(* Others: a row is deleted, the testcases change.                          *)

DeleteRow ==
  /\ "delete" \in Uses
  /\ \E r \in Row : db[r].at = "there" /\ db' = [db EXCEPT ![r].at = "gone"]
  /\ UNCHANGED <<page, job, latest, minted>>

ChangeTestcases ==
  /\ latest < MaxPin
  /\ latest' = latest + 1
  /\ UNCHANGED <<page, job, db, minted>>

(* What lies on top takes the clicks.                                       *)
User ==
  IF target # None THEN RunDialog
  ELSE IF dialog # NoDialog THEN ExportDialogs \/ CollectionRunDialog \/ FolderDialogs
  ELSE IF wizard.open THEN SheetContent
  ELSE ListPage

Next ==
  \/ User
  \/ Revisit
  \/ \E j \in Job : Answer(j)
  \/ DeleteRow
  \/ ChangeTestcases

Spec == Init /\ [][Next]_vars

-----------------------------------------------------------------------------
(* Types of the variables. *)
TypeOK ==
  /\ DOMAIN folders \subseteq Folder
  /\ \A f \in DOMAIN folders : folders[f] \in Folder \cup {Top}
  /\ selected \in Folder \cup {None}
  /\ DOMAIN items \subseteq minted /\ minted \subseteq Item
  /\ \A i \in DOMAIN items : items[i] \in ScenarioRegistryItem
  /\ wizard \in Wizard
  /\ target \in Snapshot \cup {None}
  /\ \A j \in Job : /\ job[j] \in JobState
                    /\ job[j].at \in {"define", "redefine", "finish"} => job[j].row # None
  /\ db \in [Row -> ScenarioRow]
  /\ latest \in Pin \ {0}

(* An item that names a row was saved in it (registryScenarioPersist.ts):   *)
(* the page never shows an item whose row is a shell without a definition,  *)
(* whichever of its requests failed.                                        *)
RowsAreDefined ==
  \A i \in DOMAIN items : items[i].row # None /\ db[items[i].row].wrote # {}

(* No two items write to the same row, so saving one never changes another  *)
(* in the database.                                                         *)
OneItemPerRow ==
  \A i, k \in DOMAIN items : items[i].row = items[k].row => i = k

(* A collection's parent is there: removeFolder refuses while there are     *)
(* children, and no dialog lets one be added before it is confirmed.        *)
ParentsExist == \A f \in DOMAIN folders : folders[f] \in DOMAIN folders \cup {Top}

(* Coming back to the page puts every scenario into a collection, whatever  *)
(* late answers did (repairRegistryFolderLinks), if a collection is shown.  *)
LoadedScenariosAreListed ==
  Revisit /\ FolderOptions(folders) # {} =>
       \A i \in DOMAIN items' : items'[i].folder \in DOMAIN folders'
=============================================================================
