------------------------ MODULE ScenarioRegistryProofs ------------------------
(***************************************************************************)
(* Theorems about ScenarioRegistry, for any number of collections, items,  *)
(* rows and handlers under way.                                            *)
(*                                                                         *)
(* A handler keeps a copy of the items it works on and writes it back      *)
(* when its last request is answered, so the invariant follows the row of  *)
(* an item through every place where a copy of it is kept: the list, the   *)
(* dialogs and the queues of handlers.                                     *)
(***************************************************************************)
EXTENDS ScenarioRegistry, SequenceTheorems, FiniteSetTheorems, TLAPS

(* What a registry is about.                                                *)
Setting == None \notin Row \cup Folder /\ MaxPin \in Nat \ {0}

-----------------------------------------------------------------------------
(* Rows.  D is the table of the database, M the ids that were minted.       *)

(* Row r was created for item i.                                            *)
MadeFor(D, i, r) == r \in Row /\ D[r].at # "unused" /\ D[r].by = i

(* And its definition was saved.                                            *)
Has(D, i, r) == MadeFor(D, i, r) /\ D[r].wrote # {}

(* A copy of an item.                                                       *)
Copy(D, M, s) ==
  s \in Snapshot /\ s.id \in M /\ (s.row # None => Has(D, s.id, s.row))

(* The list.                                                                *)
Listed(D, M, its) ==
  /\ DOMAIN its \subseteq M
  /\ \A i \in DOMAIN its : its[i] \in ScenarioRegistryItem /\ Has(D, i, its[i].row)

(* The copies and rows that a handler has, before the first copy of its     *)
(* queue is done with.                                                      *)
Carries(D, M, jb) ==
  /\ jb \in JobState
  /\ jb.queue # << >>
  /\ \A n \in DOMAIN jb.queue : Copy(D, M, jb.queue[n])
  /\ \A n \in DOMAIN jb.rows : Has(D, jb.rows[n][1], jb.rows[n][2])

(* A handler where it waits.                                                *)
Works(D, M, jb) ==
  /\ jb \in JobState
  /\ jb.at # "idle" => Carries(D, M, jb)
  /\ jb.at = "prepare" => jb.row = jb.queue[1].row
  /\ jb.at \in {"define", "redefine"} => MadeFor(D, jb.queue[1].id, jb.row)
  /\ jb.at = "finish" => Has(D, jb.queue[1].id, jb.row)

Types ==
  /\ DOMAIN folders \subseteq Folder
  /\ \A f \in DOMAIN folders : folders[f] \in Folder \cup {Top}
  /\ selected \in Folder \cup {None}
  /\ minted \subseteq Item /\ IsFiniteSet(minted)
  /\ wizard \in Wizard
  /\ job \in [Job -> JobState]
  /\ db \in [Row -> ScenarioRow]
  /\ latest \in Pin \ {0}

(* All that is kept of items, given the table D.                            *)
Kept(D) ==
  /\ Listed(D, minted, items)
  /\ target # None => Copy(D, minted, target)
  /\ dialog.is = "export" => Copy(D, minted, dialog.of)
  /\ \A j \in Job : Works(D, minted, job[j])

(* The collections; one that is about to be removed has no children.        *)
Tree ==
  /\ ParentsExist
  /\ dialog.is = "rmFolder" => \A f \in DOMAIN folders : folders[f] # dialog.of

IInv == Types /\ Kept(db) /\ Tree

-----------------------------------------------------------------------------
(* Queues and rows. *)

LEMMA QueueFacts ==
  ASSUME NEW q \in Seq(Snapshot), q # << >>
  PROVE  /\ Len(q) \in Nat /\ DOMAIN q = 1..Len(q) /\ 1 \in DOMAIN q /\ q[1] \in Snapshot
         /\ Len(q) > 1 =>
              /\ Tail(q) \in Seq(Snapshot) /\ Tail(q) # << >> /\ Tail(q)[1] = q[2]
              /\ 2 \in DOMAIN q /\ q[2] \in Snapshot
              /\ \A n \in DOMAIN Tail(q) : n + 1 \in DOMAIN q /\ Tail(q)[n] = q[n + 1]
<1>1. Len(q) \in Nat /\ Len(q) > 0 /\ DOMAIN q = 1..Len(q)
  BY EmptySeq, LenProperties
<1>2. 1 \in DOMAIN q /\ q[1] \in Snapshot
  BY <1>1, ElementOfSeq
<1>3. ASSUME Len(q) > 1
      PROVE  /\ Tail(q) \in Seq(Snapshot) /\ Tail(q) # << >> /\ Tail(q)[1] = q[2]
             /\ 2 \in DOMAIN q /\ q[2] \in Snapshot
             /\ \A n \in DOMAIN Tail(q) : n + 1 \in DOMAIN q /\ Tail(q)[n] = q[n + 1]
  <2> DEFINE t == Tail(q)
  <2>1. 2 \in DOMAIN q /\ q[2] \in Snapshot
    BY <1>1, <1>3, ElementOfSeq
  <2>2. t = SubSeq(q, 2, Len(q))
    BY TailIsSubSeq
  <2> HIDE DEF t
  <2>3. \A i \in 2..Len(q) : q[i] \in Snapshot
    BY <1>1, ElementOfSeq
  <2>4. /\ t \in Seq(Snapshot)
        /\ Len(t) = IF 2 <= Len(q) THEN Len(q) - 2 + 1 ELSE 0
        /\ \A i \in 1..(Len(q) - 2 + 1) : t[i] = q[2 + i - 1]
    BY <1>1, <2>2, <2>3, SubSeqProperties
  <2>5. Len(q) - 2 + 1 = Len(q) - 1 /\ 2 <= Len(q) /\ \A i \in 1..(Len(q) - 1) : 2 + i - 1 = i + 1
    BY <1>1, <1>3
  <2>6. Len(t) = Len(q) - 1 /\ \A n \in 1..(Len(q) - 1) : t[n] = q[n + 1]
    BY <2>4, <2>5
  <2>7. DOMAIN t = 1..(Len(q) - 1) /\ t # << >>
    <3>1. t \in Seq(Snapshot) /\ Len(t) = Len(q) - 1
      BY <2>4, <2>6
    <3>2. DOMAIN t = 1..Len(t) /\ Len(t) > 0 /\ Len(t) \in Nat
      BY <1>1, <1>3, <3>1, LenProperties
    <3>3. t # << >>
      BY <3>1, <3>2
    <3> QED BY <3>1, <3>2, <3>3
  <2>8. 1 \in 1..(Len(q) - 1) /\ t[1] = q[2]
    BY <1>1, <1>3, <2>6
  <2>9. \A n \in DOMAIN t : n + 1 \in DOMAIN q /\ t[n] = q[n + 1]
    BY <1>1, <2>6, <2>7
  <2> QED BY <2>1, <2>4, <2>7, <2>8, <2>9 DEF t
<1> QED BY <1>1, <1>2, <1>3

(* Rows stay with the item that they were created for.                      *)
Grows(D, E) ==
  \A r \in Row : D[r].at # "unused" =>
    E[r].at # "unused" /\ E[r].by = D[r].by /\ (D[r].wrote # {} => E[r].wrote # {})

LEMMA Stays ==
  ASSUME NEW D, NEW E, Grows(D, E), NEW M, NEW N, M \subseteq N
  PROVE  /\ \A i, r : MadeFor(D, i, r) => MadeFor(E, i, r)
         /\ \A i, r : Has(D, i, r) => Has(E, i, r)
         /\ \A s : Copy(D, M, s) => Copy(E, N, s)
         /\ \A its : Listed(D, M, its) => Listed(E, N, its)
         /\ \A jb : Carries(D, M, jb) => Carries(E, N, jb)
         /\ \A jb : Works(D, M, jb) => Works(E, N, jb)
<1>1. \A i, r : MadeFor(D, i, r) => MadeFor(E, i, r)
  BY DEF MadeFor, Grows
<1>2. \A i, r : Has(D, i, r) => Has(E, i, r)
  BY DEF Has, MadeFor, Grows
<1>3. \A s : Copy(D, M, s) => Copy(E, N, s)
  BY <1>2 DEF Copy
<1>4. \A its : Listed(D, M, its) => Listed(E, N, its)
  BY <1>2 DEF Listed
<1>5. \A jb : Carries(D, M, jb) => Carries(E, N, jb)
  BY <1>2, <1>3 DEF Carries
<1>6. \A jb : Works(D, M, jb) => Works(E, N, jb)
  BY <1>1, <1>2, <1>5 DEF Works
<1> QED BY <1>1, <1>2, <1>3, <1>4, <1>5, <1>6

LEMMA NoRowFacts == ASSUME Setting PROVE ~ (None \in Row) /\ ~ (None \in Folder)
  BY DEF Setting

(* What a handler reads from the list.                                      *)
LEMMA ReadCopy ==
  ASSUME NEW D, NEW M, M \subseteq Item, Listed(D, M, items), NEW i \in DOMAIN items
  PROVE  Copy(D, M, SnapshotOf(i))
<1>1. i \in M /\ i \in Item /\ items[i] \in ScenarioRegistryItem /\ Has(D, i, items[i].row)
  BY DEF Listed
<1>2. SnapshotOf(i) \in Snapshot
  BY <1>1 DEF SnapshotOf, Snapshot, ScenarioRegistryItem
<1>3. SnapshotOf(i).id = i /\ SnapshotOf(i).row = items[i].row
  BY DEF SnapshotOf
<1> QED BY <1>1, <1>2, <1>3 DEF Copy

-----------------------------------------------------------------------------
(* What handlers write back. *)

LEMMA RepairedListed ==
  ASSUME NEW D, NEW M, NEW its, Listed(D, M, its), NEW fs, NEW first \in Folder \cup {None}
  PROVE  Listed(D, M, Repaired(fs, its, first))
<1> DEFINE new == Repaired(fs, its, first)
<1>1. DOMAIN new = DOMAIN its
  BY DEF Repaired
<1>2. ASSUME NEW i \in DOMAIN its
      PROVE  new[i] \in ScenarioRegistryItem /\ new[i].row = its[i].row
  <2>1. its[i] \in ScenarioRegistryItem
    BY DEF Listed
  <2>2. new[i] = IF its[i].folder \in DOMAIN fs \/ first = None THEN its[i]
                 ELSE [its[i] EXCEPT !.folder = first]
    BY DEF Repaired
  <2> HIDE DEF new
  <2> QED BY <2>1, <2>2 DEF ScenarioRegistryItem
<1> HIDE DEF new
<1>3. Listed(D, M, new)
  BY <1>1, <1>2 DEF Listed
<1> QED BY <1>3 DEF new

LEMMA WithRowsListed ==
  ASSUME NEW D, NEW M, Listed(D, M, items), NEW done,
         \A n \in DOMAIN done : Has(D, done[n][1], done[n][2])
  PROVE  Listed(D, M, WithRows(done))
<1> DEFINE new == WithRows(done)
<1>1. DOMAIN new = DOMAIN items
  BY DEF WithRows
<1>2. ASSUME NEW i \in DOMAIN items
      PROVE  new[i] \in ScenarioRegistryItem /\ Has(D, i, new[i].row)
  <2>1. items[i] \in ScenarioRegistryItem /\ Has(D, i, items[i].row)
    BY DEF Listed
  <2>2. CASE \E d \in ToSet(done) : d[1] = i
    <3> DEFINE d == CHOOSE e \in ToSet(done) : e[1] = i
    <3>1. d \in ToSet(done) /\ d[1] = i
      BY <2>2
    <3>2. new[i] = [items[i] EXCEPT !.row = d[2]]
      BY <2>2 DEF WithRows
    <3> HIDE DEF d, new
    <3>3. Has(D, i, d[2])
      BY <3>1 DEF ToSet
    <3>4. d[2] \in Row
      BY <3>3 DEF Has, MadeFor
    <3> QED BY <2>1, <3>2, <3>3, <3>4 DEF ScenarioRegistryItem
  <2>3. CASE ~ (\E d \in ToSet(done) : d[1] = i)
    BY <2>1, <2>3 DEF WithRows
  <2> QED BY <2>2, <2>3
<1> HIDE DEF new
<1>3. Listed(D, M, new)
  BY <1>1, <1>2 DEF Listed
<1> QED BY <1>3 DEF new

LEMMA StoredListed ==
  ASSUME NEW D, NEW M, Listed(D, M, items), NEW s \in Snapshot, s.id \in M,
         NEW r, Has(D, s.id, r)
  PROVE  Listed(D, M, StoredItems(s, r))
<1> DEFINE new == StoredItems(s, r)
<1>1. DOMAIN new = DOMAIN items \cup {s.id}
  BY DEF StoredItems
<1>2. ItemOf(s, r) \in ScenarioRegistryItem /\ ItemOf(s, r).row = r
  BY DEF ItemOf, ScenarioRegistryItem, Snapshot, Has, MadeFor
<1>3. ASSUME NEW i \in DOMAIN new
      PROVE  new[i] \in ScenarioRegistryItem /\ Has(D, i, new[i].row)
  <2>1. new[i] = IF i = s.id THEN ItemOf(s, r) ELSE items[i]
    BY <1>1 DEF StoredItems
  <2> HIDE DEF new
  <2> QED BY <1>1, <1>2, <2>1 DEF Listed
<1> HIDE DEF new
<1>4. Listed(D, M, new)
  BY <1>1, <1>3 DEF Listed
<1> QED BY <1>4 DEF new

-----------------------------------------------------------------------------
(* How handlers begin, go on and end.  These lemmas take the table D as it  *)
(* is after the request that was answered.                                  *)

LEMMA IdleWorks ==
  ASSUME NEW D, NEW M PROVE IdleJob \in JobState /\ Works(D, M, IdleJob)
<1>1. << >> \in Seq(Snapshot) /\ << >> \in Seq(Item \X Row)
  BY EmptySeq
<1>2. IdleJob \in JobState
  BY <1>1 DEF IdleJob, JobState
<1> QED BY <1>2 DEF Works, IdleJob

LEMMA BeginWorks ==
  ASSUME Setting, NEW D, Types, Kept(D), NEW j \in Job, NEW kind, NEW at, NEW queue \in Seq(Snapshot),
         kind \in {"save", "open", "run", "runAll", "export", "exportAll"},
         queue # << >>, NEW M, minted \subseteq M,
         \A n \in DOMAIN queue : Copy(D, M, queue[n]),
         at \in {"prepare", PersistAt(queue[1])},
         Begin(j, kind, at, queue)
  PROVE  job' \in [Job -> JobState] /\ \A k \in Job : Works(D, M, job'[k])
<1> DEFINE jb == [IdleJob EXCEPT !.kind = kind, !.at = at, !.queue = queue,
                                 !.row = queue[1].row, !.shown = TRUE, !.own = TRUE]
<1>1. queue[1] \in Snapshot /\ 1 \in DOMAIN queue
  BY QueueFacts
<1>2. /\ jb.at = at /\ jb.queue = queue /\ jb.row = queue[1].row /\ jb.rows = << >>
      /\ jb.kind = kind /\ jb.ok = FALSE /\ jb.shown = TRUE /\ jb.own = TRUE
  BY DEF IdleJob
<1>3. job' = [job EXCEPT ![j] = jb]
  BY DEF Begin
<1>4. jb \in JobState
  <2>1. IdleJob \in JobState
    BY IdleWorks
  <2>2. at \in {"prepare", "create", "define"} /\ queue[1].row \in Row \cup {None}
    BY <1>1 DEF PersistAt, Snapshot
  <2> QED BY <2>1, <2>2 DEF JobState
<1> HIDE DEF jb
<1>5. Works(D, M, jb)
  <2>1. Copy(D, M, queue[1]) /\ DOMAIN << >> = {}
    BY <1>1
  <2>2. at = "define" => Has(D, queue[1].id, queue[1].row)
    BY <2>1 DEF PersistAt, Copy
  <2>3. at # "finish" /\ at # "redefine"
    BY DEF PersistAt
  <2> QED BY <1>2, <1>4, <2>1, <2>2, <2>3 DEF Works, Carries, Has
<1>6. \A k \in Job : Works(D, M, job[k])
  BY Stays DEF Kept, Grows
<1> QED BY <1>3, <1>4, <1>5, <1>6 DEF Types

(* The page after handlers wrote into it.                                   *)
PageKept ==
  /\ folders' = folders /\ selected' \in Folder \cup {None}
  /\ wizard' \in Wizard
  /\ dialog' = dialog \/ dialog' = NoDialog

LEMMA LoadedKeeps ==
  ASSUME Setting, NEW D, Types, Kept(D), NEW its, Listed(D, minted, its), Loaded(its)
  PROVE  /\ PageKept /\ Listed(D, minted, items')
         /\ target' = None /\ dialog' = NoDialog
<1>1. PICK first \in FirstFolder(folders) : SetFolders(folders, its, selected, first)
  BY DEF Loaded
<1>2. first \in Folder \cup {None}
  BY DEF FirstFolder, Types
<1>3. Listed(D, minted, items')
  BY <1>1, <1>2, RepairedListed DEF SetFolders
<1>4. ClosedWizard \in Wizard
  BY DEF ClosedWizard, Wizard, Pin, Setting
<1> QED BY <1>1, <1>2, <1>3, <1>4 DEF Loaded, PageKept, SetFolders, RepairedSelection, Types

LEMMA UnshownWorks ==
  ASSUME NEW D, NEW M, NEW jobs \in [Job -> JobState], \A k \in Job : Works(D, M, jobs[k])
  PROVE  Unshown(jobs) \in [Job -> JobState] /\ \A k \in Job : Works(D, M, Unshown(jobs)[k])
<1>1. ASSUME NEW k \in Job
      PROVE  LET b == [jobs[k] EXCEPT !.shown = FALSE, !.own = FALSE] IN
             /\ b \in JobState /\ b.at = jobs[k].at /\ b.queue = jobs[k].queue
             /\ b.rows = jobs[k].rows /\ b.row = jobs[k].row
  <2>1. jobs[k] \in JobState
    OBVIOUS
  <2> QED BY <2>1 DEF JobState
<1>2. ASSUME NEW k \in Job PROVE Works(D, M, [jobs[k] EXCEPT !.shown = FALSE, !.own = FALSE])
  BY <1>1 DEF Works, Carries
<1> QED BY <1>1, <1>2 DEF Unshown

(* The handler ends.                                                        *)
LEMMA EndKeeps ==
  ASSUME Setting, NEW D, Types, Kept(D), NEW j \in Job, NEW jb \in JobState, minted' = minted,
         \A n \in DOMAIN jb.rows : Has(D, jb.rows[n][1], jb.rows[n][2]),
         EndJob(j, jb)
  PROVE  Kept(D)' /\ PageKept /\ job' \in [Job -> JobState]
<1> DEFINE ended == [job EXCEPT ![j] = IdleJob]
<1>1. ended \in [Job -> JobState] /\ \A k \in Job : Works(D, minted, ended[k])
  BY IdleWorks DEF Types, Kept
<1> HIDE DEF ended
<1>2. CASE job' = ended /\ UNCHANGED page
  BY <1>1, <1>2 DEF page, Kept, PageKept, Types
<1>3. CASE Loaded(WithRows(jb.rows)) /\ job' = Unshown(ended)
  <2>1. Listed(D, minted, WithRows(jb.rows))
    BY WithRowsListed DEF Kept
  <2>2. PageKept /\ Listed(D, minted, items') /\ target' = None /\ dialog' = NoDialog
    BY <1>3, <2>1, LoadedKeeps
  <2>3. job' \in [Job -> JobState] /\ \A k \in Job : Works(D, minted, job'[k])
    BY <1>1, <1>3, UnshownWorks
  <2> QED BY <2>2, <2>3 DEF Kept, NoDialog
<1>4. CASE /\ items' = WithRows(jb.rows)
           /\ dialog' = NoDialog
           /\ job' = ended
           /\ UNCHANGED <<tree, wizard, target>>
  <2>1. Listed(D, minted, items')
    BY <1>4, WithRowsListed DEF Kept
  <2> QED BY <1>1, <1>4, <2>1 DEF Kept, NoDialog, PageKept, Types, tree
<1> QED BY <1>2, <1>3, <1>4 DEF EndJob, ended

(* The first scenario of its queue is done with.                            *)
LEMMA AdvanceKeeps ==
  ASSUME Setting, NEW D, Types, Kept(D), NEW j \in Job, NEW jb, Carries(D, minted, jb), minted' = minted,
         Advance(j, jb)
  PROVE  Kept(D)' /\ PageKept /\ job' \in [Job -> JobState]
<1>1. CASE Len(jb.queue) > 1
  <2> DEFINE at == IF jb.kind = "runAll" THEN "prepare" ELSE PersistAt(jb.queue[2])
             nb == [jb EXCEPT !.queue = Tail(@), !.row = jb.queue[2].row, !.at = at]
  <2>1. job' = [job EXCEPT ![j] = nb] /\ UNCHANGED page
    BY <1>1 DEF Advance
  <2>2. /\ jb \in JobState /\ jb.queue \in Seq(Snapshot) /\ jb.queue # << >>
        /\ \A n \in DOMAIN jb.queue : Copy(D, minted, jb.queue[n])
        /\ \A n \in DOMAIN jb.rows : Has(D, jb.rows[n][1], jb.rows[n][2])
    BY DEF Carries, JobState
  <2>3. /\ Tail(jb.queue) \in Seq(Snapshot) /\ Tail(jb.queue) # << >>
        /\ Tail(jb.queue)[1] = jb.queue[2]
        /\ 2 \in DOMAIN jb.queue /\ jb.queue[2] \in Snapshot
        /\ \A n \in DOMAIN Tail(jb.queue) :
             n + 1 \in DOMAIN jb.queue /\ Tail(jb.queue)[n] = jb.queue[n + 1]
    BY <1>1, <2>2, QueueFacts
  <2>4. at \in {"prepare", "create", "define"} /\ jb.queue[2].row \in Row \cup {None}
    BY <2>3 DEF PersistAt, Snapshot
  <2>5. at = "define" => Has(D, jb.queue[2].id, jb.queue[2].row)
    BY <2>2, <2>3 DEF PersistAt, Copy
  <2> HIDE DEF at
  <2>6. /\ nb \in JobState /\ nb.at = at /\ nb.queue = Tail(jb.queue)
        /\ nb.row = jb.queue[2].row /\ nb.rows = jb.rows
    BY <2>2, <2>3, <2>4 DEF JobState
  <2> HIDE DEF nb
  <2>7. Carries(D, minted, nb)
    BY <2>2, <2>3, <2>6 DEF Carries
  <2>8. Works(D, minted, nb)
    BY <2>3, <2>4, <2>5, <2>6, <2>7 DEF Works, Has
  <2> QED BY <2>1, <2>6, <2>8 DEF Kept, PageKept, page, Types
<1>2. CASE ~ (Len(jb.queue) > 1)
  BY <1>2, EndKeeps DEF Advance, Carries
<1> QED BY <1>1, <1>2

-----------------------------------------------------------------------------
(* Answers. *)

LEMMA FirstCopy ==
  ASSUME NEW D, NEW M, NEW jb, Carries(D, M, jb)
  PROVE  /\ jb \in JobState /\ 1 \in DOMAIN jb.queue /\ jb.queue \in Seq(Snapshot)
         /\ jb.queue[1] \in Snapshot /\ Copy(D, M, jb.queue[1])
<1>1. jb \in JobState /\ jb.queue # << >> /\ jb.queue \in Seq(Snapshot)
  BY DEF Carries, JobState
<1>2. 1 \in DOMAIN jb.queue /\ jb.queue[1] \in Snapshot
  BY <1>1, QueueFacts
<1> QED BY <1>1, <1>2 DEF Carries

LEMMA FailKeeps ==
  ASSUME Setting, NEW D, Types, Kept(D), NEW j \in Job, job[j].at # "idle", minted' = minted,
         Fail(j)
  PROVE  Kept(D)' /\ PageKept /\ job' \in [Job -> JobState]
<1>1. Carries(D, minted, job[j])
  BY DEF Kept, Works
<1> QED BY <1>1, AdvanceKeeps DEF Fail

(* A handler that got its scenario a row notes it.                          *)
LEMMA NotedCarries ==
  ASSUME NEW D, NEW M, M \subseteq Item, NEW jb, Carries(D, M, jb),
         Has(D, jb.queue[1].id, jb.row)
  PROVE  /\ Carries(D, M, WithRow(jb))
         /\ WithRow(jb).queue = jb.queue /\ WithRow(jb).row = jb.row
<1> DEFINE d == <<jb.queue[1].id, jb.row>>
           rows == Append(jb.rows, d)
<1>1. jb \in JobState /\ Copy(D, M, jb.queue[1])
  BY FirstCopy
<1>2. d \in Item \X Row /\ jb.rows \in Seq(Item \X Row)
  BY <1>1 DEF Copy, Has, MadeFor, JobState
<1>3. Has(D, d[1], d[2])
  OBVIOUS
<1> HIDE DEF d
<1>4. /\ rows \in Seq(Item \X Row) /\ Len(rows) = Len(jb.rows) + 1
      /\ \A n \in 1..Len(jb.rows) : rows[n] = jb.rows[n]
      /\ rows[Len(jb.rows) + 1] = d
  BY <1>2, AppendProperties
<1>5. DOMAIN rows = 1..Len(rows) /\ DOMAIN jb.rows = 1..Len(jb.rows) /\ Len(jb.rows) \in Nat
  BY <1>2, <1>4, LenProperties
<1> HIDE DEF rows
<1>6. \A n \in DOMAIN rows : Has(D, rows[n][1], rows[n][2])
  <2> SUFFICES ASSUME NEW n \in DOMAIN rows PROVE Has(D, rows[n][1], rows[n][2])
    OBVIOUS
  <2>1. n \in DOMAIN jb.rows \/ n = Len(jb.rows) + 1
    BY <1>4, <1>5
  <2> QED BY <1>3, <1>4, <1>5, <2>1 DEF Carries
<1>7. WithRow(jb) = [jb EXCEPT !.rows = rows]
  BY DEF WithRow, rows, d
<1>8. /\ WithRow(jb) \in JobState /\ WithRow(jb).queue = jb.queue
      /\ WithRow(jb).row = jb.row /\ WithRow(jb).rows = rows
  BY <1>1, <1>4, <1>7 DEF JobState
<1> QED BY <1>6, <1>8 DEF Carries

LEMMA PersistedKeeps ==
  ASSUME Setting, NEW D, Types, Kept(D), NEW j \in Job, minted' = minted,
         job[j].at # "idle", Has(D, job[j].queue[1].id, job[j].row),
         Persisted(j)
  PROVE  Kept(D)' /\ PageKept /\ job' \in [Job -> JobState]
<1> DEFINE jb == job[j]
           s == jb.queue[1]
<1>1. Carries(D, minted, jb)
  BY DEF Kept, Works
<1>2. /\ jb \in JobState /\ 1 \in DOMAIN jb.queue /\ jb.queue \in Seq(Snapshot)
      /\ s \in Snapshot /\ Copy(D, minted, s)
  BY <1>1, FirstCopy
<1>3. s.id \in minted /\ s.id \in Item
  BY <1>2 DEF Copy, Snapshot
<1>4. CASE jb.kind = "save" /\ jb.shown
  <2>1. /\ job' = [job EXCEPT ![j] = IdleJob]
        /\ items' = StoredItems(s, jb.row) /\ wizard' = WizardSaved(j)
        /\ UNCHANGED <<tree, dialog, target>>
    BY <1>4 DEF Persisted
  <2>2. Listed(D, minted, items')
    BY <1>2, <1>3, <2>1, StoredListed DEF Kept
  <2>3. wizard' \in Wizard
    <3>1. ClosedWizard \in Wizard
      BY DEF ClosedWizard, Wizard, Pin, Setting
    <3>2. [wizard EXCEPT !.editing = s.id,
                         !.subject = IF jb.own THEN s.id ELSE @] \in Wizard
      BY <1>3 DEF Types, Wizard
    <3> QED BY <2>1, <3>1, <3>2 DEF WizardSaved
  <2> HIDE DEF jb, s
  <2>4. job' \in [Job -> JobState] /\ \A k \in Job : Works(D, minted, job'[k])
    BY <2>1, IdleWorks DEF Types, Kept
  <2> QED BY <2>1, <2>2, <2>3, <2>4 DEF Kept, PageKept, Types, tree
<1>5. CASE jb.kind = "save" /\ ~ jb.shown
  <2>1. job' = [job EXCEPT ![j] = IdleJob] /\ UNCHANGED page
    BY <1>5 DEF Persisted
  <2> HIDE DEF jb, s
  <2>2. job' \in [Job -> JobState] /\ \A k \in Job : Works(D, minted, job'[k])
    BY <2>1, IdleWorks DEF Types, Kept
  <2> QED BY <2>1, <2>2 DEF Kept, PageKept, Types, page
<1>6. CASE jb.kind # "save"
  <2> DEFINE b == IF jb.kind = "exportAll" THEN WithRow(jb) ELSE jb
             nb == [b EXCEPT !.at = "finish"]
  <2>1. job' = [job EXCEPT ![j] = nb] /\ UNCHANGED page
    BY <1>6 DEF Persisted
  <2>2. Carries(D, minted, b) /\ b.queue = jb.queue /\ b.row = jb.row
    BY <1>1, <1>2, NotedCarries DEF Types
  <2> HIDE DEF b
  <2>3. b \in JobState
    BY <2>2 DEF Carries
  <2>4. /\ nb \in JobState /\ nb.at = "finish" /\ nb.queue = jb.queue /\ nb.row = jb.row
        /\ nb.rows = b.rows
    BY <2>2, <2>3 DEF JobState
  <2> HIDE DEF nb
  <2>5. Works(D, minted, nb)
    BY <2>2, <2>4 DEF Works, Carries
  <2>6. job' \in [Job -> JobState] /\ \A k \in Job : Works(D, minted, job'[k])
    BY <2>1, <2>4, <2>5 DEF Types, Kept
  <2> QED BY <2>1, <2>6 DEF Kept, PageKept, Types, page
<1> QED BY <1>4, <1>5, <1>6

(* What an answer leaves of the invariant to be shown of the rows alone.    *)
Answered ==
  /\ PageKept /\ job' \in [Job -> JobState] /\ UNCHANGED <<latest, minted>>
  /\ db' \in [Row -> ScenarioRow]
  /\ Kept(db)'

LEMMA KeptGrows ==
  ASSUME NEW D, NEW E, Grows(D, E), Kept(D)
  PROVE  Kept(E)
  BY Stays DEF Kept

LEMMA CreateStep ==
  ASSUME Setting, Types, Kept(db), NEW j \in Job, CreateShell(j)
  PROVE  Answered
<1> DEFINE jb == job[j]
<1>1. jb.at \in {"create", "recreate"} /\ UNCHANGED <<latest, minted>>
  BY DEF CreateShell
<1>2. CASE Fail(j) /\ UNCHANGED db
  <2>1. PICK D : D = db
    OBVIOUS
  <2>2. Kept(D)' /\ PageKept /\ job' \in [Job -> JobState]
    BY <1>1, <1>2, <2>1, FailKeeps
  <2>3. Kept(db)'
    BY <1>2, <2>1, <2>2
  <2> QED BY <1>1, <1>2, <2>2, <2>3 DEF Answered, Types
<1>3. ASSUME NEW r \in Row, db[r].at = "unused",
             db' = [db EXCEPT ![r] = [at |-> "there", by |-> jb.queue[1].id, wrote |-> {}]],
             \/ /\ job' = [job EXCEPT ![j].row = r,
                             ![j].at = IF jb.at = "create" THEN "define" ELSE "redefine"]
                /\ UNCHANGED page
             \/ LostAnswer(j)
      PROVE  Answered
  <2> DEFINE nr == [at |-> "there", by |-> jb.queue[1].id, wrote |-> {}]
  <2>1. Carries(db, minted, jb)
    BY <1>1 DEF Kept, Works
  <2>2. /\ jb \in JobState /\ 1 \in DOMAIN jb.queue /\ jb.queue \in Seq(Snapshot)
        /\ jb.queue[1] \in Snapshot /\ jb.queue # << >>
    BY <2>1, FirstCopy DEF Carries
  <2>3. nr \in ScenarioRow
    BY <2>2 DEF ScenarioRow, Snapshot
  <2>4. PICK D : D = db'
    OBVIOUS
  <2>5. D \in [Row -> ScenarioRow] /\ D[r] = nr
    BY <1>3, <2>3, <2>4 DEF Types
  <2>6. Grows(db, D)
    BY <1>3, <2>4 DEF Grows, Types
  <2>7. Kept(D)
    BY <2>6, KeptGrows
  <2>8. CASE LostAnswer(j)
    <3>1. Kept(D)' /\ PageKept /\ job' \in [Job -> JobState]
      BY <1>1, <2>7, <2>8, FailKeeps DEF LostAnswer
    <3> QED BY <1>1, <2>4, <2>5, <3>1 DEF Answered
  <2>9. CASE /\ job' = [job EXCEPT ![j].row = r,
                          ![j].at = IF jb.at = "create" THEN "define" ELSE "redefine"]
             /\ UNCHANGED page
    <3> DEFINE at == IF jb.at = "create" THEN "define" ELSE "redefine"
               nb == [jb EXCEPT !.row = r, !.at = at]
    <3>1. job' = [job EXCEPT ![j] = nb]
      BY <2>9
    <3>2. /\ nb \in JobState /\ nb.at = at /\ nb.row = r /\ nb.queue = jb.queue
          /\ nb.rows = jb.rows
      BY <2>2 DEF JobState
    <3>3. Carries(D, minted, jb)
      BY <2>1, <2>6, Stays
    <3>4. MadeFor(D, jb.queue[1].id, r)
      BY <2>5 DEF MadeFor
    <3> HIDE DEF nb
    <3>5. Carries(D, minted, nb)
      BY <3>2, <3>3 DEF Carries
    <3>6. Works(D, minted, nb)
      BY <3>2, <3>4, <3>5 DEF Works
    <3>7. job' \in [Job -> JobState] /\ \A k \in Job : Works(D, minted, job'[k])
      BY <2>7, <3>1, <3>2, <3>6 DEF Types, Kept
    <3>8. Kept(D)'
      BY <1>1, <2>7, <2>9, <3>7 DEF Kept, page
    <3> QED BY <1>1, <2>4, <2>5, <2>9, <3>7, <3>8 DEF Answered, PageKept, page, Types
  <2> QED BY <1>3, <2>8, <2>9
<1> QED BY <1>2, <1>3 DEF CreateShell

LEMMA SaveStep ==
  ASSUME Setting, Types, Kept(db), NEW j \in Job, SaveDefinition(j)
  PROVE  Answered
<1> DEFINE jb == job[j]
<1>1. jb.at \in {"define", "redefine"} /\ UNCHANGED <<latest, minted>>
  BY DEF SaveDefinition
<1>2. Carries(db, minted, jb) /\ MadeFor(db, jb.queue[1].id, jb.row)
  BY <1>1 DEF Kept, Works
<1>3. /\ jb \in JobState /\ 1 \in DOMAIN jb.queue /\ jb.queue \in Seq(Snapshot)
      /\ jb.queue[1] \in Snapshot /\ jb.queue # << >> /\ jb.row \in Row
  BY <1>2, FirstCopy DEF Carries, MadeFor
<1>4. CASE Fail(j) /\ UNCHANGED db
  <2>1. PICK D : D = db
    OBVIOUS
  <2>2. Kept(D)' /\ PageKept /\ job' \in [Job -> JobState]
    BY <1>1, <1>4, <2>1, FailKeeps
  <2>3. Kept(db)'
    BY <1>4, <2>1, <2>2
  <2> QED BY <1>1, <1>4, <2>2, <2>3 DEF Answered, Types
<1>5. CASE /\ db' = [db EXCEPT ![jb.row].wrote = @ \cup {jb.queue[1].body}]
           /\ Persisted(j) \/ LostAnswer(j)
  <2>1. PICK D : D = db'
    OBVIOUS
  <2>2. D = [db EXCEPT ![jb.row] = [db[jb.row] EXCEPT !.wrote = @ \cup {jb.queue[1].body}]]
    BY <1>5, <2>1
  <2>3. db[jb.row] \in ScenarioRow /\ jb.queue[1].body \in Body
    BY <1>3 DEF Types, Snapshot
  <2>4. /\ D \in [Row -> ScenarioRow]
        /\ D[jb.row].at = db[jb.row].at /\ D[jb.row].by = db[jb.row].by
        /\ D[jb.row].wrote # {}
        /\ \A r \in Row \ {jb.row} : D[r] = db[r]
    BY <1>3, <2>2, <2>3 DEF Types, ScenarioRow
  <2>5. Grows(db, D)
    BY <2>4 DEF Grows
  <2>6. Kept(D)
    BY <2>5, KeptGrows
  <2>7. Has(D, jb.queue[1].id, jb.row)
    BY <1>2, <2>4, <2>5, Stays DEF Has, MadeFor
  <2>8. Kept(D)' /\ PageKept /\ job' \in [Job -> JobState]
    BY <1>1, <1>5, <2>6, <2>7, PersistedKeeps, FailKeeps DEF LostAnswer
  <2> QED BY <1>1, <2>1, <2>4, <2>8 DEF Answered
<1>6. CASE /\ jb.at = "define" /\ job' = [job EXCEPT ![j].at = "recreate"]
           /\ UNCHANGED <<page, db>>
  <2> DEFINE nb == [jb EXCEPT !.at = "recreate"]
  <2>1. job' = [job EXCEPT ![j] = nb]
    BY <1>6
  <2>2. /\ nb \in JobState /\ nb.at = "recreate" /\ nb.queue = jb.queue /\ nb.rows = jb.rows
    BY <1>3 DEF JobState
  <2> HIDE DEF nb
  <2>3. Works(db, minted, nb)
    BY <1>2, <2>2 DEF Works, Carries
  <2>4. job' \in [Job -> JobState] /\ \A k \in Job : Works(db, minted, job'[k])
    BY <2>1, <2>2, <2>3 DEF Types, Kept
  <2>5. Kept(db)'
    BY <1>1, <1>6, <2>4 DEF Kept, page
  <2> QED BY <1>1, <1>6, <2>4, <2>5 DEF Answered, PageKept, page, Types
<1> QED BY <1>4, <1>5, <1>6 DEF SaveDefinition

LEMMA PrepareStep ==
  ASSUME Setting, Types, Kept(db), NEW j \in Job, Prepare(j)
  PROVE  Answered
<1> DEFINE jb == job[j]
           s  == jb.queue[1]
<1>1. jb.at = "prepare" /\ UNCHANGED <<db, latest, minted>>
  BY DEF Prepare
<1>2. PICK D : D = db
  OBVIOUS
<1>3. Kept(D)
  BY <1>2
<1>4. Carries(D, minted, jb) /\ jb.row = s.row
  BY <1>1, <1>3 DEF Kept, Works
<1>5. /\ jb \in JobState /\ 1 \in DOMAIN jb.queue /\ jb.queue \in Seq(Snapshot)
      /\ s \in Snapshot /\ Copy(D, minted, s) /\ jb.queue # << >>
  BY <1>4, FirstCopy DEF Carries
<1>6. CASE Fail(j)
  <2>1. Kept(D)' /\ PageKept /\ job' \in [Job -> JobState]
    BY <1>1, <1>3, <1>6, FailKeeps
  <2>2. Kept(db)'
    BY <1>1, <1>2, <2>1
  <2> QED BY <1>1, <2>1, <2>2 DEF Answered, Types
<1>7. ASSUME NEW p \in IF s.pin # 0 THEN {s.pin} ELSE {latest},
             LET pinned == [s EXCEPT !.pin = p] IN
             IF jb.kind = "open"
             THEN /\ job' = [job EXCEPT ![j] = IdleJob]
                  /\ IF jb.shown
                     THEN /\ target' = pinned
                          /\ items' = [i \in DOMAIN items |->
                               IF i = s.id THEN [items[i] EXCEPT !.pin = p] ELSE items[i]]
                          /\ UNCHANGED <<tree, wizard, dialog>>
                     ELSE UNCHANGED page
             ELSE /\ job' = [job EXCEPT ![j].queue[1] = pinned, ![j].at = PersistAt(s)]
                  /\ UNCHANGED page
      PROVE  Answered
  <2> DEFINE pinned == [s EXCEPT !.pin = p]
  <2>1. p \in Pin
    BY <1>5 DEF Types, Snapshot
  <2>2. pinned \in Snapshot /\ pinned.id = s.id /\ pinned.row = s.row
    BY <1>5, <2>1 DEF Snapshot
  <2>3. Copy(D, minted, pinned)
    BY <1>5, <2>2 DEF Copy
  <2>4. CASE jb.kind = "open" /\ jb.shown
    <3>1. /\ job' = [job EXCEPT ![j] = IdleJob] /\ target' = pinned
          /\ items' = [i \in DOMAIN items |->
               IF i = s.id THEN [items[i] EXCEPT !.pin = p] ELSE items[i]]
          /\ UNCHANGED <<tree, wizard, dialog>>
      BY <1>7, <2>4
    <3> HIDE DEF jb, s, pinned
    <3>2. Listed(D, minted, items')
      <4>1. DOMAIN items' = DOMAIN items
        BY <3>1
      <4>2. ASSUME NEW i \in DOMAIN items
            PROVE  items'[i] \in ScenarioRegistryItem /\ items'[i].row = items[i].row
        <5>1. items'[i] = IF i = s.id THEN [items[i] EXCEPT !.pin = p] ELSE items[i]
          BY <3>1
        <5>2. items[i] \in ScenarioRegistryItem
          BY <1>3 DEF Kept, Listed
        <5> QED BY <2>1, <5>1, <5>2 DEF ScenarioRegistryItem
      <4> QED BY <1>3, <4>1, <4>2 DEF Kept, Listed
    <3>3. job' \in [Job -> JobState] /\ \A k \in Job : Works(D, minted, job'[k])
      BY <1>3, <3>1, IdleWorks DEF Types, Kept
    <3>4. Kept(D)'
      BY <1>1, <1>3, <2>3, <3>1, <3>2, <3>3 DEF Kept
    <3> QED BY <1>1, <1>2, <3>1, <3>3, <3>4 DEF Answered, PageKept, tree, Types
  <2>5. CASE jb.kind = "open" /\ ~ jb.shown
    <3>1. job' = [job EXCEPT ![j] = IdleJob] /\ UNCHANGED page
      BY <1>7, <2>5
    <3>2. job' \in [Job -> JobState] /\ \A k \in Job : Works(D, minted, job'[k])
      BY <1>3, <3>1, IdleWorks DEF Types, Kept
    <3>3. Kept(D)'
      BY <1>1, <1>3, <3>1, <3>2 DEF Kept, page
    <3> QED BY <1>1, <1>2, <3>1, <3>2, <3>3 DEF Answered, PageKept, page, Types
  <2>6. CASE jb.kind # "open"
    <3> DEFINE q  == [jb.queue EXCEPT ![1] = pinned]
               nb == [jb EXCEPT !.queue = q, !.at = PersistAt(s)]
    <3>1. job' = [job EXCEPT ![j].queue[1] = pinned, ![j].at = PersistAt(s)] /\ UNCHANGED page
      BY <1>7, <2>6
    <3> HIDE DEF pinned
    <3>2. job' = [job EXCEPT ![j] = nb]
      BY <3>1
    <3>3. 1 \in 1..Len(jb.queue) /\ DOMAIN jb.queue = 1..Len(jb.queue)
      BY <1>5, LenProperties
    <3>4. /\ q \in Seq(Snapshot) /\ DOMAIN q = DOMAIN jb.queue /\ q[1] = pinned
          /\ \A n \in DOMAIN jb.queue : q[n] = IF n = 1 THEN pinned ELSE jb.queue[n]
      BY <1>5, <2>2, <3>3, ExceptSeq
    <3>5. q # << >>
      BY <1>5, <3>4
    <3> HIDE DEF q
    <3>6. PersistAt(s) \in {"create", "define"}
      BY DEF PersistAt
    <3>7. /\ nb \in JobState /\ nb.at = PersistAt(s) /\ nb.queue = q /\ nb.row = jb.row
          /\ nb.rows = jb.rows
      BY <1>5, <3>4, <3>6 DEF JobState
    <3> HIDE DEF nb
    <3>8. Carries(D, minted, nb)
      BY <1>4, <2>3, <3>4, <3>5, <3>7 DEF Carries
    <3>9. PersistAt(s) = "define" => Has(D, pinned.id, jb.row)
      BY <1>4, <1>5, <2>2 DEF PersistAt, Copy
    <3>10. Works(D, minted, nb)
      BY <3>4, <3>6, <3>7, <3>8, <3>9 DEF Works, Has
    <3>11. job' \in [Job -> JobState] /\ \A k \in Job : Works(D, minted, job'[k])
      BY <1>3, <3>2, <3>7, <3>10 DEF Types, Kept
    <3>12. Kept(D)'
      BY <1>1, <1>3, <3>1, <3>11 DEF Kept, page
    <3> QED BY <1>1, <1>2, <3>1, <3>11, <3>12 DEF Answered, PageKept, page, Types
  <2> QED BY <2>4, <2>5, <2>6
<1> QED BY <1>6, <1>7 DEF Prepare

LEMMA FinishStep ==
  ASSUME Setting, Types, Kept(db), NEW j \in Job, Finish(j)
  PROVE  Answered
<1> DEFINE jb == job[j]
<1>1. jb.at = "finish" /\ UNCHANGED <<db, latest, minted>>
  BY DEF Finish
<1>2. PICK D : D = db
  OBVIOUS
<1>3. Kept(D)
  BY <1>2
<1>4. Carries(D, minted, jb) /\ Has(D, jb.queue[1].id, jb.row)
  BY <1>1, <1>3 DEF Kept, Works
<1>5. CASE Fail(j)
  <2>1. Kept(D)' /\ PageKept /\ job' \in [Job -> JobState]
    BY <1>1, <1>3, <1>5, FailKeeps
  <2> QED BY <1>1, <1>2, <2>1 DEF Answered, Types
<1>6. CASE Advance(j, [(IF jb.kind = "exportAll" THEN jb ELSE WithRow(jb)) EXCEPT !.ok = TRUE])
  <2> DEFINE b == IF jb.kind = "exportAll" THEN jb ELSE WithRow(jb)
             nb == [b EXCEPT !.ok = TRUE]
  <2>1. Carries(D, minted, b)
    BY <1>4, NotedCarries DEF Types
  <2> HIDE DEF b
  <2>2. b \in JobState
    BY <2>1 DEF Carries
  <2>3. nb \in JobState /\ nb.queue = b.queue /\ nb.rows = b.rows
    BY <2>2 DEF JobState
  <2>4. Advance(j, nb)
    BY <1>6 DEF b
  <2> HIDE DEF nb
  <2>5. Carries(D, minted, nb)
    BY <2>1, <2>3 DEF Carries
  <2>6. Kept(D)' /\ PageKept /\ job' \in [Job -> JobState]
    BY <1>1, <1>3, <2>4, <2>5, AdvanceKeeps
  <2> QED BY <1>1, <1>2, <2>6 DEF Answered, Types
<1> QED BY <1>5, <1>6 DEF Finish

LEMMA AnswerStep ==
  ASSUME Setting, IInv, NEW j \in Job, Answer(j)
  PROVE  IInv'
<1>1. Answered
  BY CreateStep, SaveStep, PrepareStep, FinishStep DEF IInv, Answer
<1>2. Types'
  BY <1>1 DEF Answered, PageKept, IInv, Types
<1>3. Tree'
  BY <1>1 DEF Answered, PageKept, IInv, Tree, ParentsExist, NoDialog
<1> QED BY <1>1, <1>2, <1>3 DEF Answered, IInv

-----------------------------------------------------------------------------
(* What users and others do. *)

LEMMA InitCorrect == ASSUME Setting, Init PROVE IInv
<1>1. DOMAIN items = {}
  BY EmptySeq DEF Init
<1>2. IdleJob \in JobState /\ \A D, M : Works(D, M, IdleJob)
  BY IdleWorks
<1>3. ClosedWizard \in Wizard /\ NewRow \in ScenarioRow
  BY DEF ClosedWizard, Wizard, Pin, Setting, NewRow, ScenarioRow
<1>4. PICK f \in Folder : folders = [g \in {f} |-> Top] /\ selected = f
  BY DEF Init
<1>5. Types
  BY <1>2, <1>3, <1>4, FS_EmptySet DEF Init, Types, Pin, Setting
<1>6. Kept(db)
  BY <1>1, <1>2 DEF Init, Kept, Listed, NoDialog
<1>7. Tree
  BY <1>4 DEF Init, Tree, ParentsExist, NoDialog
<1> QED BY <1>5, <1>6, <1>7 DEF IInv

(* The list, the dialogs or the form change and no handler does.            *)
LEMMA PageStep ==
  ASSUME IInv, UNCHANGED <<db, minted, latest>>,
         UNCHANGED job \/ NewSession,
         wizard' \in Wizard, UNCHANGED <<folders>>, selected' \in Folder \cup {None},
         Listed(db, minted, items'),
         target' \in {target, None},
         \/ dialog' = dialog
         \/ dialog'.is \notin {"export", "rmFolder"}
         \/ dialog'.is = "export" /\ Copy(db, minted, dialog'.of)
         \/ dialog'.is = "rmFolder" /\ \A f \in DOMAIN folders : folders[f] # dialog'.of
  PROVE  IInv'
<1>1. job' \in [Job -> JobState] /\ \A k \in Job : Works(db, minted, job'[k])
  <2>1. job \in [Job -> JobState] /\ \A k \in Job : Works(db, minted, job[k])
    BY DEF IInv, Types, Kept
  <2>2. CASE UNCHANGED job
    BY <2>1, <2>2
  <2>3. CASE NewSession
    <3>1. ASSUME NEW k \in Job
          PROVE  LET b == [job[k] EXCEPT !.own = FALSE] IN
                 /\ b \in JobState /\ b.at = job[k].at /\ b.queue = job[k].queue
                 /\ b.rows = job[k].rows /\ b.row = job[k].row
      <4>1. job[k] \in JobState
        BY <2>1
      <4> QED BY <4>1 DEF JobState
    <3>2. ASSUME NEW k \in Job PROVE Works(db, minted, [job[k] EXCEPT !.own = FALSE])
      BY <2>1, <3>1 DEF Works, Carries
    <3> QED BY <2>3, <3>1, <3>2 DEF NewSession
  <2> QED BY <2>2, <2>3
<1>2. Types'
  BY <1>1 DEF IInv, Types
<1>3. Kept(db)'
  BY <1>1 DEF IInv, Kept
<1>4. Tree'
  BY DEF IInv, Tree, ParentsExist
<1> QED BY <1>2, <1>3, <1>4 DEF IInv

LEMMA RevisitStep == ASSUME Setting, IInv, Revisit PROVE IInv'
<1>1. UNCHANGED <<db, latest, minted>> /\ job' = Unshown(job) /\ Loaded(items)
  BY DEF Revisit
<1>2. /\ PageKept /\ Listed(db, minted, items')
      /\ target' = None /\ dialog' = NoDialog
  BY <1>1, LoadedKeeps DEF IInv, Kept
<1>3. job' \in [Job -> JobState] /\ \A k \in Job : Works(db, minted, job'[k])
  BY <1>1, UnshownWorks DEF IInv, Kept, Types
<1>4. Types' /\ Tree'
  BY <1>1, <1>2, <1>3 DEF PageKept, IInv, Types, Tree, ParentsExist, NoDialog
<1>5. Kept(db)'
  BY <1>1, <1>2, <1>3 DEF Kept, NoDialog
<1> QED BY <1>4, <1>5 DEF IInv

LEMMA DeleteStep == ASSUME IInv, DeleteRow PROVE IInv'
<1>1. PICK r \in Row : db[r].at = "there" /\ db' = [db EXCEPT ![r].at = "gone"]
  BY DEF DeleteRow
<1>2. db' \in [Row -> ScenarioRow] /\ Grows(db, db')
  BY <1>1 DEF IInv, Types, ScenarioRow, Grows
<1>3. UNCHANGED page /\ UNCHANGED <<job, latest, minted>>
  BY DEF DeleteRow
<1>4. PICK E : E = db'
  OBVIOUS
<1>5. Kept(E)
  BY <1>2, <1>4, KeptGrows DEF IInv
<1>6. Kept(db)'
  BY <1>3, <1>4, <1>5 DEF Kept, page, tree
<1>7. Types' /\ Tree'
  BY <1>2, <1>3 DEF IInv, Types, Tree, ParentsExist, page, tree
<1> QED BY <1>6, <1>7 DEF IInv

LEMMA TestcasesStep == ASSUME Setting, IInv, ChangeTestcases PROVE IInv'
<1>1. latest' \in Pin \ {0}
  BY DEF IInv, Types, ChangeTestcases, Pin, Setting
<1>2. UNCHANGED page /\ UNCHANGED <<job, db, minted>>
  BY DEF ChangeTestcases
<1>3. Types' /\ Kept(db)' /\ Tree'
  BY <1>1, <1>2 DEF IInv, Types, Kept, Tree, ParentsExist, page, tree
<1> QED BY <1>3 DEF IInv

(* A handler begins and the page stays as it is.                            *)
LEMMA BeginStep ==
  ASSUME Setting, IInv, UNCHANGED page, UNCHANGED <<db, latest, minted>>,
         NEW j \in Job, NEW kind, NEW at, NEW queue \in Seq(Snapshot),
         kind \in {"save", "open", "run", "runAll", "export", "exportAll"},
         queue # << >>,
         \A n \in DOMAIN queue : Copy(db, minted, queue[n]),
         at \in {"prepare", PersistAt(queue[1])},
         Begin(j, kind, at, queue)
  PROVE  IInv'
<1>1. job' \in [Job -> JobState] /\ \A k \in Job : Works(db, minted, job'[k])
  BY BeginWorks DEF IInv
<1>2. Types' /\ Kept(db)' /\ Tree'
  BY <1>1 DEF IInv, Types, Kept, Tree, ParentsExist, page, tree
<1> QED BY <1>2 DEF IInv

(* A queue of one.                                                          *)
LEMMA OneCopy ==
  ASSUME NEW D, NEW M, NEW s, Copy(D, M, s)
  PROVE  /\ <<s>> \in Seq(Snapshot) /\ <<s>> # << >> /\ <<s>>[1] = s
         /\ \A n \in DOMAIN <<s>> : Copy(D, M, <<s>>[n])
<1> DEFINE q == <<s>>
<1>1. s \in Snapshot
  BY DEF Copy
<1>2. q = [n \in 1..1 |-> s]
  OBVIOUS
<1>3. q \in Seq(Snapshot) /\ Len(q) = 1
  BY <1>1
<1>4. DOMAIN q = {1} /\ q[1] = s
  BY <1>2
<1>5. q # << >>
  BY <1>3, EmptySeq
<1> HIDE DEF q
<1>6. \A n \in DOMAIN q : Copy(D, M, q[n])
  BY <1>4
<1> QED BY <1>3, <1>4, <1>5, <1>6 DEF q

LEMMA RunDialogStep ==
  ASSUME Setting, IInv, target # None, RunDialog
  PROVE  IInv'
<1>1. CASE CloseScenarioRunDialog
  BY <1>1, PageStep DEF CloseScenarioRunDialog, IInv, Types, Kept, tree, rest
<1>2. ASSUME NEW j \in Job, ConfirmScenarioRun(j) PROVE IInv'
  <2>1. Copy(db, minted, target)
    BY DEF IInv, Kept
  <2>2. /\ <<target>> \in Seq(Snapshot) /\ <<target>> # << >>
        /\ \A n \in DOMAIN <<target>> : Copy(db, minted, <<target>>[n])
    BY <2>1, OneCopy
  <2> QED BY <1>2, <2>2, BeginStep DEF ConfirmScenarioRun
<1> QED BY <1>1, <1>2 DEF RunDialog

(* The scenarios of a collection, in some order.                            *)
LEMMA CollectionQueue ==
  ASSUME IInv, NEW queue \in SetToSeqs({SnapshotOf(i) : i \in Exportable})
  PROVE  /\ queue \in Seq(Snapshot)
         /\ \A n \in DOMAIN queue : Copy(db, minted, queue[n])
<1> DEFINE S == {SnapshotOf(i) : i \in Exportable}
           f == [i \in Exportable |-> SnapshotOf(i)]
<1>1. Exportable \subseteq DOMAIN items /\ Exportable \subseteq minted
  BY DEF Exportable, IInv, Kept, Listed
<1>2. IsFiniteSet(Exportable)
  BY <1>1, FS_Subset DEF IInv, Types
<1>3. f \in Surjection(Exportable, S)
  BY DEF Surjection
<1>4. \A s \in S : Copy(db, minted, s)
  BY <1>1, ReadCopy DEF IInv, Types, Kept
<1> HIDE DEF f
<1>5. queue \in [1..Cardinality(S) -> S]
  BY DEF SetToSeqs
<1> HIDE DEF S
<1>6. IsFiniteSet(S)
  BY <1>2, <1>3, FS_Surjection
<1>7. Cardinality(S) \in Nat /\ S \subseteq Snapshot
  BY <1>4, <1>6, FS_CardinalityType DEF Copy
<1>8. queue \in Seq(Snapshot)
  BY <1>5, <1>7, SeqDef
<1> QED BY <1>4, <1>5, <1>8

LEMMA CollectionStep ==
  ASSUME Setting, IInv, NEW j \in Job, NEW kind \in {"runAll", "exportAll"},
         ConfirmCollection(j, kind)
  PROVE  IInv'
<1>1. PICK queue \in SetToSeqs({SnapshotOf(i) : i \in Exportable}) :
        /\ queue # << >>
        /\ Begin(j, kind, IF kind = "runAll" THEN "prepare" ELSE PersistAt(queue[1]), queue)
  BY DEF ConfirmCollection
<1>2. /\ queue \in Seq(Snapshot)
      /\ \A n \in DOMAIN queue : Copy(db, minted, queue[n])
  BY <1>1, CollectionQueue
<1>3. UNCHANGED page /\ UNCHANGED <<db, latest, minted>>
  BY DEF ConfirmCollection
<1>4. PICK at : at = IF kind = "runAll" THEN "prepare" ELSE PersistAt(queue[1])
  OBVIOUS
<1>5. at \in {"prepare", PersistAt(queue[1])} /\ Begin(j, kind, at, queue)
  BY <1>1, <1>4
<1> QED BY <1>1, <1>2, <1>3, <1>5, BeginStep

LEMMA CloseStep == ASSUME IInv, CloseDialog PROVE IInv'
  BY PageStep DEF CloseDialog, IInv, Types, Kept, tree, rest, NoDialog

LEMMA ExportDialogsStep == ASSUME Setting, IInv, ExportDialogs PROVE IInv'
<1>1. ASSUME NEW j \in Job, ConfirmPostmanExport(j) PROVE IInv'
  <2> DEFINE s == dialog.of
  <2>1. Copy(db, minted, s)
    BY <1>1 DEF ConfirmPostmanExport, IInv, Kept
  <2>2. /\ <<s>> \in Seq(Snapshot) /\ <<s>> # << >> /\ <<s>>[1] = s
        /\ \A n \in DOMAIN <<s>> : Copy(db, minted, <<s>>[n])
    BY <2>1, OneCopy
  <2>3. /\ Begin(j, "export", PersistAt(s), <<s>>)
        /\ UNCHANGED page /\ UNCHANGED <<db, latest, minted>>
    BY <1>1 DEF ConfirmPostmanExport
  <2> DEFINE q == <<s>>
  <2>4. PersistAt(s) = PersistAt(q[1])
    BY <2>2
  <2> HIDE DEF q
  <2>5. PersistAt(s) \in {"prepare", PersistAt(q[1])} /\ Begin(j, "export", PersistAt(s), q)
    BY <2>3, <2>4 DEF q
  <2>6. q \in Seq(Snapshot) /\ q # << >> /\ \A n \in DOMAIN q : Copy(db, minted, q[n])
    BY <2>2 DEF q
  <2> QED BY <2>3, <2>5, <2>6, BeginStep
<1> QED BY <1>1, CloseStep, CollectionStep DEF ExportDialogs

LEMMA CollectionRunStep == ASSUME Setting, IInv, CollectionRunDialog PROVE IInv'
  BY CloseStep, CollectionStep DEF CollectionRunDialog

LEMMA FirstIsFolder ==
  ASSUME NEW fs, DOMAIN fs \subseteq Folder, NEW first \in FirstFolder(fs)
  PROVE  first \in Folder \cup {None}
  BY DEF FirstFolder

LEMMA SaveFolderStep == ASSUME Setting, IInv, SaveFolder PROVE IInv'
<1>1. /\ dialog' = NoDialog /\ UNCHANGED <<wizard, target, rest>>
      /\ ParentOptions \subseteq DOMAIN folders \cup {Top}
  BY DEF SaveFolder, ParentOptions, FolderOptions
<1>2. CASE dialog.is = "newFolder"
  <2>1. PICK f \in Folder \ DOMAIN folders, p \in ParentOptions :
          LET fs == [g \in DOMAIN folders \cup {f} |-> IF g = f THEN p ELSE folders[g]] IN
          \E first \in FirstFolder(fs) :
            SetFolders(fs, items, IF selected = None THEN f ELSE selected, first)
    BY <1>2 DEF SaveFolder
  <2> DEFINE fs == [g \in DOMAIN folders \cup {f} |-> IF g = f THEN p ELSE folders[g]]
  <2>2. PICK first \in FirstFolder(fs) :
          SetFolders(fs, items, IF selected = None THEN f ELSE selected, first)
    BY <2>1
  <2>3. DOMAIN fs = DOMAIN folders \cup {f} /\ DOMAIN fs \subseteq Folder
    BY DEF IInv, Types
  <2>4. \A g \in DOMAIN fs : fs[g] \in DOMAIN fs \cup {Top}
    BY <1>1, <2>3 DEF IInv, Tree, ParentsExist
  <2> HIDE DEF fs
  <2>5. first \in Folder \cup {None}
    BY <2>2, <2>3, FirstIsFolder
  <2>6. Listed(db, minted, items')
    BY <2>2, <2>5, RepairedListed DEF SetFolders, IInv, Kept
  <2>7. folders' = fs /\ selected' \in Folder \cup {None}
    BY <2>2, <2>5 DEF SetFolders, RepairedSelection, IInv, Types
  <2>8. Types'
    BY <1>1, <2>3, <2>4, <2>7 DEF IInv, Types, rest
  <2>9. Kept(db)' /\ Tree'
    BY <1>1, <2>4, <2>6, <2>7 DEF IInv, Kept, Tree, ParentsExist, rest, NoDialog
  <2> QED BY <2>8, <2>9 DEF IInv
<1>3. CASE dialog.is = "editFolder"
  <2>1. PICK p \in ParentOptions : folders' = [folders EXCEPT ![dialog.of] = p]
    BY <1>3 DEF SaveFolder
  <2>2. UNCHANGED <<items, selected>>
    BY <1>3 DEF SaveFolder
  <2>3. /\ DOMAIN folders' = DOMAIN folders
        /\ \A g \in DOMAIN folders' : folders'[g] \in DOMAIN folders' \cup {Top}
    BY <1>1, <2>1 DEF IInv, Tree, ParentsExist
  <2>4. Types'
    BY <1>1, <2>2, <2>3 DEF IInv, Types, rest
  <2>5. Kept(db)' /\ Tree'
    BY <1>1, <2>2, <2>3 DEF IInv, Kept, Tree, ParentsExist, rest, NoDialog
  <2> QED BY <2>4, <2>5 DEF IInv
<1> QED BY <1>2, <1>3 DEF SaveFolder

LEMMA DeleteFolderStep == ASSUME Setting, IInv, ApplyDeleteFolder PROVE IInv'
<1> DEFINE f    == dialog.of
           fs   == [g \in DOMAIN folders \ {f} |-> folders[g]]
           kept == {i \in DOMAIN items : items[i].folder # f}
           its  == [i \in kept |-> items[i]]
<1>1. PICK first \in FirstFolder(fs) : SetFolders(fs, its, selected, first)
  BY DEF ApplyDeleteFolder
<1>2. /\ dialog.is = "rmFolder" /\ dialog' = NoDialog
      /\ UNCHANGED <<wizard, target, rest>>
  BY DEF ApplyDeleteFolder
<1>3. DOMAIN fs = DOMAIN folders \ {f} /\ DOMAIN fs \subseteq Folder
  BY DEF IInv, Types
<1>4. \A g \in DOMAIN fs : fs[g] \in DOMAIN fs \cup {Top}
  BY <1>2, <1>3 DEF IInv, Tree, ParentsExist
<1>5. Listed(db, minted, its)
  BY DEF IInv, Kept, Listed
<1> HIDE DEF fs, its
<1>6. first \in Folder \cup {None}
  BY <1>1, <1>3, FirstIsFolder
<1>7. Listed(db, minted, items')
  BY <1>1, <1>5, <1>6, RepairedListed DEF SetFolders
<1>8. folders' = fs /\ selected' \in Folder \cup {None}
  BY <1>1, <1>6 DEF SetFolders, RepairedSelection, IInv, Types
<1>9. Types'
  BY <1>2, <1>3, <1>4, <1>8 DEF IInv, Types, rest
<1>10. Kept(db)' /\ Tree'
  BY <1>2, <1>4, <1>7, <1>8 DEF IInv, Kept, Tree, ParentsExist, rest, NoDialog
<1> QED BY <1>9, <1>10 DEF IInv

LEMMA FolderDialogsStep == ASSUME Setting, IInv, FolderDialogs PROVE IInv'
  BY CloseStep, SaveFolderStep, DeleteFolderStep DEF FolderDialogs

(* What the form says is a copy of an item: of the edited one or a new one. *)
LEMMA BuiltCopy ==
  ASSUME Setting, IInv, wizard.body # Blank,
         NEW id \in IF wizard.editing \in DOMAIN items THEN {wizard.editing} ELSE Item \ minted,
         NEW p \in IF wizard.pin # 0 THEN {wizard.pin} ELSE 0..latest,
         NEW ready \in BOOLEAN, NEW snap \in BuildItem(id, p, ready)
  PROVE  /\ p \in Pin /\ id \in Item
         /\ Copy(db, minted \cup {id}, snap)
<1>1. /\ wizard \in Wizard /\ latest \in Pin \ {0} /\ minted \subseteq Item
      /\ DOMAIN folders \subseteq Folder /\ Listed(db, minted, items)
  BY DEF IInv, Types, Kept
<1>2. p \in Pin /\ wizard.body \in Body
  BY <1>1 DEF Wizard, Pin, Setting
<1>3. id \in Item /\ (wizard.editing \in DOMAIN items => id = wizard.editing /\ id \in DOMAIN items)
  BY <1>1 DEF Listed
<1>4. \A i \in DOMAIN items :
        items[i].folder \in Folder /\ Has(db, i, items[i].row) /\ items[i].row \in Row
  BY <1>1 DEF Listed, ScenarioRegistryItem, Has, MadeFor
<1> DEFINE existing == wizard.editing \in DOMAIN items
           row == IF existing THEN items[id].row ELSE None
<1>5. \A f, sel : ResolveFolder(f, sel) \subseteq Folder
  BY <1>1 DEF ResolveFolder
<1>6. PICK f : /\ f \in Folder
               /\ snap = [id |-> id, folder |-> f, body |-> wizard.body, pin |-> p,
                          ready |-> ready, row |-> row]
  BY <1>4, <1>5 DEF BuildItem
<1>7. row \in Row \cup {None} /\ (row # None => Has(db, id, row))
  BY <1>3, <1>4
<1> HIDE DEF row, existing
<1>8. snap \in Snapshot /\ snap.id = id /\ snap.row = row
  BY <1>2, <1>3, <1>6, <1>7 DEF Snapshot
<1> QED BY <1>2, <1>3, <1>7, <1>8 DEF Copy

LEMMA PersistWizardStep ==
  ASSUME Setting, IInv, NEW j \in Job, NEW ready \in BOOLEAN, PersistWizard(j, ready)
  PROVE  IInv'
<1>1. wizard.body # Blank /\ UNCHANGED <<tree, items, dialog, target, db, latest>>
  BY DEF PersistWizard
<1>2. PICK id \in IF wizard.editing \in DOMAIN items THEN {wizard.editing} ELSE Item \ minted,
           p \in IF wizard.pin # 0 THEN {wizard.pin} ELSE 0..latest :
        \E snap \in BuildItem(id, p, ready) :
          /\ Begin(j, "save", PersistAt(snap), <<snap>>)
          /\ minted' = minted \cup {id}
          /\ wizard' = [wizard EXCEPT !.pin = p]
  BY DEF PersistWizard
<1>3. PICK snap \in BuildItem(id, p, ready) :
        /\ Begin(j, "save", PersistAt(snap), <<snap>>)
        /\ minted' = minted \cup {id}
        /\ wizard' = [wizard EXCEPT !.pin = p]
  BY <1>2
<1>4. p \in Pin /\ id \in Item /\ Copy(db, minted \cup {id}, snap)
  BY <1>1, <1>2, <1>3, BuiltCopy
<1> DEFINE q == <<snap>>
           M == minted \cup {id}
<1>5. /\ q \in Seq(Snapshot) /\ q # << >> /\ q[1] = snap
      /\ \A n \in DOMAIN q : Copy(db, M, q[n])
  BY <1>4, OneCopy
<1> HIDE DEF q
<1>6. PersistAt(snap) \in {"prepare", PersistAt(q[1])} /\ Begin(j, "save", PersistAt(snap), q)
  BY <1>3, <1>5 DEF q
<1>7. minted \subseteq M /\ M = minted'
  BY <1>3
<1> HIDE DEF M
<1>8. job' \in [Job -> JobState] /\ \A k \in Job : Works(db, M, job'[k])
  BY <1>5, <1>6, <1>7, BeginWorks DEF IInv
<1>9. wizard' \in Wizard
  BY <1>3, <1>4 DEF IInv, Types, Wizard
<1>10. minted' \subseteq Item /\ IsFiniteSet(minted')
  BY <1>3, <1>4, FS_AddElement DEF IInv, Types
<1>11. Grows(db, db)
  BY DEF Grows
<1>12. /\ Listed(db, M, items)
       /\ target # None => Copy(db, M, target)
       /\ dialog.is = "export" => Copy(db, M, dialog.of)
  BY <1>7, <1>11, Stays DEF IInv, Kept
<1>13. Types'
  BY <1>1, <1>8, <1>9, <1>10 DEF IInv, Types, tree
<1>14. Kept(db)' /\ Tree'
  BY <1>1, <1>7, <1>8, <1>12 DEF IInv, Kept, Tree, ParentsExist, tree
<1> QED BY <1>13, <1>14 DEF IInv

LEMMA SheetStep == ASSUME Setting, IInv, SheetContent PROVE IInv'
<1>1. CASE EditForm
  <2>1. wizard' \in Wizard
    <3>1. PICK b \in Body, p \in {wizard.pin} \cup 0..latest, f \in FolderOptions(folders) :
            wizard' = [wizard EXCEPT !.body = b, !.pin = p, !.folder = f]
      BY <1>1 DEF EditForm
    <3>2. wizard \in Wizard /\ p \in Pin /\ f \in Folder
      BY <3>1 DEF IInv, Types, Wizard, Pin, Setting, FolderOptions
    <3> QED BY <3>1, <3>2 DEF Wizard
  <2> QED BY <1>1, <2>1, PageStep DEF EditForm, IInv, Types, Kept, tree, rest
<1>2. CASE CloseWizard
  <2>1. wizard' \in Wizard
    BY <1>2 DEF CloseWizard, ClosedWizard, Wizard, Pin, Setting
  <2> QED BY <1>2, <2>1, PageStep DEF CloseWizard, IInv, Types, Kept, tree, rest
<1> QED BY <1>1, <1>2, PersistWizardStep DEF SheetContent

LEMMA FolderTreeStep == ASSUME IInv, FolderTreeList PROVE IInv'
<1>1. CASE OpenFolderDialog
  BY <1>1, PageStep DEF OpenFolderDialog, OpenDialog, IInv, Types, Kept, tree, rest
<1>2. ASSUME NEW f \in FolderOptions(folders), RemoveFolder(f) PROVE IInv'
  BY <1>2, PageStep DEF RemoveFolder, OpenDialog, IInv, Types, Kept, tree, rest
<1>3. ASSUME NEW f \in FolderOptions(folders), SelectFolder(f) PROVE IInv'
  <2>1. f \in Folder
    BY DEF FolderOptions, IInv, Types
  <2> QED BY <1>3, <2>1, PageStep DEF SelectFolder, IInv, Types, Kept, tree, rest
<1> QED BY <1>1, <1>2, <1>3 DEF FolderTreeList

LEMMA ListStep == ASSUME Setting, IInv, ListPage PROVE IInv'
<1>1. CASE StartCreate
  <2>1. wizard' \in Wizard
    <3>1. PICK f \in IF selected = None THEN FirstFolder(folders) ELSE {selected} :
            wizard' = [ClosedWizard EXCEPT !.open = TRUE, !.folder = f]
      BY <1>1 DEF StartCreate
    <3>2. f \in Folder \cup {None}
      BY <3>1, FirstIsFolder DEF IInv, Types
    <3>3. ClosedWizard \in Wizard
      BY DEF ClosedWizard, Wizard, Pin, Setting
    <3> QED BY <3>1, <3>2, <3>3 DEF Wizard
  <2> QED BY <1>1, <2>1, PageStep DEF StartCreate, IInv, Types, Kept, tree
<1>2. ASSUME NEW i \in DOMAIN items, StartEdit(i) PROVE IInv'
  <2>1. items[i] \in ScenarioRegistryItem /\ i \in Item
    BY DEF IInv, Types, Kept, Listed
  <2>2. wizard' \in Wizard
    BY <1>2, <2>1 DEF StartEdit, ScenarioRegistryItem, Wizard
  <2> QED BY <1>2, <2>2, PageStep DEF StartEdit, IInv, Types, Kept, tree
<1>3. ASSUME NEW i \in DOMAIN items, ConfirmRemoveScenario(i) PROVE IInv'
  <2>1. Listed(db, minted, items')
    BY <1>3 DEF ConfirmRemoveScenario, IInv, Kept, Listed
  <2> QED BY <1>3, <2>1, PageStep DEF ConfirmRemoveScenario, IInv, Types, Kept, tree, rest
<1>4. ASSUME NEW i \in DOMAIN items, OpenPostmanExportDialog(i) PROVE IInv'
  <2>1. Copy(db, minted, SnapshotOf(i))
    BY ReadCopy DEF IInv, Types, Kept
  <2>2. dialog'.is = "export" /\ dialog'.of = SnapshotOf(i)
    BY <1>4 DEF OpenPostmanExportDialog, OpenDialog
  <2> QED BY <1>4, <2>1, <2>2, PageStep
          DEF OpenPostmanExportDialog, IInv, Types, Kept, tree, rest
<1>5. ASSUME NEW kind \in {"runAll", "exportAll"}, OpenCollectionDialog(kind) PROVE IInv'
  BY <1>5, PageStep DEF OpenCollectionDialog, OpenDialog, IInv, Types, Kept, tree, rest
<1>6. ASSUME NEW i \in DOMAIN items, NEW j \in Job, OpenScenarioRunDialog(j, i) PROVE IInv'
  <2> DEFINE s == SnapshotOf(i)
             q == <<s>>
  <2>1. Copy(db, minted, s)
    BY ReadCopy DEF IInv, Types, Kept
  <2> HIDE DEF s
  <2>2. /\ q \in Seq(Snapshot) /\ q # << >>
        /\ \A n \in DOMAIN q : Copy(db, minted, q[n])
    BY <2>1, OneCopy
  <2>3. Begin(j, "open", "prepare", q) /\ UNCHANGED page /\ UNCHANGED <<db, latest, minted>>
    BY <1>6 DEF OpenScenarioRunDialog, s
  <2> HIDE DEF q
  <2>4. IInv'
    BY <2>2, <2>3, BeginStep
  <2> QED BY <2>4
<1>7. Filtered \subseteq DOMAIN items
  BY DEF Filtered
<1> QED BY <1>1, <1>2, <1>3, <1>4, <1>5, <1>6, <1>7, FolderTreeStep
        DEF ListPage, ScenarioListTable

LEMMA UserStep == ASSUME Setting, IInv, User PROVE IInv'
  BY RunDialogStep, ExportDialogsStep, CollectionRunStep, FolderDialogsStep, SheetStep, ListStep
     DEF User

-----------------------------------------------------------------------------
(* The theorems. *)

(* Every copy of an item that the page or a handler keeps names a row that  *)
(* was created for this very item and saved, or none.                       *)
THEOREM InvariantCorrect == ASSUME Setting PROVE Spec => []IInv
<1>1. Init => IInv
  BY InitCorrect
<1>2. IInv /\ [Next]_vars => IInv'
  <2> SUFFICES ASSUME IInv, [Next]_vars PROVE IInv'
    OBVIOUS
  <2>1. CASE UNCHANGED vars
    BY <2>1 DEF vars, page, tree, rest, IInv, Types, Kept, Tree, ParentsExist
  <2>2. ASSUME Next PROVE IInv'
    BY <2>2, UserStep, RevisitStep, AnswerStep, DeleteStep, TestcasesStep DEF Next
  <2> QED BY <2>1, <2>2
<1> QED BY <1>1, <1>2, PTL DEF Spec

(* The variables keep the types of the page's state (ScenarioRegistry.tsx,  *)
(* scenarioRegistryDto.ts).                                                 *)
THEOREM TypeCorrect == ASSUME Setting PROVE Spec => []TypeOK
<1>1. IInv => TypeOK
  BY DEF IInv, Types, Kept, Setting, TypeOK, Listed, Copy, Works, Has, MadeFor
<1> QED BY <1>1, InvariantCorrect, PTL

(* An item that the page shows names a row and a definition was saved in    *)
(* it, however many handlers, failures and deletions there were             *)
(* (registryScenarioPersist.ts).                                            *)
THEOREM RowsDefinedCorrect == ASSUME Setting PROVE Spec => []RowsAreDefined
<1>1. IInv => RowsAreDefined
  BY DEF IInv, Kept, Setting, RowsAreDefined, Listed, Has, MadeFor
<1> QED BY <1>1, InvariantCorrect, PTL

(* Two items never write to the same row, though handlers take copies of    *)
(* them along and write them back at any later time.                        *)
THEOREM OneItemCorrect == ASSUME Setting PROVE Spec => []OneItemPerRow
<1>1. IInv => OneItemPerRow
  BY DEF IInv, Kept, OneItemPerRow, Listed, Has, MadeFor
<1> QED BY <1>1, InvariantCorrect, PTL

(* A collection's parent is there, whatever dialogs did in between.         *)
THEOREM ParentsCorrect == ASSUME Setting PROVE Spec => []ParentsExist
<1>1. IInv => ParentsExist
  BY DEF IInv, Tree
<1> QED BY <1>1, InvariantCorrect, PTL

(* Coming back to the page puts every item into a collection if the page    *)
(* shows one: then there is a root, which takes those that have none.       *)
THEOREM ListedCorrect == ASSUME Setting PROVE Spec => [][LoadedScenariosAreListed]_vars
<1>1. IInv => LoadedScenariosAreListed
  <2> SUFFICES ASSUME IInv, Revisit, FolderOptions(folders) # {},
                      NEW i \in DOMAIN items'
               PROVE  items'[i].folder \in DOMAIN folders'
    BY DEF LoadedScenariosAreListed
  <2>1. PICK first \in FirstFolder(folders) : SetFolders(folders, items, selected, first)
    BY DEF Revisit, Loaded
  <2>2. PICK f \in DOMAIN folders : \A S \in SUBSET DOMAIN folders :
          f \in S => \E g \in S : folders[g] = Top \/ folders[g] \in DOMAIN folders \ S
    BY DEF FolderOptions
  <2>3. \E g \in DOMAIN folders : folders[g] = Top
    BY <2>2
  <2>4. first \in DOMAIN folders /\ first # None
    BY <2>1, <2>3 DEF FirstFolder, IInv, Types, Setting
  <2>5. folders' = folders /\ items' = Repaired(folders, items, first)
    BY <2>1 DEF SetFolders
  <2>6. i \in DOMAIN items
    BY <2>5 DEF Repaired
  <2>7. items[i] \in ScenarioRegistryItem
    BY <2>6 DEF IInv, Kept, Listed
  <2>8. items'[i] = IF items[i].folder \in DOMAIN folders \/ first = None THEN items[i]
                    ELSE [items[i] EXCEPT !.folder = first]
    BY <2>5, <2>6 DEF Repaired
  <2> QED BY <2>4, <2>5, <2>7, <2>8 DEF ScenarioRegistryItem
<1> QED BY <1>1, InvariantCorrect, PTL
=============================================================================
