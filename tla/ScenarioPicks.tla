---------------------------- MODULE ScenarioPicks ----------------------------
(***************************************************************************)
(* The first step of the scenario wizard: the services of a scenario, the  *)
(* candidates that are loaded from the pool for them, and the testcases    *)
(* that are picked, each pinned to a version.  The pool changes at any     *)
(* time; what the wizard compares its picks with is what it loaded last.   *)
(*                                                                         *)
(* A pick's version 0 means that none is pinned.  The effects of React run *)
(* with the change that triggers them; each request is answered by an      *)
(* action of its own.  Saving is one action here (ScenarioRegistry has its *)
(* requests), and there is one scenario.                                   *)
(***************************************************************************)
EXTENDS Naturals, Sequences, FiniteSets, SequencesExt

CONSTANTS
  Svc,       \* services of the catalog
  Case,      \* testcases of the pool
  SvcOf,     \* the service of a testcase
  Errors,    \* the testcases of type E
  Body,      \* request bodies
  Empty,     \* the empty body
  PickId,    \* ids of picks
  NoPrint,   \* a pick without a fingerprint
  None,      \* no service, no testcase
  FirstVers, \* the versions a new row may have: 0 stands for no history
  MaxVer,    \* bound on versions
  MaxServed, \* bound on the versions there were
  MaxAcks    \* bound on refreshes under way

VARIABLES
  pool,     \* pool[c]: the testcase's row in the database
  served,   \* the versions there were: <<c, version, body>>
  open,     \* the sheet is open
  step,     \* scenarioWizardStep
  services, \* serviceDrafts
  active,   \* activeServiceCode
  refs,     \* allYamlRuleRefs[c]: the rows that were loaded
  loading,  \* rulePickLoading
  load,     \* the load that is not cancelled
  picks,    \* selectedRulePicks
  acks,     \* refreshes that are not answered
  saved,    \* the scenario as it was saved last
  told      \* the testcase that an error message calls deleted

world == <<pool, served>>
form  == <<open, step, services, active>>
cand  == <<refs, loading, load>>
vars  == <<world, form, cand, picks, acks, saved, told>>

Ver == 0..MaxVer
Row == [ver : Ver, body : Body]
PoolRow == [at : {"gone", "draft", "usable"}, ver : Ver, body : Body]
Pick == [id : PickId, case : Case, ver : Ver, fp : Body \cup {NoPrint}]
Saved == [picks : Seq(Pick), services : Seq(Svc),
          step : 1..3, ready : BOOLEAN]
NoLoad == [todo |-> << >>, got |-> << >>]

Ids(ps) == {p.id : p \in ToSet(ps)}
CasesOf(s) == {c \in Case : SvcOf[c] = s}

(* No scenario yet, or one whose pick an older build left without version.  *)
Init ==
  /\ pool \in [Case -> {[at |-> "usable", ver |-> v, body |-> b] :
                          v \in FirstVers, b \in Body \ {Empty}}]
  /\ served = {<<c, pool[c].ver, pool[c].body>> : c \in Case}
  /\ open = FALSE /\ step = 1 /\ services = << >> /\ active = None
  /\ refs = << >> /\ loading = FALSE /\ load = NoLoad
  /\ picks = << >> /\ acks = {} /\ told = None
  /\ saved \in {None} \cup
       {[picks |-> <<[id |-> p, case |-> c, ver |-> 0, fp |-> NoPrint]>>,
         services |-> <<SvcOf[c]>>, step |-> 3, ready |-> TRUE] :
          p \in PickId, c \in Case}

-----------------------------------------------------------------------------
(* Picks against the rows that were loaded. *)

(* evaluatePickLiveHealth *)
Health(p, rows) ==
  IF p.case \notin DOMAIN rows THEN "missing"
  ELSE LET live == rows[p.case] IN
       IF live.body = Empty THEN "empty"
       ELSE IF \/ p.fp # NoPrint /\ p.fp # live.body
               \/ p.ver # 0 /\ live.ver # 0 /\ p.ver # live.ver
            THEN "changed" ELSE "ok"

Blocks(status) == status \in {"missing", "empty"}

(* hydratePickFingerprints, normalizeLegacyPinsToLatest: what a pick lacks  *)
(* it gets from the row that was loaded.                                    *)
Hydrated(ps, rows) ==
  [i \in DOMAIN ps |->
     LET p == ps[i] IN
     IF p.case \notin DOMAIN rows THEN p
     ELSE LET live == rows[p.case] IN
          [p EXCEPT !.fp = IF @ = NoPrint /\ live.body # Empty THEN live.body ELSE @,
                    !.ver = IF @ = 0 THEN live.ver ELSE @]]

(* applyLivePoolRowToPick *)
Refreshed(p, live) ==
  [p EXCEPT !.fp = live.body, !.ver = IF live.ver # 0 THEN live.ver ELSE @]

(* acknowledgePickFingerprint *)
Acknowledged(p, rows) ==
  IF Blocks(Health(p, rows)) THEN p ELSE Refreshed(p, rows[p.case])

Blocking(ps, rows) == {i \in DOMAIN ps : Blocks(Health(ps[i], rows))}

(* The testcase that the message of the first blocking pick calls deleted.  *)
ToldDeleted(ps, rows) ==
  LET p == ps[Min(Blocking(ps, rows))] IN
  IF Health(p, rows) = "missing" THEN p.case ELSE None

-----------------------------------------------------------------------------
(* Effects. *)

(* Cancels the load that is under way and starts another one.               *)
LoadEffect(o, st, sv) ==
  IF ~o \/ st # 1 THEN load' = NoLoad /\ UNCHANGED <<refs, loading>>
  ELSE /\ load' = [NoLoad EXCEPT !.todo = sv]
       /\ loading' = (sv # << >>)
       /\ refs' = IF sv = << >> THEN << >> ELSE refs

SetServices(sv, act) ==
  /\ services' = sv
  /\ active' = IF sv = << >> THEN None ELSE IF act \in ToSet(sv) THEN act ELSE sv[1]
  /\ LoadEffect(open, step, sv)

-----------------------------------------------------------------------------
(* Opening and closing. *)

ClearedForm == services' = << >> /\ active' = None /\ step' = 1 /\ picks' = << >>

StartCreate ==
  /\ ~open /\ saved = None
  /\ open' = TRUE
  /\ ClearedForm
  /\ LoadEffect(TRUE, 1, << >>)
  /\ told' = None
  /\ UNCHANGED <<world, acks, saved>>

(* The candidates of the session before are still there.                    *)
StartEdit ==
  /\ ~open /\ saved # None
  /\ open' = TRUE
  /\ services' = saved.services
  /\ active' = saved.services[1]
  /\ picks' = saved.picks
  /\ step' = IF saved.ready THEN 1 ELSE saved.step
  /\ LoadEffect(TRUE, step', services')
  /\ told' = None
  /\ UNCHANGED <<world, acks, saved>>

(* The sheet's own close button resets the form, those in the footer do not. *)
CloseSheet ==
  /\ open
  /\ open' = FALSE
  /\ \/ /\ ClearedForm
        /\ refs' = << >> /\ loading' = FALSE /\ load' = NoLoad
        /\ told' = None
     \/ /\ LoadEffect(FALSE, step, services)
        /\ UNCHANGED <<step, services, active, picks, told>>
  /\ UNCHANGED <<world, acks, saved>>

GoTo(st) ==
  /\ open /\ st \in {step - 1, step + 1} \cap 1..3
  /\ st = 2 => services # << >>
  /\ step' = st
  /\ LoadEffect(TRUE, st, services)
  /\ told' = None
  /\ UNCHANGED <<world, open, services, active, picks, acks, saved>>

-----------------------------------------------------------------------------
(* Services. *)

AtStep1 == open /\ step = 1
quietly == <<world, open, step, picks, acks, saved, told>>

(* handleServiceCatalogPick, addService, selectServiceInSequence *)
PickService(s) ==
  /\ AtStep1
  /\ IF s \in ToSet(services)
     THEN active' = s /\ UNCHANGED <<services, cand>>
     ELSE SetServices(Append(services, s), s)
  /\ UNCHANGED quietly

SelectService(s) ==
  /\ AtStep1 /\ s \in ToSet(services)
  /\ active' = s
  /\ UNCHANGED <<services, cand, quietly>>

Moved(s, i, k) == InsertAt(RemoveAt(s, i), k, s[i])

MoveService(i, k) ==
  /\ AtStep1 /\ i # k
  /\ SetServices(Moved(services, i, k), active)
  /\ UNCHANGED quietly

(* The picks of the service stay.                                           *)
RemoveService(i) ==
  /\ AtStep1
  /\ LET left == RemoveAt(services, i) IN
     SetServices(left, IF active = services[i] /\ left # << >> THEN left[1] ELSE active)
  /\ UNCHANGED quietly

ServiceRow(i) ==
  \/ SelectService(services[i])
  \/ \E k \in DOMAIN services : MoveService(i, k)
  \/ RemoveService(i)

-----------------------------------------------------------------------------
(* Candidates and picks. *)

LeftRulePool == {c \in DOMAIN refs : active = None \/ SvcOf[c] = active}

NewPick(id, c) == [id |-> id, case |-> c, ver |-> refs[c].ver, fp |-> refs[c].body]
(* newId: an id that nothing has, a refresh that is under way included.      *)
FreeIds ==
  PickId \ ({a.id : a \in acks} \cup Ids(picks) \cup
            IF saved = None THEN {} ELSE Ids(saved.picks))

others == <<world, form, cand, acks, saved, told>>

AddRule(c) ==
  /\ AtStep1 /\ ~loading /\ c \in LeftRulePool
  /\ \E id \in FreeIds : picks' = (Append(picks, NewPick(id, c)))
  /\ UNCHANGED others

(* filterScenarioCaseType *)
OfType == [all |-> Case, E |-> Errors, N |-> Case \ Errors]

(* addRulesByCaseType: those of the type that are not picked yet.           *)
AddRulesByCaseType(type) ==
  LET new == {c \in LeftRulePool \cap OfType[type] : \A p \in ToSet(picks) : p.case # c} IN
  /\ AtStep1 /\ ~loading /\ LeftRulePool \cap OfType[type] # {}
  /\ Cardinality(new) <= Cardinality(FreeIds)
  /\ \E order \in SetToSeqs(new), ids \in [1..Cardinality(new) -> FreeIds] :
       /\ IsInjective(ids)
       /\ picks' = (picks \o [k \in DOMAIN order |-> NewPick(ids[k], order[k])])
  /\ UNCHANGED others

RemoveRule(i) ==
  /\ AtStep1
  /\ picks' = (RemoveAt(picks, i))
  /\ UNCHANGED others

RemoveAllRules ==
  /\ AtStep1 /\ picks # << >>
  /\ picks' = (<< >>)
  /\ UNCHANGED others

ReorderRules(i, k) ==
  /\ AtStep1 /\ i # k
  /\ picks' = (Moved(picks, i, k))
  /\ UNCHANGED others

(* acknowledgeSelectedPick up to its request; it keeps the row that was     *)
(* loaded when the button was pressed.                                      *)
Acknowledge(i) ==
  /\ AtStep1 /\ Health(picks[i], refs) = "changed"
  /\ Cardinality(acks) < MaxAcks
  /\ \E n \in 1..MaxAcks :
       /\ \A a \in acks : a.n # n
       /\ acks' = acks \cup {[n |-> n, id |-> picks[i].id, case |-> picks[i].case,
                               old |-> refs[picks[i].case], answer |-> NoPrint]}
  /\ UNCHANGED <<world, form, cand, picks, saved, told>>

TestcasePickRow(i) ==
  \/ RemoveRule(i)
  \/ \E k \in DOMAIN picks : ReorderRules(i, k)
  \/ Acknowledge(i)

ScenarioTestcaseTransfer ==
  \/ \E c \in Case : AddRule(c)
  \/ \E type \in DOMAIN OfType : AddRulesByCaseType(type)
  \/ RemoveAllRules
  \/ \E i \in DOMAIN picks : TestcasePickRow(i)

-----------------------------------------------------------------------------
(* Saving and running. *)

Store(ps, ready) ==
  saved' = [picks |-> ps, services |-> services, step |-> step, ready |-> ready]

(* Picks without a version get the one that was loaded.                     *)
PicksForSave == Hydrated(picks, refs)

SaveDraft ==
  /\ open /\ services # << >>
  /\ picks' = PicksForSave
  /\ Store(PicksForSave, FALSE)
  /\ told' = None
  /\ UNCHANGED <<world, form, cand, acks>>

(* A pick that is missing or empty leads back to the first step.            *)
SaveReady ==
  /\ open /\ step = 3 /\ services # << >>
  /\ picks' = PicksForSave
  /\ IF Blocking(PicksForSave, refs) = {}
     THEN /\ Store(PicksForSave, TRUE)
          /\ open' = FALSE
          /\ told' = None
          /\ LoadEffect(FALSE, step, services)
          /\ UNCHANGED step
     ELSE /\ told' = ToldDeleted(PicksForSave, refs)
          /\ step' = 1
          /\ LoadEffect(TRUE, 1, services)
          /\ UNCHANGED <<open, saved>>
  /\ UNCHANGED <<world, services, active, acks>>

Live(rows) == [c \in rows |-> [ver |-> pool[c].ver, body |-> pool[c].body]]

(* preparePicksForLiveRun on the saved picks: every row of their services,  *)
(* but for those whose request fails.                                       *)
PrepareRun ==
  /\ ~open /\ saved # None /\ saved.ready
  /\ \E failed \in SUBSET {SvcOf[p.case] : p \in ToSet(saved.picks)} :
       LET rows == Live({c \in Case : /\ pool[c].at # "gone" /\ SvcOf[c] \notin failed
                                      /\ \E p \in ToSet(saved.picks) : SvcOf[p.case] = SvcOf[c]})
           ps   == Hydrated(saved.picks, rows) IN
       IF Blocking(ps, rows) = {}
       THEN saved' = [saved EXCEPT !.picks = ps] /\ told' = None
       ELSE told' = ToldDeleted(ps, rows) /\ UNCHANGED saved
  /\ UNCHANGED <<world, form, cand, picks, acks>>

-----------------------------------------------------------------------------
(* Answers. *)

LoadDone(got) ==
  /\ refs' = got
  /\ loading' = FALSE
  /\ picks' = (Hydrated(picks, got))

(* The rows of the next service: those that scenarios may use, or none when *)
(* the request fails.                                                       *)
LoadAnswer ==
  /\ load.todo # << >>
  /\ \E rows \in {{c \in CasesOf(Head(load.todo)) : pool[c].at = "usable"}, {}} :
       LET got == [c \in DOMAIN load.got \cup rows |->
                     IF c \in DOMAIN load.got THEN load.got[c] ELSE Live(rows)[c]] IN
       IF Len(load.todo) > 1
       THEN /\ load' = [todo |-> Tail(load.todo), got |-> got]
            /\ UNCHANGED <<refs, loading, picks>>
       ELSE load' = NoLoad /\ LoadDone(got)
  /\ UNCHANGED <<world, form, acks, saved, told>>

(* getTestCase: what the database has when the request arrives.             *)
ReadTestcase(a) ==
  /\ a.answer = NoPrint
  /\ acks' = (acks \ {a}) \cup
       {[a EXCEPT !.answer = IF pool[a.case].at = "gone" THEN None ELSE Live({a.case})[a.case]]}
  /\ UNCHANGED <<world, form, cand, picks, saved, told>>

(* Its answer, which may come late, or never when the request fails: the    *)
(* row replaces the one in the list and goes into the pick; without it the  *)
(* row of the time of the click does.                                       *)
AcknowledgeAnswer(a) ==
  /\ a.answer # NoPrint
  /\ acks' = acks \ {a}
  /\ \E live \in {a.answer, None} :
       /\ refs' = IF live = None THEN refs
                  ELSE [c \in DOMAIN refs \cup {a.case} |-> IF c = a.case THEN live ELSE refs[c]]
       /\ picks' = [i \in DOMAIN picks |->
            IF picks[i].id # a.id THEN picks[i]
            ELSE IF live = None THEN Acknowledged(picks[i], [c \in {a.case} |-> a.old])
            ELSE Refreshed(picks[i], live)]
  /\ UNCHANGED <<world, form, loading, load, saved, told>>

Answer ==
  \/ LoadAnswer
  \/ \E a \in acks : ReadTestcase(a) \/ AcknowledgeAnswer(a)

-----------------------------------------------------------------------------
(* The pool: rules are changed, confirmed and withdrawn, testcases deleted. *)

PutTestcase(c) ==
  \E b \in Body, v \in IF pool[c].at = "gone" THEN FirstVers \cup {pool[c].ver + 1}
                       ELSE {pool[c].ver + 1} :
    /\ v <= MaxVer /\ Cardinality(served) < MaxServed
    /\ pool' = [pool EXCEPT ![c] = [at |-> "usable", ver |-> v, body |-> b]]
    /\ served' = served \cup {<<c, v, b>>}

ChangePool ==
  /\ \E c \in Case :
       \/ PutTestcase(c)
       \/ /\ pool[c].at = "usable"
          /\ \E at \in {"gone", "draft"} : pool' = [pool EXCEPT ![c].at = at]
          /\ UNCHANGED served
  /\ UNCHANGED <<form, cand, picks, acks, saved, told>>

User ==
  \/ StartCreate \/ StartEdit \/ CloseSheet
  \/ \E st \in 1..3 : GoTo(st)
  \/ \E s \in Svc : PickService(s)
  \/ \E i \in DOMAIN services : ServiceRow(i)
  \/ ScenarioTestcaseTransfer
  \/ SaveDraft \/ SaveReady \/ PrepareRun

Next == User \/ Answer \/ ChangePool

Spec == Init /\ [][Next]_vars

-----------------------------------------------------------------------------
(* Types of the variables. *)
TypeOK ==
  /\ pool \in [Case -> PoolRow]
  /\ step \in 1..3 /\ ToSet(services) \subseteq Svc /\ IsInjective(services)
  /\ active \in Svc \cup {None} /\ (active = None <=> services = << >>)
  /\ \A c \in DOMAIN refs : c \in Case /\ refs[c] \in Row
  /\ \A p \in ToSet(picks) : p \in Pick
  /\ Cardinality(Ids(picks)) = Len(picks)
  /\ saved # None => saved \in Saved

(* A pick's version and fingerprint (poolCaseLiveRef.ts) belong together:   *)
(* the fingerprint is that of the body which the pinned version has,        *)
(* whatever was loaded, refreshed or saved in between.  (The version of an  *)
(* empty body is pinned without one: the next body gives the fingerprint.)  *)
PinsAreServed ==
  \A p \in ToSet(picks) \cup (IF saved = None THEN {} ELSE ToSet(saved.picks)) :
    p.ver # 0 /\ p.fp # NoPrint =>
      \E b \in {p.fp, Empty} : <<p.case, p.ver, b>> \in served

(* While the wizard is open, a version that is pinned changes only by a     *)
(* refresh that the user asked for.                                         *)
PinsChangeOnRefresh ==
  open /\ open' =>
       \A p \in ToSet(picks), q \in ToSet(picks') :
         p.id = q.id /\ p.ver \notin {0, q.ver} => \E a \in acks \ acks' : a.id = p.id

(* A finished scenario that is saved has every testcase pinned, also those  *)
(* that an older build left without version.                                *)
ReadyIsPinned ==
  saved' # saved /\ saved'.ready => \A p \in ToSet(saved'.picks) : p.ver # 0

(* When the user stays with the services, the candidates are loaded in the  *)
(* end, whichever requests fail.                                            *)
LoadsEnd ==
  <>[](open /\ step = 1) /\ <>[][FALSE]_<<open, step, services>>
    => <>[]~loading
=============================================================================
