----------------------------- MODULE RulesList -----------------------------
(***************************************************************************)
(* The page that lists the rules of all services: the filters and pages,   *)
(* the loading of the list, the form that starts a generation, and the     *)
(* sheet of a service that is opened again when the user comes back from   *)
(* an execution.                                                           *)
(*                                                                         *)
(* The server keeps the services in the order of their last change, the    *)
(* latest first, and hands them out in pages that are counted by rows.  A  *)
(* load asks for one page after the other; it is not cancelled when the    *)
(* filter changes, and any of its answers replaces the list.               *)
(***************************************************************************)
EXTENDS Naturals, FiniteSets, Sequences, FiniteSetsExt, SequencesExt

CONSTANTS
  Svc,       \* services
  Found,     \* the services that the query of the user finds
  DomainOf,  \* DomainOf[s]: the business domain of a service
  Rank,      \* Rank[k][s]: the place of a service under a sort key
  Limit,     \* rows that the server hands out at once
  Sizes,     \* sizes of a page of the table
  Uses,      \* what the user and the others do
  MaxCalls,  \* bound on the loads under way
  MaxSaves,  \* bound on how often the page is left for an execution
  None       \* no service, no domain, nothing stored

VARIABLES
  order,     \* the services that have rules, the latest change first
  rules,     \* rules[s]: whether a service has a draft, and confirmed rules
  query, debounced, status, domain, sortKey, page, pageSize,
  registry,  \* the list that was loaded
  loading, error,
  calls,     \* the loads under way
  here,      \* whether the page is shown
  url,       \* the service the address asks to open, or None
  stored,    \* what was stored when the page was left, or None
  consumed,  \* rulesMetaResumeConsumeKey
  saves,     \* the services the page was left from for an execution, in order
  sheet,     \* the service the sheet is open for, or None
  form,      \* the form that starts a generation
  jobs,      \* the services a generation is running for
  resumed    \* history: sheets opened by themselves since the page is shown

filter == <<query, debounced, status>>
view   == <<domain, sortKey, page, pageSize>>
list   == <<registry, loading, error, calls>>
resume == <<url, stored, consumed, saves, resumed>>
vars   == <<order, rules, filter, view, list, here, resume, sheet, form, jobs>>

Query == {"", "q"}
Status == {"", "active", "draft"}
Key == {"code_asc", "name_asc", "updated_desc", "rules_desc"}
NoForm == [open |-> FALSE, svc |-> None, src |-> "none"]
Flags == [draft : BOOLEAN, applied : BOOLEAN]
Call == [id : 1..MaxCalls, q : Query, st : Status, rows : Seq(Svc),
         at : {"req", "done", "failed"}]

SeqRange(s) == {s[i] : i \in DOMAIN s}

-----------------------------------------------------------------------------
(* The list of the server. *)

Matches(s, q, st) ==
  /\ q = "q" => s \in Found
  /\ st = "active" => rules[s].applied
  /\ st = "draft" => rules[s].draft

Matching(q, st) == SelectSeq(order, LAMBDA s : Matches(s, q, st))

Slice(seq, from, n) == SubSeq(seq, from + 1, IF from + n > Len(seq) THEN Len(seq) ELSE from + n)

-----------------------------------------------------------------------------
(* What is shown of the list. *)

Filtered == SelectSeq(registry, LAMBDA s : domain = None \/ DomainOf[s] = domain)

(* The rows are in the order of the server when they are sorted by change.  *)
Before(i, j) ==
  IF sortKey = "updated_desc" THEN i < j
  ELSE LET a == Rank[sortKey][Filtered[i]]
           b == Rank[sortKey][Filtered[j]]
       IN a < b \/ (a = b /\ i < j)

Shown == [i \in DOMAIN Filtered |-> Filtered[SetToSortSeq(DOMAIN Filtered, Before)[i]]]

TotalPages ==
  IF Filtered = << >> THEN 1 ELSE (Len(Filtered) + pageSize - 1) \div pageSize

CurrentPage == IF page > TotalPages THEN TotalPages ELSE page

RowsOfPage(p) == Slice(Shown, (p - 1) * pageSize, pageSize)

(* The first five, wherever the table is.                                   *)
PagesToShow == 1..(IF TotalPages > 5 THEN 5 ELSE TotalPages)

(* The buttons under the table.                                             *)
PageButtons ==
  PagesToShow
    \cup (IF CurrentPage > 1 THEN {1, CurrentPage - 1} ELSE {})
    \cup (IF CurrentPage < TotalPages THEN {CurrentPage + 1, TotalPages} ELSE {})

(* The domains of the list with the number of their services.               *)
DomainNodes ==
  {[domain |-> d, count |-> Cardinality({i \in DOMAIN registry : DomainOf[registry[i]] = d})] :
     d \in {DomainOf[s] : s \in SeqRange(registry)}}

-----------------------------------------------------------------------------
(* Loads. *)

(* A load of what is asked for; from: the loads that stay.                  *)
Load(from, q, st) ==
  /\ Cardinality(from) < MaxCalls
  /\ LET id == CHOOSE i \in 1..MaxCalls : \A c \in from : c.id # i
     IN calls' = from \cup {[id |-> id, q |-> q, st |-> st, rows |-> << >>, at |-> "req"]}
  /\ loading' = TRUE /\ error' = FALSE

Init ==
  /\ order \in SetToAllKPermutations(Svc) /\ rules \in [Svc -> Flags]
  /\ \A s \in Svc : s \in SeqRange(order) <=> (rules[s].draft \/ rules[s].applied)
  /\ query = "" /\ debounced = "" /\ status = "" /\ domain = None
  /\ sortKey = "code_asc" /\ page = 1 /\ pageSize \in Sizes
  /\ registry = << >> /\ loading = FALSE /\ error = FALSE /\ calls = {}
  /\ here = FALSE /\ url = None /\ stored = None /\ consumed = None /\ saves = << >>
  /\ sheet = None /\ form = NoForm /\ jobs = {}
  /\ resumed = 0

(* Nothing lies over the page.                                              *)
Bare == here /\ sheet = None /\ ~form.open

(* The page is shown anew; st: the status the address asks for.             *)
Enter(open, st) ==
  /\ ~here /\ here' = TRUE
  /\ url' = open
  /\ query' = "" /\ debounced' = "" /\ status' = st
  /\ domain' = None /\ sortKey' = "code_asc" /\ page' = 1
  /\ registry' = << >>
  /\ Load({}, "", st)
  /\ resumed' = 0
  /\ UNCHANGED <<order, rules, pageSize, stored, consumed, saves, sheet, form, jobs>>

(* From the menu, from the dashboard, or back from an execution.            *)
Visit ==
  \/ Enter(None, "")
  \/ "filter" \in Uses /\ Enter(None, "draft")
  \/ \E s \in SeqRange(saves) : Enter(s, "")

(* What is under way answers to nothing.                                    *)
Gone ==
  /\ here' = FALSE /\ sheet' = None /\ form' = NoForm
  /\ calls' = {} /\ loading' = FALSE /\ url' = None
  /\ UNCHANGED <<order, rules, filter, view, registry, error, consumed, jobs>>

Leave == Bare /\ Gone /\ UNCHANGED <<stored, saves, resumed>>

(* The execution of a run is opened from the sheet.                         *)
OpenExecution ==
  /\ here /\ sheet # None /\ "resume" \in Uses /\ Len(saves) < MaxSaves
  /\ saves' = Append(saves, sheet)
  /\ stored' = [svc |-> sheet, savedAt |-> Len(saves) + 1]
  /\ UNCHANGED resumed
  /\ Gone

(* What was stored is forgotten after half an hour.                         *)
Expire ==
  /\ ~here /\ stored # None
  /\ stored' = None
  /\ UNCHANGED <<order, rules, filter, view, list, here, url, consumed, saves, resumed, sheet, form, jobs>>

-----------------------------------------------------------------------------
(* The filters and the pages. *)

TypeQuery(q) ==
  /\ Bare /\ "filter" \in Uses /\ q # query
  /\ query' = q /\ page' = 1
  /\ UNCHANGED <<order, rules, debounced, status, domain, sortKey, pageSize, list, here, resume, sheet, form, jobs>>

Debounce ==
  /\ here /\ debounced # query
  /\ debounced' = query
  /\ Load(calls, query, status)
  /\ UNCHANGED <<order, rules, query, status, view, registry, here, resume, sheet, form, jobs>>

SelectStatus(st) ==
  /\ Bare /\ "filter" \in Uses /\ st # status
  /\ status' = st /\ page' = 1
  /\ Load(calls, debounced, st)
  /\ UNCHANGED <<order, rules, query, debounced, domain, sortKey, pageSize, registry, here, resume, sheet, form, jobs>>

Looks == UNCHANGED <<order, rules, filter, list, here, resume, sheet, form, jobs>>

SelectSort(k) ==
  /\ Bare /\ "pages" \in Uses
  /\ sortKey' = k /\ page' = 1
  /\ Looks /\ UNCHANGED <<domain, pageSize>>

HandleDomainSelect(d) ==
  /\ Bare /\ "pages" \in Uses
  /\ d = None \/ \E n \in DomainNodes : n.domain = d
  /\ domain' = d /\ page' = 1
  /\ Looks /\ UNCHANGED <<sortKey, pageSize>>

SelectPage(p) ==
  /\ Bare /\ "pages" \in Uses /\ p \in PageButtons
  /\ page' = p
  /\ Looks /\ UNCHANGED <<domain, sortKey, pageSize>>

SelectSize(n) ==
  /\ Bare /\ "pages" \in Uses
  /\ pageSize' = n /\ page' = 1
  /\ Looks /\ UNCHANGED <<domain, sortKey>>

(* The button beside the filters; the one beside an error is never barred.  *)
ReloadRegistry ==
  /\ Bare /\ (loading => error)
  /\ Load(calls, debounced, status)
  /\ UNCHANGED <<order, rules, filter, view, registry, here, resume, sheet, form, jobs>>

-----------------------------------------------------------------------------
(* The answers. *)

Page(c) ==
  /\ c \in calls /\ c.at = "req"
  /\ LET all == Matching(c.q, c.st)
         got == Slice(all, Len(c.rows), Limit)
         rows == c.rows \o got
     IN \/ calls' = (calls \ {c}) \cup {[c EXCEPT !.at = "failed"]}
        \/ calls' = (calls \ {c}) \cup
                      {[c EXCEPT !.rows = rows,
                                 !.at = IF Len(got) < Limit \/ Len(rows) >= Len(all)
                                        THEN "done" ELSE "req"]}
  /\ UNCHANGED <<order, rules, filter, view, registry, loading, error, here, resume, sheet, form, jobs>>

(* What is to be opened again, the address first.                           *)
Asked == IF url # None THEN [key |-> <<url, 0>>, svc |-> url]
         ELSE IF stored # None THEN [key |-> <<stored.svc, stored.savedAt>>, svc |-> stored.svc]
         ELSE None

Taken == consumed' = Asked.key /\ stored' = None /\ url' = None

(* The effect that opens the sheet once the list is there; taking the       *)
(* address away also takes the status away that it had set.                 *)
Resume(rows) ==
  IF Asked = None \/ (Asked # None /\ consumed = Asked.key) THEN
    UNCHANGED <<url, stored, consumed, resumed, sheet>>
  ELSE IF Asked.svc \in SeqRange(rows) THEN
    /\ Taken
    /\ sheet' = Asked.svc
    /\ resumed' = resumed + 1
  ELSE IF url # None THEN Taken /\ UNCHANGED <<resumed, sheet>>
  ELSE UNCHANGED <<url, stored, consumed, resumed, sheet>>

Settled(c) == calls' = calls \ {c} /\ loading' = FALSE

(* An answer replaces the list, whatever it was asked for.                  *)
Answer(c) ==
  /\ c \in calls /\ c.at # "req"
  /\ LET rows == IF c.at = "failed" THEN << >> ELSE c.rows
     IN /\ registry' = rows
        /\ Resume(rows)
        /\ error' = IF url # None /\ url' = None /\ status # "" THEN FALSE ELSE (c.at = "failed")
        /\ IF url # None /\ url' = None /\ status # ""
           THEN /\ status' = ""
                /\ Load(calls \ {c}, debounced, "")
           ELSE /\ UNCHANGED status
                /\ Settled(c)
  /\ UNCHANGED <<order, rules, query, debounced, view, here, saves, form, jobs>>

-----------------------------------------------------------------------------
(* The sheet of a service. *)

OpenEdit(s) ==
  /\ Bare /\ ~loading /\ s \in SeqRange(RowsOfPage(CurrentPage))
  /\ sheet' = s
  /\ UNCHANGED <<order, rules, filter, view, list, here, resume, form, jobs>>

(* Closing also forgets what was stored.                                    *)
ClosePanel ==
  /\ here /\ sheet # None
  /\ sheet' = None /\ stored' = None
  /\ UNCHANGED <<order, rules, filter, view, list, here, url, consumed, saves, resumed, form, jobs>>

-----------------------------------------------------------------------------
(* The form that starts a generation, and what the others do. *)

OpenYamlAiDialog ==
  /\ Bare /\ "ai" \in Uses
  /\ form' = [form EXCEPT !.open = TRUE, !.svc = None]
  /\ UNCHANGED <<order, rules, filter, view, list, here, resume, sheet, jobs>>

FillForm ==
  /\ form.open
  /\ \/ \E s \in Svc : form' = [form EXCEPT !.svc = s]
     \/ \E l \in {"none", "short", "long"} : form' = [form EXCEPT !.src = l]
  /\ UNCHANGED <<order, rules, filter, view, list, here, resume, sheet, jobs>>

ResetYamlAiForm == form' = NoForm

CloseYamlAi ==
  /\ form.open /\ ResetYamlAiForm
  /\ UNCHANGED <<order, rules, filter, view, list, here, resume, sheet, jobs>>

(* The source is held back from a form that lacks one.                      *)
MutSubmitYamlFromSource ==
  /\ form.open /\ form.src = "long"
  /\ jobs' = jobs \cup {form.svc}
  /\ ResetYamlAiForm
  /\ UNCHANGED <<order, rules, filter, view, list, here, resume, sheet>>

SubmitYamlFromSource ==
  /\ form.open /\ form.svc # None /\ form.src = "long"
  /\ jobs' = jobs \cup {form.svc}
  /\ ResetYamlAiForm
  /\ UNCHANGED <<order, rules, filter, view, list, here, resume, sheet>>

Touched(s) == <<s>> \o SelectSeq(order, LAMBDA t : t # s)

(* A generation writes a draft, and the list is loaded again.               *)
JobDone(s) ==
  /\ s \in jobs /\ jobs' = jobs \ {s}
  /\ \/ /\ order' = Touched(s) /\ rules' = [rules EXCEPT ![s].draft = TRUE]
        /\ IF here THEN Load(calls, debounced, status) ELSE UNCHANGED <<loading, error, calls>>
     \/ UNCHANGED <<order, rules, loading, error, calls>>
  /\ UNCHANGED <<filter, view, registry, here, resume, sheet, form>>

(* Somebody saves a draft, or confirms one.                                 *)
Others(s) ==
  /\ "others" \in Uses
  /\ order' = Touched(s)
  /\ \/ rules' = [rules EXCEPT ![s].draft = TRUE]
     \/ rules[s].draft /\ rules' = [rules EXCEPT ![s] = [draft |-> FALSE, applied |-> TRUE]]
  /\ UNCHANGED <<filter, view, list, here, resume, sheet, form, jobs>>

(* The loads go on. *)
Proceeds == \E c \in calls : Page(c) \/ Answer(c)

Next ==
  \/ Visit \/ Leave \/ OpenExecution \/ Expire
  \/ \E q \in Query : TypeQuery(q)
  \/ Debounce
  \/ \E st \in Status : SelectStatus(st)
  \/ \E k \in Key : SelectSort(k)
  \/ \E d \in {DomainOf[s] : s \in Svc} \cup {None} : HandleDomainSelect(d)
  \/ \E p \in 1..Len(registry) : SelectPage(p)
  \/ \E n \in Sizes : SelectSize(n)
  \/ ReloadRegistry
  \/ Proceeds
  \/ \E s \in Svc : OpenEdit(s)
  \/ ClosePanel
  \/ OpenYamlAiDialog \/ FillForm \/ CloseYamlAi \/ SubmitYamlFromSource
  \/ \E s \in Svc : JobDone(s) \/ Others(s)

Spec == Init /\ [][Next]_vars

-----------------------------------------------------------------------------
(* Types of the variables; a generation always has a service.               *)
TypeOK ==
  /\ order \in Seq(Svc) /\ rules \in [Svc -> Flags] /\ registry \in Seq(Svc)
  /\ query \in Query /\ debounced \in Query /\ status \in Status
  /\ sortKey \in Key /\ page \in Nat \ {0} /\ pageSize \in Sizes
  /\ {loading, error, here} \subseteq BOOLEAN
  /\ calls \subseteq Call
  /\ {sheet, url} \subseteq Svc \cup {None}
  /\ saves \in Seq(Svc) /\ jobs \subseteq Svc

(* A load that is complete has every row that matches, once, in the order   *)
(* of the server.  It holds where nobody changes the rules between two      *)
(* pages of a load (serviceRulesApi.ts asks for them one by one, by the     *)
(* number of rows it has): a save in between moves a row to the front, and  *)
(* another one comes twice or is missed.                                    *)
LoadsAll == \A c \in calls : c.at = "done" => c.rows = Matching(c.q, c.st)

(* Every row of the list is on exactly one page, and the table is on a page *)
(* there is.                                                                *)
PagesCover ==
  /\ CurrentPage \in 1..TotalPages
  /\ FlattenSeq([p \in 1..TotalPages |-> RowsOfPage(p)]) = Shown

(* While the page is shown the sheet is opened at most once by itself       *)
(* ("Resume once when registry is ready"), however often the list loads.    *)
ResumeOnce == resumed <= 1
=============================================================================
