------------------------------- MODULE RuleForms -------------------------------
(***************************************************************************)
(* The YAML tab of the sheet of a service: one document, edited as source  *)
(* (the text of one case, or of all) or in forms (a list of the cases in   *)
(* display order, with a form for the one that is open).                   *)
(*                                                                         *)
(* Both show copies of the document: the text of the selected case, and a  *)
(* draft per row of the list.  Effects bring the copies up to date when    *)
(* the document changes; it is also replaced from outside, when the server *)
(* answers with the cases it stored, normal ones first.                    *)
(***************************************************************************)
EXTENDS Naturals, FiniteSets, Sequences, SequencesExt

CONSTANTS
  Val,       \* inputs of a case
  Blank,     \* the input of a new case
  Docs,      \* documents the server may answer with
  Raw,       \* documents that may be typed whole
  Uses,      \* kinds of operations
  MaxRules, MaxNum, UndoLimit,
  Bad,       \* a text that cannot be read
  None

VARIABLES
  text,     \* yamlText: kind, cases, and whether it is laid out by dump
  tab,      \* subTab
  sel,      \* selection in the source: a position, or 0 for the document
  draft,    \* caseDraft
  skip,     \* skipCaseSyncRef
  order,    \* displayOrder: positions, or empty
  fields,   \* drafts of the form, by row
  open,     \* editingDisplayIndex, or 0
  focus,    \* a field of the form has the focus
  undo,     \* inputUndoStackRef, with the case each input was typed in
  asked,    \* deletePending: position and case, or None
  held,     \* the row that is dragged, or 0
  checking  \* validating

source == <<sel, draft, skip>>
form   == <<order, fields, open, focus, undo, asked, held>>
vars   == <<text, tab, source, form, checking>>

Kind == {"N", "E"}
Rule == [kind : Kind, num : 1..MaxNum, val : Val]
Text(rules, dumped) == [kind |-> "rules", rules |-> rules, dumped |-> dumped]
NoText(kind) == [kind |-> kind, rules |-> <<>>, dumped |-> FALSE]

CaseId(r) == <<r.kind, r.num>>
Ids(rules) == {CaseId(r) : r \in ToSet(rules)}

(* Normal cases first, then by number.                                     *)
Before(r, s) == (r.kind = "N" /\ s.kind = "E") \/ (r.kind = s.kind /\ r.num < s.num)

Sorted(rules) ==
  SortSeq([k \in DOMAIN rules |-> k],
          LAMBDA i, j : Before(rules[i], rules[j]) \/ (~Before(rules[j], rules[i]) /\ i < j))

InOrder(rules, positions) == [k \in DOMAIN positions |-> rules[positions[k]]]

NewNum(rules, kind) ==
  LET nums == {r.num : r \in {s \in ToSet(rules) : s.kind = kind}}
  IN IF nums = {} THEN 1 ELSE Max(nums) + 1

MoveAt(s, from, to) == InsertAt(RemoveAt(s, from), to, s[from])

-----------------------------------------------------------------------------
(* What follows a change of the document to t. *)

(* The selection stays a position.                                         *)
Selection(t) ==
  IF t.rules = <<>> THEN 0
  ELSE IF text.rules = <<>> THEN Sorted(t.rules)[1]
  ELSE IF sel > Len(t.rules) THEN Len(t.rules) ELSE sel

(* sk marks a change that came from the text of the case, which is d.      *)
Follow(t, sk, d) ==
  LET to == Selection(t) IN
  /\ sel' = to
  /\ skip' = (sk /\ (t = text \/ (sel = 0 /\ to = 0)))
  /\ draft' = IF t = text \/ (sk /\ (sel = to \/ sel = 0 \/ to = 0)) THEN d
              ELSE IF to = 0 THEN None ELSE t.rules[to]

(* The order the list is shown in.                                         *)
Ordered(rules, o) == IF Len(o) = Len(rules) THEN o ELSE Sorted(rules)

ShownCase(rules, o, row) == CaseId(rules[Ordered(rules, o)[row]])

Fresh(rules, o) == [row \in DOMAIN rules |-> rules[Ordered(rules, o)[row]].val]

Kept(o, t) == IF Len(t.rules) = Len(text.rules) THEN o ELSE <<>>

(* The inputs to go back to are those of the case that is shown.           *)
Stack(o, row, t, u) ==
  IF \/ row = 0 \/ open = 0
     \/ ShownCase(t.rules, o, row) # ShownCase(text.rules, order, open) THEN <<>> ELSE u

(* With the order o asked for, and the row that is open then.              *)
Refresh(t, o, row) ==
  LET now == Kept(o, t)
      at  == IF row > Len(t.rules) THEN 0 ELSE row
  IN /\ order' = now /\ open' = at
     /\ fields' = IF t.kind = "rules" /\ (t # text \/ Ordered(t.rules, now) # Ordered(text.rules, order))
                  THEN Fresh(t.rules, now) ELSE fields
     /\ undo' = Stack(now, at, t, undo)

Replace(t) ==
  /\ text' = t
  /\ IF tab = "source" THEN Follow(t, skip, draft) /\ UNCHANGED form
     ELSE Refresh(t, order, open) /\ UNCHANGED <<source, asked>>
          /\ focus' = (focus /\ open' # 0) /\ held' = (IF held > Len(t.rules) THEN 0 ELSE held)

(* A tab that is opened starts anew.                                       *)
NoSource == sel' = 0 /\ draft' = None /\ skip' = FALSE
NoForm ==
  /\ order' = <<>> /\ fields' = <<>> /\ open' = 0 /\ focus' = FALSE
  /\ undo' = <<>> /\ asked' = None /\ held' = 0

MountSource ==
  /\ tab' = "source" /\ NoForm
  /\ sel' = (IF text.rules = <<>> THEN 0 ELSE 1)
  /\ draft' = (IF text.rules = <<>> THEN None ELSE text.rules[1])
  /\ skip' = FALSE

MountForm ==
  /\ tab' = "fields" /\ NoSource
  /\ order' = <<>> /\ open' = 0 /\ focus' = FALSE
  /\ undo' = <<>> /\ asked' = None /\ held' = 0
  /\ fields' = Fresh(text.rules, <<>>)

-----------------------------------------------------------------------------
Init ==
  /\ text = NoText("empty") /\ tab = "source"
  /\ sel = 0 /\ draft = None /\ skip = FALSE
  /\ order = <<>> /\ fields = <<>> /\ open = 0 /\ focus = FALSE
  /\ undo = <<>> /\ asked = None /\ held = 0
  /\ checking = FALSE

(* The cases come in, at first and whenever they were stored or switched.  *)
Load(rules) ==
  /\ text.kind = "empty" \/ "reload" \in Uses
  /\ Text(rules, FALSE) # text
  /\ Replace(Text(rules, FALSE)) /\ UNCHANGED <<tab, checking>>

OpenSource == tab = "fields" /\ open = 0 /\ asked = None /\ held = 0 /\ MountSource /\ UNCHANGED <<text, checking>>
OpenForm   == tab = "source" /\ "form" \in Uses /\ MountForm /\ UNCHANGED <<text, checking>>

-----------------------------------------------------------------------------
(* Source *)

Select(k) ==
  /\ sel' = k /\ skip' = FALSE
  /\ draft' = IF k = sel \/ k = 0 THEN draft ELSE text.rules[k]
  /\ UNCHANGED <<text, tab, form, checking>>

SelectCase(k)  == tab = "source" /\ text.kind = "rules" /\ Select(k)
SelectDocument == tab = "source" /\ text.kind = "rules" /\ sel # 0 /\ Select(0)

(* A text that can be read takes the place of the case; one that says the  *)
(* same leaves the document as it is, and the mark set.                    *)
TypeCase(d) ==
  /\ tab = "source" /\ sel # 0 /\ "case" \in Uses
  /\ IF d = Bad THEN draft' = Bad /\ UNCHANGED <<text, sel, skip>>
     ELSE LET t == Text([text.rules EXCEPT ![sel] = d], TRUE)
          IN text' = t /\ Follow(t, TRUE, d)
  /\ UNCHANGED <<tab, form, checking>>

TypeDocument(t) ==
  /\ tab = "source" /\ sel = 0 /\ "document" \in Uses /\ t # text
  /\ Replace(t) /\ UNCHANGED <<tab, checking>>

Format ==
  /\ tab = "source" /\ text.kind = "rules" /\ "format" \in Uses
  /\ Replace(Text(InOrder(text.rules, Sorted(text.rules)), TRUE))
  /\ UNCHANGED <<tab, checking>>

(* The server is asked; an error is shown in the source.                   *)
Check ==
  /\ tab = "source" /\ text.kind # "empty" /\ ~checking /\ "check" \in Uses
  /\ checking' = TRUE /\ UNCHANGED <<text, tab, source, form>>

CheckPasses == checking /\ checking' = FALSE /\ UNCHANGED <<text, tab, source, form>>

CheckFails ==
  /\ checking /\ checking' = FALSE
  /\ IF tab = "source" THEN UNCHANGED <<tab, source, form>> ELSE MountSource
  /\ UNCHANGED text

-----------------------------------------------------------------------------
(* Form *)

Form == tab = "fields" /\ text.kind = "rules" /\ asked = None /\ held = 0
List == Form /\ open = 0

OpenCase(row) ==
  /\ Form /\ ~focus /\ row # open
  /\ open # 0 => row \in {open - 1, open + 1}
  /\ Refresh(text, order, row)
  /\ UNCHANGED <<text, tab, source, focus, asked, held, checking>>

CloseCase ==
  /\ Form /\ open # 0 /\ ~focus
  /\ Refresh(text, order, 0)
  /\ UNCHANGED <<text, tab, source, focus, asked, held, checking>>

Push(u, e) == IF Len(u) < UndoLimit THEN Append(u, e) ELSE Append(Tail(u), e)

(* A step back is kept unless the last one was kept a moment ago.          *)
TypeField(v) ==
  /\ Form /\ open # 0 /\ v # fields[open]
  /\ fields' = [fields EXCEPT ![open] = v]
  /\ focus' = TRUE
  /\ \/ undo' = Push(undo, <<ShownCase(text.rules, order, open), fields[open]>>)
     \/ undo # <<>> /\ undo' = undo
  /\ UNCHANGED <<text, tab, source, order, open, asked, held, checking>>

Undo ==
  /\ Form /\ open # 0 /\ undo # <<>>
  /\ fields' = [fields EXCEPT ![open] = Last(undo)[2]]
  /\ undo' = Front(undo) /\ focus' = TRUE
  /\ UNCHANGED <<text, tab, source, order, open, asked, held, checking>>

Target == Ordered(text.rules, order)[open]

(* A field that loses the focus applies the draft, if it can be read.      *)
Blur ==
  /\ Form /\ focus /\ focus' = FALSE
  /\ LET t == IF fields[open] = Bad THEN text
              ELSE Text([text.rules EXCEPT ![Target].val = fields[open]], TRUE)
     IN text' = t /\ Refresh(t, order, open)
  /\ UNCHANGED <<tab, source, asked, held, checking>>

AddedRow(rules) == CHOOSE row \in DOMAIN rules : Sorted(rules)[row] = Len(rules)

AddCase(kind) ==
  /\ tab = "fields" /\ text.kind # "broken" /\ open = 0 /\ asked = None /\ held = 0 /\ "add" \in Uses
  /\ Len(text.rules) < MaxRules /\ NewNum(text.rules, kind) <= MaxNum
  /\ LET t == Text(Append(text.rules, [kind |-> kind, num |-> NewNum(text.rules, kind), val |-> Blank]), TRUE)
     IN text' = t /\ Refresh(t, order, AddedRow(t.rules))
  /\ UNCHANGED <<tab, source, focus, asked, held, checking>>

Duplicate(row) ==
  /\ List /\ "add" \in Uses /\ Len(text.rules) < MaxRules
  /\ LET k == Ordered(text.rules, order)[row]
         r == text.rules[k]
     IN /\ NewNum(text.rules, r.kind) <= MaxNum
        /\ Replace(Text(InsertAt(text.rules, k + 1, [r EXCEPT !.num = NewNum(text.rules, r.kind)]), TRUE))
  /\ UNCHANGED <<tab, checking>>

AskDelete(row) ==
  /\ List /\ "delete" \in Uses /\ Len(text.rules) > 1
  /\ asked' = <<Ordered(text.rules, order)[row], ShownCase(text.rules, order, row)>>
  /\ UNCHANGED <<text, tab, source, order, fields, open, focus, undo, held, checking>>

CancelDelete ==
  /\ tab = "fields" /\ asked # None /\ asked' = None
  /\ UNCHANGED <<text, tab, source, order, fields, open, focus, undo, held, checking>>

Delete ==
  /\ tab = "fields" /\ asked # None /\ asked' = None
  /\ LET t == IF Len(text.rules) > 1 /\ asked[1] \in DOMAIN text.rules
              THEN Text(RemoveAt(text.rules, asked[1]), TRUE) ELSE text
     IN /\ text' = t
        /\ IF t = text THEN UNCHANGED <<order, fields, open, undo>> ELSE Refresh(t, <<>>, 0)
  /\ UNCHANGED <<tab, source, focus, held, checking>>

(* A row is dragged over others; the first move starts from the order of   *)
(* the document.                                                           *)
Hold(row) ==
  /\ List /\ "drag" \in Uses /\ held' = row
  /\ UNCHANGED <<text, tab, source, order, fields, open, focus, undo, asked, checking>>

DragOver(to) ==
  /\ held # 0 /\ to # held
  /\ Refresh(text, MoveAt(IF Len(order) = Len(text.rules) THEN order ELSE [k \in DOMAIN text.rules |-> k], held, to), 0)
  /\ held' = to
  /\ UNCHANGED <<text, tab, source, focus, asked, checking>>

(* The drop writes the order, with the drafts, to the document, and the    *)
(* list is sorted again; nothing happens in the order of the document.     *)
Drop ==
  /\ held # 0 /\ held' = 0
  /\ LET t == Text([row \in DOMAIN order |-> [text.rules[order[row]] EXCEPT !.val = fields[row]]], TRUE)
     IN IF \/ Len(order) # Len(text.rules) \/ order = [k \in DOMAIN text.rules |-> k]
           \/ Bad \in ToSet(fields)
        THEN UNCHANGED <<text, order, fields, open, undo>>
        ELSE text' = t /\ Refresh(t, <<>>, 0)
  /\ UNCHANGED <<tab, source, focus, asked, checking>>

-----------------------------------------------------------------------------
Rows == DOMAIN text.rules

(* What is typed for a case keeps its id.                                  *)
CaseTexts ==
  {Bad} \cup (IF draft \in Rule THEN {[draft EXCEPT !.val = v] : v \in Val}
              ELSE IF sel # 0 THEN {[text.rules[sel] EXCEPT !.val = v] : v \in Val} ELSE {})

Next ==
  \/ (\E rules \in Docs : Load(rules)) \/ (\E rules \in Raw : TypeDocument(Text(rules, FALSE)))
  \/ TypeDocument(NoText("broken")) \/ TypeDocument(NoText("empty"))
  \/ OpenSource \/ OpenForm
  \/ SelectDocument \/ (\E k \in Rows : SelectCase(k)) \/ (\E d \in CaseTexts : TypeCase(d))
  \/ Format \/ Check \/ CheckPasses \/ CheckFails
  \/ \E row \in Rows : OpenCase(row) \/ Duplicate(row) \/ AskDelete(row) \/ Hold(row) \/ DragOver(row)
  \/ Drop
  \/ CloseCase \/ (\E v \in Val \cup {Bad} : TypeField(v)) \/ Undo \/ Blur
  \/ (\E kind \in Kind : AddCase(kind)) \/ CancelDelete \/ Delete

Spec == Init /\ [][Next]_vars

-----------------------------------------------------------------------------
(* Types of the variables. *)
TypeOK ==
  /\ text.kind \in {"empty", "broken", "rules"} /\ text.rules \in Seq(Rule) /\ text.dumped \in BOOLEAN
  /\ tab \in {"source", "fields"} /\ sel \in 0..Len(text.rules) /\ draft \in Rule \cup {Bad, None}
  /\ {skip, focus, checking} \subseteq BOOLEAN
  /\ order = <<>> \/ (Len(order) = Len(text.rules) /\ ToSet(order) = Rows)
  /\ fields \in Seq(Val \cup {Bad}) /\ {open, held} \subseteq 0..Len(text.rules)
  /\ Len(undo) <= UndoLimit
  /\ tab = "fields" /\ text.kind = "rules" => DOMAIN fields = Rows

(* The source shows the case that is selected, whatever was typed, taken   *)
(* back or selected before: what is typed next goes into that case.        *)
ShownIsCase == tab = "source" /\ sel # 0 /\ draft # Bad => draft = text.rules[sel]

(* Every row of the list shows the case it would open and apply to, in     *)
(* whatever order rows are dragged, added and deleted; only a draft that   *)
(* is being typed, or cannot be read, differs.                             *)
RowsAreCases ==
  tab = "fields" /\ text.kind = "rules" =>
    \A row \in Rows : \/ row = open /\ focus
                      \/ fields[row] = Bad
                      \/ fields[row] = text.rules[Ordered(text.rules, order)[row]].val

(* No two cases have one id, however cases are added, copied and deleted.  *)
IdsDiffer == Cardinality(Ids(text.rules)) = Len(text.rules)

(* What is applied from a form changes the case that is shown there, and   *)
(* no other.                                                               *)
AppliesToShown ==
  Blur => \A r \in ToSet(text.rules) \ ToSet(text'.rules) : CaseId(r) = ShownCase(text.rules, order, open)

(* The case that was added is the one whose form opens, wherever the order *)
(* of the list puts it.                                                    *)
AddedIsOpen ==
  \A kind \in Kind : AddCase(kind)
     => ShownCase(text'.rules, order', open') \notin Ids(text.rules)

(* Going back in the input of a case gives an input of that case.          *)
UndoIsOwn == Undo => Last(undo)[1] = ShownCase(text.rules, order, open)
=============================================================================
