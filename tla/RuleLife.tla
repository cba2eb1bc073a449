------------------------------ MODULE RuleLife ------------------------------
(***************************************************************************)
(* What the rule store promises of the rules of a service, whatever copies *)
(* of them it keeps: a rule is drafted, confirmed once it has a testcase   *)
(* to run, taken out of service as a draft, or restored with a document    *)
(* that was kept; and no request changes more than its own cases.  Which   *)
(* contents a materialisation gives to a confirmed rule is left open.      *)
(***************************************************************************)
CONSTANTS
  Inst,    \* institutions
  Case,    \* case ids of the service
  Rule,    \* rules, with the fields input and extra
  NoExtra, \* no optional fields
  NoRule   \* no rule

VARIABLES
  current, \* current[i][c]: the confirmed rule of case c, NoRule if there is none
  draft,   \* draft[i][c]: its draft, NoRule if there is none
  ready,   \* ready[i]: the cases that have a testcase
  kept     \* kept[i]: the documents that can be restored

vars == <<current, draft, ready, kept>>

Doc == [Case -> Rule \cup {NoRule}]

Nothing == [c \in Case |-> NoRule]

(* The cases that a document holds.                                         *)
CasesOf(d) == {c \in Case : d[c] # NoRule}

Init ==
  /\ current = [i \in Inst |-> Nothing]
  /\ draft = [i \in Inst |-> Nothing]
  /\ ready = [i \in Inst |-> {}]
  /\ kept = [i \in Inst |-> {}]

-----------------------------------------------------------------------------
(* A document takes the place of all drafts.                                *)
Save(i, d) ==
  /\ d # Nothing
  /\ draft' = [draft EXCEPT ![i] = d]
  /\ UNCHANGED <<current, ready, kept>>

(* Rule r confirms draft d; the optional fields are d's if it has any.      *)
Confirms(r, d) ==
  r \in Rule /\ r.input = d.input /\ d.extra \in {NoExtra, r.extra}

(* The drafts of the cases S are confirmed, and no other case changes.      *)
Confirm(i, S) ==
  /\ S # {} /\ S \subseteq CasesOf(draft[i])
  /\ draft' = [draft EXCEPT ![i] = [c \in Case |-> IF c \in S THEN NoRule ELSE @[c]]]
  /\ \E d \in Doc : /\ current' = [current EXCEPT ![i] = d]
                    /\ \A c \in S : Confirms(d[c], draft[i][c])
                    /\ \A c \in Case \ S : d[c] = current[i][c]

(* A document says what draft[i] drafts, and names no other case that has no *)
(* rule.                                                                    *)
Covers(d, i) ==
  /\ \A c \in CasesOf(draft[i]) : d[c] # NoRule /\ d[c].input = draft[i][c].input
  /\ CasesOf(d) \subseteq CasesOf(draft[i]) \cup CasesOf(current[i])

Keeps(i, d) == kept' = [kept EXCEPT ![i] = @ \cup {d}]

(* All drafts, with the testcases that were missing; a document that covers *)
(* them is kept.                                                            *)
ConfirmAll(i) ==
  /\ Confirm(i, CasesOf(draft[i]))
  /\ ready' = [ready EXCEPT ![i] = @ \cup CasesOf(draft[i])]
  /\ \E d \in Doc : Covers(d, i) /\ Keeps(i, d)

(* Or the draft of one case, which has a testcase.                          *)
ConfirmCase(i, c) == c \in ready[i] /\ Confirm(i, {c}) /\ UNCHANGED <<ready, kept>>

(* What was confirmed becomes the draft where there is none.                *)
TakeOut(i, c) ==
  /\ current[i][c] # NoRule
  /\ current' = [current EXCEPT ![i][c] = NoRule]
  /\ draft' = [draft EXCEPT ![i][c] = IF @ = NoRule THEN current[i][c] ELSE @]
  /\ UNCHANGED <<ready, kept>>

(* The rules of a kept document are confirmed, no others are, and no drafts *)
(* stay; a document of what was confirmed until then is kept.               *)
Restore(i, d) ==
  /\ d \in kept[i]
  /\ current' = [current EXCEPT ![i] = d]
  /\ draft' = [draft EXCEPT ![i] = Nothing]
  /\ IF current[i] = Nothing THEN UNCHANGED kept
     ELSE \E e \in Doc \ {Nothing} : CasesOf(e) \subseteq CasesOf(current[i]) /\ Keeps(i, e)
  /\ UNCHANGED ready

Forget(i, d) ==
  /\ d \in kept[i]
  /\ kept' = [kept EXCEPT ![i] = @ \ {d}]
  /\ UNCHANGED <<current, draft, ready>>

(* Testcases come and go.  The rules they are made from are read again, but *)
(* none is confirmed or taken out of service by it and no draft changes.    *)
Materialise(i, d, R) ==
  /\ CasesOf(d) = CasesOf(current[i])
  /\ current' = [current EXCEPT ![i] = d]
  /\ ready' = [ready EXCEPT ![i] = R]
  /\ UNCHANGED <<draft, kept>>

Next ==
  \E i \in Inst :
    \/ \E d \in Doc : Save(i, d) \/ Restore(i, d) \/ Forget(i, d)
    \/ ConfirmAll(i)
    \/ \E c \in Case : ConfirmCase(i, c) \/ TakeOut(i, c)
    \/ \E d \in Doc, R \in SUBSET Case : Materialise(i, d, R)

Spec == Init /\ [][Next]_vars
=============================================================================
