------------------------------ MODULE PageProofs ------------------------------
(***************************************************************************)
(* Theorems about parts of the browser that hold what the user typed,      *)
(* picked or looks at while requests are under way, for any number of      *)
(* services, testcases and requests: the sheet of the rules of a service   *)
(* and its testcases, the text of the body of a step, the testcases that a *)
(* scenario picks, the dialog with the snapshots of rules, the result of a *)
(* run, the list of runs, the data pool, and the dialog that declares      *)
(* variables.  Requests are answered in any order.                         *)
(*                                                                         *)
(* Each part is an instance; parts share no state, and a variable or a     *)
(* constant that two of them name alike is one of each.                    *)
(***************************************************************************)
EXTENDS Naturals, FiniteSets, Sequences, FiniteSetTheorems, SequenceTheorems, TLAPS

CONSTANTS Svc, Text, Uses, MaxCalls, None, Failed

CONSTANTS Blank, TextOf
VARIABLES srv, selected, text, baseline, meta, loading, saving, toggling, pooling,
          dialog, calls, had

Editor == INSTANCE RulesEditor

-----------------------------------------------------------------------------
(* The sheet of the rules of a service. *)

(* What an editor is about. *)
EditorSetting ==
  /\ Blank \in Text /\ TextOf \in [Svc -> SUBSET Text]
  /\ None # Failed /\ {None, Failed} \cap Editor!Server = {}
  /\ None \notin [svc : Svc, draft : BOOLEAN]

Writer(c) == c.kind \in {"save", "activate"}

(* A save or a confirmation runs exactly while the flag is set, and alone. *)
Writes(on, cs) ==
  /\ ~on => \A c \in cs : ~Writer(c)
  /\ on => \E w \in cs : Writer(w) /\ \A c \in cs : Writer(c) => c = w

(* The server has done what was asked. *)
Did(c) == c.at # "req" \/ c.got \notin {None, Failed}

(* Where the documents of a call come from. *)
Follows(c, h, t) ==
  /\ c.got \notin {None, Failed} => c.got.text \in h
  /\ c.kind = "activate" => c.text \in h \cup {Blank}
  /\ c.kind = "save" /\ Did(c) => c.text \in h
  /\ c.close => c.kind = "save" /\ t \in h \cup {Blank, c.text}
  /\ c.at = "list" => c.kind \in {"save", "activate", "toggle"}
  /\ c.at = "meta" => c.kind \in {"save", "activate", "materialize"}

EditorDocs ==
  /\ Writes(saving, calls)
  /\ baseline \in had \cup {Blank}
  /\ \A s \in Svc : srv[s].text \in had
  /\ \A c \in calls : Follows(c, had, text)
  /\ dialog = "activate" => ~saving /\ text = baseline

EditorInv == Editor!TypeOK /\ EditorDocs

-----------------------------------------------------------------------------
(* Calls come and go. *)
LEMMA WritesAdd ==
  ASSUME NEW on \in BOOLEAN, NEW cs, NEW c, Writes(on, cs), ~Writer(c)
  PROVE  Writes(on, cs \cup {c})
BY DEF Writes

LEMMA WritesStart ==
  ASSUME NEW cs, NEW c, Writes(FALSE, cs), Writer(c)
  PROVE  Writes(TRUE, cs \cup {c})
BY DEF Writes

LEMMA WritesStay ==
  ASSUME NEW on \in BOOLEAN, NEW cs, NEW c \in cs, NEW d, d.kind = c.kind, Writes(on, cs)
  PROVE  Writes(on, (cs \ {c}) \cup {d})
BY DEF Writes, Writer

LEMMA WritesEnd ==
  ASSUME NEW on \in BOOLEAN, NEW cs, NEW c \in cs, NEW off \in BOOLEAN, Writes(on, cs),
         Writer(c) => ~off, ~Writer(c) => off = on
  PROVE  Writes(off, cs \ {c})
BY DEF Writes

(* What a request makes of a case is a case. *)
LEMMA EffectType ==
  ASSUME EditorSetting, Editor!TypeOK, NEW c \in calls
  PROVE  /\ Editor!Effect(c) \in Editor!Server
         /\ Editor!Effect(c).text \in {srv[c.svc].text, c.text}
         /\ c.kind = "save" /\ c.at = "req" => Editor!Effect(c).text = c.text
<1> DEFINE row == srv[c.svc]
<1>1. c \in Editor!Call /\ row \in Editor!Server
  BY DEF Editor!TypeOK, Editor!Call
<1>2. c.kind \in Editor!Kind /\ c.text \in Text /\ c.live \in BOOLEAN /\ Editor!Known(c) \in BOOLEAN
  BY <1>1 DEF Editor!Call, Editor!Known
<1> HIDE DEF row
<1>3. CASE c.at # "req"
  BY <1>1, <1>2, <1>3 DEF Editor!Effect, row
<1>4. CASE c.at = "req"
  <2>1. CASE c.kind = "load"
    BY <1>1, <1>4, <2>1 DEF Editor!Effect, row
  <2>2. CASE c.kind = "save"
    BY <1>1, <1>2, <1>4, <2>2 DEF Editor!Effect, Editor!Server, row
  <2>3. CASE c.kind = "activate"
    BY <1>1, <1>2, <1>4, <2>3 DEF Editor!Effect, Editor!Server, row
  <2>4. CASE c.kind = "materialize"
    BY <1>1, <1>2, <1>4, <2>4 DEF Editor!Effect, Editor!Server, row
  <2>5. CASE c.kind = "toggle"
    BY <1>1, <1>2, <1>4, <2>5 DEF Editor!Effect, Editor!Server, row
  <2> QED BY <1>2, <2>1, <2>2, <2>3, <2>4, <2>5 DEF Editor!Kind
<1> QED BY <1>3, <1>4

(* What a call that goes on is. *)
LEMMA StartType ==
  ASSUME NEW kind \in Editor!Kind, NEW s \in Svc, NEW t \in Text, NEW close \in BOOLEAN,
         NEW live \in BOOLEAN, Editor!TypeOK, Editor!Starts(kind, s, t, close, live)
  PROVE  calls' \subseteq Editor!Call
BY DEF Editor!TypeOK, Editor!Starts, Editor!Call

LEMMA GoesOnType ==
  ASSUME NEW c \in calls, NEW stage \in {"req", "list", "meta"}, Editor!TypeOK,
         Editor!GoesOn(c, stage)
  PROVE  calls' \subseteq Editor!Call
BY DEF Editor!TypeOK, Editor!GoesOn, Editor!Call

LEMMA EditorInitCorrect == ASSUME EditorSetting, Editor!Init PROVE EditorInv
<1>1. Editor!TypeOK
  BY DEF EditorSetting, Editor!Init, Editor!TypeOK, Editor!Server
<1> QED BY <1>1 DEF Editor!Init, EditorInv, EditorDocs, Writes

(* Types are kept. *)
LEMMA EditorTypes ==
  ASSUME EditorSetting, Editor!TypeOK, [Editor!Next]_(Editor!vars)
  PROVE  Editor!TypeOK'
<1> USE DEF Editor!shown, Editor!busy, Editor!IsOpen
<1>1. ASSUME NEW s \in Svc, Editor!OpenEdit(s) PROVE Editor!TypeOK'
  <2>1. calls' \subseteq Editor!Call
    BY <1>1, StartType DEF Editor!OpenEdit, Editor!Kind, EditorSetting
  <2> QED BY <1>1, <2>1 DEF Editor!OpenEdit, Editor!TypeOK, EditorSetting
<1>2. CASE Editor!RequestClose
  BY <1>2 DEF Editor!RequestClose, Editor!Closed, Editor!TypeOK, EditorSetting
<1>3. ASSUME NEW t \in Text, Editor!Type(t) PROVE Editor!TypeOK'
  BY <1>3 DEF Editor!Type, Editor!TypeOK
<1>4. CASE Editor!Cancel \/ Editor!Discard
  BY <1>4 DEF Editor!Cancel, Editor!Discard, Editor!Closed, Editor!TypeOK, EditorSetting
<1>5. selected # None => selected.svc \in Svc
  BY DEF Editor!TypeOK
<1>6. ASSUME NEW close \in BOOLEAN, Editor!SaveDraft(close), Editor!IsOpen PROVE Editor!TypeOK'
  <2>1. calls' \subseteq Editor!Call
    <3>1. "save" \in Editor!Kind /\ selected.svc \in Svc /\ text \in Text /\ FALSE \in BOOLEAN
      BY <1>5, <1>6 DEF Editor!TypeOK, Editor!Kind
    <3> QED BY <1>6, <3>1, StartType, Zenon DEF Editor!SaveDraft
  <2> QED BY <1>6, <2>1 DEF Editor!SaveDraft, Editor!TypeOK
<1>7. CASE Editor!Save \/ Editor!SaveAndClose
  BY <1>6, <1>7 DEF Editor!Save, Editor!SaveAndClose
<1>8. CASE Editor!AskActivate \/ Editor!AskMaterialize
  BY <1>8 DEF Editor!AskActivate, Editor!AskMaterialize, Editor!Ask, Editor!TypeOK
<1>9. CASE Editor!RunActivate
  <2>1. calls' \subseteq Editor!Call
    BY <1>5, <1>9, StartType DEF Editor!RunActivate, Editor!TypeOK, Editor!Kind
  <2> QED BY <1>9, <2>1 DEF Editor!RunActivate, Editor!TypeOK
<1>10. CASE Editor!ToggleCaseApplied
  <2>1. meta \in Editor!Server /\ meta.live \in BOOLEAN /\ selected # None
    BY <1>10 DEF Editor!ToggleCaseApplied, Editor!CanToggle, Editor!CaseButtons, Editor!TypeOK, Editor!Server
  <2>2. calls' \subseteq Editor!Call
    <3>1. "toggle" \in Editor!Kind /\ selected.svc \in Svc /\ text \in Text /\ FALSE \in BOOLEAN
      BY <1>5, <2>1 DEF Editor!TypeOK, Editor!Kind
    <3> QED BY <1>10, <2>1, <3>1, StartType, Zenon DEF Editor!ToggleCaseApplied
  <2> QED BY <1>10, <2>1, <2>2 DEF Editor!ToggleCaseApplied, Editor!TypeOK
<1>11. CASE Editor!MaterializeOneCase
  <2>1. calls' \subseteq Editor!Call
    BY <1>5, <1>11, StartType DEF Editor!MaterializeOneCase, Editor!TypeOK, Editor!Kind
  <2> QED BY <1>11, <2>1 DEF Editor!MaterializeOneCase, Editor!TypeOK
<1>12. ASSUME NEW c \in calls, Editor!Serve(c) PROVE Editor!TypeOK'
  <2>1. Editor!Effect(c) \in Editor!Server /\ c \in Editor!Call
    BY EffectType DEF Editor!TypeOK
  <2>2. srv' \in [Svc -> Editor!Server] /\ had' \subseteq Text
    BY <1>12, <2>1 DEF Editor!Serve, Editor!TypeOK, Editor!Server, Editor!Call
  <2>3. ASSUME NEW got \in Editor!Server \cup {Failed} PROVE [c EXCEPT !.got = got] \in Editor!Call
    BY <2>1 DEF Editor!Call
  <2>4. srv'[c.svc] \in Editor!Server
    BY <2>1, <2>2 DEF Editor!Call
  <2>5. calls' \subseteq Editor!Call
    BY <1>12, <2>3, <2>4 DEF Editor!Serve, Editor!TypeOK
  <2> QED BY <1>12, <2>2, <2>5 DEF Editor!Serve, Editor!TypeOK
<1>13. ASSUME NEW c \in calls, Editor!Answer(c) PROVE Editor!TypeOK'
  <2>1. c \in Editor!Call
    BY DEF Editor!TypeOK
  <2>2. c.got \notin {None, Failed} => /\ c.got \in Editor!Server
                                       /\ c.got.text \in Text /\ c.got.draft \in BOOLEAN
    BY <2>1 DEF Editor!Call, Editor!Server
  <2>3. c.text \in Text /\ c.svc \in Svc /\ c.kind \in Editor!Kind
    BY <2>1 DEF Editor!Call
  <2>4. ASSUME NEW d \in BOOLEAN
        PROVE  selected # None => [selected EXCEPT !.draft = d] \in [svc : Svc, draft : BOOLEAN]
    BY DEF Editor!TypeOK
  <2>5. CASE Editor!LoadEditor(c)
    BY <2>2, <2>3, <2>4, <2>5 DEF Editor!LoadEditor, Editor!Shows, Editor!Ends, Editor!TypeOK, EditorSetting
  <2>6. CASE Editor!ToggleAnswer(c)
    <3>1. calls' \subseteq Editor!Call
      BY <2>6, GoesOnType DEF Editor!ToggleAnswer
    <3> QED BY <2>2, <2>4, <2>6, <3>1 DEF Editor!ToggleAnswer, Editor!Answered, Editor!Shows, Editor!TypeOK, EditorSetting
  <2>7. CASE Editor!RequestAnswer(c)
    <3>1. calls' \subseteq Editor!Call
      BY <2>7, GoesOnType DEF Editor!RequestAnswer
    <3> QED BY <2>7, <3>1 DEF Editor!RequestAnswer, Editor!TypeOK
  <2>8. CASE Editor!ListAnswer(c)
    <3>1. calls' \subseteq Editor!Call
      BY <2>8, GoesOnType DEF Editor!ListAnswer, Editor!Ends, Editor!TypeOK
    <3>2. baseline' \in Text /\ toggling' \in BOOLEAN /\ (toggling' => toggling)
      BY <2>3, <2>8 DEF Editor!ListAnswer, Editor!TypeOK
    <3>3. selected' \in [svc : Svc, draft : BOOLEAN] \cup {None} /\ (selected # None => selected' # None)
      <4>1. (c.kind = "save") \in BOOLEAN
        OBVIOUS
      <4>2. selected # None => Editor!Merged(selected, c.kind) \in [svc : Svc, draft : BOOLEAN]
        BY <2>4, <4>1 DEF Editor!Merged
      <4>3. c.got \notin {None, Failed} => [svc |-> c.svc, draft |-> c.got.draft] \in [svc : Svc, draft : BOOLEAN]
        BY <2>2, <2>3
      <4>4. None \notin [svc : Svc, draft : BOOLEAN] /\ selected \in [svc : Svc, draft : BOOLEAN] \cup {None}
        BY DEF EditorSetting, Editor!TypeOK
      <4> QED BY <2>8, <4>2, <4>3, <4>4 DEF Editor!ListAnswer
    <3> QED BY <2>8, <3>1, <3>2, <3>3 DEF Editor!ListAnswer, Editor!TypeOK
  <2>9. CASE Editor!FailAnswer(c)
    BY <2>9 DEF Editor!FailAnswer, Editor!Finally, Editor!Ends, Editor!TypeOK
  <2>10. CASE Editor!MetaAnswer(c)
    BY <2>2, <2>10 DEF Editor!MetaAnswer, Editor!Answered, Editor!Finally, Editor!Ends, Editor!Closed, Editor!TypeOK, EditorSetting
  <2> QED BY <1>13, <2>5, <2>6, <2>7, <2>8, <2>9, <2>10 DEF Editor!Answer
<1>14. CASE UNCHANGED Editor!vars
  BY <1>14 DEF Editor!vars, Editor!TypeOK
<1> QED BY <1>1, <1>2, <1>3, <1>4, <1>7, <1>8, <1>9, <1>10, <1>11, <1>12, <1>13, <1>14
        DEF Editor!Next, Editor!Proceeds

(* A call stays what it is when more documents are known, and the text of  *)
(* the sheet is one of them.                                               *)
LEMMA FollowsMore ==
  ASSUME NEW c, NEW h, NEW t, NEW g, NEW u, Follows(c, h, t), h \subseteq g,
         c.close => u \in g \cup {Blank, t}
  PROVE  Follows(c, g, u)
BY DEF Follows

(* The records of a call. *)
LEMMA CallFields ==
  ASSUME NEW c \in Editor!Call, NEW got, NEW stage
  PROVE  /\ [c EXCEPT !.got = got].kind = c.kind /\ [c EXCEPT !.got = got].svc = c.svc
         /\ [c EXCEPT !.got = got].text = c.text /\ [c EXCEPT !.got = got].close = c.close
         /\ [c EXCEPT !.got = got].at = c.at /\ [c EXCEPT !.got = got].got = got
         /\ [c EXCEPT !.at = stage, !.got = None].kind = c.kind
         /\ [c EXCEPT !.at = stage, !.got = None].text = c.text
         /\ [c EXCEPT !.at = stage, !.got = None].close = c.close
         /\ [c EXCEPT !.at = stage, !.got = None].at = stage
         /\ [c EXCEPT !.at = stage, !.got = None].got = None
BY DEF Editor!Call

LEMMA EditorStep ==
  ASSUME EditorSetting, EditorInv, [Editor!Next]_(Editor!vars)
  PROVE  EditorInv'
<1> USE DEF EditorDocs, Editor!shown, Editor!busy, Editor!IsOpen
<1>1. Editor!TypeOK /\ Editor!TypeOK'
  BY EditorTypes DEF EditorInv
<1>2. /\ saving \in BOOLEAN /\ calls \subseteq Editor!Call
      /\ \A c \in calls : c \in Editor!Call /\ c.close \in BOOLEAN
  BY <1>1 DEF Editor!TypeOK, Editor!Call
<1>3. ~saving => \A c \in calls : ~Writer(c) /\ ~c.close
  BY <1>2 DEF EditorInv, Writes, Follows, Writer
<1>4. SUFFICES EditorDocs'
  BY <1>1 DEF EditorInv
<1>5. ASSUME NEW s \in Svc, Editor!OpenEdit(s)
      PROVE  EditorDocs'
  <2> DEFINE new == [kind |-> "load", svc |-> s, text |-> Blank, close |-> FALSE,
                     live |-> FALSE, at |-> "req", got |-> None]
  <2>1. calls' = calls \cup {new} /\ saving' = saving /\ dialog = "none"
    BY <1>1, <1>5 DEF Editor!OpenEdit, Editor!Starts, Editor!TypeOK
  <2>2. ~Writer(new) /\ Follows(new, had, Blank)
    BY DEF Writer, Follows
  <2>3. Writes(saving', calls')
    <3> HIDE DEF new
    <3> QED BY <1>2, <2>1, <2>2, WritesAdd DEF EditorInv
  <2>4. \A c \in calls : Follows(c, had, Blank)
    BY FollowsMore DEF EditorInv
  <2> HIDE DEF new
  <2> QED BY <1>5, <2>1, <2>2, <2>3, <2>4 DEF Editor!OpenEdit, EditorInv
<1>6. ASSUME Editor!Closed, UNCHANGED <<srv, had, calls>>, saving' = saving
      PROVE  EditorDocs'
  <2>1. \A c \in calls : Follows(c, had, Blank)
    BY FollowsMore DEF EditorInv
  <2> QED BY <1>6, <2>1 DEF Editor!Closed, EditorInv
<1>7. CASE Editor!RequestClose
  BY <1>6, <1>7 DEF Editor!RequestClose, EditorInv
<1>8. ASSUME NEW t \in Text, Editor!Type(t)
      PROVE  EditorDocs'
  <2>1. \A c \in calls : Follows(c, had, t)
    BY <1>3, <1>8, FollowsMore DEF EditorInv, Editor!Type
  <2> QED BY <1>8, <2>1 DEF Editor!Type, EditorInv
<1>9. CASE Editor!Cancel \/ Editor!Discard
  BY <1>6, <1>9 DEF Editor!Cancel, Editor!Discard, EditorInv
<1>10. ASSUME NEW close \in BOOLEAN, Editor!SaveDraft(close), ~saving
       PROVE  EditorDocs'
  <2> DEFINE new == [kind |-> "save", svc |-> selected.svc, text |-> text, close |-> close,
                     live |-> FALSE, at |-> "req", got |-> None]
  <2>1. calls' = calls \cup {new} /\ saving' = TRUE
    BY <1>10 DEF Editor!SaveDraft, Editor!Starts
  <2>2. Writer(new) /\ Follows(new, had, text)
    BY DEF Writer, Follows, Did
  <2> HIDE DEF new
  <2>3. Writes(TRUE, calls')
    BY <1>10, <2>1, <2>2, WritesStart DEF EditorInv, Writes
  <2> QED BY <1>10, <2>1, <2>2, <2>3 DEF Editor!SaveDraft, EditorInv
<1>11. CASE Editor!Save \/ Editor!SaveAndClose
  BY <1>10, <1>11 DEF Editor!Save, Editor!SaveAndClose
<1>12. CASE Editor!AskActivate \/ Editor!AskMaterialize
  BY <1>12 DEF Editor!AskActivate, Editor!AskMaterialize, Editor!Ask, Editor!Dirty, EditorInv
<1>13. CASE Editor!RunActivate
  <2> DEFINE new == [kind |-> "activate", svc |-> selected.svc, text |-> text, close |-> FALSE,
                     live |-> FALSE, at |-> "req", got |-> None]
  <2>1. calls' = calls \cup {new} /\ saving' = TRUE
    BY <1>13 DEF Editor!RunActivate, Editor!Starts
  <2>2. text \in had \cup {Blank} /\ ~saving
    BY <1>13 DEF Editor!RunActivate, EditorInv
  <2>3. Writer(new) /\ Follows(new, had, text)
    BY <2>2 DEF Writer, Follows
  <2> HIDE DEF new
  <2>4. Writes(TRUE, calls')
    BY <2>1, <2>2, <2>3, WritesStart DEF EditorInv, Writes
  <2> QED BY <1>13, <2>1, <2>3, <2>4 DEF Editor!RunActivate, EditorInv
<1>14. CASE Editor!ToggleCaseApplied
  <2> DEFINE new == [kind |-> "toggle", svc |-> selected.svc, text |-> text, close |-> FALSE,
                     live |-> meta.live, at |-> "req", got |-> None]
  <2>1. calls' = calls \cup {new} /\ saving' = saving
    BY <1>14 DEF Editor!ToggleCaseApplied, Editor!Starts
  <2>2. ~Writer(new) /\ Follows(new, had, text)
    BY DEF Writer, Follows
  <2> HIDE DEF new
  <2>3. Writes(saving', calls')
    BY <1>2, <2>1, <2>2, WritesAdd DEF EditorInv
  <2> QED BY <1>14, <2>1, <2>2, <2>3 DEF Editor!ToggleCaseApplied, EditorInv
<1>15. CASE Editor!MaterializeOneCase
  <2> DEFINE new == [kind |-> "materialize", svc |-> selected.svc, text |-> text, close |-> FALSE,
                     live |-> FALSE, at |-> "req", got |-> None]
  <2>1. calls' = calls \cup {new} /\ saving' = saving
    BY <1>15 DEF Editor!MaterializeOneCase, Editor!Starts
  <2>2. ~Writer(new) /\ Follows(new, had, text)
    BY DEF Writer, Follows
  <2> HIDE DEF new
  <2>3. Writes(saving', calls')
    BY <1>2, <2>1, <2>2, WritesAdd DEF EditorInv
  <2> QED BY <1>15, <2>1, <2>2, <2>3 DEF Editor!MaterializeOneCase, EditorInv
<1>16. ASSUME NEW c \in calls, Editor!Serve(c)
       PROVE  EditorDocs'
  <2>1. PICK got : /\ calls' = (calls \ {c}) \cup {[c EXCEPT !.got = got]}
                   /\ \/ got = Failed /\ UNCHANGED <<srv, had>>
                      \/ /\ got \in {srv'[c.svc], Failed}
                         /\ srv' = [srv EXCEPT ![c.svc] = Editor!Effect(c)]
                         /\ had' = had \cup {srv'[c.svc].text}
    BY <1>16 DEF Editor!Serve
  <2> DEFINE d == [c EXCEPT !.got = got]
  <2>2. /\ d.kind = c.kind /\ d.text = c.text /\ d.close = c.close /\ d.at = c.at
        /\ d.got = got
    BY <1>2, CallFields
  <2>3. UNCHANGED <<text, baseline, dialog, saving>>
    BY <1>16 DEF Editor!Serve
  <2> HIDE DEF d
  <2>4. Writes(saving', calls')
    BY <1>2, <2>1, <2>2, <2>3, WritesStay DEF EditorInv, d
  <2>5. c.svc \in Svc /\ srv \in [Svc -> Editor!Server]
    BY <1>1 DEF Editor!TypeOK, Editor!Call
  <2>6. CASE got = Failed /\ UNCHANGED <<srv, had>>
    <3>1. Follows(d, had, text)
      BY <2>2, <2>6 DEF EditorInv, Follows, Did
    <3> QED BY <2>1, <2>3, <2>4, <2>6, <3>1 DEF EditorInv, d
  <2>7. CASE /\ got \in {srv'[c.svc], Failed}
             /\ srv' = [srv EXCEPT ![c.svc] = Editor!Effect(c)]
             /\ had' = had \cup {srv'[c.svc].text}
    <3>1. srv'[c.svc] = Editor!Effect(c)
      BY <2>5, <2>7
    <3>2. \A s \in Svc : srv'[s].text \in had'
      BY <2>5, <2>7 DEF EditorInv
    <3>3. had \subseteq had'
      BY <2>7
    <3>4. \A k \in calls : Follows(k, had', text)
      BY <3>3, FollowsMore DEF EditorInv
    <3>5. c.kind = "save" /\ Did(d) => c.text \in had'
      BY <1>1, <2>2, <2>7, <3>1, <3>4, EffectType DEF Follows, Did
    <3>6. Follows(d, had', text)
      BY <2>2, <2>7, <3>4, <3>5 DEF Follows
    <3> QED BY <2>1, <2>3, <2>4, <3>2, <3>3, <3>4, <3>6 DEF EditorInv, d
  <2> QED BY <2>1, <2>6, <2>7
<1>17. ASSUME NEW c \in calls, NEW stage \in {"list", "meta"}, Editor!GoesOn(c, stage),
              UNCHANGED <<srv, had, saving>>, text' \in had \cup {text}, Did(c),
              stage = "list" => c.kind \in {"save", "activate", "toggle"},
              stage = "meta" => c.kind \in {"save", "activate", "materialize"}
       PROVE  /\ Writes(saving', calls')
              /\ \A s \in Svc : srv'[s].text \in had'
              /\ \A k \in calls' : Follows(k, had', text')
  <2> DEFINE d == [c EXCEPT !.at = stage, !.got = None]
  <2>1. d.kind = c.kind /\ d.text = c.text /\ d.close = c.close /\ d.at = stage /\ d.got = None
    BY <1>2, CallFields
  <2>2. calls' = (calls \ {c}) \cup {d}
    BY <1>17 DEF Editor!GoesOn
  <2> HIDE DEF d
  <2>3. Writes(saving', calls')
    BY <1>2, <1>17, <2>1, <2>2, WritesStay DEF EditorInv
  <2>4. \A k \in calls : Follows(k, had, text')
    BY <1>17, FollowsMore DEF EditorInv
  <2>5. Follows(d, had, text')
    BY <1>17, <2>1, <2>4 DEF Follows
  <2> QED BY <1>17, <2>2, <2>3, <2>4, <2>5 DEF EditorInv
<1>18. ASSUME NEW c \in calls, Editor!Ends(c), UNCHANGED <<srv, had>>, saving' \in BOOLEAN,
              text' \in had \cup {text, Blank},
              Writer(c) => ~saving', ~Writer(c) => saving' = saving
       PROVE  /\ Writes(saving', calls')
              /\ \A s \in Svc : srv'[s].text \in had'
              /\ \A k \in calls' : Follows(k, had', text')
  <2>1. Writes(saving', calls')
    BY <1>2, <1>18, WritesEnd DEF EditorInv, Editor!Ends
  <2>2. \A k \in calls : Follows(k, had, text')
    BY <1>18, FollowsMore DEF EditorInv
  <2> QED BY <1>18, <2>1, <2>2 DEF EditorInv, Editor!Ends
<1>19. ASSUME NEW c \in calls, Editor!Answer(c)
       PROVE  EditorDocs'
  <2>1. Follows(c, had, text) /\ c.close \in BOOLEAN /\ c.kind \in Editor!Kind
    BY <1>2 DEF EditorInv, Editor!Call
  <2>2. CASE Editor!LoadEditor(c)
    <3>1. UNCHANGED <<text, baseline>> \/ (text' = baseline' /\ text' \in had)
      BY <2>1, <2>2 DEF Editor!LoadEditor, Editor!Shows, Follows
    <3>2. ~Writer(c) /\ Editor!Ends(c) /\ UNCHANGED <<srv, had, saving, dialog>>
      BY <2>2 DEF Editor!LoadEditor, Writer
    <3> QED BY <1>2, <1>18, <3>1, <3>2 DEF EditorInv
  <2>3. CASE Editor!ToggleAnswer(c)
    <3>1. text' = baseline' /\ text' \in had
      BY <2>1, <2>3 DEF Editor!ToggleAnswer, Editor!Answered, Editor!Shows, Follows
    <3>2. /\ Editor!GoesOn(c, "list") /\ UNCHANGED <<srv, had, saving, dialog>>
          /\ Did(c) /\ c.kind = "toggle"
      BY <2>3 DEF Editor!ToggleAnswer, Editor!Answered, Did
    <3> QED BY <1>17, <3>1, <3>2 DEF EditorInv
  <2>4. CASE Editor!RequestAnswer(c)
    BY <1>17, <2>4 DEF Editor!RequestAnswer, Editor!Answered, Did, EditorInv
  <2>5. CASE Editor!ListAnswer(c)
    <3>1. Did(c) /\ c.at = "list" /\ UNCHANGED <<srv, had, text, saving, dialog>>
      BY <2>5 DEF Editor!ListAnswer, Did
    <3>2. CASE c.kind = "toggle"
      <4>1. Editor!Ends(c) /\ UNCHANGED baseline /\ ~Writer(c)
        BY <2>5, <3>2 DEF Editor!ListAnswer, Writer
      <4> QED BY <1>2, <1>18, <3>1, <4>1 DEF EditorInv
    <3>3. CASE c.kind # "toggle"
      <4>1. Editor!GoesOn(c, "meta") /\ baseline' = c.text /\ c.kind \in {"save", "activate"}
        BY <2>1, <2>5, <3>1, <3>3 DEF Editor!ListAnswer, Follows
      <4>2. c.text \in had \cup {Blank}
        BY <2>1, <3>1, <4>1 DEF Follows
      <4>3. saving
        BY <1>3, <4>1 DEF Writer
      <4> QED BY <1>17, <3>1, <4>1, <4>2, <4>3 DEF EditorInv
    <3> QED BY <3>2, <3>3
  <2>6. CASE Editor!FailAnswer(c)
    <3>1. /\ Editor!Ends(c) /\ UNCHANGED <<srv, had, text, baseline, dialog>>
          /\ saving' = IF Writer(c) THEN FALSE ELSE saving
      BY <2>6 DEF Editor!FailAnswer, Editor!Finally, Writer
    <3>2. dialog = "activate" => ~saving'
      BY <1>2, <3>1 DEF EditorInv
    <3> QED BY <1>2, <1>18, <3>1, <3>2 DEF EditorInv
  <2>7. CASE Editor!MetaAnswer(c)
    <3>1. Editor!Ends(c) /\ UNCHANGED <<srv, had>>
      BY <2>7 DEF Editor!MetaAnswer
    <3>2. CASE c.close
      <4>1. text' = Blank /\ baseline' = Blank /\ dialog' = "none" /\ ~saving' /\ saving' = FALSE
        BY <2>7, <3>2 DEF Editor!MetaAnswer, Editor!Closed
      <4>2. Writer(c)
        BY <2>1, <3>2 DEF Follows, Writer
      <4> QED BY <1>18, <3>1, <4>1, <4>2
    <3>3. CASE ~c.close
      <4>1. UNCHANGED <<text, baseline, dialog>> /\ saving' = IF Writer(c) THEN FALSE ELSE saving
        BY <2>7, <3>3 DEF Editor!MetaAnswer, Editor!Finally, Writer
      <4>2. dialog = "activate" => ~saving'
        BY <1>2, <4>1 DEF EditorInv
      <4> QED BY <1>2, <1>18, <3>1, <4>1, <4>2 DEF EditorInv
    <3> QED BY <2>1, <3>2, <3>3
  <2> QED BY <1>19, <2>2, <2>3, <2>4, <2>5, <2>6, <2>7 DEF Editor!Answer
<1>20. CASE UNCHANGED Editor!vars
  BY <1>20 DEF Editor!vars, EditorInv
<1> QED BY <1>5, <1>7, <1>8, <1>9, <1>11, <1>12, <1>13, <1>14, <1>15, <1>16, <1>19, <1>20
        DEF Editor!Next, Editor!Proceeds

(* What is proved of a sheet holds in every state. *)
THEOREM EditorCorrect == ASSUME EditorSetting PROVE Editor!Spec => []EditorInv
<1>1. Editor!Init => EditorInv
  BY EditorInitCorrect
<1>2. EditorInv /\ [Editor!Next]_(Editor!vars) => EditorInv'
  BY EditorStep
<1> QED BY <1>1, <1>2, PTL DEF Editor!Spec

(* Types of the variables; nothing of a sheet that was closed is left open   *)
(* or marked as under way (closePanel).                                      *)
THEOREM EditorTypeCorrect == ASSUME EditorSetting PROVE Editor!Spec => []Editor!TypeOK
<1>1. EditorInv => Editor!TypeOK
  BY DEF EditorInv
<1> QED BY <1>1, EditorCorrect, PTL

(* A save and a confirmation of all drafts never run at once, and the flag   *)
(* that keeps the sheet from being closed tells whether one runs (saveDraft, *)
(* runActivate): however many requests are under way, in any order of their  *)
(* answers.                                                                  *)
THEOREM OneWriterCorrect == ASSUME EditorSetting PROVE Editor!Spec => []Editor!OneWriter
<1>1. EditorInv => Editor!OneWriter
  <2> SUFFICES ASSUME EditorInv PROVE Editor!OneWriter
    OBVIOUS
  <2> DEFINE writers == {c \in calls : c.kind \in {"save", "activate"}}
  <2>1. ~saving => writers = {}
    BY DEF EditorInv, EditorDocs, Writes, Writer
  <2>2. saving => \E w : writers = {w}
    BY DEF EditorInv, EditorDocs, Writes, Writer
  <2> HIDE DEF writers
  <2>3. Cardinality(writers) = IF saving THEN 1 ELSE 0
    BY <2>1, <2>2, FS_EmptySet, FS_Singleton
  <2> QED BY <2>3, Zenon DEF Editor!OneWriter, writers, Editor!Cardinality, Cardinality
<1> QED BY <1>1, EditorCorrect, PTL

(* A document that the server never held does not go away with the sheet     *)
(* unless the user is asked (requestClosePanel, applySavedBundle), and what  *)
(* the sheet takes for unedited is not such a document.                      *)
THEOREM NoLossCorrect ==
  ASSUME EditorSetting PROVE Editor!Spec => [][Editor!NoSilentLoss]_(Editor!vars)
<1>1. EditorInv /\ EditorInv' /\ [Editor!Next]_(Editor!vars)
        => [Editor!NoSilentLoss]_(Editor!vars)
  <2>a. EditorInv' => (~Editor!Dirty' => text' \in had' \cup {Blank})
    BY DEF EditorInv, EditorDocs, Editor!Dirty
  <2> SUFFICES ASSUME EditorInv, Editor!Next, selected # None, selected' = None,
                      dialog # "close"
               PROVE  text \in had \cup {Blank}
    BY <2>a DEF Editor!NoSilentLoss, Editor!IsOpen
  <2> USE DEF Editor!shown, Editor!busy, Editor!IsOpen
  <2>1. CASE Editor!RequestClose
    BY <2>1 DEF Editor!RequestClose, Editor!Dirty, EditorInv, EditorDocs
  <2>2. CASE Editor!Discard
    BY <2>2 DEF Editor!Discard
  <2>3. ASSUME NEW c \in calls, Editor!MetaAnswer(c) PROVE text \in had \cup {Blank}
    <3>1. c.close /\ Follows(c, had, text) /\ Did(c)
      BY <2>3 DEF Editor!MetaAnswer, Editor!Answered, EditorInv, EditorDocs, Did
    <3> QED BY <3>1 DEF Follows
  <2>4. ASSUME NEW c \in calls, Editor!LoadEditor(c) \/ Editor!ToggleAnswer(c) \/ Editor!ListAnswer(c)
        PROVE  FALSE
    <3>1. /\ None \notin [svc : Svc, draft : BOOLEAN] /\ selected \in [svc : Svc, draft : BOOLEAN]
          /\ c \in Editor!Call
      BY DEF EditorSetting, EditorInv, Editor!TypeOK
    <3>2. c.got \notin {None, Failed} => c.got.draft \in BOOLEAN
      BY <3>1 DEF Editor!Call, Editor!Server
    <3>3. \A d \in BOOLEAN : [selected EXCEPT !.draft = d] # None
      BY <3>1
    <3>4. CASE Editor!LoadEditor(c)
      BY <3>2, <3>3, <3>4 DEF Editor!LoadEditor
    <3>5. CASE Editor!ToggleAnswer(c)
      BY <3>2, <3>3, <3>5 DEF Editor!ToggleAnswer, Editor!Answered
    <3>6. CASE Editor!ListAnswer(c)
      <4>1. (c.kind = "save") \in BOOLEAN /\ c.svc \in Svc
        BY <3>1 DEF Editor!Call
      <4>2. Editor!Merged(selected, c.kind) # None
        BY <3>3, <4>1 DEF Editor!Merged
      <4>3. c.got \notin {None, Failed} => [svc |-> c.svc, draft |-> c.got.draft] # None
        BY <3>1, <3>2, <4>1
      <4> QED BY <3>6, <4>2, <4>3 DEF Editor!ListAnswer
    <3> QED BY <2>4, <3>4, <3>5, <3>6
  <2>5. ASSUME NEW s \in Svc, Editor!OpenEdit(s) PROVE FALSE
    BY <2>5 DEF Editor!OpenEdit
  <2>6. ASSUME NEW t \in Text, Editor!Type(t) PROVE FALSE
    BY <2>6 DEF Editor!Type
  <2>7. CASE Editor!Cancel \/ Editor!Save \/ Editor!SaveAndClose
    BY <2>7 DEF Editor!Cancel, Editor!Save, Editor!SaveAndClose, Editor!SaveDraft
  <2>8. CASE Editor!AskActivate \/ Editor!RunActivate \/ Editor!ToggleCaseApplied
             \/ Editor!AskMaterialize \/ Editor!MaterializeOneCase
    BY <2>8 DEF Editor!AskActivate, Editor!RunActivate, Editor!ToggleCaseApplied,
                Editor!AskMaterialize, Editor!MaterializeOneCase, Editor!Ask
  <2>9. ASSUME NEW c \in calls,
               Editor!Serve(c) \/ Editor!RequestAnswer(c) \/ Editor!FailAnswer(c)
        PROVE  FALSE
    BY <2>9 DEF Editor!Serve, Editor!RequestAnswer, Editor!FailAnswer
  <2> QED BY <2>1, <2>2, <2>3, <2>4, <2>5, <2>6, <2>7, <2>8, <2>9
          DEF Editor!Next, Editor!Proceeds, Editor!Answer
<1> QED BY <1>1, EditorCorrect, PTL DEF Editor!Spec

-----------------------------------------------------------------------------
CONSTANTS Step, First, Own, Field, Given, Fixed, Token, Cut, Wrong
VARIABLES page, sel, bind, known, draft, dirty, error, timer, snap, focus, saved, typed

Draft == INSTANCE StepDraft

-----------------------------------------------------------------------------
(* The text of the body of a step. *)

(* What a draft is about. *)
DraftSetting ==
  /\ First \in Step /\ Own \subseteq Step
  /\ {Cut, Wrong, None} \cap Draft!Body = {} /\ None \notin Draft!Cfg

(* A text that is not being worked on says what is bound. *)
SaysBound ==
  ~dirty => Draft!EditorBody(Draft!SampleOf(sel), bind[sel]) = Draft!Over(Draft!SampleOf(sel), draft)

DraftInv == Draft!TypeOK /\ Draft!NothingWaits /\ SaysBound

(* Bodies. *)
LEMMA BodyIs ==
  ASSUME NEW b
  PROVE  b \in Draft!Body <=> /\ DOMAIN b \subseteq Field
                              /\ b \in [DOMAIN b -> Draft!Value]
BY DEF Draft!Body

LEMMA OverType ==
  ASSUME NEW t \in Draft!Body, NEW d \in Draft!Body
  PROVE  Draft!Over(t, d) \in Draft!Body
<1>1. \A f \in DOMAIN t : t[f] \in Draft!Value /\ f \in Field
  BY BodyIs
<1>2. \A f \in DOMAIN d : d[f] \in Draft!Value /\ f \in Field
  BY BodyIs
<1>3. Draft!Over(t, d) \in [DOMAIN t \cup DOMAIN d -> Draft!Value]
  BY <1>1, <1>2 DEF Draft!Over
<1>4. DOMAIN t \cup DOMAIN d \in SUBSET Field
  BY <1>1, <1>2
<1> QED BY <1>3, <1>4 DEF Draft!Body

LEMMA SampleType ==
  ASSUME NEW s, NEW of
  PROVE  Draft!BodyOf(s, of) \in Draft!Body
<1> DEFINE fields == IF s \in of THEN Field ELSE {}
<1>1. fields \in SUBSET Field
  OBVIOUS
<1> HIDE DEF fields
<1>2. [f \in fields |-> Given] \in [fields -> Draft!Value]
  BY DEF Draft!Value
<1>3. Draft!BodyOf(s, of) = [f \in fields |-> Given]
  BY DEF Draft!BodyOf, fields
<1> QED BY <1>1, <1>2, <1>3 DEF Draft!Body

LEMMA CfgIs ==
  ASSUME NEW cfg \in Draft!Cfg
  PROVE  cfg.ovr \in Draft!Body /\ cfg.inj \in Draft!Body
<1>1. cfg.ovr \in Draft!Body
  BY DEF Draft!Cfg, Draft!Body
<1>2. PICK fields \in SUBSET Field : cfg.inj \in [fields -> Token]
  BY DEF Draft!Cfg
<1>3. cfg.inj \in [fields -> Draft!Value]
  BY <1>2 DEF Draft!Value
<1> QED BY <1>1, <1>2, <1>3 DEF Draft!Body

LEMMA EditorBodyType ==
  ASSUME NEW t \in Draft!Body, NEW cfg \in Draft!Cfg
  PROVE  Draft!EditorBody(t, cfg) \in Draft!Body
BY OverType, CfgIs DEF Draft!EditorBody

LEMMA EmptyType == Draft!Empty \in Draft!Cfg
<1>1. [f \in {} |-> Given] \in [{} -> Draft!Value] /\ [f \in {} |-> Given] \in [{} -> Token]
  OBVIOUS
<1> QED BY <1>1 DEF Draft!Empty, Draft!Cfg

LEMMA ParseType ==
  ASSUME NEW t \in Draft!Body, NEW d \in Draft!Body
  PROVE  Draft!ParseBody(t, d) \in Draft!Cfg
<1>1. \A f \in DOMAIN d : d[f] \in Draft!Value /\ f \in Field
  BY BodyIs
<1> DEFINE O == {f \in DOMAIN d : d[f] \notin Token /\ (f \in DOMAIN t => d[f] # t[f])}
           I == {f \in DOMAIN d : d[f] \in Token}
<1>2. [f \in O |-> d[f]] \in [O -> Draft!Value] /\ O \in SUBSET Field
  BY <1>1
<1>3. [f \in I |-> d[f]] \in [I -> Token] /\ I \in SUBSET Field
  BY <1>1
<1>4. Draft!ParseBody(t, d) = [ovr |-> [f \in O |-> d[f]], inj |-> [f \in I |-> d[f]]]
  BY DEF Draft!ParseBody, Draft!Restrict
<1> HIDE DEF O, I
<1> QED BY <1>2, <1>3, <1>4 DEF Draft!Cfg

(* parsePostmanBody and bodyForPostmanEditor: what is read from a text     *)
(* shows the text again, with the fields of the testcase it leaves out.    *)
LEMMA ParseShows ==
  ASSUME NEW t \in Draft!Body, NEW d \in Draft!Body
  PROVE  Draft!EditorBody(t, Draft!ParseBody(t, d)) = Draft!Over(t, d)
<1> DEFINE O == {f \in DOMAIN d : d[f] \notin Token /\ (f \in DOMAIN t => d[f] # t[f])}
           I == {f \in DOMAIN d : d[f] \in Token}
           o == [f \in O |-> d[f]]
           i == [f \in I |-> d[f]]
           e == Draft!Over(Draft!Over(t, o), i)
<1>1. Draft!EditorBody(t, Draft!ParseBody(t, d)) = e
  BY DEF Draft!EditorBody, Draft!ParseBody, Draft!Restrict
<1>2. e = [f \in (DOMAIN t \cup O) \cup I |->
             IF f \in I THEN d[f] ELSE IF f \in O THEN d[f] ELSE t[f]]
  BY DEF Draft!Over
<1>3. \A f : f \in DOMAIN d => f \in DOMAIN t \/ f \in O \/ f \in I
  OBVIOUS
<1>4. (DOMAIN t \cup O) \cup I = DOMAIN t \cup DOMAIN d
  BY <1>3
<1>5. \A f \in DOMAIN d : f \in I \/ f \in O \/ d[f] = t[f]
  OBVIOUS
<1>6. \A f : f \notin DOMAIN d => f \notin I /\ f \notin O
  OBVIOUS
<1> HIDE DEF O, I
<1> QED BY <1>1, <1>2, <1>4, <1>5, <1>6 DEF Draft!Over

(* What is shown of a body is what it says, for the body it started from,  *)
(* and for one that becomes known later.                                   *)
LEMMA ShowsItself ==
  ASSUME NEW t, NEW cfg
  PROVE  Draft!Over(t, Draft!EditorBody(t, cfg)) = Draft!EditorBody(t, cfg)
<1> DEFINE o == cfg.ovr
           i == cfg.inj
           e == Draft!EditorBody(t, cfg)
<1>1. e = [f \in (DOMAIN t \cup DOMAIN o) \cup DOMAIN i |->
             IF f \in DOMAIN i THEN i[f] ELSE IF f \in DOMAIN o THEN o[f] ELSE t[f]]
  BY DEF Draft!Over, Draft!EditorBody
<1>2. DOMAIN e = (DOMAIN t \cup DOMAIN o) \cup DOMAIN i
  BY <1>1
<1>3. DOMAIN t \cup DOMAIN e = DOMAIN e
  BY <1>2
<1>4. Draft!Over(t, e) = [f \in DOMAIN e |-> e[f]]
  BY <1>2, <1>3 DEF Draft!Over
<1> HIDE DEF o, i
<1> QED BY <1>1, <1>2, <1>4

LEMMA ShowsLater ==
  ASSUME NEW t, NEW cfg, NEW z, DOMAIN z = {}
  PROVE  Draft!Over(t, Draft!EditorBody(z, cfg)) = Draft!EditorBody(t, cfg)
<1> DEFINE o == cfg.ovr
           i == cfg.inj
           e == Draft!EditorBody(z, cfg)
           all == (DOMAIN t \cup DOMAIN o) \cup DOMAIN i
           at(f) == IF f \in DOMAIN i THEN i[f] ELSE IF f \in DOMAIN o THEN o[f] ELSE t[f]
<1>1. e = [f \in DOMAIN o \cup DOMAIN i |-> IF f \in DOMAIN i THEN i[f] ELSE o[f]]
  BY DEF Draft!Over, Draft!EditorBody
<1>2. Draft!EditorBody(t, cfg) = [f \in all |-> at(f)]
  BY DEF Draft!Over, Draft!EditorBody
<1>3. DOMAIN e = DOMAIN o \cup DOMAIN i
  BY <1>1
<1>4. DOMAIN t \cup DOMAIN e = all
  BY <1>3
<1>5. Draft!Over(t, e) = [f \in all |-> IF f \in DOMAIN e THEN e[f] ELSE t[f]]
  BY <1>4 DEF Draft!Over
<1>6. \A f \in all : (IF f \in DOMAIN e THEN e[f] ELSE t[f]) = at(f)
  BY <1>1, <1>3
<1> HIDE DEF all, at, e
<1>7. Draft!Over(t, e) = Draft!EditorBody(t, cfg)
  BY <1>2, <1>5, <1>6
<1> QED BY <1>7 DEF e

-----------------------------------------------------------------------------
(* The text after one of its parts was set anew. *)
LEMMA FreshText ==
  ASSUME DraftSetting, NEW s \in Step, NEW cfg \in Draft!Cfg, NEW t \in Draft!Body,
         Draft!Fresh(s, cfg, t)
  PROVE  /\ draft' \in Draft!Body /\ draft' \notin {Cut, Wrong}
         /\ dirty' = FALSE /\ error' = FALSE /\ timer' = FALSE /\ snap' = None
         /\ focus' = FALSE
         /\ Draft!EditorBody(t, cfg) = Draft!Over(t, draft')
BY EditorBodyType, ShowsItself DEF Draft!Fresh, DraftSetting

LEMMA DraftInit == ASSUME DraftSetting, Draft!Init PROVE DraftInv
<1>1. Draft!SampleOf(sel) \in Draft!Body /\ Draft!Empty \in Draft!Cfg
  BY SampleType, EmptyType DEF Draft!SampleOf
<1>2. /\ draft \in Draft!Body /\ draft \notin {Cut, Wrong} /\ bind \in [Step -> Draft!Cfg]
      /\ Draft!EditorBody(Draft!SampleOf(sel), bind[sel]) = Draft!Over(Draft!SampleOf(sel), draft)
  BY <1>1, EditorBodyType, ShowsItself DEF DraftSetting, Draft!Init
<1> QED BY <1>2 DEF DraftSetting, Draft!Init, DraftInv, Draft!TypeOK, Draft!NothingWaits, SaysBound

(* A text is put into the bindings of the step. *)
LEMMA CommitsText ==
  ASSUME DraftSetting, Draft!TypeOK, draft \in Draft!Body, NEW focused \in BOOLEAN,
         Draft!Commits(Draft!ParseBody(Draft!SampleOf(sel), draft), focused)
  PROVE  /\ bind' \in [Step -> Draft!Cfg] /\ dirty' = FALSE /\ error' = FALSE
         /\ draft' \in Draft!Body /\ draft' \notin {Cut, Wrong}
         /\ Draft!EditorBody(Draft!SampleOf(sel), bind'[sel]) = Draft!Over(Draft!SampleOf(sel), draft')
         /\ Draft!EditorBody(Draft!SampleOf(sel), bind'[sel]) = Draft!Over(Draft!SampleOf(sel), draft)
<1> DEFINE t == Draft!SampleOf(sel)
           cfg == Draft!ParseBody(t, draft)
<1>1. t \in Draft!Body /\ cfg \in Draft!Cfg
  BY SampleType, ParseType DEF Draft!SampleOf
<1>2. bind' = [bind EXCEPT ![sel] = cfg] /\ bind \in [Step -> Draft!Cfg] /\ sel \in Step
  BY DEF Draft!Commits, Draft!TypeOK
<1>3. draft' = IF focused THEN draft ELSE Draft!EditorBody(t, cfg)
  BY DEF Draft!Commits, Draft!Synced
<1>4. Draft!EditorBody(t, cfg) = Draft!Over(t, draft)
  BY <1>1, ParseShows
<1>5. Draft!Over(t, Draft!EditorBody(t, cfg)) = Draft!EditorBody(t, cfg)
  BY ShowsItself
<1>6. Draft!EditorBody(t, cfg) \in Draft!Body
  BY <1>1, EditorBodyType
<1>7. dirty' = FALSE /\ error' = FALSE
  BY DEF Draft!Commits
<1> HIDE DEF t, cfg
<1>8. bind'[sel] = cfg /\ bind' \in [Step -> Draft!Cfg]
  BY <1>1, <1>2
<1>9. draft' \in Draft!Body /\ Draft!EditorBody(t, cfg) = Draft!Over(t, draft')
  BY <1>3, <1>4, <1>5, <1>6
<1>10. draft' \notin {Cut, Wrong}
  BY <1>9 DEF DraftSetting
<1> QED BY <1>4, <1>7, <1>8, <1>9, <1>10 DEF t

LEMMA DraftStep ==
  ASSUME DraftSetting, DraftInv, [Draft!Next]_(Draft!vars)
  PROVE  DraftInv'
<1> USE DEF Draft!text, Draft!Mounted
<1>1. Draft!TypeOK /\ Draft!NothingWaits /\ SaysBound
  BY DEF DraftInv
<1>2. /\ sel \in Step /\ First \in Step /\ bind \in [Step -> Draft!Cfg] /\ Own \subseteq Step
      /\ \A s \in Step : bind[s] \in Draft!Cfg /\ bind[s] # None
  BY <1>1 DEF DraftSetting, Draft!TypeOK
<1>3. \A s : Draft!SampleOf(s) \in Draft!Body /\ Draft!BodyOf(s, Own) \in Draft!Body
  BY SampleType DEF Draft!SampleOf
<1>4. draft \in Draft!Body \/ draft \in {Cut, Wrong}
  BY <1>1 DEF Draft!TypeOK
<1>5. ASSUME NEW d \in Draft!Body \cup {Cut, Wrong}, Draft!Type(d) PROVE DraftInv'
  <2>1. snap' \in Draft!Cfg /\ snap' # None
    BY <1>1, <1>2, <1>5 DEF Draft!Type, Draft!TypeOK, DraftSetting
  <2>2. typed' \in [Step -> Draft!Body \cup {None}]
    BY <1>1, <1>5 DEF Draft!Type, Draft!TypeOK
  <2> QED BY <1>1, <1>5, <2>1, <2>2 DEF Draft!Type, DraftInv, Draft!TypeOK, Draft!NothingWaits, SaysBound
<1>6. CASE Draft!Blur
  BY <1>1, <1>6 DEF Draft!Blur, DraftInv, Draft!TypeOK, Draft!NothingWaits, SaysBound, Draft!SampleOf
<1>7. CASE Draft!AutoApply
  <2>1. CASE draft \in {Cut, Wrong}
    BY <1>1, <1>7, <2>1 DEF Draft!AutoApply, DraftInv, Draft!TypeOK, Draft!NothingWaits, SaysBound, Draft!SampleOf
  <2>2. CASE draft \notin {Cut, Wrong}
    <3>1. /\ bind' \in [Step -> Draft!Cfg] /\ dirty' = FALSE /\ error' = FALSE
          /\ draft' \in Draft!Body /\ draft' \notin {Cut, Wrong}
          /\ Draft!EditorBody(Draft!SampleOf(sel), bind'[sel]) = Draft!Over(Draft!SampleOf(sel), draft')
      BY <1>1, <1>4, <1>7, <2>2, CommitsText DEF Draft!AutoApply, Draft!TypeOK
    <3> QED BY <1>1, <1>7, <3>1 DEF Draft!AutoApply, DraftInv, Draft!TypeOK, Draft!NothingWaits, SaysBound, Draft!SampleOf
  <2> QED BY <2>1, <2>2
<1>8. CASE Draft!Revert
  <2>1. snap \in Draft!Cfg
    BY <1>1, <1>8 DEF Draft!Revert, Draft!TypeOK
  <2>2. /\ draft' \in Draft!Body /\ draft' \notin {Cut, Wrong}
        /\ dirty' = FALSE /\ error' = FALSE /\ timer' = FALSE /\ snap' = None /\ focus' = FALSE
        /\ Draft!EditorBody(Draft!SampleOf(sel), snap) = Draft!Over(Draft!SampleOf(sel), draft')
    BY <1>2, <1>3, <1>8, <2>1, FreshText DEF Draft!Revert
  <2>3. bind' \in [Step -> Draft!Cfg] /\ bind'[sel] = snap
    BY <1>2, <1>8, <2>1 DEF Draft!Revert
  <2> QED BY <1>1, <1>8, <2>2, <2>3 DEF Draft!Revert, DraftInv, Draft!TypeOK, Draft!NothingWaits, SaysBound, Draft!SampleOf
<1>9. ASSUME NEW s \in Step, Draft!SelectStep(s) PROVE DraftInv'
  <2>1. /\ draft' \in Draft!Body /\ draft' \notin {Cut, Wrong}
        /\ dirty' = FALSE /\ error' = FALSE /\ timer' = FALSE /\ snap' = None /\ focus' = FALSE
        /\ Draft!EditorBody(Draft!SampleOf(s), bind[s]) = Draft!Over(Draft!SampleOf(s), draft')
    BY <1>2, <1>3, <1>9, FreshText DEF Draft!SelectStep
  <2> QED BY <1>1, <1>9, <2>1 DEF Draft!SelectStep, DraftInv, Draft!TypeOK, Draft!NothingWaits, SaysBound, Draft!SampleOf
<1>10. CASE Draft!NextPage
  <2>1. /\ draft' \in Draft!Body /\ draft' \notin {Cut, Wrong}
        /\ dirty' = FALSE /\ error' = FALSE /\ timer' = FALSE /\ snap' = None /\ focus' = FALSE
        /\ Draft!EditorBody(Draft!BodyOf(First, Own), bind[First]) = Draft!Over(Draft!BodyOf(First, Own), draft')
    BY <1>2, <1>3, <1>10, FreshText DEF Draft!NextPage
  <2> QED BY <1>1, <1>2, <1>10, <2>1 DEF Draft!NextPage, DraftInv, Draft!TypeOK, Draft!NothingWaits, SaysBound, Draft!SampleOf
<1>11. CASE Draft!PreviousPage
  BY <1>1, <1>11 DEF Draft!PreviousPage, DraftInv, Draft!TypeOK, Draft!NothingWaits, SaysBound, Draft!SampleOf
<1>12. ASSUME NEW s \in Step, Draft!PreviewAnswer(s) PROVE DraftInv'
  <2> DEFINE t == Draft!BodyOf(sel, known')
             shows == Draft!EditorBody(t, bind[sel])
  <2>1. t \in Draft!Body
    BY SampleType
  <2>2. shows \in Draft!Body /\ Draft!Over(t, shows) = shows
    BY <1>2, <2>1, EditorBodyType, ShowsItself
  <2>3. CASE s # sel \/ dirty
    <3>1. draft' = draft
      BY <1>12, <2>3 DEF Draft!PreviewAnswer
    <3>2. s # sel => t = Draft!SampleOf(sel)
      BY <1>12 DEF Draft!PreviewAnswer, Draft!SampleOf, Draft!BodyOf
    <3>3. ~dirty => Draft!EditorBody(t, bind[sel]) = Draft!Over(t, draft)
      BY <1>1, <2>3, <3>2 DEF SaysBound
    <3> QED BY <1>1, <1>12, <3>1, <3>3 DEF Draft!PreviewAnswer, DraftInv, Draft!TypeOK, Draft!NothingWaits, SaysBound, Draft!SampleOf
  <2>4. CASE s = sel /\ ~dirty
    <3>1. draft' = IF focus THEN draft ELSE shows
      BY <1>12, <2>4 DEF Draft!PreviewAnswer, Draft!Synced
    <3>2. draft \in Draft!Body
      BY <1>1, <1>4, <2>4 DEF Draft!TypeOK
    <3>3. DOMAIN Draft!SampleOf(sel) = {}
      BY <1>12, <2>4 DEF Draft!PreviewAnswer, Draft!SampleOf, Draft!BodyOf
    <3>4. Draft!Over(Draft!SampleOf(sel), draft) = draft
      <4>1. DOMAIN Draft!SampleOf(sel) \cup DOMAIN draft = DOMAIN draft
        BY <3>3
      <4>2. draft = [f \in DOMAIN draft |-> draft[f]]
        BY <3>2, BodyIs
      <4> QED BY <4>1, <4>2 DEF Draft!Over
    <3>5. draft = Draft!EditorBody(Draft!SampleOf(sel), bind[sel])
      BY <1>1, <2>4, <3>4 DEF SaysBound
    <3>6. Draft!Over(t, draft) = shows
      BY <3>3, <3>5, ShowsLater
    <3>7. draft' \in Draft!Body /\ Draft!Over(t, draft') = shows
      BY <2>2, <3>1, <3>2, <3>6
    <3>8. draft' \notin {Cut, Wrong}
      BY <3>7 DEF DraftSetting
    <3> QED BY <1>1, <1>12, <2>4, <3>7, <3>8 DEF Draft!PreviewAnswer, DraftInv, Draft!TypeOK, Draft!NothingWaits, SaysBound, Draft!SampleOf
  <2> QED BY <1>1, <2>3, <2>4 DEF Draft!TypeOK
<1>13. CASE Draft!ClearLinks
  <2>1. \A s \in Step : [bind[s] EXCEPT !.inj = Draft!Empty.inj] \in Draft!Cfg
    BY <1>2, EmptyType DEF Draft!Cfg
  <2>2. bind' \in [Step -> Draft!Cfg]
    BY <1>13, <2>1 DEF Draft!ClearLinks
  <2> DEFINE t == Draft!SampleOf(sel)
             shows == Draft!EditorBody(t, bind'[sel])
  <2>3. shows \in Draft!Body /\ Draft!Over(t, shows) = shows
    BY <1>2, <1>3, <2>2, EditorBodyType, ShowsItself
  <2>4. draft' = IF dirty THEN draft ELSE shows
    BY <1>13 DEF Draft!ClearLinks, Draft!Synced
  <2>5. draft' \in Draft!Body \cup {Cut, Wrong} /\ (~dirty => draft' \in Draft!Body)
    BY <1>4, <2>3, <2>4
  <2>6. ~dirty => draft' \notin {Cut, Wrong}
    BY <2>5 DEF DraftSetting
  <2>7. typed' \in [Step -> Draft!Body \cup {None}]
    BY <1>13 DEF Draft!ClearLinks
  <2>8. Draft!TypeOK'
    BY <1>1, <1>13, <2>2, <2>5, <2>6, <2>7 DEF Draft!ClearLinks, Draft!TypeOK
  <2>9. Draft!NothingWaits'
    BY <1>1, <1>13, <2>4 DEF Draft!ClearLinks, Draft!NothingWaits
  <2>10. SaysBound'
    BY <1>13, <2>3, <2>4 DEF Draft!ClearLinks, SaysBound, Draft!SampleOf
  <2> QED BY <2>8, <2>9, <2>10 DEF DraftInv
<1>14. CASE Draft!Save
  <2>1. CASE dirty /\ draft \in {Cut, Wrong}
    BY <1>1, <1>14, <2>1 DEF Draft!Save, DraftInv, Draft!TypeOK, Draft!NothingWaits, SaysBound, Draft!SampleOf
  <2>2. CASE dirty /\ draft \notin {Cut, Wrong}
    <3>1. Draft!Commits(Draft!ParseBody(Draft!SampleOf(sel), draft), FALSE)
      BY <1>14, <2>2 DEF Draft!Save
    <3>2. /\ bind' \in [Step -> Draft!Cfg] /\ dirty' = FALSE /\ error' = FALSE
          /\ draft' \in Draft!Body /\ draft' \notin {Cut, Wrong}
          /\ Draft!EditorBody(Draft!SampleOf(sel), bind'[sel]) = Draft!Over(Draft!SampleOf(sel), draft')
      BY <1>1, <1>4, <2>2, <3>1, CommitsText
    <3> QED BY <1>1, <1>14, <3>2 DEF Draft!Save, DraftInv, Draft!TypeOK, Draft!NothingWaits, SaysBound, Draft!SampleOf
  <2>3. CASE ~dirty
    BY <1>1, <1>14, <2>3 DEF Draft!Save, DraftInv, Draft!TypeOK, Draft!NothingWaits, SaysBound, Draft!SampleOf
  <2> QED BY <2>1, <2>2, <2>3
<1>15. CASE UNCHANGED Draft!vars
  BY <1>1, <1>15 DEF Draft!vars, DraftInv, Draft!TypeOK, Draft!NothingWaits, SaysBound, Draft!SampleOf
<1> QED BY <1>5, <1>6, <1>7, <1>8, <1>9, <1>10, <1>11, <1>12, <1>13, <1>14, <1>15 DEF Draft!Next

(* What is proved of a draft holds in every state. *)
THEOREM DraftCorrect == ASSUME DraftSetting PROVE Draft!Spec => []DraftInv
<1>1. Draft!Init => DraftInv
  BY DraftInit
<1>2. DraftInv /\ [Draft!Next]_(Draft!vars) => DraftInv'
  BY DraftStep
<1> QED BY <1>1, <1>2, PTL DEF Draft!Spec

(* Types of the variables: a timer belongs to a text that was typed, and an  *)
(* unfinished text, or one that is not applied yet, to a step of the page    *)
(* (ScenarioStepPostmanPanel.tsx).                                           *)
THEOREM DraftTypeCorrect == ASSUME DraftSetting PROVE Draft!Spec => []Draft!TypeOK
<1>1. DraftInv => Draft!TypeOK
  BY DEF DraftInv
<1> QED BY <1>1, DraftCorrect, PTL

(* No text is left as typed although nothing will apply it                   *)
(* (scheduleAutoApply and everything that clears its timer).                 *)
THEOREM NothingWaitsCorrect == ASSUME DraftSetting PROVE Draft!Spec => []Draft!NothingWaits
<1>1. DraftInv => Draft!NothingWaits
  BY DEF DraftInv
<1> QED BY <1>1, DraftCorrect, PTL

(* What is saved from the page is what its text says, for any fields, values *)
(* and variables: the fields that stand there, and the others as in the      *)
(* testcase (persistWizard, parsePostmanBody, bodyForPostmanEditor).         *)
THEOREM SavesCorrect ==
  ASSUME DraftSetting PROVE Draft!Spec => [][Draft!SavesShown]_(Draft!vars)
<1>1. DraftInv => Draft!SavesShown
  <2> SUFFICES ASSUME DraftInv, Draft!Save, ~dirty'
               PROVE  Draft!EditorBody(Draft!SampleOf(sel), saved'[sel])
                        = Draft!Over(Draft!SampleOf(sel), draft)
    BY DEF Draft!SavesShown
  <2>1. CASE dirty
    <3>1. draft \notin {Cut, Wrong} /\ draft \in Draft!Body
      BY <2>1 DEF Draft!Save, DraftInv, Draft!TypeOK
    <3>2. /\ Draft!Commits(Draft!ParseBody(Draft!SampleOf(sel), draft), FALSE)
          /\ saved' = bind'
      BY <2>1, <3>1 DEF Draft!Save
    <3> QED BY <3>1, <3>2, CommitsText DEF DraftInv
  <2>2. CASE ~dirty
    BY <2>2 DEF Draft!Save, DraftInv, SaysBound
  <2> QED BY <2>1, <2>2
<1> QED BY <1>1, DraftCorrect, PTL DEF Draft!Spec

(* A text that is applied by itself shows again what was typed: overrides    *)
(* and injects of a field never stand in the way of one another (commitDraft).*)
THEOREM AppliesCorrect ==
  ASSUME DraftSetting PROVE Draft!Spec => [][Draft!AppliesTyped]_(Draft!vars)
<1>1. DraftInv => Draft!AppliesTyped
  <2> SUFFICES ASSUME DraftInv, Draft!AutoApply, ~dirty'
               PROVE  Draft!EditorBody(Draft!SampleOf(sel), bind'[sel])
                        = Draft!Over(Draft!SampleOf(sel), draft)
    BY DEF Draft!AppliesTyped
  <2>1. draft \notin {Cut, Wrong} /\ draft \in Draft!Body /\ focus \in BOOLEAN
    BY DEF Draft!AutoApply, DraftInv, Draft!TypeOK
  <2>2. Draft!Commits(Draft!ParseBody(Draft!SampleOf(sel), draft), focus)
    BY <2>1 DEF Draft!AutoApply
  <2> QED BY <2>1, <2>2, CommitsText DEF DraftInv
<1> QED BY <1>1, DraftCorrect, PTL DEF Draft!Spec

-----------------------------------------------------------------------------
CONSTANTS Case, SvcOf, Errors, Body, Empty, PickId, NoPrint, FirstVers, MaxVer,
          MaxServed, MaxAcks
VARIABLES pool, served, open, step, services, active, refs, load, picks, acks, told

Picks == INSTANCE ScenarioPicks

-----------------------------------------------------------------------------
(* A sequence of elements of another one, none of them used twice. *)
Part(t, s) ==
  \E f \in [DOMAIN t -> DOMAIN s] :
    /\ \A i, j \in DOMAIN t : f[i] = f[j] => i = j
    /\ \A i \in DOMAIN t : t[i] = s[f[i]]

LEMMA RemoveAtIs ==
  ASSUME NEW S, NEW s \in Seq(S), NEW i \in DOMAIN s
  PROVE  /\ Picks!RemoveAt(s, i) \in Seq(S)
         /\ Len(Picks!RemoveAt(s, i)) = Len(s) - 1
         /\ \A k \in 1..(Len(s) - 1) :
              Picks!RemoveAt(s, i)[k] = s[IF k < i THEN k ELSE k + 1]
<1> DEFINE a == SubSeq(s, 1, i - 1)
           b == SubSeq(s, i + 1, Len(s))
<1>1. Len(s) \in Nat /\ DOMAIN s = 1..Len(s) /\ i \in 1..Len(s) /\ \A k \in 1..Len(s) : s[k] \in S
  OBVIOUS
<1>2. a \in Seq(S) /\ Len(a) = i - 1 /\ \A k \in 1..(i - 1) : a[k] = s[k]
  BY <1>1, SubSeqProperties
<1>3. /\ b \in Seq(S) /\ Len(b) = Len(s) - i
      /\ \A k \in 1..(Len(s) - i) : b[k] = s[i + k]
  <2>1. /\ b \in Seq(S) /\ Len(b) = IF i + 1 <= Len(s) THEN Len(s) - (i + 1) + 1 ELSE 0
        /\ \A k \in 1..(Len(s) - (i + 1) + 1) : b[k] = s[(i + 1) + k - 1]
    BY <1>1, SubSeqProperties
  <2> HIDE DEF b
  <2>2. Len(b) = Len(s) - i
    BY <1>1, <2>1
  <2>3. ASSUME NEW k \in 1..(Len(s) - i) PROVE b[k] = s[i + k]
    <3>1. k \in 1..(Len(s) - (i + 1) + 1) /\ (i + 1) + k - 1 = i + k
      BY <1>1
    <3> QED BY <2>1, <3>1
  <2> QED BY <2>1, <2>2, <2>3
<1> HIDE DEF a, b
<1>4. /\ a \o b \in Seq(S) /\ Len(a \o b) = Len(s) - 1
      /\ \A k \in 1..(Len(s) - 1) : (a \o b)[k] = IF k <= i - 1 THEN a[k] ELSE b[k - (i - 1)]
  <2>1. /\ a \o b \in Seq(S) /\ Len(a \o b) = Len(a) + Len(b)
        /\ \A k \in 1..(Len(a) + Len(b)) : (a \o b)[k] = IF k <= Len(a) THEN a[k] ELSE b[k - Len(a)]
    BY <1>2, <1>3, ConcatProperties
  <2>2. Len(a) + Len(b) = Len(s) - 1
    BY <1>1, <1>2, <1>3
  <2> QED BY <1>2, <2>1, <2>2
<1>5. Picks!RemoveAt(s, i) = a \o b
  BY DEF Picks!RemoveAt, a, b
<1>6. ASSUME NEW k \in 1..(Len(s) - 1) PROVE (a \o b)[k] = s[IF k < i THEN k ELSE k + 1]
  <2>1. CASE k <= i - 1
    BY <1>1, <1>2, <1>4, <2>1
  <2>2. CASE ~(k <= i - 1)
    <3>1. k - (i - 1) \in 1..(Len(s) - i) /\ i + (k - (i - 1)) = k + 1
      BY <1>1, <2>2
    <3>2. (a \o b)[k] = b[k - (i - 1)]
      BY <1>4, <2>2
    <3>3. b[k - (i - 1)] = s[i + (k - (i - 1))]
      BY <1>3, <3>1
    <3>4. ~(k < i)
      BY <1>1, <2>2
    <3> QED BY <3>1, <3>2, <3>3, <3>4
  <2> QED BY <2>1, <2>2
<1> QED BY <1>4, <1>5, <1>6

LEMMA InsertAtIs ==
  ASSUME NEW S, NEW s \in Seq(S), NEW k \in 1..(Len(s) + 1), NEW x \in S
  PROVE  /\ Picks!InsertAt(s, k, x) \in Seq(S)
         /\ Len(Picks!InsertAt(s, k, x)) = Len(s) + 1
         /\ \A j \in 1..(k - 1) : Picks!InsertAt(s, k, x)[j] = s[j]
         /\ Picks!InsertAt(s, k, x)[k] = x
         /\ \A j \in k..Len(s) : Picks!InsertAt(s, k, x)[j + 1] = s[j]
<1> DEFINE a == SubSeq(s, 1, k - 1)
           b == SubSeq(s, k, Len(s))
           ax == a \o <<x>>
<1>1. Len(s) \in Nat /\ DOMAIN s = 1..Len(s) /\ k \in Nat /\ \A j \in 1..Len(s) : s[j] \in S
  OBVIOUS
<1>2. a \in Seq(S) /\ Len(a) = k - 1 /\ \A j \in 1..(k - 1) : a[j] = s[j]
  BY <1>1, SubSeqProperties
<1>3. /\ b \in Seq(S) /\ Len(b) = Len(s) - k + 1
      /\ \A j \in 1..(Len(s) - k + 1) : b[j] = s[k + j - 1]
  <2>1. /\ b \in Seq(S) /\ Len(b) = IF k <= Len(s) THEN Len(s) - k + 1 ELSE 0
        /\ \A j \in 1..(Len(s) - k + 1) : b[j] = s[k + j - 1]
    BY <1>1, SubSeqProperties
  <2> HIDE DEF b
  <2> QED BY <1>1, <2>1
<1> HIDE DEF a, b
<1>4. /\ ax \in Seq(S) /\ Len(ax) = k
      /\ \A j \in 1..k : ax[j] = IF j <= k - 1 THEN a[j] ELSE x
  <2>1. <<x>> \in Seq(S) /\ Len(<<x>>) = 1 /\ <<x>>[1] = x
    OBVIOUS
  <2>2. /\ ax \in Seq(S) /\ Len(ax) = (k - 1) + 1
        /\ \A j \in 1..((k - 1) + 1) : ax[j] = IF j <= k - 1 THEN a[j] ELSE <<x>>[j - (k - 1)]
    BY <1>2, <2>1, ConcatProperties
  <2> HIDE DEF ax
  <2>3. ASSUME NEW j \in 1..k PROVE ax[j] = IF j <= k - 1 THEN a[j] ELSE x
    <3>1. CASE j <= k - 1
      BY <1>1, <2>2, <3>1
    <3>2. CASE j = k
      BY <1>1, <2>1, <2>2, <3>2
    <3> QED BY <1>1, <3>1, <3>2
  <2> QED BY <1>1, <2>2, <2>3
<1> HIDE DEF ax
<1>5. /\ ax \o b \in Seq(S) /\ Len(ax \o b) = k + (Len(s) - k + 1)
      /\ \A j \in 1..(k + (Len(s) - k + 1)) : (ax \o b)[j] = IF j <= k THEN ax[j] ELSE b[j - k]
  <2>1. /\ ax \o b \in Seq(S) /\ Len(ax \o b) = Len(ax) + Len(b)
        /\ \A j \in 1..(Len(ax) + Len(b)) : (ax \o b)[j] = IF j <= Len(ax) THEN ax[j] ELSE b[j - Len(ax)]
    BY <1>3, <1>4, ConcatProperties
  <2> QED BY <1>3, <1>4, <2>1
<1>6. Picks!InsertAt(s, k, x) = ax \o b
  BY DEF Picks!InsertAt, a, b, ax
<1>7. ASSUME NEW j \in 1..k PROVE (ax \o b)[j] = ax[j]
  <2>1. j \in 1..(k + (Len(s) - k + 1)) /\ j <= k
    BY <1>1
  <2> QED BY <1>5, <2>1
<1>8. ASSUME NEW j \in 1..(k - 1) PROVE (ax \o b)[j] = s[j]
  <2>1. j \in 1..k /\ j <= k - 1
    BY <1>1
  <2> QED BY <1>2, <1>4, <1>7, <2>1
<1>9. (ax \o b)[k] = x
  <2>1. k \in 1..k /\ ~(k <= k - 1)
    BY <1>1
  <2> QED BY <1>4, <1>7, <2>1
<1>10. ASSUME NEW j \in k..Len(s) PROVE (ax \o b)[j + 1] = s[j]
  <2>1. j + 1 \in 1..(k + (Len(s) - k + 1)) /\ ~(j + 1 <= k)
    BY <1>1
  <2>2. j + 1 - k \in 1..(Len(s) - k + 1) /\ k + (j + 1 - k) - 1 = j
    BY <1>1
  <2>3. (ax \o b)[j + 1] = b[j + 1 - k]
    BY <1>5, <2>1
  <2>4. b[j + 1 - k] = s[k + (j + 1 - k) - 1]
    BY <1>3, <2>2
  <2> QED BY <2>2, <2>3, <2>4
<1>11. Len(ax \o b) = Len(s) + 1
  BY <1>1, <1>5
<1> QED BY <1>5, <1>6, <1>8, <1>9, <1>10, <1>11

LEMMA RemovedPart ==
  ASSUME NEW S, NEW s \in Seq(S), NEW i \in DOMAIN s
  PROVE  Picks!RemoveAt(s, i) \in Seq(S) /\ Part(Picks!RemoveAt(s, i), s)
<1> DEFINE t == Picks!RemoveAt(s, i)
           f == [k \in DOMAIN t |-> IF k < i THEN k ELSE k + 1]
<1>1. /\ t \in Seq(S) /\ DOMAIN t = 1..(Len(s) - 1)
      /\ \A k \in 1..(Len(s) - 1) : t[k] = s[IF k < i THEN k ELSE k + 1]
  BY RemoveAtIs
<1>2. DOMAIN s = 1..Len(s) /\ Len(s) \in Nat
  OBVIOUS
<1> HIDE DEF t
<1>3. f \in [DOMAIN t -> DOMAIN s] /\ \A k, l \in DOMAIN t : f[k] = f[l] => k = l
  BY <1>1, <1>2
<1>4. \A k \in DOMAIN t : t[k] = s[f[k]]
  BY <1>1
<1>5. Part(t, s)
  <2> HIDE DEF f
  <2> QED BY <1>3, <1>4 DEF Part
<1> QED BY <1>1, <1>5 DEF t

LEMMA MovedPart ==
  ASSUME NEW S, NEW s \in Seq(S), NEW i \in DOMAIN s, NEW k \in DOMAIN s
  PROVE  Picks!Moved(s, i, k) \in Seq(S) /\ Part(Picks!Moved(s, i, k), s)
<1>1. PICK r, x : r = Picks!RemoveAt(s, i) /\ x = s[i]
  OBVIOUS
<1>2. PICK m : m = Picks!InsertAt(r, k, x)
  OBVIOUS
<1>3. /\ r \in Seq(S) /\ Len(r) = Len(s) - 1
      /\ \A l \in 1..(Len(s) - 1) : r[l] = s[IF l < i THEN l ELSE l + 1]
  BY <1>1, RemoveAtIs
<1>4. Len(s) \in Nat /\ DOMAIN s = 1..Len(s) /\ x \in S /\ i \in 1..Len(s) /\ k \in 1..Len(s)
  BY <1>1
<1>5. k \in 1..(Len(r) + 1) /\ Len(r) + 1 = Len(s)
  BY <1>3, <1>4
<1>6. /\ m \in Seq(S) /\ Len(m) = Len(s) /\ m[k] = x
      /\ \A j \in 1..(k - 1) : m[j] = r[j]
      /\ \A j \in k..Len(r) : m[j + 1] = r[j]
  <2>1. r \in Seq(S) /\ x \in S /\ k \in 1..(Len(r) + 1)
    BY <1>3, <1>4, <1>5
  <2>2. Picks!InsertAt(r, k, x) \in Seq(S) /\ Len(Picks!InsertAt(r, k, x)) = Len(r) + 1
    BY <2>1, InsertAtIs
  <2>3. Picks!InsertAt(r, k, x)[k] = x
    BY <2>1, InsertAtIs
  <2>4. \A j \in 1..(k - 1) : Picks!InsertAt(r, k, x)[j] = r[j]
    BY <2>1, InsertAtIs
  <2>5. \A j \in k..Len(r) : Picks!InsertAt(r, k, x)[j + 1] = r[j]
    BY <2>1, InsertAtIs
  <2> QED BY <1>2, <1>5, <2>2, <2>3, <2>4, <2>5
<1> DEFINE f == [j \in 1..Len(s) |-> IF j = k THEN i
                  ELSE IF j < k THEN (IF j < i THEN j ELSE j + 1)
                  ELSE IF j - 1 < i THEN j - 1 ELSE j]
<1>7. f \in [1..Len(s) -> 1..Len(s)] /\ \A j, l \in 1..Len(s) : f[j] = f[l] => j = l
  BY <1>4
<1>8. ASSUME NEW j \in 1..Len(s) PROVE m[j] = s[f[j]]
  <2>1. CASE j < k
    <3>1. j \in 1..(k - 1) /\ j \in 1..(Len(s) - 1) /\ j # k
      BY <1>4, <2>1
    <3>2. m[j] = s[IF j < i THEN j ELSE j + 1]
      BY <1>3, <1>6, <3>1
    <3> QED BY <2>1, <3>1, <3>2
  <2>2. CASE j = k
    BY <1>1, <1>6, <2>2
  <2>3. CASE j > k
    <3>1. j - 1 \in k..Len(r) /\ j - 1 \in 1..(Len(s) - 1) /\ (j - 1) + 1 = j /\ ~(j < k) /\ j # k
      BY <1>4, <1>5, <2>3
    <3>2. m[j] = r[j - 1]
      BY <1>6, <3>1
    <3>3. r[j - 1] = s[IF j - 1 < i THEN j - 1 ELSE (j - 1) + 1]
      BY <1>3, <3>1
    <3> QED BY <3>1, <3>2, <3>3
  <2>4. j < k \/ j = k \/ j > k
    BY <1>4
  <2> QED BY <2>1, <2>2, <2>3, <2>4
<1>9. Part(m, s)
  <2> HIDE DEF f
  <2>1. DOMAIN m = 1..Len(s)
    BY <1>6
  <2> QED BY <1>4, <1>7, <1>8, <2>1 DEF Part
<1>10. Picks!Moved(s, i, k) = m
  BY <1>1, <1>2 DEF Picks!Moved
<1> QED BY <1>6, <1>9, <1>10

-----------------------------------------------------------------------------
(* The testcases that a scenario picks. *)

PicksSetting ==
  /\ NoPrint \notin Body /\ None \notin Svc
  /\ IsFiniteSet(Case) /\ SvcOf \in [Case -> Svc]
  /\ MaxVer \in Nat /\ FirstVers \subseteq 1..MaxVer

(* A row that the testcase had. *)
Was(c, row, sv) == c \in Case /\ row \in Picks!Row /\ row.ver # 0 /\ <<c, row.ver, row.body>> \in sv

(* A pick of a version there was, with the fingerprint of that version's     *)
(* body or, if that was empty, of any body or of none.                       *)
Pinned(p, sv) ==
  /\ p \in Picks!Pick
  /\ p.fp = NoPrint /\ p.ver # 0 => <<p.case, p.ver, Empty>> \in sv
  /\ p.fp # NoPrint => p.ver # 0 /\ \E b \in {p.fp, Empty} : <<p.case, p.ver, b>> \in sv

Distinct(ps) == \A i, j \in DOMAIN ps : ps[i].id = ps[j].id => i = j

PickList(ps, sv) ==
  ps \in Seq(Picks!Pick) /\ Distinct(ps) /\ \A i \in DOMAIN ps : Pinned(ps[i], sv)

Order(s) == s \in Seq(Svc) /\ \A i, j \in DOMAIN s : s[i] = s[j] => i = j

(* The same pick, and its version is kept or is its first one.               *)
SamePick(p, q) == q.id = p.id /\ q.case = p.case /\ p.ver \in {0, q.ver}

(* Each pick is one of another list, or it has an id of these.               *)
From(qs, ps, ids) ==
  \A j \in DOMAIN qs : qs[j].id \in ids \/ \E i \in DOMAIN ps : SamePick(ps[i], qs[j])

LEMMA ListTypes ==
  ASSUME NEW S, NEW s \in Seq(S)
  PROVE  Len(s) \in Nat /\ DOMAIN s = 1..Len(s) /\ \A i \in DOMAIN s : s[i] \in S
OBVIOUS

LEMMA PartOrder ==
  ASSUME NEW s, NEW t \in Seq(Svc), Order(s), Part(t, s)
  PROVE  Order(t)
BY DEF Order, Part

LEMMA PartList ==
  ASSUME NEW sv, NEW s, NEW t \in Seq(Picks!Pick), PickList(s, sv), Part(t, s)
  PROVE  PickList(t, sv) /\ From(t, s, {})
<1>1. PICK f \in [DOMAIN t -> DOMAIN s] :
        (\A i, j \in DOMAIN t : f[i] = f[j] => i = j) /\ \A i \in DOMAIN t : t[i] = s[f[i]]
  BY DEF Part
<1>2. Distinct(t)
  BY <1>1 DEF PickList, Distinct
<1>3. \A i \in DOMAIN t : Pinned(t[i], sv)
  BY <1>1 DEF PickList
<1>4. From(t, s, {})
  BY <1>1 DEF From, SamePick
<1> QED BY <1>2, <1>3, <1>4 DEF PickList

LEMMA PinnedStays ==
  ASSUME NEW sv, NEW more, sv \subseteq more, NEW p, Pinned(p, sv)
  PROVE  Pinned(p, more)
BY DEF Pinned

LEMMA ListStays ==
  ASSUME NEW sv, NEW more, sv \subseteq more, NEW ps, PickList(ps, sv)
  PROVE  PickList(ps, more)
BY PinnedStays DEF PickList

(* What a pick lacks it gets from the row that was loaded. *)
LEMMA HydratedPin ==
  ASSUME PicksSetting, NEW sv, NEW p, Pinned(p, sv), NEW live, Was(p.case, live, sv),
         NEW q, q = [p EXCEPT !.fp = IF @ = NoPrint /\ live.body # Empty THEN live.body ELSE @,
                              !.ver = IF @ = 0 THEN live.ver ELSE @]
  PROVE  Pinned(q, sv) /\ SamePick(p, q)
<1>1. p \in Picks!Pick /\ live.ver \in Picks!Ver /\ live.body \in Body /\ live.ver # 0
      /\ live.body # NoPrint /\ <<p.case, live.ver, live.body>> \in sv
  BY DEF Pinned, Was, Picks!Row, PicksSetting
<1>2. /\ q \in Picks!Pick /\ q.id = p.id /\ q.case = p.case
      /\ q.fp = IF p.fp = NoPrint /\ live.body # Empty THEN live.body ELSE p.fp
      /\ q.ver = IF p.ver = 0 THEN live.ver ELSE p.ver
  BY <1>1 DEF Picks!Pick
<1> QED BY <1>1, <1>2 DEF Pinned, SamePick

LEMMA RefreshedPin ==
  ASSUME PicksSetting, NEW sv, NEW p, Pinned(p, sv), NEW live, Was(p.case, live, sv)
  PROVE  LET q == Picks!Refreshed(p, live) IN
         Pinned(q, sv) /\ q.id = p.id /\ q.case = p.case
<1> DEFINE q == Picks!Refreshed(p, live)
<1>1. p \in Picks!Pick /\ live.ver \in Picks!Ver /\ live.body \in Body /\ live.ver # 0
      /\ live.body # NoPrint /\ <<p.case, live.ver, live.body>> \in sv
  BY DEF Pinned, Was, Picks!Row, PicksSetting
<1>2. /\ q \in Picks!Pick /\ q.id = p.id /\ q.case = p.case
      /\ q.fp = live.body /\ q.ver = live.ver
  BY <1>1 DEF Picks!Pick, Picks!Refreshed
<1> HIDE DEF q
<1>3. Pinned(q, sv)
  BY <1>1, <1>2 DEF Pinned
<1> QED BY <1>2, <1>3 DEF q

LEMMA HydratedList ==
  ASSUME PicksSetting, NEW sv, NEW ps, PickList(ps, sv),
         NEW rows, \A c \in DOMAIN rows : Was(c, rows[c], sv)
  PROVE  LET qs == Picks!Hydrated(ps, rows) IN
         /\ PickList(qs, sv) /\ DOMAIN qs = DOMAIN ps
         /\ \A i \in DOMAIN ps : SamePick(ps[i], qs[i])
<1> DEFINE qs == Picks!Hydrated(ps, rows)
<1>1. DOMAIN qs = DOMAIN ps
  BY DEF Picks!Hydrated
<1>2. ASSUME NEW i \in DOMAIN ps PROVE Pinned(qs[i], sv) /\ SamePick(ps[i], qs[i])
  <2>1. Pinned(ps[i], sv)
    BY DEF PickList
  <2>2. CASE ps[i].case \notin DOMAIN rows
    <3>1. qs[i] = ps[i]
      BY <2>2 DEF Picks!Hydrated
    <3> QED BY <2>1, <3>1 DEF SamePick
  <2>3. CASE ps[i].case \in DOMAIN rows
    <3>1. PICK live : live = rows[ps[i].case]
      OBVIOUS
    <3>2. Was(ps[i].case, live, sv)
      BY <2>3, <3>1
    <3>3. qs[i] = [ps[i] EXCEPT
                     !.fp = IF @ = NoPrint /\ live.body # Empty THEN live.body ELSE @,
                     !.ver = IF @ = 0 THEN live.ver ELSE @]
      BY <2>3, <3>1 DEF Picks!Hydrated
    <3> QED BY <2>1, <3>2, <3>3, HydratedPin
  <2> QED BY <2>2, <2>3
<1> HIDE DEF qs
<1>3. qs \in Seq(Picks!Pick)
  <2>1. Len(ps) \in Nat /\ DOMAIN ps = 1..Len(ps)
    BY ListTypes DEF PickList
  <2>2. qs \in [1..Len(ps) -> Picks!Pick]
    <3>1. qs = [i \in DOMAIN ps |-> qs[i]]
      BY DEF qs, Picks!Hydrated
    <3> QED BY <1>2, <2>1, <3>1 DEF Pinned
  <2> QED BY <2>1, <2>2
<1>4. Distinct(qs)
  BY <1>1, <1>2 DEF PickList, Distinct, SamePick
<1>5. PickList(qs, sv)
  BY <1>1, <1>2, <1>3, <1>4 DEF PickList
<1> QED BY <1>1, <1>2, <1>5 DEF qs

LEMMA NewPin ==
  ASSUME PicksSetting, NEW sv, NEW id \in PickId, NEW c \in DOMAIN refs, Was(c, refs[c], sv)
  PROVE  Pinned(Picks!NewPick(id, c), sv) /\ Picks!NewPick(id, c).id = id
<1> DEFINE p == Picks!NewPick(id, c)
<1>1. refs[c].ver \in Picks!Ver /\ refs[c].body \in Body /\ refs[c].ver # 0 /\ c \in Case
      /\ refs[c].body # NoPrint /\ <<c, refs[c].ver, refs[c].body>> \in sv
  BY DEF Was, Picks!Row, PicksSetting
<1>2. p \in Picks!Pick /\ p.id = id /\ p.case = c /\ p.ver = refs[c].ver /\ p.fp = refs[c].body
  BY <1>1 DEF Picks!NewPick, Picks!Pick
<1> HIDE DEF p
<1>3. Pinned(p, sv)
  BY <1>1, <1>2 DEF Pinned
<1> QED BY <1>2, <1>3 DEF p

LEMMA JoinedList ==
  ASSUME NEW sv, NEW ps, PickList(ps, sv), NEW qs, PickList(qs, sv),
         NEW ids, \A j \in DOMAIN qs : qs[j].id \in ids, \A i \in DOMAIN ps : ps[i].id \notin ids
  PROVE  PickList(ps \o qs, sv) /\ From(ps \o qs, ps, ids)
<1>1. ps \in Seq(Picks!Pick) /\ qs \in Seq(Picks!Pick) /\ Distinct(ps) /\ Distinct(qs)
  BY DEF PickList
<1>2. Len(ps) \in Nat /\ DOMAIN ps = 1..Len(ps) /\ Len(qs) \in Nat /\ DOMAIN qs = 1..Len(qs)
  BY <1>1, ListTypes
<1>3. PICK t : t = ps \o qs
  OBVIOUS
<1>4. /\ t \in Seq(Picks!Pick) /\ Len(t) = Len(ps) + Len(qs)
      /\ \A i \in 1..(Len(ps) + Len(qs)) : t[i] = IF i <= Len(ps) THEN ps[i] ELSE qs[i - Len(ps)]
  BY <1>1, <1>3, ConcatProperties
<1>5. DOMAIN t = 1..(Len(ps) + Len(qs))
  BY <1>4
<1>6. ASSUME NEW i \in DOMAIN t
      PROVE  \/ i \in DOMAIN ps /\ t[i] = ps[i]
             \/ i - Len(ps) \in DOMAIN qs /\ t[i] = qs[i - Len(ps)] /\ i \notin DOMAIN ps
  <2>1. CASE i <= Len(ps)
    BY <1>2, <1>4, <1>5, <2>1
  <2>2. CASE ~(i <= Len(ps))
    BY <1>2, <1>4, <1>5, <2>2
  <2> QED BY <2>1, <2>2
<1>7. Distinct(t)
  <2> SUFFICES ASSUME NEW i \in DOMAIN t, NEW j \in DOMAIN t, t[i].id = t[j].id PROVE i = j
    BY DEF Distinct
  <2>1. CASE i \in DOMAIN ps /\ j \in DOMAIN ps
    BY <1>1, <1>6, <2>1 DEF Distinct
  <2>2. CASE i \notin DOMAIN ps /\ j \notin DOMAIN ps
    <3>1. i - Len(ps) \in DOMAIN qs /\ t[i] = qs[i - Len(ps)]
      BY <1>6, <2>2
    <3>2. j - Len(ps) \in DOMAIN qs /\ t[j] = qs[j - Len(ps)]
      BY <1>6, <2>2
    <3>3. i - Len(ps) = j - Len(ps)
      BY <1>1, <3>1, <3>2 DEF Distinct
    <3> QED BY <1>2, <1>5, <3>3
  <2>3. CASE i \in DOMAIN ps /\ j \notin DOMAIN ps
    BY <1>6, <2>3
  <2>4. CASE i \notin DOMAIN ps /\ j \in DOMAIN ps
    BY <1>6, <2>4
  <2> QED BY <2>1, <2>2, <2>3, <2>4
<1>8. \A i \in DOMAIN t : Pinned(t[i], sv)
  BY <1>6 DEF PickList
<1>9. \A p : p \in Picks!Pick => SamePick(p, p)
  BY DEF SamePick
<1>10. From(t, ps, ids)
  BY <1>1, <1>2, <1>6, <1>9 DEF From, PickList
<1> QED BY <1>3, <1>4, <1>7, <1>8, <1>10 DEF PickList

-----------------------------------------------------------------------------
PoolKept ==
  /\ pool \in [Case -> Picks!PoolRow]
  /\ \A c \in Case : Was(c, [ver |-> pool[c].ver, body |-> pool[c].body], served)

CandsKept ==
  /\ \A c \in DOMAIN refs : Was(c, refs[c], served)
  /\ \A c \in DOMAIN load.got : Was(c, load.got[c], served)

Ack == [n : 1..MaxAcks, id : PickId, case : Case, old : Picks!Row,
        answer : Picks!Row \cup {None, NoPrint}]

AcksKept ==
  \A a \in acks : /\ a \in Ack /\ Was(a.case, a.old, served)
                  /\ a.answer \notin {None, NoPrint} => Was(a.case, a.answer, served)

FormKept ==
  /\ step \in 1..3 /\ Order(services)
  /\ active \in Svc \cup {None} /\ (active = None <=> services = << >>)

SavedKept ==
  saved # None => /\ saved \in Picks!Saved /\ PickList(saved.picks, served)
                  /\ Order(saved.services) /\ saved.services # << >>

(* One id never stands for two testcases. *)
Named(x, y) == x.id = y.id => x.case = y.case

Agree ==
  /\ \A i \in DOMAIN picks, a \in acks : Named(picks[i], a)
  /\ saved # None => \A j \in DOMAIN saved.picks :
       /\ \A a \in acks : Named(saved.picks[j], a)
       /\ \A i \in DOMAIN picks : Named(picks[i], saved.picks[j])

PicksInv ==
  /\ PoolKept /\ CandsKept /\ AcksKept /\ FormKept /\ SavedKept
  /\ PickList(picks, served) /\ Agree

-----------------------------------------------------------------------------
LEMMA LoadCands ==
  ASSUME CandsKept, NEW o, NEW st, NEW sv, Picks!LoadEffect(o, st, sv), served' = served
  PROVE  CandsKept'
<1>1. load'.got = << >>
  BY DEF Picks!LoadEffect, Picks!NoLoad
<1>2. refs' = refs \/ refs' = << >>
  BY DEF Picks!LoadEffect
<1> QED BY <1>1, <1>2 DEF CandsKept

LEMMA ServicesForm ==
  ASSUME PicksSetting, FormKept, NEW sv, Order(sv), NEW act, Picks!SetServices(sv, act),
         step' = step
  PROVE  FormKept'
<1>1. CASE sv = << >>
  BY <1>1 DEF FormKept, Picks!SetServices
<1>2. CASE sv # << >>
  <2>1. sv[1] \in Svc /\ \A i \in DOMAIN sv : sv[i] \in Svc
    BY <1>2 DEF Order
  <2>2. active' \in Svc
    BY <1>2, <2>1 DEF Picks!SetServices, Picks!ToSet
  <2> QED BY <1>2, <2>2 DEF FormKept, Picks!SetServices, PicksSetting
<1> QED BY <1>1, <1>2

(* The list of picks is edited: its new ids are those of nothing else. *)
LEMMA EditSteady ==
  ASSUME Distinct(picks), From(picks', picks, Picks!FreeIds)
  PROVE  Picks!PinsChangeOnRefresh
<1> SUFFICES ASSUME NEW i \in DOMAIN picks, NEW j \in DOMAIN picks',
                    picks[i].id = picks'[j].id
             PROVE  picks[i].ver \in {0, picks'[j].ver}
  BY DEF Picks!PinsChangeOnRefresh, Picks!ToSet
<1>1. picks'[j].id \notin Picks!FreeIds
  BY DEF Picks!FreeIds, Picks!Ids, Picks!ToSet
<1>2. PICK k \in DOMAIN picks : SamePick(picks[k], picks'[j])
  BY <1>1 DEF From
<1>3. k = i
  BY <1>2 DEF SamePick, Distinct
<1> QED BY <1>2, <1>3 DEF SamePick

LEMMA EditAgree ==
  ASSUME Agree, From(picks', picks, Picks!FreeIds), acks' = acks, saved' = saved
  PROVE  Agree'
<1>1. ASSUME NEW j \in DOMAIN picks', NEW a \in acks PROVE Named(picks'[j], a)
  <2>1. picks'[j].id \in Picks!FreeIds => picks'[j].id # a.id
    BY DEF Picks!FreeIds
  <2> QED BY <2>1 DEF From, SamePick, Named, Agree
<1>2. ASSUME saved # None, NEW j \in DOMAIN picks', NEW k \in DOMAIN saved.picks
      PROVE  Named(picks'[j], saved.picks[k])
  <2>1. picks'[j].id \in Picks!FreeIds => picks'[j].id # saved.picks[k].id
    BY <1>2 DEF Picks!FreeIds, Picks!Ids, Picks!ToSet
  <2> QED BY <1>2, <2>1 DEF From, SamePick, Named, Agree
<1> QED BY <1>1, <1>2 DEF Agree

LEMMA EditCorrect ==
  ASSUME PicksInv, PickList(picks', served), From(picks', picks, Picks!FreeIds),
         UNCHANGED <<pool, served, services, active, step, refs, load, acks, saved>>
  PROVE  PicksInv' /\ Picks!PinsChangeOnRefresh
<1>1. Agree' /\ Picks!PinsChangeOnRefresh
  BY EditAgree, EditSteady DEF PicksInv, PickList
<1> QED BY <1>1 DEF PicksInv, PoolKept, CandsKept, AcksKept, FormKept, SavedKept

(* What is picked stays as it is. *)
LEMMA SamePicks ==
  ASSUME Distinct(picks), picks' = picks
  PROVE  Picks!PinsChangeOnRefresh
BY DEF Picks!PinsChangeOnRefresh, Picks!ToSet, Distinct

LEMMA FormCorrect ==
  ASSUME PicksInv, FormKept', CandsKept', UNCHANGED <<pool, served, picks, acks, saved>>
  PROVE  PicksInv' /\ Picks!PinsChangeOnRefresh
<1>1. Picks!PinsChangeOnRefresh
  BY SamePicks DEF PicksInv, PickList
<1> QED BY <1>1 DEF PicksInv, PoolKept, AcksKept, SavedKept, Agree

-----------------------------------------------------------------------------
LEMMA NoPicks == ASSUME NEW sv PROVE PickList(<< >>, sv)
BY DEF PickList, Distinct

LEMMA NoServices == Order(<< >>)
BY DEF Order

LEMMA StartCreateCorrect ==
  ASSUME PicksSetting, PicksInv, Picks!StartCreate
  PROVE  PicksInv' /\ Picks!PinsChangeOnRefresh
<1> USE DEF Picks!StartCreate, Picks!ClearedForm, Picks!world
<1>1. CandsKept'
  BY LoadCands DEF PicksInv
<1>2. FormKept'
  BY NoServices DEF FormKept, PicksSetting
<1>3. PickList(picks', served')
  BY NoPicks
<1>4. Agree'
  BY DEF Agree
<1>5. Picks!PinsChangeOnRefresh
  BY DEF Picks!PinsChangeOnRefresh
<1> QED BY <1>1, <1>2, <1>3, <1>4, <1>5 DEF PicksInv, PoolKept, AcksKept, SavedKept

LEMMA StartEditCorrect ==
  ASSUME PicksSetting, PicksInv, Picks!StartEdit
  PROVE  PicksInv' /\ Picks!PinsChangeOnRefresh
<1> USE DEF Picks!StartEdit, Picks!world
<1>1. CandsKept'
  BY LoadCands DEF PicksInv
<1>2. /\ saved \in Picks!Saved /\ PickList(saved.picks, served)
      /\ Order(saved.services) /\ saved.services # << >>
  BY DEF PicksInv, SavedKept
<1>3. FormKept'
  <2>1. saved.services[1] \in Svc
    BY <1>2 DEF Order
  <2>2. step' \in 1..3
    BY <1>2 DEF Picks!Saved
  <2> QED BY <1>2, <2>1, <2>2 DEF FormKept, PicksSetting
<1>4. PickList(picks', served')
  BY <1>2
<1>5. Agree'
  BY <1>2 DEF PicksInv, Agree, Named, PickList, Distinct
<1>6. Picks!PinsChangeOnRefresh
  BY DEF Picks!PinsChangeOnRefresh
<1> QED BY <1>1, <1>3, <1>4, <1>5, <1>6 DEF PicksInv, PoolKept, AcksKept, SavedKept

LEMMA CloseSheetCorrect ==
  ASSUME PicksSetting, PicksInv, Picks!CloseSheet
  PROVE  PicksInv' /\ Picks!PinsChangeOnRefresh
<1> USE DEF Picks!CloseSheet, Picks!world
<1>1. CASE Picks!ClearedForm /\ refs' = << >> /\ load' = Picks!NoLoad
  <2>1. CandsKept'
    BY <1>1 DEF CandsKept, Picks!NoLoad
  <2>2. FormKept'
    BY <1>1, NoServices DEF FormKept, Picks!ClearedForm, PicksSetting
  <2>3. PickList(picks', served')
    BY <1>1, NoPicks DEF Picks!ClearedForm
  <2>4. Agree'
    BY <1>1 DEF PicksInv, Agree, Picks!ClearedForm
  <2>5. Picks!PinsChangeOnRefresh
    BY DEF Picks!PinsChangeOnRefresh
  <2> QED BY <2>1, <2>2, <2>3, <2>4, <2>5 DEF PicksInv, PoolKept, AcksKept, SavedKept
<1>2. CASE /\ Picks!LoadEffect(FALSE, step, services)
           /\ UNCHANGED <<step, services, active, picks, told>>
  <2>1. CandsKept'
    BY <1>2, LoadCands DEF PicksInv
  <2>2. FormKept'
    BY <1>2 DEF PicksInv, FormKept
  <2> QED BY <1>2, <2>1, <2>2, FormCorrect
<1> QED BY <1>1, <1>2

LEMMA GoToCorrect ==
  ASSUME PicksInv, NEW st, Picks!GoTo(st)
  PROVE  PicksInv' /\ Picks!PinsChangeOnRefresh
<1> USE DEF Picks!GoTo, Picks!world
<1>1. CandsKept'
  BY LoadCands DEF PicksInv
<1>2. FormKept'
  BY DEF PicksInv, FormKept
<1> QED BY <1>1, <1>2, FormCorrect

(* The services are chosen and arranged. *)
LEMMA SetServicesCorrect ==
  ASSUME PicksSetting, PicksInv, NEW sv, Order(sv), NEW act, Picks!SetServices(sv, act),
         UNCHANGED Picks!quietly
  PROVE  PicksInv' /\ Picks!PinsChangeOnRefresh
<1> USE DEF Picks!quietly, Picks!world
<1>1. CandsKept'
  BY LoadCands DEF PicksInv, Picks!SetServices
<1>2. FormKept'
  BY ServicesForm DEF PicksInv
<1> QED BY <1>1, <1>2, FormCorrect

LEMMA SelectCorrect ==
  ASSUME PicksSetting, PicksInv, NEW s \in Svc, s \in Picks!ToSet(services), active' = s,
         UNCHANGED <<services, Picks!cand, Picks!quietly>>
  PROVE  PicksInv' /\ Picks!PinsChangeOnRefresh
<1> USE DEF Picks!quietly, Picks!world, Picks!cand
<1>1. CandsKept'
  BY DEF PicksInv, CandsKept
<1>2. services # << >>
  BY DEF Picks!ToSet
<1>3. FormKept'
  BY <1>2 DEF PicksInv, FormKept, PicksSetting
<1> QED BY <1>1, <1>3, FormCorrect

LEMMA AppendOrder ==
  ASSUME NEW sv, Order(sv), NEW s \in Svc, s \notin Picks!ToSet(sv)
  PROVE  Order(Append(sv, s))
<1>1. sv \in Seq(Svc) /\ Len(sv) \in Nat /\ DOMAIN sv = 1..Len(sv)
  BY ListTypes DEF Order
<1>2. PICK t : t = Append(sv, s)
  OBVIOUS
<1>3. /\ t \in Seq(Svc) /\ Len(t) = Len(sv) + 1 /\ t[Len(sv) + 1] = s
      /\ \A i \in 1..Len(sv) : t[i] = sv[i]
  BY <1>1, <1>2, AppendProperties
<1>4. DOMAIN t = 1..(Len(sv) + 1) /\ \A i \in 1..Len(sv) : sv[i] # s
  BY <1>1, <1>3 DEF Picks!ToSet
<1>5. ASSUME NEW i \in DOMAIN t, NEW j \in DOMAIN t, t[i] = t[j] PROVE i = j
  BY <1>1, <1>3, <1>4, <1>5 DEF Order
<1> QED BY <1>2, <1>3, <1>5 DEF Order

LEMMA PickServiceCorrect ==
  ASSUME PicksSetting, PicksInv, NEW s \in Svc, Picks!PickService(s)
  PROVE  PicksInv' /\ Picks!PinsChangeOnRefresh
<1>1. CASE s \in Picks!ToSet(services)
  BY <1>1, SelectCorrect DEF Picks!PickService
<1>2. CASE s \notin Picks!ToSet(services)
  <2>1. Order(Append(services, s))
    BY <1>2, AppendOrder DEF PicksInv, FormKept
  <2> QED BY <1>2, <2>1, SetServicesCorrect DEF Picks!PickService
<1> QED BY <1>1, <1>2

LEMMA ServiceRowCorrect ==
  ASSUME PicksSetting, PicksInv, NEW i \in DOMAIN services, Picks!ServiceRow(i)
  PROVE  PicksInv' /\ Picks!PinsChangeOnRefresh
<1>1. Order(services) /\ services \in Seq(Svc) /\ services[i] \in Svc
  <2>1. Order(services) /\ services \in Seq(Svc)
    BY DEF PicksInv, FormKept, Order
  <2> QED BY <2>1, ListTypes
<1>2. CASE Picks!SelectService(services[i])
  BY <1>1, <1>2, SelectCorrect DEF Picks!SelectService
<1>3. ASSUME NEW k \in DOMAIN services, Picks!MoveService(i, k)
      PROVE  PicksInv' /\ Picks!PinsChangeOnRefresh
  <2>1. Order(Picks!Moved(services, i, k))
    BY <1>1, MovedPart, PartOrder
  <2> QED BY <1>3, <2>1, SetServicesCorrect DEF Picks!MoveService
<1>4. CASE Picks!RemoveService(i)
  <2>1. Order(Picks!RemoveAt(services, i))
    BY <1>1, RemovedPart, PartOrder
  <2> QED BY <1>4, <2>1, SetServicesCorrect DEF Picks!RemoveService
<1> QED BY <1>2, <1>3, <1>4 DEF Picks!ServiceRow

-----------------------------------------------------------------------------
(* The picks are edited. *)
LEMMA AddedCorrect ==
  ASSUME PicksInv, NEW qs, PickList(qs, served), \A j \in DOMAIN qs : qs[j].id \in Picks!FreeIds,
         picks' = picks \o qs, UNCHANGED Picks!others
  PROVE  PicksInv' /\ Picks!PinsChangeOnRefresh
<1>1. \A i \in DOMAIN picks : picks[i].id \notin Picks!FreeIds
  BY DEF Picks!FreeIds, Picks!Ids, Picks!ToSet
<1>2. PickList(picks', served) /\ From(picks', picks, Picks!FreeIds)
  BY <1>1, JoinedList DEF PicksInv
<1> QED BY <1>2, EditCorrect DEF Picks!others, Picks!world, Picks!form, Picks!cand

LEMMA AddRuleCorrect ==
  ASSUME PicksSetting, PicksInv, NEW c, Picks!AddRule(c)
  PROVE  PicksInv' /\ Picks!PinsChangeOnRefresh
<1>1. PICK id \in Picks!FreeIds : picks' = Append(picks, Picks!NewPick(id, c))
  BY DEF Picks!AddRule
<1>2. PICK p : p = Picks!NewPick(id, c)
  OBVIOUS
<1>3. Pinned(p, served) /\ p.id = id /\ p \in Picks!Pick
  <2>1. id \in PickId /\ c \in DOMAIN refs /\ Was(c, refs[c], served)
    BY DEF Picks!AddRule, Picks!FreeIds, Picks!LeftRulePool, PicksInv, CandsKept
  <2>2. Pinned(p, served) /\ p.id = id
    BY <1>2, <2>1, NewPin
  <2> QED BY <2>2 DEF Pinned
<1>4. PickList(<<p>>, served) /\ DOMAIN <<p>> = {1} /\ <<p>>[1] = p
  BY <1>3 DEF PickList, Distinct
<1>5. picks \in Seq(Picks!Pick)
  BY DEF PicksInv, PickList
<1>6. picks' = picks \o <<p>>
  BY <1>1, <1>2, <1>3, <1>5, AppendIsConcat
<1> QED BY <1>3, <1>4, <1>6, AddedCorrect DEF Picks!AddRule

LEMMA AddByTypeCorrect ==
  ASSUME PicksSetting, PicksInv, NEW type, Picks!AddRulesByCaseType(type)
  PROVE  PicksInv' /\ Picks!PinsChangeOnRefresh
<1>1. PICK new, order, ids :
        /\ new \subseteq Picks!LeftRulePool /\ order \in Picks!SetToSeqs(new)
        /\ ids \in [1..Picks!Cardinality(new) -> Picks!FreeIds] /\ Picks!IsInjective(ids)
        /\ picks' = picks \o [k \in DOMAIN order |-> Picks!NewPick(ids[k], order[k])]
  <2> DEFINE all == {c \in Picks!LeftRulePool \cap Picks!OfType[type] :
                       \A p \in Picks!ToSet(picks) : p.case # c}
  <2>1. \E order \in Picks!SetToSeqs(all), ids \in [1..Picks!Cardinality(all) -> Picks!FreeIds] :
          /\ Picks!IsInjective(ids)
          /\ picks' = picks \o [k \in DOMAIN order |-> Picks!NewPick(ids[k], order[k])]
    BY Zenon DEF Picks!AddRulesByCaseType
  <2>2. all \subseteq Picks!LeftRulePool
    OBVIOUS
  <2> HIDE DEF all
  <2> QED BY <2>1, <2>2, Zenon
<1>2. PICK n : n = Picks!Cardinality(new)
  OBVIOUS
<1>3. n \in Nat
  <2>1. new \subseteq Case
    BY <1>1 DEF Picks!LeftRulePool, PicksInv, CandsKept, Was
  <2>2. IsFiniteSet(new)
    BY <2>1, FS_Subset DEF PicksSetting
  <2>3. Cardinality(new) \in Nat
    BY <2>2, FS_CardinalityType
  <2>4. Picks!Cardinality(new) = Cardinality(new)
    BY Zenon DEF Picks!Cardinality, Cardinality
  <2> QED BY <1>2, <2>3, <2>4
<1>4. order \in [1..n -> new] /\ ids \in [1..n -> Picks!FreeIds]
      /\ \A i, j \in 1..n : ids[i] = ids[j] => i = j
  BY <1>1, <1>2 DEF Picks!SetToSeqs, Picks!IsInjective
<1>5. PICK qs : qs = [k \in DOMAIN order |-> Picks!NewPick(ids[k], order[k])]
  OBVIOUS
<1>6. ASSUME NEW k \in 1..n PROVE Pinned(qs[k], served) /\ qs[k].id = ids[k]
  <2>1. PICK id, c : id = ids[k] /\ c = order[k]
    OBVIOUS
  <2>2. id \in PickId /\ c \in DOMAIN refs /\ Was(c, refs[c], served)
    BY <1>1, <1>4, <2>1 DEF Picks!FreeIds, Picks!LeftRulePool, PicksInv, CandsKept
  <2>3. Pinned(Picks!NewPick(id, c), served) /\ Picks!NewPick(id, c).id = id
    BY <2>2, NewPin
  <2> QED BY <1>4, <1>5, <2>1, <2>3
<1>7. PickList(qs, served) /\ DOMAIN qs = 1..n
  <2>1. DOMAIN qs = 1..n
    BY <1>4, <1>5
  <2>2. qs \in [1..n -> Picks!Pick]
    <3>1. qs = [k \in 1..n |-> qs[k]]
      BY <1>4, <1>5
    <3> QED BY <1>6, <3>1 DEF Pinned
  <2>3. qs \in Seq(Picks!Pick)
    BY <1>3, <2>2
  <2> QED BY <1>4, <1>6, <2>1, <2>3 DEF PickList, Distinct
<1>8. \A j \in DOMAIN qs : qs[j].id \in Picks!FreeIds
  BY <1>4, <1>6, <1>7
<1> QED BY <1>1, <1>5, <1>7, <1>8, AddedCorrect DEF Picks!AddRulesByCaseType

LEMMA PartCorrect ==
  ASSUME PicksInv, picks' \in Seq(Picks!Pick), Part(picks', picks), UNCHANGED Picks!others
  PROVE  PicksInv' /\ Picks!PinsChangeOnRefresh
<1>1. PickList(picks', served) /\ From(picks', picks, {})
  BY PartList DEF PicksInv
<1>2. From(picks', picks, Picks!FreeIds)
  BY <1>1 DEF From
<1> QED BY <1>1, <1>2, EditCorrect DEF Picks!others, Picks!world, Picks!form, Picks!cand

LEMMA RemoveAllCorrect ==
  ASSUME PicksInv, Picks!RemoveAllRules
  PROVE  PicksInv' /\ Picks!PinsChangeOnRefresh
<1>1. picks' \in Seq(Picks!Pick) /\ Part(picks', picks)
  <2>1. picks' = << >> /\ DOMAIN picks' = {}
    BY DEF Picks!RemoveAllRules
  <2>2. [x \in {} |-> x] \in [DOMAIN picks' -> DOMAIN picks]
    BY <2>1
  <2>3. Part(picks', picks)
    BY <2>1, <2>2, Zenon DEF Part
  <2> QED BY <2>1, <2>3
<1> QED BY <1>1, PartCorrect DEF Picks!RemoveAllRules

(* A refresh is asked for: of a pick that has a candidate. *)
LEMMA AcknowledgeCorrect ==
  ASSUME PicksInv, NEW i \in DOMAIN picks, Picks!Acknowledge(i)
  PROVE  PicksInv' /\ Picks!PinsChangeOnRefresh
<1> USE DEF Picks!world, Picks!form, Picks!cand
<1>0. PICK n \in 1..MaxAcks :
        acks' = acks \cup {[n |-> n, id |-> picks[i].id, case |-> picks[i].case,
                             old |-> refs[picks[i].case], answer |-> NoPrint]}
  BY DEF Picks!Acknowledge
<1>1. PICK a : /\ a = [n |-> n, id |-> picks[i].id, case |-> picks[i].case,
                       old |-> refs[picks[i].case], answer |-> NoPrint]
               /\ acks' = acks \cup {a}
  BY <1>0
<1>2. picks[i] \in Picks!Pick /\ Distinct(picks)
  BY DEF PicksInv, PickList, Pinned
<1>3. picks[i].case \in DOMAIN refs
  BY DEF Picks!Acknowledge, Picks!Health
<1>4. Was(picks[i].case, refs[picks[i].case], served)
  BY <1>3 DEF PicksInv, CandsKept
<1>5. a \in Ack /\ Was(a.case, a.old, served) /\ a.answer = NoPrint
      /\ a.id = picks[i].id /\ a.case = picks[i].case
  BY <1>1, <1>2, <1>4 DEF Ack, Picks!Pick, Was
<1>6. UNCHANGED <<pool, served, step, services, active, refs, load, picks, saved>>
  BY DEF Picks!Acknowledge
<1>7. AcksKept'
  BY <1>1, <1>5, <1>6 DEF PicksInv, AcksKept
<1>8. Agree'
  BY <1>1, <1>2, <1>5, <1>6 DEF PicksInv, Agree, Named, Distinct
<1>9. Picks!PinsChangeOnRefresh
  BY <1>2, <1>6, SamePicks
<1> QED BY <1>6, <1>7, <1>8, <1>9 DEF PicksInv, PoolKept, CandsKept, FormKept, SavedKept

LEMMA TransferCorrect ==
  ASSUME PicksSetting, PicksInv, Picks!ScenarioTestcaseTransfer
  PROVE  PicksInv' /\ Picks!PinsChangeOnRefresh
<1>1. picks \in Seq(Picks!Pick)
  BY DEF PicksInv, PickList
<1>2. ASSUME NEW i \in DOMAIN picks, Picks!RemoveRule(i)
      PROVE  PicksInv' /\ Picks!PinsChangeOnRefresh
  BY <1>1, <1>2, RemovedPart, PartCorrect DEF Picks!RemoveRule
<1>3. ASSUME NEW i \in DOMAIN picks, NEW k \in DOMAIN picks, Picks!ReorderRules(i, k)
      PROVE  PicksInv' /\ Picks!PinsChangeOnRefresh
  BY <1>1, <1>3, MovedPart, PartCorrect DEF Picks!ReorderRules
<1> QED
  BY <1>2, <1>3, AddRuleCorrect, AddByTypeCorrect, RemoveAllCorrect, AcknowledgeCorrect
  DEF Picks!ScenarioTestcaseTransfer, Picks!TestcasePickRow

-----------------------------------------------------------------------------
(* Saving and running. *)
LEMMA SavePicks ==
  ASSUME PicksSetting, PicksInv
  PROVE  /\ PickList(Picks!PicksForSave, served)
         /\ DOMAIN Picks!PicksForSave = DOMAIN picks
         /\ \A i \in DOMAIN picks : SamePick(picks[i], Picks!PicksForSave[i])
BY HydratedList DEF PicksInv, CandsKept, Picks!PicksForSave

LEMMA SavedAgree ==
  ASSUME PicksSetting, PicksInv, picks' = Picks!PicksForSave, acks' = acks, served' = served
  PROVE  /\ saved' = saved => Agree'
         /\ saved'.picks = picks' => Agree'
         /\ PickList(picks', served')
         /\ Picks!PinsChangeOnRefresh
<1>1. /\ PickList(picks', served) /\ DOMAIN picks' = DOMAIN picks
      /\ \A i \in DOMAIN picks : SamePick(picks[i], picks'[i])
  BY SavePicks
<1>2. From(picks', picks, Picks!FreeIds)
  BY <1>1 DEF From
<1>3. Picks!PinsChangeOnRefresh
  BY <1>2, EditSteady DEF PicksInv, PickList
<1>4. ASSUME saved'.picks = picks' PROVE Agree'
  <2>1. ASSUME NEW i \in DOMAIN picks', NEW a \in acks PROVE Named(picks'[i], a)
    BY <1>1 DEF PicksInv, Agree, Named, SamePick
  <2>2. ASSUME NEW i \in DOMAIN picks', NEW j \in DOMAIN picks' PROVE Named(picks'[i], picks'[j])
    BY <1>1 DEF PickList, Distinct, Named
  <2> QED BY <1>4, <2>1, <2>2 DEF Agree
<1>5. saved' = saved => Agree'
  BY <1>2, EditAgree DEF PicksInv
<1> QED BY <1>1, <1>3, <1>4, <1>5

LEMMA StoredSaved ==
  ASSUME PicksSetting, PicksInv, services # << >>, NEW ready \in BOOLEAN,
         Picks!Store(Picks!PicksForSave, ready), served' = served
  PROVE  SavedKept' /\ saved'.picks = Picks!PicksForSave
<1>1. PICK ps : ps = Picks!PicksForSave
  OBVIOUS
<1>2. PickList(ps, served) /\ ps \in Seq(Picks!Pick)
  BY <1>1, SavePicks DEF PickList
<1>3. saved' = [picks |-> ps, services |-> services, step |-> step, ready |-> ready]
  BY <1>1 DEF Picks!Store
<1>4. services \in Seq(Svc) /\ Order(services) /\ step \in 1..3
  BY DEF PicksInv, FormKept, Order
<1>5. saved' \in Picks!Saved /\ saved'.picks = ps /\ saved'.services = services
  BY <1>2, <1>3, <1>4 DEF Picks!Saved
<1> QED BY <1>1, <1>2, <1>4, <1>5 DEF SavedKept

LEMMA SaveDraftCorrect ==
  ASSUME PicksSetting, PicksInv, Picks!SaveDraft
  PROVE  PicksInv' /\ Picks!PinsChangeOnRefresh
<1> USE DEF Picks!SaveDraft, Picks!world, Picks!form, Picks!cand
<1>1. SavedKept' /\ saved'.picks = picks'
  BY StoredSaved
<1>2. Agree' /\ PickList(picks', served') /\ Picks!PinsChangeOnRefresh
  BY <1>1, SavedAgree
<1> QED BY <1>1, <1>2 DEF PicksInv, PoolKept, CandsKept, AcksKept, FormKept

LEMMA SaveReadyCorrect ==
  ASSUME PicksSetting, PicksInv, Picks!SaveReady
  PROVE  PicksInv' /\ Picks!PinsChangeOnRefresh
<1> USE DEF Picks!world
<1>1. /\ services # << >> /\ picks' = Picks!PicksForSave
      /\ UNCHANGED <<pool, served, services, active, acks>>
  BY DEF Picks!SaveReady
<1>2. \/ Picks!Store(Picks!PicksForSave, TRUE) /\ step' = step
         /\ Picks!LoadEffect(FALSE, step, services)
      \/ saved' = saved /\ step' = 1 /\ Picks!LoadEffect(TRUE, 1, services)
  BY DEF Picks!SaveReady
<1>3. SavedKept' /\ (saved' = saved \/ saved'.picks = picks')
  <2>1. CASE Picks!Store(Picks!PicksForSave, TRUE)
    BY <1>1, <2>1, StoredSaved
  <2>2. CASE saved' = saved
    BY <1>1, <2>2 DEF PicksInv, SavedKept
  <2> QED BY <1>2, <2>1, <2>2
<1>4. Agree' /\ PickList(picks', served') /\ Picks!PinsChangeOnRefresh
  BY <1>1, <1>3, SavedAgree
<1>5. CandsKept'
  BY <1>1, <1>2, LoadCands DEF PicksInv
<1>6. FormKept'
  <2>1. FormKept
    BY DEF PicksInv
  <2>2. step' = step \/ step' = 1
    BY <1>2, Zenon
  <2> QED BY <1>1, <2>1, <2>2 DEF FormKept
<1> QED BY <1>1, <1>3, <1>4, <1>5, <1>6 DEF PicksInv, PoolKept, AcksKept

(* The rows that the pool has are rows there were. *)
LEMMA LiveWas ==
  ASSUME PoolKept, NEW rows \in SUBSET Case
  PROVE  /\ DOMAIN Picks!Live(rows) = rows
         /\ \A c \in rows : Was(c, Picks!Live(rows)[c], served)
BY DEF PoolKept, Picks!Live

LEMMA PrepareRunCorrect ==
  ASSUME PicksSetting, PicksInv, Picks!PrepareRun
  PROVE  PicksInv' /\ Picks!PinsChangeOnRefresh
<1> USE DEF Picks!world, Picks!form, Picks!cand
<1>1. saved # None /\ UNCHANGED <<pool, served, open, step, services, active, refs, loading,
                                  load, picks, acks>>
  BY DEF Picks!PrepareRun
<1>2. PICK rows \in SUBSET Case :
        \/ saved' = [saved EXCEPT !.picks = Picks!Hydrated(saved.picks, Picks!Live(rows))]
        \/ saved' = saved
  <2>1. PICK failed : LET rows == Picks!Live({c \in Case : /\ pool[c].at # "gone"
                                         /\ SvcOf[c] \notin failed
                                         /\ \E p \in Picks!ToSet(saved.picks) :
                                              SvcOf[p.case] = SvcOf[c]})
                      IN \/ saved' = [saved EXCEPT !.picks = Picks!Hydrated(saved.picks, rows)]
                         \/ saved' = saved
    BY DEF Picks!PrepareRun
  <2> QED BY <2>1
<1>3. CASE saved' = saved
  <2>1. Picks!PinsChangeOnRefresh
    BY <1>1, SamePicks DEF PicksInv, PickList
  <2> QED BY <1>1, <1>3, <2>1
      DEF PicksInv, PoolKept, CandsKept, AcksKept, FormKept, SavedKept, Agree
<1>4. ASSUME NEW qs, qs = Picks!Hydrated(saved.picks, Picks!Live(rows)),
             saved' = [saved EXCEPT !.picks = qs]
      PROVE  PicksInv' /\ Picks!PinsChangeOnRefresh
  <2>1. /\ saved \in Picks!Saved /\ PickList(saved.picks, served)
        /\ Order(saved.services) /\ saved.services # << >>
    BY <1>1 DEF PicksInv, SavedKept
  <2>2. /\ PickList(qs, served) /\ DOMAIN qs = DOMAIN saved.picks
        /\ \A i \in DOMAIN saved.picks : SamePick(saved.picks[i], qs[i])
    BY <1>4, <2>1, LiveWas, HydratedList DEF PicksInv
  <2>3. saved' \in Picks!Saved /\ saved'.picks = qs /\ saved'.services = saved.services
    BY <1>4, <2>1, <2>2 DEF Picks!Saved, PickList
  <2>4. SavedKept'
    BY <1>1, <2>1, <2>2, <2>3 DEF SavedKept
  <2>5. Agree'
    BY <1>1, <2>2, <2>3 DEF PicksInv, Agree, Named, SamePick
  <2>6. Picks!PinsChangeOnRefresh
    BY <1>1, SamePicks DEF PicksInv, PickList
  <2> QED BY <1>1, <2>4, <2>5, <2>6
      DEF PicksInv, PoolKept, CandsKept, AcksKept, FormKept
<1> QED BY <1>2, <1>3, <1>4

-----------------------------------------------------------------------------
(* Answers. *)
LEMMA LoadAnswerCorrect ==
  ASSUME PicksSetting, PicksInv, Picks!LoadAnswer
  PROVE  PicksInv' /\ Picks!PinsChangeOnRefresh
<1> USE DEF Picks!world, Picks!form
<1>1. UNCHANGED <<pool, served, open, step, services, active, acks, saved>>
  BY DEF Picks!LoadAnswer
<1>2. PICK rows, got :
        /\ rows \in SUBSET Case
        /\ got = [c \in DOMAIN load.got \cup rows |->
                    IF c \in DOMAIN load.got THEN load.got[c] ELSE Picks!Live(rows)[c]]
        /\ \/ load' = [todo |-> Tail(load.todo), got |-> got] /\ UNCHANGED <<refs, picks>>
           \/ /\ load' = Picks!NoLoad /\ refs' = got
              /\ picks' = Picks!Hydrated(picks, got)
  <2>1. PICK rows \in {{c \in Picks!CasesOf(Head(load.todo)) : pool[c].at = "usable"}, {}} :
          LET got == [c \in DOMAIN load.got \cup rows |->
                        IF c \in DOMAIN load.got THEN load.got[c] ELSE Picks!Live(rows)[c]] IN
          IF Len(load.todo) > 1
          THEN /\ load' = [todo |-> Tail(load.todo), got |-> got]
               /\ UNCHANGED <<refs, loading, picks>>
          ELSE load' = Picks!NoLoad /\ Picks!LoadDone(got)
    BY DEF Picks!LoadAnswer
  <2>2. rows \in SUBSET Case
    BY <2>1 DEF Picks!CasesOf
  <2>3. PICK got : got = [c \in DOMAIN load.got \cup rows |->
                        IF c \in DOMAIN load.got THEN load.got[c] ELSE Picks!Live(rows)[c]]
    OBVIOUS
  <2> QED BY <2>1, <2>2, <2>3 DEF Picks!LoadDone
<1>3. \A c \in DOMAIN got : Was(c, got[c], served)
  BY <1>2, LiveWas DEF PicksInv, CandsKept
<1>4. CASE load' = [todo |-> Tail(load.todo), got |-> got] /\ UNCHANGED <<refs, picks>>
  <2>1. CandsKept'
    BY <1>1, <1>3, <1>4 DEF PicksInv, CandsKept
  <2>2. FormKept'
    BY <1>1 DEF PicksInv, FormKept
  <2> QED BY <1>1, <1>4, <2>1, <2>2, FormCorrect
<1>5. CASE /\ load' = Picks!NoLoad /\ refs' = got
           /\ picks' = Picks!Hydrated(picks, got)
  <2>1. CandsKept'
    BY <1>1, <1>3, <1>5 DEF CandsKept, Picks!NoLoad
  <2>2. /\ PickList(picks', served) /\ DOMAIN picks' = DOMAIN picks
        /\ \A i \in DOMAIN picks : SamePick(picks[i], picks'[i])
    BY <1>3, <1>5, HydratedList DEF PicksInv
  <2>3. From(picks', picks, Picks!FreeIds)
    BY <2>2 DEF From
  <2>4. Agree' /\ Picks!PinsChangeOnRefresh
    BY <1>1, <2>3, EditAgree, EditSteady DEF PicksInv, PickList
  <2> QED BY <1>1, <2>1, <2>2, <2>4 DEF PicksInv, PoolKept, AcksKept, FormKept, SavedKept
<1> QED BY <1>2, <1>4, <1>5

LEMMA ReadTestcaseCorrect ==
  ASSUME PicksSetting, PicksInv, NEW a \in acks, Picks!ReadTestcase(a)
  PROVE  PicksInv' /\ Picks!PinsChangeOnRefresh
<1> USE DEF Picks!world, Picks!form, Picks!cand
<1>1. UNCHANGED <<pool, served, open, step, services, active, refs, load, picks, saved>>
  BY DEF Picks!ReadTestcase
<1>2. PICK x : x = IF pool[a.case].at = "gone" THEN None ELSE Picks!Live({a.case})[a.case]
  OBVIOUS
<1>3. PICK b : b = [a EXCEPT !.answer = x]
  OBVIOUS
<1>4. acks' = (acks \ {a}) \cup {b}
  BY <1>2, <1>3 DEF Picks!ReadTestcase
<1>5. a \in Ack /\ a.case \in Case /\ Was(a.case, a.old, served)
  BY DEF PicksInv, AcksKept, Ack
<1>6. x = None \/ Was(a.case, x, served)
  BY <1>2, <1>5, LiveWas DEF PicksInv
<1>7. b \in Ack /\ b.id = a.id /\ b.case = a.case /\ b.old = a.old /\ b.answer = x
  BY <1>3, <1>5, <1>6 DEF Ack, Was
<1>8. AcksKept'
  BY <1>1, <1>4, <1>5, <1>6, <1>7 DEF PicksInv, AcksKept
<1>9. Agree'
  BY <1>1, <1>4, <1>7 DEF PicksInv, Agree, Named
<1>10. Picks!PinsChangeOnRefresh
  BY <1>1, SamePicks DEF PicksInv, PickList
<1> QED BY <1>1, <1>8, <1>9, <1>10 DEF PicksInv, PoolKept, CandsKept, FormKept, SavedKept

LEMMA AnswerCorrect ==
  ASSUME PicksSetting, PicksInv, NEW a \in acks, Picks!AcknowledgeAnswer(a)
  PROVE  PicksInv' /\ Picks!PinsChangeOnRefresh
<1> USE DEF Picks!world, Picks!form
<1>1. /\ UNCHANGED <<pool, served, open, step, services, active, load, saved>>
      /\ acks' = acks \ {a} /\ a.answer # NoPrint
  BY DEF Picks!AcknowledgeAnswer
<1>2. PICK live \in {a.answer, None} :
        /\ refs' = IF live = None THEN refs
                   ELSE [c \in DOMAIN refs \cup {a.case} |-> IF c = a.case THEN live ELSE refs[c]]
        /\ picks' = [i \in DOMAIN picks |->
             IF picks[i].id # a.id THEN picks[i]
             ELSE IF live = None THEN Picks!Acknowledged(picks[i], [c \in {a.case} |-> a.old])
             ELSE Picks!Refreshed(picks[i], live)]
  BY DEF Picks!AcknowledgeAnswer
<1>3. /\ Was(a.case, a.old, served)
      /\ live # None => Was(a.case, live, served)
  BY <1>1, <1>2 DEF PicksInv, AcksKept
<1>4. CandsKept'
  BY <1>1, <1>2, <1>3 DEF PicksInv, CandsKept
<1>5. DOMAIN picks' = DOMAIN picks
  BY <1>2
<1>6. ASSUME NEW i \in DOMAIN picks
      PROVE  /\ Pinned(picks'[i], served)
             /\ picks'[i].id = picks[i].id /\ picks'[i].case = picks[i].case
             /\ picks[i].id # a.id => picks'[i] = picks[i]
  <2>1. Pinned(picks[i], served)
    BY DEF PicksInv, PickList
  <2>2. CASE picks[i].id # a.id
    BY <1>2, <2>1, <2>2
  <2>3. CASE picks[i].id = a.id
    <3>1. picks[i].case = a.case
      BY <2>3 DEF PicksInv, Agree, Named
    <3>2. CASE live = None
      <4>1. PICK rows : rows = [c \in {a.case} |-> a.old]
        OBVIOUS
      <4>2. picks'[i] = Picks!Acknowledged(picks[i], rows) /\ rows[picks[i].case] = a.old
        BY <1>2, <2>3, <3>1, <3>2, <4>1
      <4>3. picks'[i] = picks[i] \/ picks'[i] = Picks!Refreshed(picks[i], a.old)
        BY <4>2 DEF Picks!Acknowledged
      <4> QED BY <1>3, <2>1, <2>3, <3>1, <4>3, RefreshedPin
    <3>3. CASE live # None
      <4>1. picks'[i] = Picks!Refreshed(picks[i], live)
        BY <1>2, <2>3, <3>3
      <4> QED BY <1>3, <2>1, <2>3, <3>1, <3>3, <4>1, RefreshedPin
    <3> QED BY <3>2, <3>3
  <2> QED BY <2>2, <2>3
<1>7. PickList(picks', served)
  <2>1. Len(picks) \in Nat /\ DOMAIN picks = 1..Len(picks) /\ Distinct(picks)
    BY ListTypes DEF PicksInv, PickList
  <2>2. picks' \in [1..Len(picks) -> Picks!Pick]
    <3>1. picks' = [i \in DOMAIN picks |-> picks'[i]]
      BY <1>2
    <3> QED BY <1>6, <2>1, <3>1 DEF Pinned
  <2>3. picks' \in Seq(Picks!Pick)
    BY <2>1, <2>2
  <2>4. Distinct(picks')
    BY <1>5, <1>6, <2>1 DEF Distinct
  <2> QED BY <1>5, <1>6, <2>3, <2>4 DEF PickList
<1>8. Agree'
  BY <1>1, <1>5, <1>6 DEF PicksInv, Agree, Named
<1>9. Picks!PinsChangeOnRefresh
  <2> SUFFICES ASSUME NEW i \in DOMAIN picks, NEW j \in DOMAIN picks',
                      picks[i].id = picks'[j].id, picks[i].ver # picks'[j].ver
               PROVE  \E d \in acks \ acks' : d.id = picks[i].id
    BY DEF Picks!PinsChangeOnRefresh, Picks!ToSet
  <2>1. j \in DOMAIN picks /\ picks'[j].id = picks[j].id
    BY <1>5, <1>6
  <2>2. j = i
    BY <2>1 DEF PicksInv, PickList, Distinct
  <2>3. picks[i].id = a.id
    BY <1>6, <2>2
  <2> QED BY <1>1, <2>3
<1>10. AcksKept'
  BY <1>1 DEF PicksInv, AcksKept
<1> QED BY <1>1, <1>4, <1>7, <1>8, <1>9, <1>10 DEF PicksInv, PoolKept, FormKept, SavedKept

-----------------------------------------------------------------------------
(* The pool changes: what was served stays served. *)
LEMMA WasStays ==
  ASSUME NEW sv, NEW more, sv \subseteq more, NEW c, NEW row, Was(c, row, sv)
  PROVE  Was(c, row, more)
BY DEF Was

LEMMA PoolChanged ==
  ASSUME PicksInv, PoolKept', served \subseteq served',
         UNCHANGED <<services, active, step, refs, load, picks, acks, saved>>
  PROVE  PicksInv' /\ Picks!PinsChangeOnRefresh
<1>1. CandsKept'
  BY WasStays DEF PicksInv, CandsKept
<1>2. AcksKept'
  BY WasStays DEF PicksInv, AcksKept
<1>3. PickList(picks', served') /\ SavedKept'
  BY ListStays DEF PicksInv, SavedKept
<1>4. Picks!PinsChangeOnRefresh
  BY SamePicks DEF PicksInv, PickList
<1> QED BY <1>1, <1>2, <1>3, <1>4 DEF PicksInv, FormKept, Agree

LEMMA PutType ==
  ASSUME PicksSetting, PoolKept, NEW c \in Case, Picks!PutTestcase(c)
  PROVE  PoolKept' /\ served \subseteq served'
<1>1. PICK b \in Body, v \in IF pool[c].at = "gone" THEN FirstVers \cup {pool[c].ver + 1}
                             ELSE {pool[c].ver + 1} :
        /\ v <= MaxVer
        /\ pool' = [pool EXCEPT ![c] = [at |-> "usable", ver |-> v, body |-> b]]
        /\ served' = served \cup {<<c, v, b>>}
  BY DEF Picks!PutTestcase
<1>2. v \in Picks!Ver /\ v # 0
  <2>1. pool[c].ver \in Picks!Ver
    BY DEF PoolKept, Picks!PoolRow
  <2>2. v \in FirstVers \/ v = pool[c].ver + 1
    BY <1>1
  <2>3. MaxVer \in Nat /\ FirstVers \subseteq 1..MaxVer
    BY DEF PicksSetting
  <2> QED BY <1>1, <2>1, <2>2, <2>3 DEF Picks!Ver
<1>3. [at |-> "usable", ver |-> v, body |-> b] \in Picks!PoolRow
  BY <1>2 DEF Picks!PoolRow
<1>4. pool' \in [Case -> Picks!PoolRow]
  BY <1>1, <1>3 DEF PoolKept
<1>5. ASSUME NEW d \in Case
      PROVE  Was(d, [ver |-> pool'[d].ver, body |-> pool'[d].body], served')
  <2>1. CASE d = c
    <3>1. pool'[d] = [at |-> "usable", ver |-> v, body |-> b]
      BY <1>1, <2>1 DEF PoolKept
    <3> QED BY <1>1, <1>2, <2>1, <3>1 DEF Was, Picks!Row
  <2>2. CASE d # c
    <3>1. pool'[d] = pool[d]
      BY <1>1, <2>2 DEF PoolKept
    <3> QED BY <1>1, <3>1, WasStays DEF PoolKept
  <2> QED BY <2>1, <2>2
<1> QED BY <1>1, <1>4, <1>5 DEF PoolKept

LEMMA ChangePoolCorrect ==
  ASSUME PicksSetting, PicksInv, Picks!ChangePool
  PROVE  PicksInv' /\ Picks!PinsChangeOnRefresh
<1> USE DEF Picks!form, Picks!cand
<1>1. ASSUME NEW c \in Case, Picks!PutTestcase(c)
      PROVE  PicksInv' /\ Picks!PinsChangeOnRefresh
  BY <1>1, PutType, PoolChanged DEF Picks!ChangePool, PicksInv
<1>2. ASSUME NEW c \in Case, NEW at \in {"gone", "draft"}, pool' = [pool EXCEPT ![c].at = at],
             served' = served
      PROVE  PicksInv' /\ Picks!PinsChangeOnRefresh
  <2>1. PoolKept
    BY DEF PicksInv
  <2>2. pool' \in [Case -> Picks!PoolRow]
    BY <1>2, <2>1 DEF PoolKept, Picks!PoolRow
  <2>3. \A d \in Case : pool'[d].ver = pool[d].ver /\ pool'[d].body = pool[d].body
    BY <1>2, <2>1 DEF PoolKept, Picks!PoolRow
  <2>4. PoolKept'
    BY <1>2, <2>1, <2>2, <2>3 DEF PoolKept
  <2> QED BY <1>2, <2>4, PoolChanged DEF Picks!ChangePool
<1> QED BY <1>1, <1>2 DEF Picks!ChangePool

-----------------------------------------------------------------------------
LEMMA PicksInit == ASSUME PicksSetting, Picks!Init PROVE PicksInv
<1>1. pool \in [Case -> Picks!PoolRow]
      /\ \A c \in Case : pool[c].ver \in FirstVers /\ pool[c].body \in Body
  BY DEF Picks!Init, Picks!PoolRow, Picks!Ver, PicksSetting
<1>2. PoolKept
  <2> SUFFICES ASSUME NEW c \in Case
               PROVE  Was(c, [ver |-> pool[c].ver, body |-> pool[c].body], served)
    BY <1>1 DEF PoolKept
  <2>1. <<c, pool[c].ver, pool[c].body>> \in served
    BY DEF Picks!Init
  <2>2. pool[c].ver \in Picks!Ver /\ pool[c].ver # 0
    <3>1. PICK v : v = pool[c].ver
      OBVIOUS
    <3>2. v \in 1..MaxVer /\ MaxVer \in Nat
      BY <1>1, <3>1 DEF PicksSetting
    <3> QED BY <3>1, <3>2 DEF Picks!Ver
  <2> QED BY <1>1, <2>1, <2>2 DEF Was, Picks!Row
<1>3. CandsKept /\ AcksKept /\ FormKept
  <2>1. CandsKept
    BY DEF Picks!Init, CandsKept, Picks!NoLoad
  <2>2. AcksKept
    BY DEF Picks!Init, AcksKept
  <2>3. FormKept
    BY NoServices DEF Picks!Init, FormKept, PicksSetting
  <2> QED BY <2>1, <2>2, <2>3
<1>4. PickList(picks, served)
  BY NoPicks DEF Picks!Init
<1>5. SavedKept
  <2> SUFFICES ASSUME saved # None PROVE SavedKept
    BY DEF SavedKept
  <2>1. \E id \in PickId, c \in Case :
          saved = [picks |-> <<[id |-> id, case |-> c, ver |-> 0, fp |-> NoPrint]>>,
                   services |-> <<SvcOf[c]>>, step |-> 3, ready |-> TRUE]
    BY DEF Picks!Init
  <2>2. PICK id, c, p :
          /\ id \in PickId /\ c \in Case
          /\ p = [id |-> id, case |-> c, ver |-> 0, fp |-> NoPrint]
          /\ saved = [picks |-> <<p>>, services |-> <<SvcOf[c]>>, step |-> 3, ready |-> TRUE]
    BY <2>1
  <2>3. p \in Picks!Pick /\ SvcOf[c] \in Svc
    BY <2>2 DEF Picks!Pick, Picks!Ver, PicksSetting
  <2>4. Pinned(p, served)
    BY <2>3, <2>2 DEF Pinned
  <2>5. <<p>> \in Seq(Picks!Pick) /\ DOMAIN <<p>> = {1} /\ <<p>>[1] = p
    BY <2>3
  <2>6. PickList(<<p>>, served)
    BY <2>4, <2>5 DEF PickList, Distinct
  <2>7. Order(<<SvcOf[c]>>) /\ <<SvcOf[c]>> \in Seq(Svc) /\ <<SvcOf[c]>> # << >>
    BY <2>3 DEF Order
  <2> QED BY <2>5, <2>2, <2>6, <2>7 DEF SavedKept, Picks!Saved
<1>6. Agree
  BY DEF Picks!Init, Agree
<1> QED BY <1>2, <1>3, <1>4, <1>5, <1>6 DEF PicksInv

LEMMA PicksStep ==
  ASSUME PicksSetting, PicksInv, [Picks!Next]_(Picks!vars)
  PROVE  PicksInv' /\ [Picks!PinsChangeOnRefresh]_(Picks!vars)
<1>1. CASE Picks!StartCreate \/ Picks!StartEdit \/ Picks!CloseSheet
  BY <1>1, StartCreateCorrect, StartEditCorrect, CloseSheetCorrect
<1>2. CASE \E st \in 1..3 : Picks!GoTo(st)
  BY <1>2, GoToCorrect
<1>3. CASE \E s \in Svc : Picks!PickService(s)
  BY <1>3, PickServiceCorrect
<1>4. CASE \E i \in DOMAIN services : Picks!ServiceRow(i)
  BY <1>4, ServiceRowCorrect
<1>5. CASE Picks!ScenarioTestcaseTransfer
  BY <1>5, TransferCorrect
<1>6. CASE Picks!SaveDraft \/ Picks!SaveReady \/ Picks!PrepareRun
  BY <1>6, SaveDraftCorrect, SaveReadyCorrect, PrepareRunCorrect
<1>7. CASE Picks!Answer
  BY <1>7, LoadAnswerCorrect, ReadTestcaseCorrect, AnswerCorrect DEF Picks!Answer
<1>8. CASE Picks!ChangePool
  BY <1>8, ChangePoolCorrect
<1>9. CASE UNCHANGED Picks!vars
  BY <1>9 DEF Picks!vars, Picks!world, Picks!form, Picks!cand, PicksInv, PoolKept, CandsKept,
              AcksKept, FormKept, SavedKept, Agree
<1> QED BY <1>1, <1>2, <1>3, <1>4, <1>5, <1>6, <1>7, <1>8, <1>9 DEF Picks!Next, Picks!User

LEMMA PicksCorrect == ASSUME PicksSetting PROVE Picks!Spec => []PicksInv
<1>1. PicksInv /\ [Picks!Next]_(Picks!vars) => PicksInv'
  BY PicksStep
<1> QED BY PicksInit, <1>1, PTL DEF Picks!Spec

(* Types of the variables of the wizard's first page. *)
THEOREM PicksTypeCorrect == ASSUME PicksSetting PROVE Picks!Spec => []Picks!TypeOK
<1>1. PicksInv => Picks!TypeOK
  <2> SUFFICES ASSUME PicksInv PROVE Picks!TypeOK
    OBVIOUS
  <2>1. /\ pool \in [Case -> Picks!PoolRow] /\ step \in 1..3 /\ Order(services)
        /\ active \in Svc \cup {None} /\ (active = None <=> services = << >>)
        /\ \A c \in DOMAIN refs : c \in Case /\ refs[c] \in Picks!Row
        /\ saved # None => saved \in Picks!Saved
        /\ \A i \in DOMAIN picks : picks[i] \in Picks!Pick
    BY DEF PicksInv, PoolKept, FormKept, CandsKept, Was, SavedKept, PickList, Pinned
  <2>2. Picks!ToSet(services) \subseteq Svc /\ Picks!IsInjective(services)
    <3>1. \A i \in DOMAIN services : services[i] \in Svc
      BY <2>1, ListTypes DEF Order
    <3> QED BY <2>1, <3>1 DEF Order, Picks!ToSet, Picks!IsInjective
  <2>3. Picks!Cardinality(Picks!Ids(picks)) = Len(picks)
    <3>1. Len(picks) \in Nat /\ DOMAIN picks = 1..Len(picks) /\ Distinct(picks)
      BY ListTypes DEF PicksInv, PickList
    <3>2. PICK f, T, n : /\ f = [i \in 1..n |-> picks[i].id] /\ T = Picks!Ids(picks)
                         /\ n = Len(picks)
      OBVIOUS
    <3>3. T = {picks[i].id : i \in 1..n}
      BY <3>1, <3>2 DEF Picks!Ids, Picks!ToSet
    <3>4. /\ f \in [1..n -> T] /\ \A i, j \in 1..n : f[i] = f[j] => i = j
          /\ \A t \in T : \E i \in 1..n : f[i] = t
      BY <3>1, <3>2, <3>3 DEF Distinct
    <3>5. ExistsBijection(1..n, T)
      BY <3>4 DEF ExistsBijection, Bijection, Injection, Surjection, IsInjective
    <3>6. IsFiniteSet(1..n) /\ Cardinality(1..n) = n
      <4>1. n \in Nat /\ (IF 1 > n THEN 0 ELSE n - 1 + 1) = n
        BY <3>1, <3>2
      <4> QED BY <4>1, FS_Interval
    <3>7. Cardinality(T) = n
      BY <3>5, <3>6, FS_Bijection
    <3>8. Picks!Cardinality(T) = Cardinality(T)
      BY Zenon DEF Picks!Cardinality, Cardinality
    <3> QED BY <3>2, <3>7, <3>8
  <2> QED BY <2>1, <2>2, <2>3 DEF Picks!TypeOK, Picks!ToSet
<1> QED BY <1>1, PicksCorrect, PTL

(* The fingerprint of a pick is that of the body which its version had,      *)
(* whatever was loaded, refreshed and saved while the pool changed           *)
(* (poolCaseLiveRef.ts).                                                     *)
THEOREM PinsCorrect == ASSUME PicksSetting PROVE Picks!Spec => []Picks!PinsAreServed
<1>1. PicksInv => Picks!PinsAreServed
  <2> SUFFICES ASSUME PicksInv PROVE Picks!PinsAreServed
    OBVIOUS
  <2>1. \A p \in Picks!ToSet(picks) : Pinned(p, served)
    BY DEF PicksInv, PickList, Picks!ToSet
  <2>2. saved # None => \A p \in Picks!ToSet(saved.picks) : Pinned(p, served)
    BY DEF PicksInv, SavedKept, PickList, Picks!ToSet
  <2>3. CASE saved = None
    BY <2>1, <2>3 DEF Picks!PinsAreServed, Pinned
  <2>4. CASE saved # None
    BY <2>1, <2>2, <2>4 DEF Picks!PinsAreServed, Pinned
  <2> QED BY <2>3, <2>4
<1> QED BY <1>1, PicksCorrect, PTL

(* While the wizard is open, a pinned version only changes by a refresh that *)
(* was asked for (acknowledgePickFingerprint).                               *)
THEOREM PinsSteadyCorrect ==
  ASSUME PicksSetting
  PROVE  Picks!Spec => [][Picks!PinsChangeOnRefresh]_(Picks!vars)
<1>1. PicksInv /\ [Picks!Next]_(Picks!vars) => [Picks!PinsChangeOnRefresh]_(Picks!vars)
  BY PicksStep
<1> QED BY <1>1, PicksCorrect, PTL DEF Picks!Spec

-----------------------------------------------------------------------------
(* A pick that does not block has a version after what it lacks was filled in. *)
LEMMA FilledVersion ==
  ASSUME PicksSetting, NEW sv, NEW ps, PickList(ps, sv),
         NEW rows, \A c \in DOMAIN rows : Was(c, rows[c], sv),
         NEW qs, qs = Picks!Hydrated(ps, rows), Picks!Blocking(qs, rows) = {}
  PROVE  \A p \in Picks!ToSet(qs) : p.ver # 0
<1> SUFFICES ASSUME NEW i \in DOMAIN qs PROVE qs[i].ver # 0
  BY DEF Picks!ToSet
<1>1. i \in DOMAIN ps /\ SamePick(ps[i], qs[i]) /\ ps[i] \in Picks!Pick
  BY HydratedList DEF PickList, Pinned
<1>2. qs[i].case \in DOMAIN rows
  BY DEF Picks!Blocking, Picks!Blocks, Picks!Health
<1>3. PICK live : live = rows[ps[i].case]
  OBVIOUS
<1>4. ps[i].case \in DOMAIN rows /\ live.ver # 0
  BY <1>1, <1>2, <1>3 DEF SamePick, Was
<1>5. qs[i] = [ps[i] EXCEPT
                 !.fp = IF @ = NoPrint /\ live.body # Empty THEN live.body ELSE @,
                 !.ver = IF @ = 0 THEN live.ver ELSE @]
  BY <1>1, <1>3, <1>4 DEF Picks!Hydrated
<1>6. qs[i].ver = IF ps[i].ver = 0 THEN live.ver ELSE ps[i].ver
  BY <1>1, <1>5 DEF Picks!Pick
<1> QED BY <1>4, <1>6

LEMMA SaveReadyPinned ==
  ASSUME PicksSetting, PicksInv, Picks!SaveReady PROVE Picks!ReadyIsPinned
<1>1. CASE Picks!Blocking(Picks!PicksForSave, refs) = {}
  <2>1. saved'.picks = Picks!PicksForSave
    BY <1>1 DEF Picks!SaveReady, Picks!Store
  <2>2. \A p \in Picks!ToSet(Picks!PicksForSave) : p.ver # 0
    BY <1>1, FilledVersion DEF PicksInv, CandsKept, Picks!PicksForSave
  <2> QED BY <2>1, <2>2 DEF Picks!ReadyIsPinned
<1>2. CASE Picks!Blocking(Picks!PicksForSave, refs) # {}
  BY <1>2 DEF Picks!SaveReady, Picks!ReadyIsPinned
<1> QED BY <1>1, <1>2

LEMMA PrepareRunPinned ==
  ASSUME PicksSetting, PicksInv, Picks!PrepareRun PROVE Picks!ReadyIsPinned
<1>1. saved # None
  BY DEF Picks!PrepareRun
<1>2. PICK rows, live, qs :
        /\ rows \in SUBSET Case
        /\ live = Picks!Live(rows) /\ qs = Picks!Hydrated(saved.picks, live)
        /\ \/ Picks!Blocking(qs, live) = {} /\ saved' = [saved EXCEPT !.picks = qs]
           \/ saved' = saved
  <2>1. PICK failed :
          LET rows == Picks!Live({c \in Case : /\ pool[c].at # "gone" /\ SvcOf[c] \notin failed
                                               /\ \E p \in Picks!ToSet(saved.picks) :
                                                    SvcOf[p.case] = SvcOf[c]})
              ps   == Picks!Hydrated(saved.picks, rows) IN
          \/ Picks!Blocking(ps, rows) = {} /\ saved' = [saved EXCEPT !.picks = ps]
          \/ saved' = saved
    BY DEF Picks!PrepareRun
  <2> QED BY <2>1
<1>3. saved \in Picks!Saved /\ PickList(saved.picks, served)
  BY <1>1 DEF PicksInv, SavedKept
<1>4. CASE Picks!Blocking(qs, live) = {} /\ saved' = [saved EXCEPT !.picks = qs]
  <2>1. saved'.picks = qs
    BY <1>3, <1>4 DEF Picks!Saved
  <2>2. \A c \in DOMAIN live : Was(c, live[c], served)
    BY <1>2, LiveWas DEF PicksInv
  <2>3. \A p \in Picks!ToSet(qs) : p.ver # 0
    BY <1>2, <1>3, <1>4, <2>2, FilledVersion
  <2> QED BY <2>1, <2>3 DEF Picks!ReadyIsPinned
<1>5. CASE saved' = saved
  BY <1>5 DEF Picks!ReadyIsPinned
<1> QED BY <1>2, <1>4, <1>5

LEMMA SavedStays ==
  ASSUME \/ Picks!StartCreate \/ Picks!StartEdit \/ Picks!CloseSheet
         \/ \E st \in 1..3 : Picks!GoTo(st)
         \/ \E s \in Svc : Picks!PickService(s)
         \/ \E i \in DOMAIN services : Picks!ServiceRow(i)
         \/ Picks!ScenarioTestcaseTransfer \/ Picks!Answer \/ Picks!ChangePool
  PROVE  saved' = saved
<1> USE DEF Picks!quietly, Picks!others
<1>1. ASSUME NEW i, Picks!ServiceRow(i) PROVE saved' = saved
  BY <1>1 DEF Picks!ServiceRow, Picks!SelectService, Picks!MoveService, Picks!RemoveService
<1>2. ASSUME Picks!ScenarioTestcaseTransfer PROVE saved' = saved
  BY <1>2 DEF Picks!ScenarioTestcaseTransfer, Picks!AddRule, Picks!AddRulesByCaseType,
       Picks!RemoveAllRules, Picks!TestcasePickRow, Picks!RemoveRule, Picks!ReorderRules,
       Picks!Acknowledge
<1>3. ASSUME Picks!Answer PROVE saved' = saved
  BY <1>3 DEF Picks!Answer, Picks!LoadAnswer, Picks!ReadTestcase, Picks!AcknowledgeAnswer
<1> QED BY <1>1, <1>2, <1>3
    DEF Picks!StartCreate, Picks!StartEdit, Picks!CloseSheet, Picks!GoTo, Picks!PickService,
        Picks!ChangePool

LEMMA ReadyStep ==
  ASSUME PicksSetting, PicksInv, [Picks!Next]_(Picks!vars)
  PROVE  [Picks!ReadyIsPinned]_(Picks!vars)
<1>1. CASE Picks!SaveDraft
  <2>1. saved'.ready = FALSE
    BY <1>1 DEF Picks!SaveDraft, Picks!Store
  <2> QED BY <2>1 DEF Picks!ReadyIsPinned
<1>2. saved' = saved => Picks!ReadyIsPinned
  BY DEF Picks!ReadyIsPinned
<1> QED BY <1>1, <1>2, SaveReadyPinned, PrepareRunPinned, SavedStays DEF Picks!Next, Picks!User

(* A finished scenario that is saved has a version of every testcase, also   *)
(* where an older build left none, and a run never saves it otherwise        *)
(* (normalizeLegacyPinsToLatest, preparePicksForLiveRun.ts).                 *)
THEOREM ReadyCorrect ==
  ASSUME PicksSetting
  PROVE  Picks!Spec => [][Picks!ReadyIsPinned]_(Picks!vars)
<1>1. PicksInv /\ [Picks!Next]_(Picks!vars) => [Picks!ReadyIsPinned]_(Picks!vars)
  BY ReadyStep
<1> QED BY <1>1, PicksCorrect, PTL DEF Picks!Spec

-----------------------------------------------------------------------------
CONSTANTS RowId, MaxId
VARIABLES live, snaps, next, item, versions, preview, listing, looking, restoring,
          deleting, look

History == INSTANCE RulesHistory

-----------------------------------------------------------------------------
(* The dialog with the snapshots of the rules of a service. *)

(* No request is what stands for none. *)
HistorySetting == \A s, id : [svc |-> s, id |-> id] # None

(* What the server holds. *)
Stored ==
  /\ live \in [Svc -> Text] /\ draft \in [Svc -> Text \cup {None}]
  /\ \A i \in DOMAIN snaps : snaps[i] \in History!Snap

(* While a dialog is open, the request under way, and the preview when there *)
(* is none, are of the version that is selected.                             *)
Shows ==
  /\ look # None => item # None /\ looking /\ look.id = sel
  /\ item # None /\ look = None /\ preview # None => preview.id = sel \/ sel = None

HistoryInv == Stored /\ Shows

-----------------------------------------------------------------------------
LEMMA StoredInit == ASSUME History!Init PROVE HistoryInv
<1>1. ASSUME NEW i \in DOMAIN snaps PROVE snaps[i] \in History!Snap
  <2>1. PICK old \in [1..History!Cardinality(Svc) -> History!Snap] : snaps = old
    BY DEF History!Init
  <2> QED BY <2>1
<1> QED BY <1>1 DEF History!Init, HistoryInv, Stored, Shows

(* A snapshot of a document is a snapshot. *)
LEMMA SnapshotStored ==
  ASSUME NEW s \in Svc, NEW t \in Text, Stored, History!Snapshot(s, t)
  PROVE  \A i \in DOMAIN snaps' : snaps'[i] \in History!Snap
BY DEF Stored, History!Snapshot, History!Snap

(* The server goes from documents to documents, and gives a service none     *)
(* but its own.                                                              *)
LEMMA RestoredOwn ==
  ASSUME Stored, NEW s, NEW id, History!Belongs(s, id), History!Restored(s, id)
  PROVE  Stored' /\ History!RestoresOwn
<1>1. s \in Svc /\ snaps[id] = [svc |-> s, text |-> snaps[id].text] /\ snaps[id].text \in Text
  BY DEF Stored, History!Belongs, History!Snap
<1>2. live[s] \in Text
  BY <1>1 DEF Stored
<1>3. \A i \in DOMAIN snaps' : snaps'[i] \in History!Snap
  BY <1>1, <1>2, SnapshotStored DEF History!Restored
<1>4. Stored'
  BY <1>1, <1>3 DEF Stored, History!Restored
<1>5. History!RestoresOwn
  <2> SUFFICES ASSUME NEW r \in Svc, live'[r] # live[r]
               PROVE  \E i \in DOMAIN snaps : snaps[i] = [svc |-> r, text |-> live'[r]]
    BY DEF History!RestoresOwn
  <2>1. r = s /\ live'[r] = snaps[id].text
    BY <1>1 DEF Stored, History!Restored
  <2> QED BY <1>1, <2>1 DEF History!Belongs
<1> QED BY <1>4, <1>5

LEMMA ServedOwn ==
  ASSUME Stored, NEW c, History!Serve(c)
  PROVE  Stored' /\ History!RestoresOwn
<1>1. CASE History!Belongs(c.svc, c.id) /\ History!Restored(c.svc, c.id)
  BY <1>1, RestoredOwn
<1>2. CASE History!Deleted(c.id)
  BY <1>2 DEF History!Deleted, Stored, History!RestoresOwn
<1>3. CASE UNCHANGED History!db
  BY <1>3 DEF History!db, Stored, History!RestoresOwn
<1> QED BY <1>1, <1>2, <1>3 DEF History!Serve

(* Only the server, and somebody else, change what is stored. *)
LEMMA AnsweredStored ==
  ASSUME \/ \E s \in Svc : History!OpenHistory(s)
         \/ History!Close \/ History!Restore \/ History!Delete \/ History!PreviewAnswer
         \/ \E id \in History!Id : History!Select(id)
         \/ \E c \in calls : History!Answer(c)
  PROVE  UNCHANGED History!db
BY DEF History!OpenHistory, History!Close, History!Restore, History!Delete,
       History!PreviewAnswer, History!Select, History!Answer, History!ListAnswer,
       History!RestoreAnswer, History!DeleteAnswer, History!RefreshAnswer, History!FailAnswer

LEMMA StoredStep ==
  ASSUME Stored, [History!Next]_(History!vars)
  PROVE  Stored' /\ [History!RestoresOwn]_(History!vars)
<1>1. CASE UNCHANGED History!db
  BY <1>1 DEF History!db, Stored, History!RestoresOwn
<1>2. ASSUME NEW s \in Svc, History!SaveElsewhere(s) PROVE Stored' /\ History!RestoresOwn
  BY <1>2 DEF History!SaveElsewhere, Stored, History!RestoresOwn
<1>3. ASSUME NEW s \in Svc, History!ApplyElsewhere(s) PROVE Stored' /\ History!RestoresOwn
  <2>1. draft[s] \in Text
    BY <1>3 DEF Stored, History!ApplyElsewhere
  <2>2. \A i \in DOMAIN snaps' : snaps'[i] \in History!Snap
    BY <1>3, <2>1, SnapshotStored DEF History!ApplyElsewhere
  <2> QED BY <1>3, <2>1, <2>2 DEF History!ApplyElsewhere, Stored, History!RestoresOwn
<1>4. ASSUME NEW c, History!Serve(c) PROVE Stored' /\ History!RestoresOwn
  BY <1>4, ServedOwn
<1>5. CASE UNCHANGED History!vars
  BY <1>1, <1>5 DEF History!vars
<1> QED
  BY <1>1, <1>2, <1>3, <1>4, <1>5, AnsweredStored DEF History!Next, History!Proceeds

-----------------------------------------------------------------------------
(* A selection has its preview, or a request for it. *)
LEMMA LookShows ==
  ASSUME HistorySetting, Shows, NEW id, item # None, History!Look(item, id),
         item' = item, preview' = preview
  PROVE  Shows'
BY DEF HistorySetting, Shows, History!Look

LEMMA LookShut ==
  ASSUME NEW id, item = None, History!Look(item, id), item' = item
  PROVE  Shows'
BY DEF Shows, History!Look

LEMMA ShowsStep ==
  ASSUME HistorySetting, Shows, [History!Next]_(History!vars)
  PROVE  Shows'
<1>1. ASSUME NEW id, History!Look(item, id), item' = item, preview' = preview PROVE Shows'
  BY <1>1, LookShows, LookShut
<1>2. CASE UNCHANGED <<item, sel, preview, looking, look>>
  BY <1>2 DEF Shows
<1>3. CASE item' = None /\ look' = None
  BY <1>3 DEF Shows
<1>4. ASSUME NEW s \in Svc, History!OpenHistory(s) PROVE Shows'
  BY <1>4 DEF Shows, History!OpenHistory
<1>5. CASE History!PreviewAnswer
  BY <1>5 DEF Shows, History!PreviewAnswer
<1>6. ASSUME NEW id, History!Select(id) PROVE Shows'
  BY <1>1, <1>6 DEF History!Select
<1>7. ASSUME NEW c, History!ListAnswer(c) PROVE Shows'
  BY <1>1, <1>2, <1>7 DEF History!ListAnswer
<1>8. ASSUME NEW c, History!RefreshAnswer(c) PROVE Shows'
  BY <1>1, <1>2, <1>3, <1>8 DEF History!RefreshAnswer
<1>9. ASSUME NEW c, History!Answer(c) PROVE Shows'
  BY <1>2, <1>3, <1>7, <1>8, <1>9
  DEF History!Answer, History!RestoreAnswer, History!DeleteAnswer, History!FailAnswer,
      History!dlg, History!busy
<1>10. ASSUME NEW c, History!Serve(c) PROVE Shows'
  BY <1>2, <1>10 DEF History!Serve, History!dlg, History!busy
<1>11. CASE \E s \in Svc : History!SaveElsewhere(s) \/ History!ApplyElsewhere(s)
  BY <1>2, <1>11 DEF History!SaveElsewhere, History!ApplyElsewhere, History!dlg, History!busy
<1>12. CASE History!Close \/ History!Restore \/ History!Delete
  BY <1>2, <1>3, <1>12 DEF History!Close, History!Restore, History!Delete, History!dlg
<1>13. CASE UNCHANGED History!vars
  BY <1>2, <1>13 DEF History!vars, History!dlg, History!busy
<1> QED
  BY <1>4, <1>5, <1>6, <1>9, <1>10, <1>11, <1>12, <1>13 DEF History!Next, History!Proceeds

LEMMA HistoryCorrect == ASSUME HistorySetting PROVE History!Spec => []HistoryInv
<1>1. HistoryInv /\ [History!Next]_(History!vars) => HistoryInv'
  BY StoredStep, ShowsStep DEF HistoryInv
<1> QED BY StoredInit, <1>1, PTL DEF History!Spec

(* The preview of a snapshot is of the version that is selected, or there is *)
(* none, whatever answers come late: the cancelled flag of its effect.       *)
THEOREM PreviewCorrect ==
  ASSUME HistorySetting PROVE History!Spec => []History!PreviewOfSelection
<1>1. HistoryInv => History!PreviewOfSelection
  BY DEF HistoryInv, Shows, History!PreviewOfSelection
<1> QED BY <1>1, HistoryCorrect, PTL

(* A service is only ever given a document of its own: rollback checks whose *)
(* the snapshot is, whatever list the dialog shows.                          *)
THEOREM RestoresCorrect ==
  ASSUME HistorySetting PROVE History!Spec => [][History!RestoresOwn]_(History!vars)
<1>1. HistoryInv /\ [History!Next]_(History!vars) => [History!RestoresOwn]_(History!vars)
  BY StoredStep DEF HistoryInv
<1> QED BY <1>1, HistoryCorrect, PTL DEF History!Spec

-----------------------------------------------------------------------------
VARIABLES sheet, tab, rows, generating, asking, poolRows, refresher, session, running,
          result, picked

Tab == INSTANCE TestPool

-----------------------------------------------------------------------------
(* The testcases of a service, and the dialog that runs them. *)

TabSetting == None \notin Svc /\ None \notin Tab!Session

(* What a request of kind k for service s is answered with.                 *)
GotOf(k, s) ==
  IF k = "run" THEN Tab!Steps ELSE [svc : {s}, cases : SUBSET Case]

TabCall(c) ==
  /\ c \in [kind : Tab!Kind, svc : Svc, here : BOOLEAN, at : {"req", "list"},
            of : Tab!Session \cup {None}, got : {c.got}]
  /\ c.got \in {None, Failed} \cup GotOf(c.kind, c.svc)
  /\ c.kind = "run" => ~c.here

(* The list of the tab, and of the requests that will be shown by it.       *)
TabShown(shows, s, r, cs) ==
  /\ r # None => shows /\ r.svc = s
  /\ \A c \in cs : c.here => shows /\ c.svc = s

(* While a run is under way the dialog is open for what it runs, and it is  *)
(* the only one.                                                            *)
RunsOf(on, s, of, cs) ==
  \A c \in cs : c.kind = "run" =>
    /\ on /\ c.svc = s /\ c.of = of /\ of # None
    /\ \A d \in cs : d.kind = "run" => d = c

ResultKept(on, s, of, res) ==
  res # None => ~on /\ of # None /\ res.of = of /\ res.svc = s

TabInv ==
  /\ Tab!TypeOK
  /\ \A c \in calls : TabCall(c)
  /\ session # None => sheet # None
  /\ TabShown(Tab!Mounted, sheet, rows, calls)
  /\ RunsOf(running, sheet, session, calls)
  /\ ResultKept(running, sheet, session, result)

LEMMA TabInit == ASSUME TabSetting, Tab!Init PROVE TabInv
BY DEF Tab!Init, TabInv, Tab!TypeOK, Tab!Rows, TabShown, RunsOf, ResultKept

(* What a new call is.                                                      *)
LEMMA NewCall ==
  ASSUME TabSetting, NEW k \in Tab!Kind, NEW s \in Svc, NEW here \in BOOLEAN, k = "run" => ~here
  PROVE  /\ TabCall(Tab!New(k, s, here))
         /\ Tab!New(k, s, here).kind = k /\ Tab!New(k, s, here).svc = s
         /\ Tab!New(k, s, here).here = here
BY DEF Tab!New, TabCall

LEMMA NewListing ==
  ASSUME TabSetting, NEW s \in Svc
  PROVE  LET n == Tab!New("list", s, TRUE)
         IN  TabCall(n) /\ n.kind = "list" /\ n.svc = s /\ n.here
<1>1. "list" \in Tab!Kind /\ "list" # "run" /\ TRUE \in BOOLEAN
  BY DEF Tab!Kind
<1> QED BY <1>1, NewCall, Zenon

(* The calls of a tab that is gone.                                         *)
LEMMA LeftCalls ==
  ASSUME \A c \in calls : TabCall(c)
  PROVE  /\ \A c \in Tab!Left : TabCall(c) /\ ~c.here
         /\ \A c \in Tab!Left : c.kind # "run" => \E d \in calls : d.kind = c.kind
         /\ \A c \in Tab!Left : c.kind = "run" => c \in calls
<1>1. ASSUME NEW c \in calls
      PROVE  LET d == [c EXCEPT !.here = FALSE]
             IN  TabCall(d) /\ ~d.here /\ d.kind = c.kind /\ (c.kind = "run" => d = c)
  BY DEF TabCall
<1> QED BY <1>1 DEF Tab!Left

(* A call that is answered in part, or goes on, is a call.                  *)
LEMMA GetsCall ==
  ASSUME NEW c, TabCall(c), NEW g, g \in {None, Failed} \cup GotOf(c.kind, c.svc),
         NEW at \in {"req", "list"}
  PROVE  LET d == [c EXCEPT !.at = at, !.got = g]
         IN  /\ TabCall(d) /\ TabCall([c EXCEPT !.got = g])
             /\ d.kind = c.kind /\ d.here = c.here /\ d.svc = c.svc /\ d.of = c.of
             /\ [c EXCEPT !.got = g].kind = c.kind /\ [c EXCEPT !.got = g].here = c.here
             /\ [c EXCEPT !.got = g].svc = c.svc /\ [c EXCEPT !.got = g].of = c.of
BY DEF TabCall

(* The first failed step of a result is one of its steps.                   *)
LEMMA FirstFailedIsStep ==
  ASSUME NEW st \in Tab!Steps
  PROVE  Tab!FirstFailed(st) \in {0} \cup DOMAIN st
<1>1. PICK n \in 0..2 : st \in [1..n -> {"passed", "failed"}]
  BY DEF Tab!Steps
<1>2. CASE \E i \in DOMAIN st : st[i] = "failed"
  <2>1. \E i \in DOMAIN st : st[i] = "failed" /\ \A j \in 1..(i - 1) : st[j] # "failed"
    <3>1. CASE n = 0
      BY <1>1, <1>2, <3>1
    <3>2. CASE n = 1
      BY <1>1, <1>2, <3>2
    <3>3. CASE n = 2
      <4>1. CASE st[1] = "failed"
        BY <1>1, <3>3, <4>1
      <4>2. CASE st[1] # "failed"
        <5>1. st[2] = "failed" /\ 2 \in DOMAIN st
          BY <1>1, <1>2, <3>3, <4>2
        <5>2. \A j \in 1..(2 - 1) : st[j] # "failed"
          BY <4>2
        <5> QED BY <5>1, <5>2
      <4> QED BY <4>1, <4>2
    <3> QED BY <3>1, <3>2, <3>3
  <2> QED BY <1>2, <2>1 DEF Tab!FirstFailed
<1>3. CASE ~ \E i \in DOMAIN st : st[i] = "failed"
  <2>1. st # << >> => 1 \in DOMAIN st
    BY <1>1
  <2> QED BY <1>3, <2>1 DEF Tab!FirstFailed
<1> QED BY <1>2, <1>3

(* The tab opens, is left, and is filled. *)
LEMMA TabPanel ==
  ASSUME TabSetting, TabInv,
         \/ \E s \in Svc : Tab!Open(s)
         \/ Tab!Close \/ Tab!SelectTab \/ Tab!Reload
         \/ Tab!RequestGenerate \/ Tab!ConfirmGenerate \/ Tab!CancelGenerate
         \/ Tab!MaterializeOne
  PROVE  TabInv'
<1> USE DEF Tab!page, Tab!panel, Tab!run
<1>t. /\ Tab!TypeOK /\ \A c \in calls : TabCall(c)
      /\ session # None => sheet # None
      /\ TabShown(Tab!Mounted, sheet, rows, calls)
      /\ RunsOf(running, sheet, session, calls)
      /\ ResultKept(running, sheet, session, result)
  BY DEF TabInv
<1>l. None \in Tab!Rows
  BY DEF Tab!Rows
<1>1. ASSUME NEW s \in Svc, Tab!Open(s)
      PROVE  TabInv'
  <2>1. sheet = None /\ session = None /\ ~Tab!Mounted /\ sheet' = s /\ s # None /\ tab' = tab
    BY <1>1, <1>t DEF Tab!Open, Tab!Mounted, TabSetting
  <2>2. result = None /\ rows = None /\ \A c \in calls : ~c.here /\ c.kind # "run"
    BY <1>t, <2>1 DEF TabShown, RunsOf, ResultKept
  <2>3. CASE tab = "testcases"
    <3>1. Tab!Mounts(s, calls)
      BY <1>1, <2>3 DEF Tab!Open
    <3> DEFINE n == Tab!New("list", s, TRUE)
    <3>2. TabCall(n) /\ n.kind = "list" /\ n.svc = s /\ n.here
      BY NewListing
    <3>3. calls' = calls \cup {n} /\ Tab!Mounted'
      BY <2>1, <2>3, <3>1 DEF Tab!Mounts, Tab!Mounted
    <3> HIDE DEF n
    <3>4. /\ \A c \in calls' : TabCall(c)
          /\ \A c \in calls' : c.kind # "run"
          /\ \A c \in calls' : c.here => c.svc = s
      BY <1>t, <2>2, <3>2, <3>3
    <3>5. Tab!TypeOK'
      BY <1>1, <1>t, <1>l, <2>1, <2>2, <3>1 DEF Tab!Open, Tab!Mounts, Tab!TypeOK
    <3> QED BY <1>1, <2>1, <2>2, <3>1, <3>3, <3>4, <3>5
            DEF TabInv, TabShown, RunsOf, ResultKept, Tab!Open, Tab!Mounts, TabCall
  <2>4. CASE tab # "testcases"
    <3>1. Tab!TypeOK' /\ calls' = calls /\ rows' = rows /\ result' = result /\ session' = session
      BY <1>1, <1>t, <2>1, <2>2, <2>4 DEF Tab!Open, Tab!TypeOK
    <3> QED BY <1>t, <2>1, <2>2, <3>1 DEF TabInv, TabShown, RunsOf, ResultKept, TabCall
  <2> QED BY <2>3, <2>4
<1>2. CASE Tab!Close \/ (Tab!SelectTab /\ Tab!Mounted)
  <2>1. /\ session = None /\ session' = None /\ sheet # None /\ ~Tab!Mounted' /\ result = None
        /\ result' = None /\ running' = running
        /\ sheet' \in {None, sheet} /\ tab' \in {"yaml", tab}
    BY <1>2, <1>t DEF Tab!Close, Tab!SelectTab, ResultKept, Tab!Mounted
  <2>2. \A c \in calls : c.kind # "run"
    BY <1>t, <2>1 DEF RunsOf
  <2>3. rows' = None /\ (calls' = Tab!Left \/ (calls' = calls /\ ~Tab!Mounted))
    BY <1>2, <1>t DEF Tab!Close, Tab!SelectTab, Tab!Unmounts, TabShown
  <2>4. \A c \in calls' : TabCall(c) /\ ~c.here /\ c.kind # "run"
    BY <1>t, <2>2, <2>3, LeftCalls DEF TabShown
  <2>5. Tab!TypeOK'
    BY <1>2, <1>t, <1>l, <2>1, <2>3 DEF Tab!Close, Tab!SelectTab, Tab!Unmounts, Tab!TypeOK
  <2> QED BY <2>1, <2>3, <2>4, <2>5 DEF TabInv, TabShown, RunsOf, ResultKept, TabCall
<1>3. CASE Tab!SelectTab /\ ~Tab!Mounted
  <2>1. /\ Tab!Mounts(sheet, calls) /\ tab' = "testcases" /\ sheet # None /\ session = None
        /\ sheet' = sheet /\ session' = session /\ result' = result /\ running' = running
    BY <1>3 DEF Tab!SelectTab
  <2>2. result = None /\ \A c \in calls : ~c.here /\ c.kind # "run"
    BY <1>t, <1>3, <2>1 DEF TabShown, RunsOf, ResultKept
  <2> DEFINE n == Tab!New("list", sheet, TRUE)
  <2>3. TabCall(n) /\ n.kind = "list" /\ n.svc = sheet /\ n.here
    BY <1>t, <2>1, NewListing DEF Tab!TypeOK
  <2>4. calls' = calls \cup {n} /\ Tab!Mounted'
    BY <2>1 DEF Tab!Mounts, Tab!Mounted
  <2> HIDE DEF n
  <2>5. /\ \A c \in calls' : TabCall(c)
        /\ \A c \in calls' : c.kind # "run"
        /\ \A c \in calls' : c.here => c.svc = sheet
    BY <1>t, <2>2, <2>3, <2>4
  <2>6. Tab!TypeOK'
    BY <1>3, <1>t, <1>l, <2>1 DEF Tab!SelectTab, Tab!Mounts, Tab!TypeOK
  <2> QED BY <2>1, <2>2, <2>4, <2>5, <2>6
          DEF TabInv, TabShown, RunsOf, ResultKept, Tab!Mounts, TabCall
<1>4. ASSUME NEW k \in {"list", "generate", "one"}, NEW here \in BOOLEAN, sheet # None,
             here => Tab!Mounted, Tab!Starts(Tab!New(k, sheet, here)),
             UNCHANGED <<pool, rows, Tab!page, Tab!run>>,
             {loading, generating, asking}' \subseteq BOOLEAN
      PROVE  TabInv'
  <2> DEFINE n == Tab!New(k, sheet, here)
  <2>1. TabCall(n) /\ n.kind = k /\ n.svc = sheet /\ n.here = here
    BY <1>t, <1>4, NewCall DEF Tab!Kind, Tab!TypeOK
  <2>2. calls' = calls \cup {n}
    BY <1>4 DEF Tab!Starts
  <2> HIDE DEF n
  <2>3. /\ \A c \in calls' : TabCall(c)
        /\ \A c \in calls' : c.kind = "run" => c \in calls
        /\ \A c \in calls' : c.here => Tab!Mounted /\ c.svc = sheet
    BY <1>t, <1>4, <2>1, <2>2 DEF TabShown
  <2>4. Tab!TypeOK' /\ Tab!Mounted' = Tab!Mounted
    BY <1>t, <1>4 DEF Tab!TypeOK, Tab!Mounted
  <2>5. RunsOf(running, sheet, session, calls')
    BY <1>t, <2>3 DEF RunsOf
  <2> QED BY <1>4, <1>t, <2>3, <2>4, <2>5 DEF TabInv, TabShown, RunsOf, ResultKept, TabCall
<1>5. CASE Tab!Reload
  BY <1>4, <1>5, <1>t DEF Tab!Reload, Tab!Mounted, Tab!TypeOK
<1>6. ASSUME NEW b, Tab!Generate(b), Tab!Mounted, UNCHANGED <<pool, Tab!page, Tab!run>>
      PROVE  TabInv'
  BY <1>4, <1>6, <1>t DEF Tab!Generate, Tab!Mounted, Tab!TypeOK
<1>7. ASSUME UNCHANGED <<pool, rows, Tab!page, Tab!run, calls>>,
             {loading, generating, asking}' \subseteq BOOLEAN
      PROVE  TabInv'
  <2>1. Tab!TypeOK' /\ Tab!Mounted' = Tab!Mounted
    BY <1>t, <1>7 DEF Tab!TypeOK, Tab!Mounted
  <2> QED BY <1>7, <1>t, <2>1 DEF TabInv, TabShown, RunsOf, ResultKept, TabCall
<1>8. CASE Tab!RequestGenerate
  <2>1. CASE Tab!Count(rows) > 0
    BY <1>7, <1>8, <1>t, <2>1 DEF Tab!RequestGenerate, Tab!TypeOK
  <2>2. CASE ~ (Tab!Count(rows) > 0)
    BY <1>6, <1>8, <2>2 DEF Tab!RequestGenerate
  <2> QED BY <2>1, <2>2
<1>9. CASE Tab!ConfirmGenerate
  BY <1>6, <1>9 DEF Tab!ConfirmGenerate
<1>10. CASE Tab!CancelGenerate
  BY <1>7, <1>10, <1>t DEF Tab!CancelGenerate, Tab!TypeOK
<1>11. CASE Tab!MaterializeOne
  BY <1>4, <1>11, <1>t DEF Tab!MaterializeOne, Tab!TypeOK
<1> QED BY <1>1, <1>2, <1>3, <1>5, <1>8, <1>9, <1>10, <1>11

(* The run dialog. *)
LEMMA TabRuns ==
  ASSUME TabSetting, TabInv,
         \/ \E s \in Tab!Session : Tab!OpenRun(s)
         \/ Tab!CloseRun \/ Tab!ConfirmRun \/ Tab!OpenExecutionDetail
         \/ \E i \in 1..2 : Tab!PickStep(i)
  PROVE  TabInv'
<1> USE DEF Tab!page, Tab!panel, Tab!run
<1>t. /\ Tab!TypeOK /\ \A c \in calls : TabCall(c)
      /\ session # None => sheet # None
      /\ TabShown(Tab!Mounted, sheet, rows, calls)
      /\ RunsOf(running, sheet, session, calls)
      /\ ResultKept(running, sheet, session, result)
  BY DEF TabInv
<1>1. ASSUME ~running, UNCHANGED <<pool, Tab!panel, Tab!page, running, calls>>,
             result' = None, session' \in Tab!Session \cup {None},
             session' # None => sheet # None
      PROVE  TabInv'
  <2>1. \A c \in calls : c.kind # "run"
    BY <1>t, <1>1 DEF RunsOf
  <2>2. Tab!TypeOK' /\ Tab!Mounted' = Tab!Mounted
    BY <1>t, <1>1 DEF Tab!TypeOK, Tab!Mounted
  <2> QED BY <1>t, <1>1, <2>1, <2>2 DEF TabInv, TabShown, RunsOf, ResultKept, TabCall
<1>2. ASSUME NEW s \in Tab!Session, Tab!OpenRun(s)
      PROVE  TabInv'
  <2>1. /\ UNCHANGED <<pool, Tab!panel, Tab!page, running, calls>> /\ result' = None
        /\ session' = s /\ sheet # None /\ session = None
    BY <1>2 DEF Tab!OpenRun
  <2>2. \A c \in calls : c.kind # "run"
    BY <1>t, <2>1 DEF RunsOf
  <2>3. Tab!TypeOK' /\ Tab!Mounted' = Tab!Mounted
    BY <1>t, <2>1 DEF Tab!TypeOK, Tab!Mounted
  <2> QED BY <1>t, <2>1, <2>2, <2>3 DEF TabInv, TabShown, RunsOf, ResultKept, TabCall
<1>3. CASE Tab!CloseRun
  BY <1>1, <1>3 DEF Tab!CloseRun
<1>4. CASE Tab!ConfirmRun
  <2> DEFINE n == [Tab!New("run", sheet, FALSE) EXCEPT !.of = session]
  <2>1. /\ ~running /\ running' = TRUE /\ result' = None /\ calls' = calls \cup {n}
        /\ session # None /\ sheet # None
        /\ UNCHANGED <<pool, Tab!panel, Tab!page, session>>
    BY <1>t, <1>4 DEF Tab!ConfirmRun, Tab!Starts
  <2>2. session \in Tab!Session /\ sheet \in Svc
    BY <1>t, <2>1 DEF Tab!TypeOK
  <2>3. TabCall(n) /\ n.kind = "run" /\ n.svc = sheet /\ n.of = session /\ n.here = FALSE
    BY <2>2 DEF Tab!New, TabCall, Tab!Kind
  <2> HIDE DEF n
  <2>4. \A c \in calls : c.kind # "run"
    BY <1>t, <2>1 DEF RunsOf
  <2>5. Tab!TypeOK' /\ Tab!Mounted' = Tab!Mounted
    BY <1>t, <2>1 DEF Tab!TypeOK, Tab!Mounted
  <2>6. \A c \in calls' : TabCall(c)
    BY <1>t, <2>1, <2>3
  <2>7. RunsOf(running', sheet, session, calls')
    BY <2>1, <2>3, <2>4 DEF RunsOf
  <2>8. TabShown(Tab!Mounted, sheet, rows, calls')
    BY <1>t, <2>1, <2>3 DEF TabShown
  <2> QED BY <1>t, <2>1, <2>5, <2>6, <2>7, <2>8 DEF TabInv, TabShown, RunsOf, ResultKept, TabCall
<1>5. CASE Tab!OpenExecutionDetail
  <2>1. Tab!TypeOK'
    BY <1>t, <1>5 DEF Tab!OpenExecutionDetail, Tab!TypeOK, Tab!Rows
  <2> QED BY <1>5, <2>1 DEF Tab!OpenExecutionDetail, TabInv, TabShown, RunsOf, ResultKept, TabCall
<1>6. ASSUME NEW i \in 1..2, Tab!PickStep(i)
      PROVE  TabInv'
  <2>1. /\ UNCHANGED <<pool, Tab!panel, Tab!page, session, running, result, calls>>
        /\ picked' \in DOMAIN result.steps
    BY <1>6 DEF Tab!PickStep
  <2>2. Tab!TypeOK' /\ Tab!Mounted' = Tab!Mounted
    BY <1>t, <2>1 DEF Tab!TypeOK, Tab!Mounted
  <2> QED BY <1>t, <2>1, <2>2 DEF TabInv, TabShown, RunsOf, ResultKept, TabCall
<1> QED BY <1>2, <1>3, <1>4, <1>5, <1>6

(* A call that is served, or goes on, in place of itself.                   *)
LEMMA TabGoesOn ==
  ASSUME TabInv, NEW c \in calls, NEW d, TabCall(d), calls' = (calls \ {c}) \cup {d},
         d.kind = c.kind, d.svc = c.svc, d.of = c.of, d.here = c.here
  PROVE  /\ \A e \in calls' : TabCall(e)
         /\ \A e \in calls' : e.here => Tab!Mounted /\ e.svc = sheet
         /\ RunsOf(running, sheet, session, calls')
<1>1. /\ \A e \in calls : TabCall(e)
      /\ \A e \in calls : e.here => Tab!Mounted /\ e.svc = sheet
      /\ RunsOf(running, sheet, session, calls)
  BY DEF TabInv, TabShown
<1>2. \A e \in calls' : e = d \/ (e \in calls /\ e # c)
  OBVIOUS
<1>3. RunsOf(running, sheet, session, calls')
  <2> SUFFICES ASSUME NEW e \in calls', e.kind = "run"
               PROVE  /\ running /\ e.svc = sheet /\ e.of = session /\ session # None
                      /\ \A x \in calls' : x.kind = "run" => x = e
    BY DEF RunsOf
  <2>1. CASE e = d
    <3>1. \A x \in calls' : x.kind = "run" => x = d
      BY <1>1, <1>2, <2>1 DEF RunsOf
    <3> QED BY <1>1, <2>1, <3>1 DEF RunsOf
  <2>2. CASE e # d
    BY <1>1, <1>2, <2>2 DEF RunsOf
  <2> QED BY <2>1, <2>2
<1> QED BY <1>1, <1>2, <1>3

(* A request is answered by the server. *)
LEMMA TabServe ==
  ASSUME TabSetting, TabInv, NEW c \in calls, Tab!Serve(c)
  PROVE  TabInv'
<1> USE DEF Tab!page, Tab!panel, Tab!run
<1>t. Tab!TypeOK /\ TabCall(c)
  BY DEF TabInv
<1>1. UNCHANGED <<rows, loading, generating, asking, sheet, tab, poolRows, refresher,
                  session, running, result, picked>>
  BY DEF Tab!Serve
<1>2. c.svc \in Svc /\ pool \in [Svc -> SUBSET Case]
  BY <1>t DEF TabCall, Tab!TypeOK
<1>3. /\ pool' \in [Svc -> SUBSET Case]
      /\ \E g \in {Failed} \cup GotOf(c.kind, c.svc) : Tab!Gets(c, g)
  <2>1. CASE Tab!Gets(c, Failed) /\ UNCHANGED pool
    BY <1>2, <2>1
  <2>2. CASE /\ c.kind = "list" \/ (c.at = "list" /\ c.kind # "run")
             /\ Tab!Gets(c, Tab!Listed(c.svc)) /\ UNCHANGED pool
    <3>1. Tab!Listed(c.svc) \in GotOf(c.kind, c.svc)
      BY <1>2, <2>2 DEF Tab!Listed, GotOf
    <3> QED BY <1>2, <2>2, <3>1
  <2>3. ASSUME c.kind = "generate", NEW cs \in SUBSET Case,
               pool' = [pool EXCEPT ![c.svc] = cs], Tab!Gets(c, [svc |-> c.svc, cases |-> cs])
        PROVE  /\ pool' \in [Svc -> SUBSET Case]
               /\ \E g \in {Failed} \cup GotOf(c.kind, c.svc) : Tab!Gets(c, g)
    <3>1. [svc |-> c.svc, cases |-> cs] \in GotOf(c.kind, c.svc)
      BY <2>3 DEF GotOf
    <3> QED BY <1>2, <2>3, <3>1
  <2>4. ASSUME c.kind = "one", NEW k \in Case,
               pool' = [pool EXCEPT ![c.svc] = @ \cup {k}], Tab!Gets(c, Tab!Listed(c.svc))
        PROVE  /\ pool' \in [Svc -> SUBSET Case]
               /\ \E g \in {Failed} \cup GotOf(c.kind, c.svc) : Tab!Gets(c, g)
    <3>1. Tab!Listed(c.svc) \in GotOf(c.kind, c.svc)
      BY <1>2, <2>4 DEF Tab!Listed, GotOf
    <3> QED BY <1>2, <2>4, <3>1
  <2>5. ASSUME c.kind = "run", NEW st \in Tab!Steps, Tab!Gets(c, st), UNCHANGED pool
        PROVE  /\ pool' \in [Svc -> SUBSET Case]
               /\ \E g \in {Failed} \cup GotOf(c.kind, c.svc) : Tab!Gets(c, g)
    BY <1>2, <2>5 DEF GotOf
  <2> QED BY <2>1, <2>2, <2>3, <2>4, <2>5 DEF Tab!Serve
<1>4. PICK g \in {Failed} \cup GotOf(c.kind, c.svc) : Tab!Gets(c, g)
  BY <1>3
<1> DEFINE d == [c EXCEPT !.got = g]
<1>5. TabCall(d) /\ d.kind = c.kind /\ d.svc = c.svc /\ d.of = c.of /\ d.here = c.here
  BY <1>t DEF TabCall
<1>6. calls' = (calls \ {c}) \cup {d}
  BY <1>4 DEF Tab!Gets
<1> HIDE DEF d
<1>7. /\ \A e \in calls' : TabCall(e)
      /\ \A e \in calls' : e.here => Tab!Mounted /\ e.svc = sheet
      /\ RunsOf(running, sheet, session, calls')
  BY <1>5, <1>6, TabGoesOn
<1>8. Tab!TypeOK' /\ Tab!Mounted' = Tab!Mounted
  BY <1>t, <1>1, <1>3 DEF Tab!TypeOK, Tab!Mounted
<1> QED BY <1>1, <1>7, <1>8 DEF TabInv, TabShown, RunsOf, ResultKept, TabCall

(* The page takes an answer. *)
LEMMA TabAnswer ==
  ASSUME TabSetting, TabInv, NEW c \in calls, Tab!Answer(c)
  PROVE  TabInv'
<1> USE DEF Tab!page, Tab!panel, Tab!run
<1>t. /\ Tab!TypeOK /\ TabCall(c) /\ \A e \in calls : TabCall(e)
      /\ session # None => sheet # None
      /\ TabShown(Tab!Mounted, sheet, rows, calls)
      /\ RunsOf(running, sheet, session, calls)
      /\ ResultKept(running, sheet, session, result)
  BY DEF TabInv
<1>c. c.kind \in Tab!Kind /\ c.svc \in Svc /\ c.here \in BOOLEAN /\ (c.kind = "run" => ~c.here)
  BY <1>t DEF TabCall
<1>l. None \in Tab!Rows
  BY DEF Tab!Rows
<1>1. ASSUME NEW cs \in SUBSET calls, calls' = cs, UNCHANGED <<pool, Tab!page, Tab!run>>,
             rows' = rows,
             {loading, generating, asking}' \subseteq BOOLEAN
      PROVE  TabInv'
  <2>1. Tab!TypeOK' /\ Tab!Mounted' = Tab!Mounted
    BY <1>t, <1>1 DEF Tab!TypeOK, Tab!Mounted
  <2> QED BY <1>1, <1>t, <2>1 DEF TabInv, TabShown, RunsOf, ResultKept, TabCall
<1>2. ASSUME c.kind # "run", c.got # None, c.got # Failed
      PROVE  c.got \in Tab!Rows /\ c.got.svc = c.svc
  BY <1>2, <1>t, <1>c DEF TabCall, GotOf, Tab!Rows
<1>3. ASSUME NEW list, list = None \/ (c.kind # "run" /\ list = c.got /\ c.got # None /\ c.got # Failed),
             Tab!Shows(c, list), UNCHANGED <<pool, sheet, tab, refresher, Tab!run>>,
             {loading, generating, asking}' \subseteq BOOLEAN
      PROVE  /\ Tab!TypeOK' /\ Tab!Mounted' = Tab!Mounted
             /\ rows' # None => Tab!Mounted /\ rows'.svc = sheet
  <2>1. list \in Tab!Rows /\ (list # None => list.svc = c.svc)
    BY <1>2, <1>3, <1>l
  <2>2. Tab!TypeOK' /\ Tab!Mounted' = Tab!Mounted
    BY <1>3, <1>t, <2>1 DEF Tab!Shows, Tab!TypeOK, Tab!Mounted
  <2>3. c.here => Tab!Mounted /\ c.svc = sheet
    BY <1>t DEF TabShown
  <2>4. rows' # None => Tab!Mounted /\ rows'.svc = sheet
    BY <1>3, <1>t, <2>1, <2>3 DEF Tab!Shows, TabShown
  <2> QED BY <2>2, <2>4
<1>4. CASE Tab!ListAnswer(c)
  <2> DEFINE list == IF c.got = Failed THEN None ELSE c.got
  <2>1. /\ c.kind # "run"
        /\ list = None \/ (list = c.got /\ c.got \notin {None, Failed})
        /\ Tab!Shows(c, list) /\ UNCHANGED <<pool, sheet, tab, refresher, Tab!run>>
        /\ {loading, generating, asking}' \subseteq BOOLEAN
        /\ calls' = calls \ {c}
    BY <1>4, <1>t DEF Tab!ListAnswer, Tab!TypeOK
  <2> HIDE DEF list
  <2>2. /\ Tab!TypeOK' /\ Tab!Mounted' = Tab!Mounted
        /\ rows' # None => Tab!Mounted /\ rows'.svc = sheet
    BY <1>3, <2>1
  <2> QED BY <1>t, <2>1, <2>2 DEF TabInv, TabShown, RunsOf, ResultKept, TabCall
<1>5. CASE Tab!GenerateAnswer(c)
  <2> DEFINE d == [c EXCEPT !.at = "list", !.got = None]
  <2>1. /\ c.kind # "run" /\ c.got # None /\ c.got # Failed
        /\ Tab!Shows(c, c.got) /\ UNCHANGED <<pool, sheet, tab, refresher, Tab!run>>
        /\ {loading, generating, asking}' \subseteq BOOLEAN
        /\ calls' = (calls \ {c}) \cup {d}
    BY <1>5, <1>t DEF Tab!GenerateAnswer, Tab!TypeOK
  <2>2. TabCall(d) /\ d.kind = c.kind /\ d.svc = c.svc /\ d.of = c.of /\ d.here = c.here
    BY <1>t DEF TabCall
  <2> HIDE DEF d
  <2>3. /\ \A e \in calls' : TabCall(e)
        /\ \A e \in calls' : e.here => Tab!Mounted /\ e.svc = sheet
        /\ RunsOf(running, sheet, session, calls')
    BY <2>1, <2>2, TabGoesOn
  <2>4. /\ Tab!TypeOK' /\ Tab!Mounted' = Tab!Mounted
        /\ rows' # None => Tab!Mounted /\ rows'.svc = sheet
    BY <1>3, <2>1
  <2> QED BY <1>t, <2>1, <2>3, <2>4 DEF TabInv, TabShown, RunsOf, ResultKept, TabCall
<1>6. CASE Tab!Generated(c)
  <2>1. /\ c.kind # "run" /\ c.got # None /\ calls' = calls \ {c}
        /\ UNCHANGED <<pool, sheet, tab, refresher, Tab!run>>
        /\ {loading, generating, asking}' \subseteq BOOLEAN
    BY <1>6, <1>t DEF Tab!Generated, Tab!TypeOK
  <2>2. CASE c.got # Failed /\ Tab!Count(c.got) > 0
    <3>1. Tab!Shows(c, c.got)
      BY <1>6, <2>2 DEF Tab!Generated
    <3>2. /\ Tab!TypeOK' /\ Tab!Mounted' = Tab!Mounted
          /\ rows' # None => Tab!Mounted /\ rows'.svc = sheet
      BY <1>3, <2>1, <2>2, <3>1
    <3> QED BY <1>t, <2>1, <3>2 DEF TabInv, TabShown, RunsOf, ResultKept, TabCall
  <2>3. CASE ~ (c.got # Failed /\ Tab!Count(c.got) > 0)
    <3>1. rows' = rows /\ poolRows' = poolRows
      BY <1>6, <2>3 DEF Tab!Generated
    <3> QED BY <1>1, <2>1, <3>1
  <2> QED BY <2>2, <2>3
<1>7. CASE Tab!OneAnswer(c)
  <2>1. UNCHANGED <<pool, Tab!panel, Tab!page, Tab!run>>
    BY <1>7 DEF Tab!OneAnswer
  <2>2. CASE calls' = calls \ {c}
    BY <1>1, <1>t, <2>1, <2>2 DEF Tab!TypeOK
  <2>3. CASE refresher # None /\ calls' = (calls \ {c}) \cup {Tab!New("list", refresher, FALSE)}
    <3> DEFINE n == Tab!New("list", refresher, FALSE)
    <3>1. refresher \in Svc
      BY <1>t, <2>3 DEF Tab!TypeOK
    <3>2. "list" \in Tab!Kind /\ FALSE \in BOOLEAN
      BY DEF Tab!Kind
    <3>3. TabCall(n) /\ n.kind = "list" /\ n.here = FALSE
      BY <3>1, <3>2, NewCall, Zenon
    <3>4. calls' = (calls \ {c}) \cup {n}
      BY <2>3
    <3> HIDE DEF n
    <3>5. Tab!TypeOK' /\ Tab!Mounted' = Tab!Mounted
      BY <1>t, <2>1 DEF Tab!TypeOK, Tab!Mounted
    <3>6. RunsOf(running, sheet, session, calls')
      BY <1>t, <3>3, <3>4 DEF RunsOf
    <3>7. TabShown(Tab!Mounted, sheet, rows, calls')
      BY <1>t, <3>3, <3>4 DEF TabShown
    <3>8. \A e \in calls' : TabCall(e)
      BY <1>t, <3>3, <3>4
    <3> QED BY <1>t, <2>1, <3>5, <3>6, <3>7, <3>8 DEF TabInv, TabShown, RunsOf, ResultKept, TabCall
  <2> QED BY <1>7, <2>2, <2>3 DEF Tab!OneAnswer
<1>8. CASE Tab!RunAnswer(c)
  <2>1. /\ c.kind = "run" /\ c.got # None /\ calls' = calls \ {c} /\ running' = FALSE
        /\ UNCHANGED <<pool, Tab!panel, Tab!page, session>>
    BY <1>8 DEF Tab!RunAnswer
  <2>2. c.svc = sheet /\ c.of = session /\ session # None /\ \A e \in calls' : e.kind # "run"
    BY <1>t, <2>1 DEF RunsOf
  <2>3. result' # None => /\ result'.of = session /\ result'.svc = sheet
                          /\ picked' \in {0} \cup DOMAIN result'.steps
    <3>1. CASE c.got = Failed
      BY <1>8, <3>1 DEF Tab!RunAnswer
    <3>2. CASE c.got # Failed
      <4>1. c.got \in Tab!Steps
        BY <1>t, <2>1, <3>2 DEF TabCall, GotOf
      <4>2. /\ result' = [of |-> c.of, svc |-> c.svc, steps |-> c.got]
            /\ picked' = Tab!FirstFailed(c.got)
        BY <1>8, <3>2 DEF Tab!RunAnswer
      <4> QED BY <2>2, <4>1, <4>2, FirstFailedIsStep
    <3> QED BY <3>1, <3>2
  <2>4. Tab!TypeOK' /\ Tab!Mounted' = Tab!Mounted
    BY <1>t, <2>1, <2>3 DEF Tab!TypeOK, Tab!Mounted
  <2> QED BY <1>t, <2>1, <2>2, <2>3, <2>4 DEF TabInv, TabShown, RunsOf, ResultKept, TabCall
<1> QED BY <1>4, <1>5, <1>6, <1>7, <1>8 DEF Tab!Answer

LEMMA TabStep == TabSetting /\ TabInv /\ [Tab!Next]_(Tab!vars) => TabInv'
<1> SUFFICES ASSUME TabSetting, TabInv, [Tab!Next]_(Tab!vars) PROVE TabInv'
  OBVIOUS
<1>1. CASE UNCHANGED Tab!vars
  BY <1>1 DEF Tab!vars, Tab!panel, Tab!page, Tab!run, TabInv, Tab!TypeOK, Tab!Mounted, TabShown,
              RunsOf, ResultKept, TabCall
<1>2. ASSUME NEW k \in Tab!Kind, Tab!Proceeds(k)
      PROVE  TabInv'
  BY <1>2, TabServe, TabAnswer DEF Tab!Proceeds
<1> QED BY <1>1, <1>2, TabPanel, TabRuns DEF Tab!Next

(* TabInv holds throughout.                                                 *)
THEOREM TabCorrect == ASSUME TabSetting PROVE Tab!Spec => []TabInv
<1>1. Tab!Init => TabInv
  BY TabInit
<1>2. TabInv /\ [Tab!Next]_(Tab!vars) => TabInv'
  BY TabStep
<1> QED BY <1>1, <1>2, PTL DEF Tab!Spec

(* The variables of the testcases of a service have their types.            *)
THEOREM TabTypeCorrect == ASSUME TabSetting PROVE Tab!Spec => []Tab!TypeOK
BY TabCorrect, PTL DEF TabInv

(* The rows of the tab are those of the service whose sheet is open,
   however late the list of another service is answered (the list is kept
   by the tab that asked for it, which goes away with its sheet).                                      *)
THEOREM RowsOfSheetCorrect == ASSUME TabSetting PROVE Tab!Spec => []Tab!RowsOfSheet
<1>1. TabInv => Tab!RowsOfSheet
  BY DEF TabInv, TabShown, Tab!RowsOfSheet
<1> QED BY <1>1, TabCorrect, PTL

(* The result in the dialog is of the testcases and the service for which
   the dialog is open: a run keeps it open until it is answered.            *)
THEOREM ResultOfSessionCorrect == ASSUME TabSetting PROVE Tab!Spec => []Tab!ResultOfSession
<1>1. TabInv => Tab!ResultOfSession
  BY DEF TabInv, ResultKept, Tab!ResultOfSession
<1> QED BY <1>1, TabCorrect, PTL

-----------------------------------------------------------------------------
CONSTANTS Runs0, Scenarios, MaxRuns, MaxSteps, Faults, RunScn, Base, Mode
VARIABLES runs, url, seen, loads, detail, titles, title, rerunning, reruns, runError, left, newest

Result == INSTANCE ResultPage

-----------------------------------------------------------------------------
(* The result of a run. *)

ResultRun == [scn : RunScn \cup {None}, base : Base, mode : Mode]

ResultSetting ==
  /\ Runs0 \subseteq Seq(ResultRun) /\ "live" \in Mode
  /\ None \notin Nat /\ MaxSteps \in Nat

(* What is loaded was an address, and the load started last, while it is    *)
(* under way, is the last one and of the address of the page.               *)
LoadsKept(ls, u, sn, new) ==
  /\ ls \in Seq(sn) /\ sn \subseteq Nat
  /\ new = "asked" => ls # <<>> /\ ls[Len(ls)] = u

(* A title under way is that of the run that is shown, or not wanted.       *)
TitlesKept(ts, ti, scn) ==
  /\ ts \subseteq [of : RunScn, live : BOOLEAN]
  /\ \A t \in ts : t.live => t.of = scn
  /\ (\A t \in ts : ~t.live) => ti \in {None, scn}

ResultInv ==
  /\ Result!TypeOK
  /\ runs \in Seq(ResultRun) /\ \A r \in reruns : r.sends \in ResultRun
  /\ LoadsKept(loads, url, seen, newest)
  /\ Result!RunIsOfAddress
  /\ TitlesKept(titles, title, Result!ScnOf(detail))

(* A sequence over a set is one over a larger set.                          *)
LEMMA SeqGrows == ASSUME NEW S, NEW T, S \subseteq T, NEW s \in Seq(S) PROVE s \in Seq(T)
<1>1. s \in [1..Len(s) -> S] /\ Len(s) \in Nat
  BY LenProperties
<1>2. s \in [1..Len(s) -> T]
  BY <1>1
<1> QED BY <1>1, <1>2, SeqDef

(* What is left when one of a sequence is taken.                            *)
LEMMA TakenAt ==
  ASSUME NEW S, NEW s \in Seq(S), NEW i \in DOMAIN s
  PROVE  /\ Picks!RemoveAt(s, i) \in Seq(S)
         /\ i # Len(s) =>
              /\ Picks!RemoveAt(s, i) # <<>>
              /\ Picks!RemoveAt(s, i)[Len(Picks!RemoveAt(s, i))] = s[Len(s)]
<1>1. Len(s) \in Nat /\ i \in 1..Len(s)
  BY LenProperties
<1>2. PICK r : r = Picks!RemoveAt(s, i)
  OBVIOUS
<1>3. /\ r \in Seq(S) /\ Len(r) = Len(s) - 1
      /\ \A k \in 1..(Len(s) - 1) : r[k] = s[IF k < i THEN k ELSE k + 1]
  BY <1>2, RemoveAtIs
<1>4. ASSUME i # Len(s) PROVE r # <<>> /\ r[Len(r)] = s[Len(s)]
  <2> DEFINE k == Len(s) - 1
  <2>1. k \in 1..(Len(s) - 1) /\ ~(k < i) /\ k + 1 = Len(s) /\ Len(r) = k
    BY <1>1, <1>3, <1>4
  <2> HIDE DEF k
  <2>2. r[k] = s[k + 1]
    BY <1>3, <2>1
  <2>3. Len(r) # 0
    BY <1>1, <1>3, <1>4
  <2>4. r # <<>>
    BY <2>3
  <2> QED BY <2>1, <2>2, <2>4
<1> QED BY <1>2, <1>3, <1>4

LEMMA ResultInit == ASSUME ResultSetting, Result!Init PROVE ResultInv
<1>1. runs \in Seq(ResultRun) /\ url \in DOMAIN runs /\ url \in Nat
  BY DEF Result!Init, ResultSetting
<1>2. LoadsKept(loads, url, seen, newest)
  BY <1>1 DEF Result!Init, LoadsKept
<1> QED BY <1>1, <1>2 DEF Result!Init, ResultInv, Result!TypeOK, Result!RunIsOfAddress,
                           TitlesKept, Result!ScnOf, ResultSetting

(* The address changes, to a run that was shown or to a new one.            *)
LEMMA ResultOpens ==
  ASSUME ResultSetting, ResultInv, NEW n, Result!Open(n), left' \in 0..MaxSteps,
         UNCHANGED <<detail, titles, title>>,
         runs' = runs \/ \E x \in ResultRun : runs' = Append(runs, x),
         runs' \in Seq(ResultRun), n \in DOMAIN runs',
         \A r \in reruns' : r.sends \in ResultRun
  PROVE  ResultInv'
<1>1. /\ url' = n /\ seen' = seen \cup {n} /\ loads' = Append(loads, n) /\ loading' = TRUE
      /\ newest' = "asked"
  BY DEF Result!Open
<1>2. /\ runs \in Seq(ResultRun) /\ url \in seen /\ seen \subseteq DOMAIN runs
      /\ detail = None \/ detail \in seen
      /\ loads \in Seq(seen) /\ seen \subseteq Nat
  BY DEF ResultInv, Result!TypeOK, LoadsKept
<1>3. DOMAIN runs \subseteq DOMAIN runs' /\ \A k \in DOMAIN runs : runs'[k] = runs[k]
  <2>1. ASSUME NEW x \in ResultRun, runs' = Append(runs, x)
        PROVE  DOMAIN runs \subseteq DOMAIN runs' /\ \A k \in DOMAIN runs : runs'[k] = runs[k]
    BY <1>2, <2>1, AppendProperties, LenProperties
  <2> QED BY <2>1
<1>4. n \in Nat /\ loads \in Seq(seen')
  <2>1. n \in Nat
    BY <1>2
  <2>2. seen \subseteq seen'
    BY <1>1
  <2> QED BY <1>2, <2>1, <2>2, SeqGrows
<1>5. /\ loads' \in Seq(seen') /\ loads' # <<>> /\ loads'[Len(loads')] = n
  BY <1>1, <1>4
<1>6. Result!TypeOK'
  BY <1>1, <1>2, <1>3, <1>5 DEF Result!TypeOK
<1>7. LoadsKept(loads', url', seen', newest')
  BY <1>1, <1>2, <1>4, <1>5 DEF LoadsKept
<1>8. Result!ScnOf(detail)' = Result!ScnOf(detail)
  BY <1>2, <1>3 DEF Result!ScnOf
<1>9. TitlesKept(titles', title', Result!ScnOf(detail)')
  BY <1>8 DEF ResultInv
<1> QED BY <1>1, <1>5, <1>6, <1>7, <1>9 DEF ResultInv, Result!RunIsOfAddress

(* The run that is shown becomes another one, or none.                      *)
LEMMA ResultShows ==
  ASSUME ResultSetting, ResultInv, NEW n, n = None \/ n \in seen, Result!ShowRun(n),
         UNCHANGED runs
  PROVE  TitlesKept(titles', title', Result!ScnOf(n))
<1>t. /\ TitlesKept(titles, title, Result!ScnOf(detail))
      /\ runs \in Seq(ResultRun) /\ seen \subseteq DOMAIN runs
  BY DEF ResultInv, Result!TypeOK
<1>1. CASE Result!ScnOf(n) = Result!ScnOf(detail)
  BY <1>1, <1>t DEF Result!ShowRun
<1>2. CASE Result!ScnOf(n) # Result!ScnOf(detail)
  <2>1. ASSUME NEW t \in titles
        PROVE  LET u == [t EXCEPT !.live = FALSE]
               IN  u \in [of : RunScn, live : BOOLEAN] /\ ~u.live
    BY <1>t DEF TitlesKept
  <2>2. \A u \in Result!Unwanted(titles) : u \in [of : RunScn, live : BOOLEAN] /\ ~u.live
    BY <2>1 DEF Result!Unwanted
  <2>3. CASE Result!ScnOf(n) = None
    <3>1. titles' = Result!Unwanted(titles) /\ title' = None
      BY <1>2, <2>3 DEF Result!ShowRun
    <3> QED BY <2>2, <3>1 DEF TitlesKept
  <2>4. CASE Result!ScnOf(n) # None
    <3>1. Result!ScnOf(n) \in RunScn
      <4>1. n \in DOMAIN runs
        BY <1>t, <2>4 DEF Result!ScnOf
      <4>2. runs[n] \in ResultRun
        BY <1>t, <4>1
      <4> QED BY <2>4, <4>2 DEF Result!ScnOf, ResultRun
    <3> DEFINE x == [of |-> Result!ScnOf(n), live |-> TRUE]
    <3>2. titles' = Result!Unwanted(titles) \cup {x}
      BY <1>2, <2>4 DEF Result!ShowRun
    <3>3. x \in [of : RunScn, live : BOOLEAN] /\ x.live /\ x.of = Result!ScnOf(n)
      BY <3>1
    <3> HIDE DEF x
    <3> QED BY <2>2, <3>2, <3>3 DEF TitlesKept
  <2> QED BY <2>3, <2>4
<1> QED BY <1>1, <1>2

(* A load is answered.                                                      *)
LEMMA ResultLoaded ==
  ASSUME ResultSetting, ResultInv, NEW i \in DOMAIN loads, NEW ok \in BOOLEAN,
         Result!LoadAnswered(i, ok)
  PROVE  ResultInv'
<1>t. /\ url \in seen /\ seen \subseteq DOMAIN runs /\ left \in 0..MaxSteps
      /\ loads \in Seq(seen) /\ seen \subseteq Nat /\ runs \in Seq(ResultRun)
      /\ newest = "asked" => loads # <<>> /\ loads[Len(loads)] = url
  BY DEF ResultInv, Result!TypeOK, LoadsKept
<1>1. /\ loads' = SubSeq(loads, 1, i - 1) \o SubSeq(loads, i + 1, Len(loads))
      /\ newest' = IF newest # "asked" THEN "past" ELSE IF i = Len(loads) THEN "shown" ELSE "asked"
      /\ loading' = FALSE /\ error' = (error \/ ~ok)
      /\ detail' = (IF ok THEN loads[i] ELSE None)
      /\ UNCHANGED <<runs, url, seen, rerunning, reruns, runError, left>>
  BY DEF Result!LoadAnswered, Result!Taken, Result!ShowRun
<1>2. loads[i] \in seen /\ i \in 1..Len(loads) /\ Len(loads) \in Nat
  BY <1>t
<1>3. /\ loads' \in Seq(seen)
      /\ i # Len(loads) => loads' # <<>> /\ loads'[Len(loads')] = loads[Len(loads)]
  <2>1. loads' = Picks!RemoveAt(loads, i) /\ loads \in Seq(seen)
    BY <1>t, <1>1 DEF Picks!RemoveAt
  <2> QED BY <2>1, TakenAt
<1>4. newest' = "asked" => loads' # <<>> /\ loads'[Len(loads')] = url'
  BY <1>t, <1>1, <1>3
<1>5. detail' = None \/ detail' \in seen
  BY <1>1, <1>2
<1>6. TitlesKept(titles', title', Result!ScnOf(detail'))
  <2>1. Result!ShowRun(detail')
    BY <1>1 DEF Result!LoadAnswered
  <2> QED BY <1>1, <1>5, <2>1, ResultShows
<1>7. Result!ScnOf(detail)' = Result!ScnOf(detail')
  BY <1>1 DEF Result!ScnOf
<1>8. Result!TypeOK'
  BY <1>t, <1>1, <1>4, <1>5 DEF Result!TypeOK
<1>9. Result!RunIsOfAddress'
  <2> SUFFICES ASSUME newest' = "shown"
               PROVE  detail' \in {None, url'} /\ (detail' = None => error')
    BY DEF Result!RunIsOfAddress
  <2>1. loads[i] = url /\ url \in Nat
    BY <1>1, <1>t
  <2> QED BY <1>1, <2>1 DEF ResultSetting
<1> QED BY <1>t, <1>1, <1>3, <1>4, <1>6, <1>7, <1>8, <1>9 DEF ResultInv, LoadsKept

LEMMA ResultStep == ResultSetting /\ ResultInv /\ [Result!Next]_(Result!vars) => ResultInv'
<1> SUFFICES ASSUME ResultSetting, ResultInv, [Result!Next]_(Result!vars) PROVE ResultInv'
  OBVIOUS
<1>t. /\ Result!TypeOK /\ runs \in Seq(ResultRun) /\ \A r \in reruns : r.sends \in ResultRun
      /\ LoadsKept(loads, url, seen, newest)
      /\ TitlesKept(titles, title, Result!ScnOf(detail))
      /\ Result!RunIsOfAddress
  BY DEF ResultInv
<1>1. ASSUME NEW n \in Result!Ids, Result!GoTo(n)
      PROVE  ResultInv'
  <2>1. /\ n \in seen /\ Result!Open(n) /\ runs' = runs /\ reruns' = reruns
        /\ UNCHANGED <<detail, titles, title>> /\ left' = left - 1 /\ left > 0
    BY <1>1 DEF Result!GoTo, Result!Step
  <2>2. n \in DOMAIN runs' /\ left' \in 0..MaxSteps
    BY <1>t, <2>1 DEF Result!TypeOK, ResultSetting
  <2> QED BY <1>t, <2>1, <2>2, ResultOpens
<1>2. ASSUME NEW t \in titles, NEW ok \in BOOLEAN, Result!TitleAnswered(t, ok)
      PROVE  ResultInv'
  <2>1. /\ titles' = titles \ {t}
        /\ title' = IF ~t.live THEN title ELSE IF ok THEN t.of ELSE None
        /\ UNCHANGED <<runs, url, seen, loads, loading, detail, error, rerunning, reruns, runError, left, newest>>
    BY <1>2 DEF Result!TitleAnswered
  <2>2. Result!ScnOf(detail)' = Result!ScnOf(detail)
    BY <2>1 DEF Result!ScnOf
  <2>3. TitlesKept(titles', title', Result!ScnOf(detail))
    BY <1>t, <2>1 DEF TitlesKept
  <2>4. Result!TypeOK' /\ Result!RunIsOfAddress'
    BY <1>t, <2>1 DEF Result!TypeOK, Result!RunIsOfAddress
  <2> QED BY <1>t, <2>1, <2>2, <2>3, <2>4 DEF ResultInv
<1>3. ASSUME UNCHANGED <<runs, url, seen, loads, loading, detail, error, titles, title, newest>>,
             left' \in 0..MaxSteps, \A r \in reruns' : r.sends \in ResultRun
      PROVE  ResultInv'
  <2>1. Result!ScnOf(detail)' = Result!ScnOf(detail)
    BY <1>3 DEF Result!ScnOf
  <2>2. Result!TypeOK' /\ Result!RunIsOfAddress'
    BY <1>t, <1>3 DEF Result!TypeOK, Result!RunIsOfAddress
  <2> QED BY <1>t, <1>3, <2>1, <2>2 DEF ResultInv
<1>4. CASE Result!RunAgain
  <2>1. detail \in DOMAIN runs
    BY <1>4, <1>t DEF Result!RunAgain, Result!TypeOK
  <2>2. Result!Payload(detail) \in ResultRun
    <3>1. runs[detail] \in ResultRun
      BY <1>t, <2>1
    <3> QED BY <3>1 DEF Result!Payload, ResultRun, ResultSetting
  <2>3. \A r \in reruns' : r \in reruns \/ r.sends = Result!Payload(detail)
    BY <1>4 DEF Result!RunAgain
  <2>4. left' \in 0..MaxSteps
    BY <1>4, <1>t DEF Result!RunAgain, Result!Step, Result!TypeOK, ResultSetting
  <2>5. UNCHANGED <<runs, url, seen, loads, loading, detail, error, titles, title, newest>>
    BY <1>4 DEF Result!RunAgain
  <2> QED BY <1>t, <1>3, <2>2, <2>3, <2>4, <2>5
<1>5. CASE Result!Answers
  BY <1>5, ResultLoaded DEF Result!Answers
<1>6. ASSUME NEW r \in reruns, Result!RerunDone(r)
      PROVE  ResultInv'
  <2>1. /\ runs' = Append(runs, r.sends) /\ reruns' = reruns \ {r} /\ Result!Open(Len(runs) + 1)
        /\ UNCHANGED <<detail, titles, title, left>> /\ r.sends \in ResultRun
    BY <1>6, <1>t DEF Result!RerunDone
  <2>2. /\ runs' \in Seq(ResultRun) /\ Len(runs) + 1 \in DOMAIN runs'
        /\ \E x \in ResultRun : runs' = Append(runs, x)
    BY <1>t, <2>1
  <2>3. left' \in 0..MaxSteps
    BY <1>t, <2>1 DEF Result!TypeOK
  <2> QED BY <1>t, <2>1, <2>2, <2>3, ResultOpens
<1>7. ASSUME NEW r \in reruns, Result!RerunFails(r)
      PROVE  ResultInv'
  BY <1>3, <1>7, <1>t DEF Result!RerunFails, Result!TypeOK
<1>8. CASE UNCHANGED Result!vars
  BY <1>3, <1>8, <1>t DEF Result!vars, Result!TypeOK
<1> QED BY <1>1, <1>2, <1>4, <1>5, <1>6, <1>7, <1>8 DEF Result!Next, Result!Reruns

(* ResultInv holds throughout.                                              *)
THEOREM ResultCorrect == ASSUME ResultSetting PROVE Result!Spec => []ResultInv
<1>1. Result!Init => ResultInv
  BY ResultInit
<1>2. ResultInv /\ [Result!Next]_(Result!vars) => ResultInv'
  BY ResultStep
<1> QED BY <1>1, <1>2, PTL DEF Result!Spec

(* The variables of the page of a run have their types.                     *)
THEOREM ResultTypeCorrect == ASSUME ResultSetting PROVE Result!Spec => []Result!TypeOK
BY ResultCorrect, PTL DEF ResultInv

(* Once the load of a run that was started last is answered, whichever older
   loads are under way, the run that is shown is that of the address, or none
   with an error, until an older answer comes in: the loads of the page are
   neither cancelled nor ordered (ExecutionResult.tsx).                     *)
THEOREM AddressCorrect == ASSUME ResultSetting PROVE Result!Spec => []Result!RunIsOfAddress
<1>1. ResultInv => Result!RunIsOfAddress
  BY DEF ResultInv
<1> QED BY <1>1, ResultCorrect, PTL

(* Once titles are answered, the title is that of the scenario of the run
   that is shown, however late the title of another run arrives.            *)
THEOREM TitleCorrect == ASSUME ResultSetting PROVE Result!Spec => []Result!TitleIsOfRun
<1>1. ResultInv => Result!TitleIsOfRun
  BY DEF ResultInv, TitlesKept, Result!TitleIsOfRun
<1> QED BY <1>1, ResultCorrect, PTL

-----------------------------------------------------------------------------
CONSTANTS Periods, DaysOf, Sizes, Window, Kinds
VARIABLES db, asked, failuresOnly, answer, titleOf

Runs == INSTANCE HistoryPage

-----------------------------------------------------------------------------
(* The list of runs. *)

RunsSetting ==
  /\ Periods # {} /\ Sizes # {} /\ Sizes \subseteq Nat /\ None \notin Scenarios
  /\ MaxRuns \in Nat

(* The load started last, while it is under way, is the last one and asks   *)
(* for what the page asks for; once it is shown, the answer is of that.     *)
AsksKept(ks, k, a, new) ==
  /\ ks \in Seq(Runs!Asked)
  /\ new = "asked" => ks # <<>> /\ ks[Len(ks)] = k
  /\ new = "shown" => a = k

NamesKept(ts, ti, s) ==
  /\ ts \subseteq [scn : Scenarios, live : BOOLEAN]
  /\ \A t \in ts : t.live => t.scn = s
  /\ (\A t \in ts : ~t.live) => ti \in {None, s}

RunsInv ==
  /\ asked \in Runs!Asked /\ answer.key \in Runs!Asked
  /\ AsksKept(calls, asked, answer.key, newest)
  /\ NamesKept(titles, titleOf, asked.scn)

LEMMA RunsInit == ASSUME RunsSetting, Runs!Init PROVE RunsInv
<1>1. Runs!Start \in Runs!Asked /\ Runs!Start.scn = None
  BY DEF RunsSetting, Runs!Start, Runs!Asked
<1>2. /\ asked = Runs!Start /\ calls = <<Runs!Start>> /\ answer.key = Runs!Start
      /\ titleOf = None /\ titles = {} /\ newest = "asked"
  BY DEF Runs!Init, Runs!NoAnswer
<1>3. AsksKept(calls, asked, answer.key, newest)
  BY <1>1, <1>2 DEF AsksKept
<1> QED BY <1>1, <1>2, <1>3 DEF RunsInv, NamesKept

(* Loads are added.                                                         *)
LEMMA AsksGrow ==
  ASSUME RunsInv, NEW k \in Runs!Asked, NEW ks,
         ks = <<k>> \/ \E j \in Runs!Asked : ks = <<j, k>>
  PROVE  AsksKept(calls \o ks, k, answer.key, "asked")
<1>1. calls \in Seq(Runs!Asked)
  BY DEF RunsInv, AsksKept
<1>2. CASE ks = <<k>>
  <2>1. /\ calls \o <<k>> \in Seq(Runs!Asked) /\ Len(calls \o <<k>>) = Len(calls) + 1
        /\ (calls \o <<k>>)[Len(calls) + 1] = k
    BY <1>1
  <2> QED BY <1>1, <1>2, <2>1 DEF AsksKept
<1>3. ASSUME NEW j \in Runs!Asked, ks = <<j, k>>
      PROVE  AsksKept(calls \o ks, k, answer.key, "asked")
  <2>1. /\ calls \o <<j, k>> \in Seq(Runs!Asked) /\ Len(calls \o <<j, k>>) = Len(calls) + 2
        /\ (calls \o <<j, k>>)[Len(calls) + 2] = k
    BY <1>1
  <2> QED BY <1>1, <1>3, <2>1 DEF AsksKept
<1> QED BY <1>2, <1>3

(* What is asked for after a filter changed.                                *)
LEMMA RunsRefilter ==
  ASSUME RunsInv, NEW k \in Runs!Asked, Runs!Refilter(k), answer' = answer
  PROVE  asked' \in Runs!Asked /\ asked'.scn = k.scn /\ AsksKept(calls', asked', answer'.key, newest')
<1> DEFINE f == [k EXCEPT !.page = 1]
<1>1. f \in Runs!Asked /\ f.scn = k.scn /\ (k.page = 1 => f = k)
  BY DEF Runs!Asked
<1>2. asked' = f /\ calls' = calls \o (IF k.page = 1 THEN <<k>> ELSE <<k, f>>) /\ newest' = "asked"
  BY DEF Runs!Refilter, Runs!Loads
<1> HIDE DEF f
<1>3. calls' = calls \o <<f>> \/ calls' = calls \o <<k, f>>
  BY <1>1, <1>2
<1> QED BY <1>1, <1>2, <1>3, AsksGrow

(* A page, a size or a refresh is asked for.                                *)
LEMMA RunsAsk ==
  ASSUME RunsInv, NEW k \in Runs!Asked, asked' = k, k.scn = asked.scn, Runs!Loads(<<k>>),
         UNCHANGED <<answer, titleOf, titles>>
  PROVE  RunsInv'
<1>1. calls' = calls \o <<k>> /\ newest' = "asked"
  BY DEF Runs!Loads
<1>2. AsksKept(calls', k, answer.key, newest')
  BY <1>1, AsksGrow
<1> QED BY <1>2 DEF RunsInv

LEMMA RunsAnswered ==
  ASSUME RunsInv, NEW i \in DOMAIN calls, Runs!Answered(i) \/ Runs!LoadFailed(i)
  PROVE  RunsInv'
<1>t. AsksKept(calls, asked, answer.key, newest) /\ calls \in Seq(Runs!Asked)
  BY DEF RunsInv, AsksKept
<1>1. /\ calls' = Picks!RemoveAt(calls, i)
      /\ newest' = IF newest # "asked" THEN "past" ELSE IF i = Len(calls) THEN "shown" ELSE "asked"
      /\ answer'.key = calls[i]
      /\ UNCHANGED <<asked, titleOf, titles>>
  <2>1. /\ Runs!Taken(i) /\ UNCHANGED <<asked, titleOf, titles>>
        /\ answer' = Runs!AnswerTo(calls[i]) \/ answer' = Runs!NoAnswer(calls[i])
    BY DEF Runs!Answered, Runs!LoadFailed
  <2>2. calls' = Picks!RemoveAt(calls, i)
    BY <2>1 DEF Runs!Taken, Picks!RemoveAt
  <2>3. newest' = IF newest # "asked" THEN "past" ELSE IF i = Len(calls) THEN "shown" ELSE "asked"
    BY <2>1 DEF Runs!Taken
  <2>4. Runs!AnswerTo(calls[i]).key = calls[i] /\ Runs!NoAnswer(calls[i]).key = calls[i]
    <3>1. \A k, x, n : [key |-> k, rows |-> x, total |-> n].key = k
      OBVIOUS
    <3> QED BY <3>1 DEF Runs!AnswerTo, Runs!NoAnswer
  <2> QED BY <2>1, <2>2, <2>3, <2>4
<1>2. calls[i] \in Runs!Asked
  BY <1>t
<1>3. /\ calls' \in Seq(Runs!Asked)
      /\ i # Len(calls) => calls' # <<>> /\ calls'[Len(calls')] = calls[Len(calls)]
  BY <1>t, <1>1, TakenAt
<1>4. AsksKept(calls', asked', answer'.key, newest')
  BY <1>t, <1>1, <1>3 DEF AsksKept
<1> QED BY <1>1, <1>2, <1>4 DEF RunsInv

LEMMA RunsStep == RunsSetting /\ RunsInv /\ [Runs!Next]_(Runs!vars) => RunsInv'
<1> SUFFICES ASSUME RunsSetting, RunsInv, [Runs!Next]_(Runs!vars) PROVE RunsInv'
  OBVIOUS
<1>t. /\ asked \in Runs!Asked /\ answer.key \in Runs!Asked
      /\ AsksKept(calls, asked, answer.key, newest)
      /\ NamesKept(titles, titleOf, asked.scn)
  BY DEF RunsInv
<1>1. ASSUME NEW p \in Periods, Runs!SetPeriod(p)
      PROVE  RunsInv'
  <2> DEFINE k == [asked EXCEPT !.period = p]
  <2>1. k \in Runs!Asked /\ k.scn = asked.scn
    BY <1>t DEF Runs!Asked
  <2>2. Runs!Refilter(k) /\ UNCHANGED <<answer, titleOf, titles>>
    BY <1>1 DEF Runs!SetPeriod
  <2> HIDE DEF k
  <2>3. asked' \in Runs!Asked /\ asked'.scn = asked.scn /\ AsksKept(calls', asked', answer'.key, newest')
    BY <2>1, <2>2, RunsRefilter
  <2> QED BY <1>t, <2>2, <2>3 DEF RunsInv
<1>2. ASSUME NEW s \in Scenarios \cup {None}, Runs!SetScenario(s)
      PROVE  RunsInv'
  <2> DEFINE k == [asked EXCEPT !.scn = s]
  <2>1. k \in Runs!Asked /\ k.scn = s
    BY <1>t DEF Runs!Asked
  <2>2. /\ Runs!Refilter(k) /\ UNCHANGED answer
        /\ titles' = Runs!Unwanted(titles)
                       \cup (IF s = None THEN {} ELSE {[scn |-> s, live |-> TRUE]})
        /\ titleOf' = IF s = None THEN None ELSE titleOf
    BY <1>2 DEF Runs!SetScenario
  <2> HIDE DEF k
  <2>3. asked' \in Runs!Asked /\ asked'.scn = s /\ AsksKept(calls', asked', answer'.key, newest')
    BY <2>1, <2>2, RunsRefilter
  <2>4. ASSUME NEW t \in titles
        PROVE  LET u == [t EXCEPT !.live = FALSE]
               IN  u \in [scn : Scenarios, live : BOOLEAN] /\ ~u.live
    BY <1>t DEF NamesKept
  <2>5. \A u \in Runs!Unwanted(titles) : u \in [scn : Scenarios, live : BOOLEAN] /\ ~u.live
    BY <2>4 DEF Runs!Unwanted
  <2>6. NamesKept(titles', titleOf', s)
    <3>1. CASE s = None
      BY <2>2, <2>5, <3>1 DEF NamesKept
    <3>2. CASE s # None
      <4> DEFINE x == [scn |-> s, live |-> TRUE]
      <4>1. x \in [scn : Scenarios, live : BOOLEAN] /\ x.live /\ x.scn = s
        BY <3>2
      <4>2. titles' = Runs!Unwanted(titles) \cup {x}
        BY <2>2, <3>2
      <4> HIDE DEF x
      <4> QED BY <2>5, <4>1, <4>2 DEF NamesKept
    <3> QED BY <3>1, <3>2
  <2>7. answer'.key \in Runs!Asked
    BY <1>t, <2>2
  <2> QED BY <2>3, <2>6, <2>7 DEF RunsInv
<1>3. ASSUME NEW t \in titles, NEW ok \in BOOLEAN, Runs!TitleArrives(t, ok)
      PROVE  RunsInv'
  <2>1. /\ titles' = titles \ {t}
        /\ titleOf' = IF ~t.live THEN titleOf ELSE IF ok THEN t.scn ELSE None
        /\ UNCHANGED <<asked, calls, answer, newest>>
    BY <1>3 DEF Runs!TitleArrives
  <2>2. NamesKept(titles', titleOf', asked.scn)
    BY <1>t, <2>1 DEF NamesKept
  <2> QED BY <1>t, <2>1, <2>2 DEF RunsInv
<1>4. CASE Runs!SetFailuresOnly
  <2> DEFINE k == [asked EXCEPT !.page = 1]
  <2>1. k \in Runs!Asked /\ k.scn = asked.scn /\ (asked.page = 1 => k = asked)
    BY <1>t DEF Runs!Asked
  <2>2. /\ asked' = k /\ UNCHANGED <<answer, titleOf, titles>>
        /\ IF asked.page = 1 THEN UNCHANGED <<calls, newest>> ELSE Runs!Loads(<<k>>)
    BY <1>4 DEF Runs!SetFailuresOnly
  <2> HIDE DEF k
  <2>3. CASE asked.page = 1
    BY <1>t, <2>1, <2>2, <2>3 DEF RunsInv
  <2>4. CASE asked.page # 1
    BY <2>1, <2>2, <2>4, RunsAsk
  <2> QED BY <2>3, <2>4
<1>5. CASE Runs!Refresh
  BY <1>5, <1>t, RunsAsk DEF Runs!Refresh
<1>6. CASE Runs!Answers
  BY <1>6, RunsAnswered DEF Runs!Answers
<1>7. ASSUME NEW n \in 1..MaxRuns, Runs!SetPage(n)
      PROVE  RunsInv'
  <2> DEFINE k == [asked EXCEPT !.page = n]
  <2>0. n \in Nat \ {0}
    BY DEF RunsSetting
  <2>1. k \in Runs!Asked /\ k.scn = asked.scn
    BY <1>t, <2>0 DEF Runs!Asked
  <2>2. asked' = k /\ Runs!Loads(<<k>>) /\ UNCHANGED <<answer, titleOf, titles>>
    BY <1>7 DEF Runs!SetPage
  <2> HIDE DEF k
  <2> QED BY <2>1, <2>2, RunsAsk
<1>8. ASSUME NEW n \in Sizes, Runs!SetSize(n)
      PROVE  RunsInv'
  <2> DEFINE j == [asked EXCEPT !.size = n]
             k == [asked EXCEPT !.size = n, !.page = 1]
  <2>1. k \in Runs!Asked /\ k.scn = asked.scn
    <3>1. j \in Runs!Asked /\ j.scn = asked.scn
      BY <1>t DEF Runs!Asked
    <3>2. k = [j EXCEPT !.page = 1]
      OBVIOUS
    <3> HIDE DEF j, k
    <3> QED BY <3>1, <3>2 DEF Runs!Asked
  <2>2. asked' = k /\ Runs!Loads(<<k>>) /\ UNCHANGED <<answer, titleOf, titles>>
    BY <1>8 DEF Runs!SetSize
  <2> HIDE DEF j, k
  <2> QED BY <2>1, <2>2, RunsAsk
<1>9. ASSUME UNCHANGED <<asked, calls, answer, titleOf, titles, newest>>
      PROVE  RunsInv'
  BY <1>t, <1>9 DEF RunsInv
<1>10. ASSUME NEW r, Runs!RunEnds(r)
       PROVE  RunsInv'
  BY <1>9, <1>10 DEF Runs!RunEnds
<1>11. CASE UNCHANGED Runs!vars
  BY <1>9, <1>11 DEF Runs!vars
<1> QED BY <1>1, <1>2, <1>3, <1>4, <1>5, <1>6, <1>7, <1>8, <1>10, <1>11 DEF Runs!Next

(* RunsInv holds throughout.                                                *)
THEOREM RunsCorrect == ASSUME RunsSetting PROVE Runs!Spec => []RunsInv
<1>1. Runs!Init => RunsInv
  BY RunsInit
<1>2. RunsInv /\ [Runs!Next]_(Runs!vars) => RunsInv'
  BY RunsStep
<1> QED BY <1>1, <1>2, PTL DEF Runs!Spec

(* Once the load of the list of runs that was started last is answered,
   whichever older loads are under way, the rows are of the filters, the page
   and the size that are set, until an older answer comes in: the loads are
   neither cancelled nor ordered (History.tsx).                             *)
THEOREM RunRowsCorrect == ASSUME RunsSetting PROVE Runs!Spec => []Runs!RowsAreAsked
<1>1. RunsInv => Runs!RowsAreAsked
  BY DEF RunsInv, AsksKept, Runs!RowsAreAsked
<1> QED BY <1>1, RunsCorrect, PTL

(* Once titles are answered, the title is that of the scenario of the
   address, however late the title of another scenario arrives.             *)
THEOREM RunTitleCorrect == ASSUME RunsSetting PROVE Runs!Spec => []Runs!TitleIsOfScenario
<1>1. RunsInv => Runs!TitleIsOfScenario
  BY DEF RunsInv, NamesKept, Runs!TitleIsOfScenario
<1> QED BY <1>1, RunsCorrect, PTL

-----------------------------------------------------------------------------
CONSTANTS Samples, KindOf, SourceOf, ServiceOf, PathKinds, Sources, Words, Hits, PasteOf, BulkOf,
          Pools0, ListLimit, CoverLimit, Texts
VARIABLES filters, details, promoting, panel, ingests

Pool == INSTANCE DataPoolPage

-----------------------------------------------------------------------------
(* The data pool. *)

(* Details under way are those of the selected sample, or not wanted.       *)
DetailsKept(ds, d, s) ==
  /\ \A x \in ds : x = [of |-> x.of, live |-> x.live] /\ x.live \in BOOLEAN
  /\ \A x \in ds : x.live => x.of = s
  /\ (\A x \in ds : ~x.live) => d \in {None, s}

(* The panel of the logs waits for the one request it has under way.        *)
IngestKept(cs, p) ==
  /\ \A c \in cs : c = [op |-> c.op, what |-> c.what, load |-> c.load, stored |-> c.stored,
                        live |-> c.live]
  /\ \A c \in cs : c.live \in BOOLEAN
  /\ \A c, d \in cs : c.live /\ d.live => c = d
  /\ p = [sub |-> p.sub, text |-> p.text, preview |-> p.preview, result |-> p.result,
          busy |-> p.busy]
  /\ p.busy \in BOOLEAN /\ (p.busy <=> \E c \in cs : c.live)

PoolInv == DetailsKept(details, detail, sel) /\ IngestKept(ingests, panel)

LEMMA PoolInit == ASSUME Pool!Init PROVE PoolInv
<1>1. DetailsKept(details, detail, sel)
  BY DEF Pool!Init, DetailsKept
<1>2. IngestKept(ingests, panel)
  BY DEF Pool!Init, Pool!Fresh, IngestKept
<1> QED BY <1>1, <1>2 DEF PoolInv

(* Another sample is selected.                                              *)
LEMMA PoolSelects ==
  ASSUME DetailsKept(details, detail, sel), NEW s, Pool!Select(s)
  PROVE  DetailsKept(details', detail, sel')
<1>1. CASE s = sel
  BY <1>1 DEF Pool!Select
<1>2. CASE s # sel
  <2>1. ASSUME NEW x \in details
        PROVE  LET u == [x EXCEPT !.live = FALSE]
               IN  u = [of |-> u.of, live |-> u.live] /\ u.live = FALSE
    <3>1. x = [of |-> x.of, live |-> x.live]
      BY DEF DetailsKept
    <3>2. PICK o, l : x = [of |-> o, live |-> l]
      BY <3>1
    <3>3. PICK u : u = [x EXCEPT !.live = FALSE]
      OBVIOUS
    <3>4. u = [of |-> o, live |-> FALSE]
      BY <3>2, <3>3
    <3>5. u = [of |-> u.of, live |-> u.live] /\ u.live = FALSE
      BY <3>4
    <3> QED BY <3>3, <3>5
  <2>2. \A u \in Pool!Unwanted(details) : u = [of |-> u.of, live |-> u.live] /\ u.live = FALSE
    BY <2>1 DEF Pool!Unwanted
  <2>3. PICK x : x = [of |-> s, live |-> TRUE]
    OBVIOUS
  <2>4. details' = Pool!Unwanted(details) \cup {x} /\ sel' = s
    BY <1>2, <2>3 DEF Pool!Select
  <2>5. x = [of |-> x.of, live |-> x.live] /\ x.live = TRUE /\ x.of = s
    BY <2>3
  <2> QED BY <2>2, <2>4, <2>5 DEF DetailsKept
<1> QED BY <1>1, <1>2

(* The requests of a panel that is gone.                                    *)
LEMMA PoolLeaves ==
  ASSUME NEW p, IngestKept(ingests, p), NEW cs, cs \subseteq Pool!Unwanted(ingests)
  PROVE  IngestKept(cs, Pool!Fresh)
<1>1. ASSUME NEW c \in ingests
      PROVE  LET u == [c EXCEPT !.live = FALSE]
             IN  /\ u = [op |-> u.op, what |-> u.what, load |-> u.load, stored |-> u.stored,
                         live |-> u.live]
                 /\ u.live = FALSE
  <2>1. c = [op |-> c.op, what |-> c.what, load |-> c.load, stored |-> c.stored, live |-> c.live]
    BY DEF IngestKept
  <2>2. PICK o, w, l, s, v : c = [op |-> o, what |-> w, load |-> l, stored |-> s, live |-> v]
    BY <2>1
  <2>3. PICK u : u = [c EXCEPT !.live = FALSE]
    OBVIOUS
  <2>4. u = [op |-> o, what |-> w, load |-> l, stored |-> s, live |-> FALSE]
    BY <2>2, <2>3
  <2>5. /\ u = [op |-> u.op, what |-> u.what, load |-> u.load, stored |-> u.stored, live |-> u.live]
        /\ u.live = FALSE
    BY <2>4
  <2> QED BY <2>3, <2>5
<1>2. ASSUME NEW u \in cs
      PROVE  /\ u = [op |-> u.op, what |-> u.what, load |-> u.load, stored |-> u.stored,
                     live |-> u.live]
             /\ u.live = FALSE
  <2>1. PICK c \in ingests : u = [c EXCEPT !.live = FALSE]
    BY DEF Pool!Unwanted
  <2> QED BY <1>1, <2>1
<1>3. PICK f : f = Pool!Fresh
  OBVIOUS
<1>4. /\ f = [sub |-> f.sub, text |-> f.text, preview |-> f.preview, result |-> f.result,
              busy |-> f.busy]
      /\ f.busy = FALSE
  BY <1>3 DEF Pool!Fresh
<1> QED BY <1>2, <1>3, <1>4 DEF IngestKept

(* What the panel shows changes; what it waits for does not.                *)
LEMMA PanelChanges ==
  ASSUME NEW p, IngestKept(ingests, p), NEW s, NEW t, NEW v, NEW r,
         NEW q, q = [sub |-> s, text |-> t, preview |-> v, result |-> r, busy |-> p.busy]
  PROVE  IngestKept(ingests, q)
<1>1. /\ q = [sub |-> q.sub, text |-> q.text, preview |-> q.preview, result |-> q.result,
              busy |-> q.busy]
      /\ q.busy = p.busy
  OBVIOUS
<1> QED BY <1>1 DEF IngestKept

(* The panel asks.                                                          *)
LEMMA PanelAsks ==
  ASSUME NEW op, NEW what, IngestKept(ingests, panel), ~panel.busy, Pool!Asks(op, what)
  PROVE  IngestKept(ingests', panel')
<1>1. PICK x : x = [op |-> op, what |-> what, load |-> Pool!LoadNow, stored |-> FALSE, live |-> TRUE]
  OBVIOUS
<1>2. /\ x = [op |-> x.op, what |-> x.what, load |-> x.load, stored |-> x.stored, live |-> x.live]
      /\ x.live = TRUE
  BY <1>1
<1>3. ingests' = ingests \cup {x}
  BY <1>1 DEF Pool!Asks
<1>4. PICK s, t, v, r, b : panel = [sub |-> s, text |-> t, preview |-> v, result |-> r, busy |-> b]
  BY DEF IngestKept
<1>5. PICK z : z = (IF op = "commit" THEN panel.result ELSE None)
  OBVIOUS
<1>6. panel' = [panel EXCEPT !.busy = TRUE, !.result = z]
  BY <1>5 DEF Pool!Asks
<1>7. panel' = [sub |-> s, text |-> t, preview |-> v, result |-> z, busy |-> TRUE]
  BY <1>4, <1>6
<1>8. /\ panel' = [sub |-> panel'.sub, text |-> panel'.text, preview |-> panel'.preview,
                   result |-> panel'.result, busy |-> panel'.busy]
      /\ panel'.busy = TRUE
  BY <1>7
<1>9. \A c \in ingests : ~c.live
  BY DEF IngestKept
<1> QED BY <1>2, <1>3, <1>8, <1>9 DEF IngestKept

(* A request of the panel is stored.                                        *)
LEMMA PoolStores ==
  ASSUME IngestKept(ingests, panel), NEW c \in ingests, Pool!Stored(c)
  PROVE  IngestKept(ingests', panel')
<1>1. /\ ingests' = (ingests \ {c}) \cup {[c EXCEPT !.stored = TRUE]} /\ panel' = panel
  BY DEF Pool!Stored
<1>2. c = [op |-> c.op, what |-> c.what, load |-> c.load, stored |-> c.stored, live |-> c.live]
  BY DEF IngestKept
<1>3. PICK o, w, l, s, v : c = [op |-> o, what |-> w, load |-> l, stored |-> s, live |-> v]
  BY <1>2
<1>4. PICK x : x = [c EXCEPT !.stored = TRUE]
  OBVIOUS
<1>5. /\ x = [op |-> x.op, what |-> x.what, load |-> x.load, stored |-> x.stored, live |-> x.live]
      /\ x.live = c.live
  BY <1>3, <1>4
<1>6. ingests' = (ingests \ {c}) \cup {x}
  BY <1>1, <1>4
<1> QED BY <1>1, <1>5, <1>6 DEF IngestKept

(* Only the panel that asked takes an answer.                               *)
LEMMA PanelTakes ==
  ASSUME IngestKept(ingests, panel), NEW c \in ingests, NEW ok, Pool!PanelAnswered(c, ok)
  PROVE  IngestKept(ingests', panel')
<1>1. ingests' = ingests \ {c}
  BY DEF Pool!PanelAnswered
<1>2. CASE ~c.live
  <2>1. panel' = panel
    BY <1>2 DEF Pool!PanelAnswered
  <2> QED BY <1>1, <1>2, <2>1 DEF IngestKept
<1>3. CASE c.live
  <2>1. PICK z : panel' = [panel EXCEPT !.busy = FALSE, !.preview = z]
    BY <1>3 DEF Pool!PanelAnswered
  <2>2. PICK s, t, v, r, b : panel = [sub |-> s, text |-> t, preview |-> v, result |-> r, busy |-> b]
    BY DEF IngestKept
  <2>3. panel' = [sub |-> s, text |-> t, preview |-> z, result |-> r, busy |-> FALSE]
    BY <2>1, <2>2
  <2>4. /\ panel' = [sub |-> panel'.sub, text |-> panel'.text, preview |-> panel'.preview,
                     result |-> panel'.result, busy |-> panel'.busy]
        /\ panel'.busy = FALSE
    BY <2>3
  <2>5. \A d \in ingests \ {c} : ~d.live
    BY <1>3 DEF IngestKept
  <2> QED BY <1>1, <2>4, <2>5 DEF IngestKept
<1> QED BY <1>2, <1>3

LEMMA PoolStep == PoolInv /\ [Pool!Next]_(Pool!vars) => PoolInv'
<1> SUFFICES ASSUME PoolInv, [Pool!Next]_(Pool!vars) PROVE PoolInv'
  OBVIOUS
<1>t. DetailsKept(details, detail, sel) /\ IngestKept(ingests, panel)
  BY DEF PoolInv
<1>1. ASSUME UNCHANGED <<sel, details, detail, panel, ingests>>
      PROVE  PoolInv'
  BY <1>t, <1>1 DEF PoolInv
<1>2. ASSUME NEW f \in Pool!Filters, Pool!SetFilter(f)
      PROVE  PoolInv'
  BY <1>1, <1>2 DEF Pool!SetFilter, Pool!shown
<1>3. ASSUME NEW q \in Pool!Opt(Words), Pool!TypeQuery(q)
      PROVE  PoolInv'
  BY <1>1, <1>3 DEF Pool!TypeQuery, Pool!shown
<1>4. ASSUME NEW s \in Samples, Pool!ClickRow(s)
      PROVE  PoolInv'
  <2>1. Pool!Select(s) /\ UNCHANGED <<detail, panel, ingests>>
    BY <1>4 DEF Pool!ClickRow
  <2> QED BY <1>t, <2>1, PoolSelects DEF PoolInv
<1>5. ASSUME NEW d \in details, NEW ok \in BOOLEAN, Pool!DetailArrives(d, ok)
      PROVE  PoolInv'
  <2>1. /\ details' = details \ {d} /\ UNCHANGED <<sel, panel, ingests>>
        /\ detail' = IF ~d.live THEN detail ELSE IF ok THEN d.of ELSE None
    BY <1>5 DEF Pool!DetailArrives
  <2>2. DetailsKept(details', detail', sel)
    BY <1>t, <2>1 DEF DetailsKept
  <2> QED BY <1>t, <2>1, <2>2 DEF PoolInv
<1>6. CASE Pool!Search \/ Pool!PromoteSelected \/ Pool!PromoteService \/ Pool!PromoteEnds
  BY <1>1, <1>6 DEF Pool!Search, Pool!PromoteSelected, Pool!PromoteService, Pool!PromoteEnds,
                    Pool!shown
<1>7. ASSUME NEW t \in {"samples", "ingest"}, Pool!SetTab(t)
      PROVE  PoolInv'
  <2>1. /\ panel' = Pool!Fresh /\ ingests' = Pool!Unwanted(ingests)
        /\ UNCHANGED <<sel, details, detail>>
    BY <1>7 DEF Pool!SetTab, Pool!shown
  <2> QED BY <1>t, <2>1, PoolLeaves DEF PoolInv
<1>8. ASSUME NEW s, NEW t, NEW v,
             panel' = [panel EXCEPT !.sub = s, !.text = t, !.preview = v] \/
             \E r : panel' = [panel EXCEPT !.sub = s, !.preview = v, !.result = r],
             UNCHANGED <<sel, details, detail, ingests>>
      PROVE  PoolInv'
  <2>1. PICK a, b, c, d, e : panel = [sub |-> a, text |-> b, preview |-> c, result |-> d, busy |-> e]
    BY <1>t DEF IngestKept
  <2>2. \E s2, t2, v2, r2 :
          panel' = [sub |-> s2, text |-> t2, preview |-> v2, result |-> r2, busy |-> panel.busy]
    BY <1>8, <2>1
  <2>3. IngestKept(ingests, panel')
    BY <1>t, <2>2, PanelChanges
  <2> QED BY <1>t, <1>8, <2>3 DEF PoolInv
<1>9. ASSUME NEW s \in {"paste", "bulk"}, Pool!SetSub(s)
      PROVE  PoolInv'
  BY <1>8, <1>9 DEF Pool!SetSub, Pool!shown
<1>10. ASSUME NEW x \in Texts, Pool!TypeText(x)
       PROVE  PoolInv'
  <2>1. panel' = [panel EXCEPT !.text = x] /\ UNCHANGED <<sel, details, detail, ingests>>
    BY <1>10 DEF Pool!TypeText, Pool!shown
  <2>2. PICK a, b, c, d, e : panel = [sub |-> a, text |-> b, preview |-> c, result |-> d, busy |-> e]
    BY <1>t DEF IngestKept
  <2>3. panel' = [sub |-> a, text |-> x, preview |-> c, result |-> d, busy |-> panel.busy]
    BY <2>1, <2>2
  <2>4. IngestKept(ingests, panel')
    BY <1>t, <2>3, PanelChanges
  <2> QED BY <1>t, <2>1, <2>4 DEF PoolInv
<1>11. ASSUME NEW x \in Texts, Pool!Bulk(x)
       PROVE  PoolInv'
  <2>1. ~panel.busy /\ Pool!Asks("bulk", BulkOf[x]) /\ UNCHANGED <<sel, details, detail>>
    BY <1>11 DEF Pool!Bulk, Pool!Asks, Pool!shown
  <2> QED BY <1>t, <2>1, PanelAsks DEF PoolInv
<1>12. CASE Pool!Parse
  <2>1. ~panel.busy /\ Pool!Asks("parse", PasteOf[panel.text]) /\ UNCHANGED <<sel, details, detail>>
    BY <1>12 DEF Pool!Parse, Pool!Asks, Pool!shown
  <2> QED BY <1>t, <2>1, PanelAsks DEF PoolInv
<1>13. CASE Pool!Commit
  <2>1. ~panel.busy /\ Pool!Asks("commit", panel.preview) /\ UNCHANGED <<sel, details, detail>>
    BY <1>13 DEF Pool!Commit, Pool!Asks, Pool!shown
  <2> QED BY <1>t, <2>1, PanelAsks DEF PoolInv
<1>14. ASSUME NEW i \in DOMAIN loads, Pool!LoadAnswered(i)
       PROVE  PoolInv'
  <2>1. /\ UNCHANGED <<detail, panel, ingests>>
        /\ (\E s : Pool!Select(s)) \/ UNCHANGED <<sel, details>>
    BY <1>14 DEF Pool!LoadAnswered
  <2> QED BY <1>t, <2>1, PoolSelects DEF PoolInv
<1>15. ASSUME NEW i \in DOMAIN loads, Pool!LoadFails(i)
       PROVE  PoolInv'
  BY <1>1, <1>15 DEF Pool!LoadFails, Pool!shown
<1>16. ASSUME NEW c \in ingests, Pool!Stored(c)
       PROVE  PoolInv'
  <2>1. UNCHANGED <<sel, details, detail>>
    BY <1>16 DEF Pool!Stored, Pool!shown
  <2> QED BY <1>t, <1>16, <2>1, PoolStores DEF PoolInv
<1>17. ASSUME NEW c \in ingests, Pool!StoreAnswered(c)
       PROVE  PoolInv'
  <2>1. /\ panel' = Pool!Fresh /\ ingests' = Pool!Unwanted(ingests \ {c})
        /\ UNCHANGED <<sel, details, detail>>
    BY <1>17 DEF Pool!StoreAnswered, Pool!Committed, Pool!shown
  <2>2. ingests' \subseteq Pool!Unwanted(ingests)
    BY <2>1 DEF Pool!Unwanted
  <2>3. IngestKept(ingests', Pool!Fresh)
    BY <1>t, <2>2, PoolLeaves
  <2> QED BY <1>t, <2>1, <2>3 DEF PoolInv
<1>18. ASSUME NEW c \in ingests, NEW ok \in BOOLEAN, Pool!PanelAnswered(c, ok)
       PROVE  PoolInv'
  <2>1. UNCHANGED <<sel, details, detail>>
    BY <1>18 DEF Pool!PanelAnswered, Pool!shown
  <2> QED BY <1>t, <1>18, <2>1, PanelTakes DEF PoolInv
<1>19. CASE UNCHANGED Pool!vars
  BY <1>1, <1>19 DEF Pool!vars
<1> QED BY <1>2, <1>3, <1>4, <1>5, <1>6, <1>7, <1>9, <1>10, <1>11, <1>12, <1>13, <1>14, <1>15,
           <1>16, <1>17, <1>18, <1>19 DEF Pool!Next, Pool!Answers, Pool!IngestSteps

(* PoolInv holds throughout.                                                *)
THEOREM PoolPageCorrect == Pool!Spec => []PoolInv
<1>1. Pool!Init => PoolInv
  BY PoolInit
<1> QED BY <1>1, PoolStep, PTL DEF Pool!Spec

(* Once the details are answered, they are those of the sample that is
   selected in the list of the pool, however often the selection changed.   *)
THEOREM DetailCorrect == Pool!Spec => []Pool!DetailOfSelection
<1>1. PoolInv => Pool!DetailOfSelection
  BY DEF PoolInv, DetailsKept, Pool!DetailOfSelection
<1> QED BY <1>1, PoolPageCorrect, PTL

(* The panel that takes logs in has one request under way at most, and is
   busy exactly while it has one, also after its tab was left.              *)
THEOREM OneIngestCorrect == Pool!Spec => []Pool!OneIngest
<1>1. ASSUME PoolInv PROVE Pool!OneIngest
  <2> DEFINE awaited == {c \in ingests : c.live}
  <2>1. awaited = {} \/ \E c \in awaited : awaited = {c}
    BY <1>1 DEF PoolInv, IngestKept
  <2>2. Cardinality(awaited) <= 1
    <3>1. CASE awaited = {}
      BY <3>1, FS_EmptySet
    <3>2. ASSUME NEW c \in awaited, awaited = {c} PROVE Cardinality(awaited) <= 1
      BY <3>2, FS_Singleton
    <3> QED BY <2>1, <3>1, <3>2
  <2>3. panel.busy <=> \E c \in ingests : c.live
    BY <1>1 DEF PoolInv, IngestKept
  <2>4. Pool!Cardinality(awaited) = Cardinality(awaited)
    BY Zenon DEF Pool!Cardinality, Cardinality
  <2> QED BY <2>2, <2>3, <2>4, Zenon DEF Pool!OneIngest
<1> QED BY <1>1, PoolPageCorrect, PTL

-----------------------------------------------------------------------------
CONSTANTS Shared, Builtin, Name, Parts, Full, Middle, Literal, Var, Here, Users, MaxSource
VARIABLES store, maker, asks, decl, drop, steps

Vars == INSTANCE VarDeclare

-----------------------------------------------------------------------------
(* The dialog that declares variables. *)

(* A choice is something.                                                   *)
VarsSetting == \A m, p, c, a : [mode |-> m, part |-> p, cat |-> c, ai |-> a] # None

IsSel(s) == s = [mode |-> s.mode, part |-> s.part, cat |-> s.cat, ai |-> s.ai]
IsDialog(d) ==
  /\ d = [open |-> d.open, sel |-> d.sel, preview |-> d.preview, busy |-> d.busy,
          req |-> d.req, saving |-> d.saving, deleting |-> d.deleting]
  /\ d.sel = None \/ IsSel(d.sel)
IsPanel(p) == p = [id |-> p.id, mode |-> p.mode, part |-> p.part, cat |-> p.cat, ai |-> p.ai,
                   loading |-> p.loading]

(* What the dialog was told is what the panel shows; it was told nothing    *)
(* before the first choice.                                                 *)
Told(s, p) ==
  IF s = None THEN p.mode = Literal /\ p.ai = 0
  ELSE s.mode = p.mode /\ s.part = p.part /\ s.ai = (p.ai # 0)

VarsInv == IsDialog(dialog) /\ IsPanel(panel) /\ (dialog.open => Told(dialog.sel, panel))

(* A dialog of these parts.                                                 *)
LEMMA DialogOf ==
  ASSUME NEW o, NEW s, s = None \/ IsSel(s), NEW v, NEW b, NEW r, NEW sv, NEW x,
         NEW e, e = [open |-> o, sel |-> s, preview |-> v, busy |-> b, req |-> r, saving |-> sv,
                     deleting |-> x]
  PROVE  IsDialog(e) /\ e.open = o /\ e.sel = s
BY DEF IsDialog

LEMMA PanelOf ==
  ASSUME NEW i, NEW m, NEW p, NEW c, NEW a, NEW l,
         NEW e, e = [id |-> i, mode |-> m, part |-> p, cat |-> c, ai |-> a, loading |-> l]
  PROVE  IsPanel(e) /\ e.mode = m /\ e.part = p /\ e.ai = a
BY DEF IsPanel

(* What a preview changes of a dialog.                                      *)
LEMMA DialogLoads ==
  ASSUME NEW d, IsDialog(d), NEW g
  PROVE  LET e == Vars!Loading(d, g) IN IsDialog(e) /\ e.open = d.open /\ e.sel = d.sel
<1>1. PICK o, s, v, b, r, sv, x :
        d = [open |-> o, sel |-> s, preview |-> v, busy |-> b, req |-> r, saving |-> sv,
             deleting |-> x]
  BY DEF IsDialog
<1>2. d.open = o /\ d.sel = s /\ (s = None \/ IsSel(s))
  BY <1>1 DEF IsDialog
<1>3. PICK e : e = Vars!Loading(d, g)
  OBVIOUS
<1>4. PICK r2, v2, b2 : e = [d EXCEPT !.req = r2, !.preview = v2, !.busy = b2]
  BY <1>3 DEF Vars!Loading
<1>5. e = [open |-> o, sel |-> s, preview |-> v2, busy |-> b2, req |-> r2, saving |-> sv,
           deleting |-> x]
  BY <1>1, <1>4
<1>6. IsDialog(e) /\ e.open = o /\ e.sel = s
  BY <1>2, <1>5, DialogOf
<1> QED BY <1>2, <1>3, <1>6

LEMMA EffectKeeps ==
  ASSUME NEW d, IsDialog(d), NEW fresh, NEW others, Vars!Effect(d, fresh, others)
  PROVE  IsDialog(dialog') /\ dialog'.open = d.open /\ dialog'.sel = d.sel
<1>1. CASE dialog' = d
  BY <1>1
<1>2. CASE dialog' = [d EXCEPT !.preview = None]
  <2>1. PICK o, s, v, b, r, sv, x :
          d = [open |-> o, sel |-> s, preview |-> v, busy |-> b, req |-> r, saving |-> sv,
               deleting |-> x]
    BY DEF IsDialog
  <2>2. d.open = o /\ d.sel = s /\ (s = None \/ IsSel(s))
    BY <2>1 DEF IsDialog
  <2>3. dialog' = [open |-> o, sel |-> s, preview |-> None, busy |-> b, req |-> r, saving |-> sv,
                   deleting |-> x]
    BY <1>2, <2>1
  <2>4. IsDialog(dialog') /\ dialog'.open = o /\ dialog'.sel = s
    BY <2>2, <2>3, DialogOf
  <2> QED BY <2>2, <2>4
<1>3. CASE dialog' = Vars!Loading(d, Vars!Gen(d))
  BY <1>3, DialogLoads
<1> QED BY <1>1, <1>2, <1>3 DEF Vars!Effect

(* The panel changes and hands over what changed.                           *)
LEMMA EmitsKeeps ==
  ASSUME VarsSetting, VarsInv, NEW d, IsDialog(d), d.sel = dialog.sel, d.open = dialog.open,
         NEW p, IsPanel(p), NEW fresh, NEW others, Vars!Emits(p, d, fresh, others)
  PROVE  VarsInv'
<1>1. CASE panel' = p /\ Vars!Effect([d EXCEPT !.sel = Vars!Selection(p)], fresh, others)
  <2>1. PICK o, s, v, b, r, sv, x :
          d = [open |-> o, sel |-> s, preview |-> v, busy |-> b, req |-> r, saving |-> sv,
               deleting |-> x]
    BY DEF IsDialog
  <2>2. PICK t : t = Vars!Selection(p)
    OBVIOUS
  <2>3. IsSel(t) /\ t # None /\ t.mode = p.mode /\ t.part = p.part /\ t.ai = (p.ai # 0)
    BY <2>2 DEF Vars!Selection, IsSel, VarsSetting
  <2>4. PICK e : e = [d EXCEPT !.sel = t]
    OBVIOUS
  <2>5. e = [open |-> o, sel |-> t, preview |-> v, busy |-> b, req |-> r, saving |-> sv,
             deleting |-> x]
    BY <2>1, <2>4
  <2>6. IsDialog(e) /\ e.sel = t
    BY <2>3, <2>5, DialogOf
  <2>7. Vars!Effect(e, fresh, others)
    BY <1>1, <2>2, <2>4
  <2>8. IsDialog(dialog') /\ dialog'.sel = t
    BY <2>6, <2>7, EffectKeeps
  <2> QED BY <1>1, <2>3, <2>8 DEF VarsInv, Told
<1>2. CASE /\ panel' = p /\ Vars!Effect(d, fresh, others)
           /\ p.mode = panel.mode /\ p.part = panel.part /\ p.ai = panel.ai
  <2>1. IsDialog(dialog') /\ dialog'.open = dialog.open /\ dialog'.sel = dialog.sel
    BY <1>2, EffectKeeps
  <2> QED BY <1>2, <2>1 DEF VarsInv, Told
<1>3. \/ panel' = p /\ Vars!Effect([d EXCEPT !.sel = Vars!Selection(p)], fresh, others)
      \/ /\ panel' = p /\ Vars!Effect(d, fresh, others)
         /\ p.mode = panel.mode /\ p.part = panel.part /\ p.ai = panel.ai
  <2>1. CASE \/ fresh \/ p.mode # panel.mode \/ p.part # panel.part
             \/ p.cat # panel.cat \/ p.ai # panel.ai
    BY <2>1 DEF Vars!Emits
  <2>2. CASE ~(\/ fresh \/ p.mode # panel.mode \/ p.part # panel.part
               \/ p.cat # panel.cat \/ p.ai # panel.ai)
    BY <2>2 DEF Vars!Emits
  <2> QED BY <2>1, <2>2
<1> QED BY <1>1, <1>2, <1>3

(* The dialog changes beside the choice, and the panel beside what it shows. *)
LEMMA VarsKeep ==
  ASSUME VarsInv, IsDialog(dialog'), dialog'.open = dialog.open, dialog'.sel = dialog.sel,
         IsPanel(panel'), panel'.mode = panel.mode, panel'.part = panel.part, panel'.ai = panel.ai
  PROVE  VarsInv'
BY DEF VarsInv, Told

(* The dialog with other fields than those of the choice.                   *)
LEMMA DialogChanges ==
  ASSUME NEW d, IsDialog(d), NEW v, NEW sv, NEW x,
         NEW e, \/ e = [d EXCEPT !.saving = sv] \/ e = [d EXCEPT !.deleting = x]
                \/ e = [d EXCEPT !.preview = v]
  PROVE  IsDialog(e) /\ e.open = d.open /\ e.sel = d.sel
<1>1. PICK o, s, v0, b0, r0, sv0, x0 :
        d = [open |-> o, sel |-> s, preview |-> v0, busy |-> b0, req |-> r0, saving |-> sv0,
             deleting |-> x0]
  BY DEF IsDialog
<1>2. d.open = o /\ d.sel = s /\ (s = None \/ IsSel(s))
  BY <1>1 DEF IsDialog
<1>3. \E v1, b1, r1, sv1, x1 :
        e = [open |-> o, sel |-> s, preview |-> v1, busy |-> b1, req |-> r1, saving |-> sv1,
             deleting |-> x1]
  BY <1>1
<1>4. IsDialog(e) /\ e.open = o /\ e.sel = s
  BY <1>2, <1>3, DialogOf
<1> QED BY <1>2, <1>4

(* The list of the dialog changes within its choice.                        *)
Relisted(d, e) ==
  \E c, v, b, r, sv, x :
    e = [open |-> d.open,
         sel |-> [mode |-> d.sel.mode, part |-> d.sel.part, cat |-> c, ai |-> d.sel.ai],
         preview |-> v, busy |-> b, req |-> r, saving |-> sv, deleting |-> x]

LEMMA ListChanges ==
  ASSUME VarsSetting, NEW d, d.sel # None, NEW e, Relisted(d, e)
  PROVE  /\ IsDialog(e) /\ e.open = d.open
         /\ \A p : Told(d.sel, p) => Told(e.sel, p)
<1>1. PICK c, v, b, r, sv, x :
        e = [open |-> d.open,
             sel |-> [mode |-> d.sel.mode, part |-> d.sel.part, cat |-> c, ai |-> d.sel.ai],
             preview |-> v, busy |-> b, req |-> r, saving |-> sv, deleting |-> x]
  BY DEF Relisted
<1>2. PICK t : t = [mode |-> d.sel.mode, part |-> d.sel.part, cat |-> c, ai |-> d.sel.ai]
  OBVIOUS
<1>3. /\ IsSel(t) /\ t # None
      /\ t.mode = d.sel.mode /\ t.part = d.sel.part /\ t.ai = d.sel.ai
  BY <1>2 DEF IsSel, VarsSetting
<1>4. IsDialog(e) /\ e.open = d.open /\ e.sel = t
  BY <1>1, <1>2, <1>3 DEF IsDialog
<1> QED BY <1>3, <1>4, Zenon DEF Told

(* The panel with other fields than those of the choice.                    *)
LEMMA PanelLoads ==
  ASSUME IsPanel(panel), NEW l, NEW q, q = [panel EXCEPT !.loading = l]
  PROVE  IsPanel(q) /\ q.mode = panel.mode /\ q.part = panel.part /\ q.ai = panel.ai
<1>1. PICK i, m, p, c, a, k :
        panel = [id |-> i, mode |-> m, part |-> p, cat |-> c, ai |-> a, loading |-> k]
  BY DEF IsPanel
<1>2. q = [id |-> i, mode |-> m, part |-> p, cat |-> c, ai |-> a, loading |-> l]
  BY <1>1
<1>3. IsPanel(q) /\ q.mode = m /\ q.part = p /\ q.ai = a
  BY <1>2 DEF IsPanel
<1>4. panel.mode = m /\ panel.part = p /\ panel.ai = a
  BY <1>1
<1> QED BY <1>3, <1>4, Zenon

LEMMA PanelChoice ==
  ASSUME NEW q, IsPanel(q), NEW m2, NEW p2, NEW a2, NEW c2, NEW l2,
         NEW z, \/ z = [q EXCEPT !.mode = m2, !.ai = a2, !.part = p2]
                \/ z = [q EXCEPT !.part = p2] \/ z = [q EXCEPT !.ai = a2]
                \/ z = [q EXCEPT !.cat = c2, !.loading = l2]
                \/ z = [q EXCEPT !.mode = m2, !.part = p2, !.ai = a2, !.loading = l2]
  PROVE  IsPanel(z)
<1>1. PICK i, m, p, c, a, k :
        q = [id |-> i, mode |-> m, part |-> p, cat |-> c, ai |-> a, loading |-> k]
  BY DEF IsPanel
<1>2. \E m3, p3, c3, a3, l3 :
        z = [id |-> i, mode |-> m3, part |-> p3, cat |-> c3, ai |-> a3, loading |-> l3]
  BY <1>1
<1> QED BY <1>2, PanelOf

(* selectMode gives a panel.                                                *)
LEMMA ChosenIsPanel == ASSUME NEW q, IsPanel(q), NEW m PROVE IsPanel(Vars!Chosen(q, m))
<1>1. PICK z : z = Vars!Chosen(q, m)
  OBVIOUS
<1>2. PICK p2 : z = [q EXCEPT !.mode = m, !.ai = 0, !.part = p2]
  BY <1>1 DEF Vars!Chosen
<1>3. IsPanel(z)
  BY <1>2, PanelChoice
<1> QED BY <1>1, <1>3

LEMMA VarsInit == ASSUME Vars!Init PROVE VarsInv
<1>1. IsPanel(panel) /\ panel.mode = Literal /\ panel.ai = 0
  BY DEF Vars!Init, Vars!Closed, IsPanel
<1>2. IsDialog(dialog) /\ dialog.open = FALSE
  BY DialogOf DEF Vars!Init
<1> QED BY <1>1, <1>2 DEF VarsInv

(* Opening and closing.                                                     *)
LEMMA VarsOpen == ASSUME VarsInv, Vars!Open PROVE VarsInv'
<1>1. PICK o, s, v, b, r, sv, x :
        dialog = [open |-> o, sel |-> s, preview |-> v, busy |-> b, req |-> r, saving |-> sv,
                  deleting |-> x]
  BY DEF VarsInv, IsDialog
<1>2. PICK r2 : dialog' = [dialog EXCEPT !.open = TRUE, !.sel = None, !.preview = None, !.req = r2]
  BY DEF Vars!Open
<1>3. dialog' = [open |-> TRUE, sel |-> None, preview |-> None, busy |-> b, req |-> r2,
                 saving |-> sv, deleting |-> x]
  BY <1>1, <1>2
<1>4. IsDialog(dialog') /\ dialog'.sel = None
  BY <1>3, DialogOf
<1>5. PICK i : panel' = [Vars!Closed EXCEPT !.id = i, !.loading = TRUE]
  BY DEF Vars!Open
<1>6. PICK c : c = Vars!NoShared
  OBVIOUS
<1>7. panel' = [id |-> i, mode |-> Literal, part |-> Full, cat |-> c, ai |-> 0, loading |-> TRUE]
  BY <1>5, <1>6 DEF Vars!Closed
<1>8. IsPanel(panel') /\ panel'.mode = Literal /\ panel'.ai = 0
  BY <1>7, PanelOf
<1> QED BY <1>4, <1>8 DEF VarsInv, Told

LEMMA VarsClose == ASSUME VarsInv, Vars!Close PROVE VarsInv'
<1>1. PICK o, s, v, b, r, sv, x :
        dialog = [open |-> o, sel |-> s, preview |-> v, busy |-> b, req |-> r, saving |-> sv,
                  deleting |-> x]
  BY DEF VarsInv, IsDialog
<1>2. s = None \/ IsSel(s)
  BY <1>1 DEF VarsInv, IsDialog
<1>3. dialog' = [open |-> FALSE, sel |-> s, preview |-> v, busy |-> b, req |-> r,
                 saving |-> sv, deleting |-> x]
  BY <1>1 DEF Vars!Close
<1>4. IsDialog(dialog') /\ dialog'.open = FALSE
  BY <1>2, <1>3, DialogOf
<1>5. IsPanel(panel')
  BY DEF Vars!Close, Vars!Closed, IsPanel
<1> QED BY <1>4, <1>5 DEF VarsInv

(* The panel keeps its choice and the dialog its own.                       *)
LEMMA VarsSame == ASSUME VarsInv, UNCHANGED <<panel, dialog>> PROVE VarsInv'
BY DEF VarsInv

LEMMA VarsDialog ==
  ASSUME VarsInv, panel' = panel, IsDialog(dialog'), dialog'.open = dialog.open,
         dialog'.sel = dialog.sel
  PROVE  VarsInv'
BY DEF VarsInv

LEMMA VarsEmit ==
  ASSUME VarsSetting, VarsInv, NEW p, IsPanel(p), NEW fresh, NEW others,
         Vars!Emits(p, dialog, fresh, others)
  PROVE  VarsInv'
BY EmitsKeeps DEF VarsInv

(* The list of the panel is reset.                                          *)
LEMMA VarsReset ==
  ASSUME VarsSetting, VarsInv, NEW d, IsDialog(d), d.sel = dialog.sel, d.open = dialog.open,
         NEW others, Vars!Reset(d, others)
  PROVE  VarsInv'
<1>1. PICK z, as : /\ z = [panel EXCEPT !.mode = Literal, !.part = Full, !.ai = 0, !.loading = TRUE]
                   /\ Vars!Emits(z, d, FALSE, as)
  BY DEF Vars!Reset
<1>2. IsPanel(panel)
  BY DEF VarsInv
<1>3. IsPanel(z)
  BY <1>1, <1>2, PanelChoice
<1> QED BY <1>1, <1>3, EmitsKeeps

(* What the user does.                                                      *)
LEMMA VarsUser == ASSUME VarsSetting, VarsInv, Vars!User PROVE VarsInv'
<1>t. IsDialog(dialog) /\ IsPanel(panel)
  BY DEF VarsInv
<1>1. ASSUME NEW m, Vars!Pick(m) PROVE VarsInv'
  <2>1. Vars!Emits(Vars!Chosen(panel, m), dialog, FALSE, asks)
    BY <1>1 DEF Vars!Pick
  <2>2. IsPanel(Vars!Chosen(panel, m))
    BY <1>t, ChosenIsPanel
  <2> QED BY <2>1, <2>2, VarsEmit
<1>2. ASSUME NEW x, Vars!PickPart(x) PROVE VarsInv'
  <2>1. PICK z : z = [panel EXCEPT !.part = x] /\ Vars!Emits(z, dialog, FALSE, asks)
    BY <1>2 DEF Vars!PickPart
  <2>2. IsPanel(z)
    BY <1>t, <2>1, PanelChoice
  <2> QED BY <2>1, <2>2, VarsEmit
<1>3. CASE Vars!ToggleAi
  <2>1. PICK z, a : z = [panel EXCEPT !.ai = a] /\ Vars!Emits(z, dialog, FALSE, asks)
    BY <1>3 DEF Vars!ToggleAi
  <2>2. IsPanel(z)
    BY <1>t, <2>1, PanelChoice
  <2> QED BY <2>1, <2>2, VarsEmit
<1>4. CASE Vars!Refresh
  <2>1. dialog' = Vars!Loading(dialog, Vars!Gen(dialog)) /\ panel' = panel
    BY <1>4 DEF Vars!Refresh
  <2> QED BY <1>t, <2>1, DialogLoads, VarsDialog
<1>5. ASSUME NEW x, Vars!EditSource(x) PROVE VarsInv'
  <2>1. PICK g : g = Vars!Gen(dialog).g
    OBVIOUS
  <2>2. dialog.sel # None /\ panel' = panel
    BY <1>5 DEF Vars!EditSource, Vars!OwnShared, Vars!Gen
  <2>3. PICK e, as : e = [dialog EXCEPT !.sel.cat[g] = x] /\ Vars!Effect(e, FALSE, as)
    BY <1>5, <2>1 DEF Vars!EditSource
  <2>4. Relisted(dialog, e)
    <3>1. PICK c : c = [dialog.sel.cat EXCEPT ![g] = x]
      OBVIOUS
    <3>2. PICK o, t, v, b, r, sv, y :
            dialog = [open |-> o, sel |-> t, preview |-> v, busy |-> b, req |-> r, saving |-> sv,
                      deleting |-> y]
      BY <1>t DEF IsDialog
    <3>3. PICK m, p, k, a : t = [mode |-> m, part |-> p, cat |-> k, ai |-> a]
      BY <1>t, <2>2, <3>2 DEF IsDialog, IsSel
    <3>4. e = [open |-> o, sel |-> [mode |-> m, part |-> p, cat |-> c, ai |-> a], preview |-> v,
               busy |-> b, req |-> r, saving |-> sv, deleting |-> y]
      BY <2>3, <3>1, <3>2, <3>3
    <3>5. dialog.open = o /\ dialog.sel.mode = m /\ dialog.sel.part = p /\ dialog.sel.ai = a
      BY <3>2, <3>3
    <3> QED BY <3>4, <3>5 DEF Relisted
  <2>5. /\ IsDialog(e) /\ e.open = dialog.open
        /\ \A p : Told(dialog.sel, p) => Told(e.sel, p)
    BY <1>t, <2>2, <2>4, ListChanges
  <2>6. IsDialog(dialog') /\ dialog'.open = e.open /\ dialog'.sel = e.sel
    BY <2>3, <2>5, EffectKeeps
  <2> QED BY <2>2, <2>5, <2>6 DEF VarsInv
<1>6. CASE Vars!SaveSource
  <2>1. dialog' = [dialog EXCEPT !.saving = TRUE] /\ panel' = panel
    BY <1>6 DEF Vars!SaveSource
  <2> QED BY <1>t, <2>1, DialogChanges, VarsDialog
<1>7. CASE Vars!Remove
  <2>1. dialog' = [dialog EXCEPT !.deleting = Vars!Gen(dialog).g] /\ panel' = panel
    BY <1>7 DEF Vars!Remove
  <2> QED BY <1>t, <2>1, DialogChanges, VarsDialog
<1>8. ASSUME NEW v, Vars!Submit(v) PROVE VarsInv'
  <2>1. Vars!Reset(dialog, asks)
    BY <1>8 DEF Vars!Submit
  <2> QED BY <1>t, <2>1, VarsReset
<1>9. ASSUME NEW v, Vars!RequestRemove(v) PROVE VarsInv'
  BY <1>9, VarsSame DEF Vars!RequestRemove
<1>10. CASE Vars!Draft \/ Vars!CreateNew \/ Vars!SaveDraft
  <2>1. UNCHANGED <<panel, dialog>>
    BY <1>10 DEF Vars!Draft, Vars!CreateNew, Vars!SaveDraft, Vars!Making
  <2> QED BY <2>1, VarsSame
<1>11. CASE Vars!UseExisting
  <2>1. PICK m : Vars!Emits(Vars!Chosen(panel, m), dialog, FALSE, asks)
    BY <1>11 DEF Vars!UseExisting
  <2>2. IsPanel(Vars!Chosen(panel, m))
    BY <1>t, ChosenIsPanel
  <2> QED BY <2>1, <2>2, VarsEmit
<1>12. CASE Vars!Open
  BY <1>12, VarsOpen
<1>13. CASE Vars!Close
  BY <1>13, VarsClose
<1> QED BY <1>1, <1>2, <1>3, <1>4, <1>5, <1>6, <1>7, <1>8, <1>9, <1>10, <1>11, <1>12, <1>13
     DEF Vars!User

(* The source was saved.                                                    *)
LEMMA VarsSaved == ASSUME VarsSetting, VarsInv, NEW a, Vars!Saved(a) PROVE VarsInv'
<1>t. IsDialog(dialog)
  BY DEF VarsInv
<1>1. PICK keep : keep = (dialog.sel = None \/ Vars!Cat(dialog)[a.g] = None)
  OBVIOUS
<1>2. PICK r2, e, fresh, as :
        /\ e = [dialog EXCEPT !.req = r2, !.busy = TRUE,
                              !.sel = IF keep THEN @ ELSE [@ EXCEPT !.cat[a.g] = a.x]]
        /\ Vars!Effect(e, fresh, as) /\ panel' = panel
  BY <1>1 DEF Vars!Saved
<1>3. CASE keep
  <2>1. PICK o, t, v, b, r, sv, y :
          dialog = [open |-> o, sel |-> t, preview |-> v, busy |-> b, req |-> r, saving |-> sv,
                    deleting |-> y]
    BY <1>t DEF IsDialog
  <2>2. IsDialog(e) /\ e.open = dialog.open /\ e.sel = dialog.sel
    <3>1. e = [open |-> o, sel |-> t, preview |-> v, busy |-> TRUE, req |-> r2, saving |-> sv,
               deleting |-> y]
      BY <1>2, <1>3, <2>1
    <3>2. dialog.open = o /\ dialog.sel = t /\ (t = None \/ IsSel(t))
      BY <1>t, <2>1 DEF IsDialog
    <3>3. IsDialog(e) /\ e.open = o /\ e.sel = t
      BY <3>1, <3>2 DEF IsDialog
    <3> QED BY <3>2, <3>3
  <2>3. IsDialog(dialog') /\ dialog'.open = e.open /\ dialog'.sel = e.sel
    BY <1>2, <2>2, EffectKeeps
  <2> QED BY <1>2, <2>2, <2>3, VarsDialog
<1>4. CASE ~keep
  <2>1. dialog.sel # None
    BY <1>1, <1>4
  <2>2. Relisted(dialog, e)
    <3>1. PICK c : c = [dialog.sel.cat EXCEPT ![a.g] = a.x]
      OBVIOUS
    <3>2. PICK o, t, v, b, r, sv, y :
            dialog = [open |-> o, sel |-> t, preview |-> v, busy |-> b, req |-> r, saving |-> sv,
                      deleting |-> y]
      BY <1>t DEF IsDialog
    <3>3. PICK m, p, k, i : t = [mode |-> m, part |-> p, cat |-> k, ai |-> i]
      BY <1>t, <2>1, <3>2 DEF IsDialog, IsSel
    <3>4. e = [open |-> o, sel |-> [mode |-> m, part |-> p, cat |-> c, ai |-> i], preview |-> v,
               busy |-> TRUE, req |-> r2, saving |-> sv, deleting |-> y]
      BY <1>2, <1>4, <3>1, <3>2, <3>3
    <3>5. dialog.open = o /\ dialog.sel.mode = m /\ dialog.sel.part = p /\ dialog.sel.ai = i
      BY <3>2, <3>3
    <3> QED BY <3>4, <3>5 DEF Relisted
  <2>3. /\ IsDialog(e) /\ e.open = dialog.open
        /\ \A p : Told(dialog.sel, p) => Told(e.sel, p)
    BY <2>1, <2>2, ListChanges
  <2>4. IsDialog(dialog') /\ dialog'.open = e.open /\ dialog'.sel = e.sel
    BY <1>2, <2>3, EffectKeeps
  <2> QED BY <1>2, <2>3, <2>4 DEF VarsInv
<1> QED BY <1>3, <1>4

(* A preview arrives.                                                       *)
LEMMA VarsPreviewed == ASSUME VarsInv, NEW a, NEW ok, Vars!Previewed(a, ok) PROVE VarsInv'
<1>t. IsDialog(dialog)
  BY DEF VarsInv
<1>1. PICK v, d, sv :
        /\ d = (IF a.id # dialog.req THEN dialog ELSE [dialog EXCEPT !.preview = v, !.busy = FALSE])
        /\ dialog' = [d EXCEPT !.saving = sv] /\ panel' = panel
  BY DEF Vars!Previewed
<1>2. IsDialog(d) /\ d.open = dialog.open /\ d.sel = dialog.sel
  <2>1. CASE d = dialog
    BY <1>t, <2>1
  <2>2. CASE d = [dialog EXCEPT !.preview = v, !.busy = FALSE]
    <3>1. PICK o, t, v0, b, r, sv0, y :
            dialog = [open |-> o, sel |-> t, preview |-> v0, busy |-> b, req |-> r,
                      saving |-> sv0, deleting |-> y]
      BY <1>t DEF IsDialog
    <3>2. d = [open |-> o, sel |-> t, preview |-> v, busy |-> FALSE, req |-> r, saving |-> sv0,
               deleting |-> y]
      BY <2>2, <3>1
    <3>3. dialog.open = o /\ dialog.sel = t /\ (t = None \/ IsSel(t))
      BY <1>t, <3>1 DEF IsDialog
    <3>4. IsDialog(d) /\ d.open = o /\ d.sel = t
      BY <3>2, <3>3 DEF IsDialog
    <3> QED BY <3>3, <3>4, Zenon
  <2> QED BY <1>1, <2>1, <2>2
<1>3. IsDialog(dialog') /\ dialog'.open = d.open /\ dialog'.sel = d.sel
  <2>1. dialog' = [d EXCEPT !.saving = sv]
    BY <1>1
  <2> QED BY <1>2, <2>1, DialogChanges, Zenon
<1> QED BY <1>1, <1>2, <1>3, VarsDialog

(* A shared generator was removed.                                          *)
LEMMA VarsRemoved == ASSUME VarsSetting, VarsInv, NEW a, Vars!Removed(a) PROVE VarsInv'
<1>t. IsDialog(dialog)
  BY DEF VarsInv
<1>1. PICK d : d = [dialog EXCEPT !.preview = None, !.deleting = None]
  OBVIOUS
<1>2. IsDialog(d) /\ d.open = dialog.open /\ d.sel = dialog.sel
  <2>1. PICK o, t, v, b, r, sv, y :
          dialog = [open |-> o, sel |-> t, preview |-> v, busy |-> b, req |-> r, saving |-> sv,
                    deleting |-> y]
    BY <1>t DEF IsDialog
  <2>2. d = [open |-> o, sel |-> t, preview |-> None, busy |-> b, req |-> r, saving |-> sv,
             deleting |-> None]
    BY <1>1, <2>1
  <2>3. dialog.open = o /\ dialog.sel = t /\ (t = None \/ IsSel(t))
    BY <1>t, <2>1 DEF IsDialog
  <2>4. IsDialog(d) /\ d.open = o /\ d.sel = t
    BY <2>2, <2>3 DEF IsDialog
  <2> QED BY <2>3, <2>4, Zenon
<1>3. CASE Vars!Reset(d, asks \ {a})
  BY <1>2, <1>3, VarsReset
<1>4. CASE dialog' = d /\ panel' = panel
  BY <1>2, <1>4, VarsDialog
<1>5. Vars!Reset(d, asks \ {a}) \/ (dialog' = d /\ panel' = panel)
  BY <1>1 DEF Vars!Removed
<1> QED BY <1>3, <1>4, <1>5

(* A list arrives.                                                          *)
LEMMA VarsListing ==
  ASSUME VarsSetting, VarsInv, NEW a, NEW ok, Vars!Listing(a, ok) PROVE VarsInv'
<1>t. IsPanel(panel)
  BY DEF VarsInv
<1>1. PICK c, p :
        /\ p = [panel EXCEPT !.cat = c, !.loading = FALSE]
        /\ \/ UNCHANGED <<panel, dialog>>
           \/ Vars!Emits(p, dialog, TRUE, asks \ {a})
           \/ Vars!Emits(Vars!Chosen(p, a.then), dialog, TRUE, asks \ {a})
  <2>1. PICK c : c = (IF ok THEN a.cat ELSE Vars!NoShared)
    OBVIOUS
  <2>2. PICK p : p = [panel EXCEPT !.cat = c, !.loading = FALSE]
    OBVIOUS
  <2>3. CASE panel.id # a.inst
    BY <2>2, <2>3 DEF Vars!Listing
  <2>4. CASE panel.id = a.inst
    <3>1. Vars!Emits(IF a.then = None THEN p ELSE Vars!Chosen(p, a.then), dialog, TRUE, asks \ {a})
      BY <2>1, <2>2, <2>4 DEF Vars!Listing
    <3> QED BY <2>2, <3>1
  <2> QED BY <2>3, <2>4
<1>2. IsPanel(p)
  BY <1>t, <1>1, PanelChoice
<1>3. IsPanel(Vars!Chosen(p, a.then))
  BY <1>2, ChosenIsPanel
<1> QED BY <1>1, <1>2, <1>3, VarsEmit, VarsSame

LEMMA VarsStep == VarsSetting /\ VarsInv /\ [Vars!Next]_(Vars!vars) => VarsInv'
<1> SUFFICES ASSUME VarsSetting, VarsInv, [Vars!Next]_(Vars!vars) PROVE VarsInv'
  OBVIOUS
<1>t. IsDialog(dialog) /\ IsPanel(panel)
  BY DEF VarsInv
<1>1. CASE Vars!User
  BY <1>1, VarsUser
<1>2. ASSUME NEW yes, Vars!ConfirmRemove(yes) PROVE VarsInv'
  BY <1>2, VarsSame DEF Vars!ConfirmRemove
<1>3. ASSUME NEW a \in asks, Vars!Answer(a) PROVE VarsInv'
  <2>1. CASE Vars!Saved(a)
    BY <2>1, VarsSaved
  <2>2. CASE Vars!NotSaved(a)
    <3>1. dialog' = [dialog EXCEPT !.saving = FALSE] /\ panel' = panel
      BY <2>2 DEF Vars!NotSaved
    <3> QED BY <1>t, <3>1, DialogChanges, VarsDialog
  <2>3. CASE Vars!EditPreviewed(a)
    <3>1. dialog' = [dialog EXCEPT !.preview = a.val] /\ panel' = panel
      BY <2>3 DEF Vars!EditPreviewed
    <3> QED BY <1>t, <3>1, DialogChanges, VarsDialog
  <2>4. CASE Vars!Removed(a)
    BY <2>4, VarsRemoved
  <2>5. CASE Vars!NotRemoved(a)
    <3>1. dialog' = [dialog EXCEPT !.deleting = None] /\ panel' = panel
      BY <2>5 DEF Vars!NotRemoved
    <3> QED BY <1>t, <3>1, DialogChanges, VarsDialog
  <2>6. CASE Vars!Created(a)
    <3>1. dialog' = dialog /\ (panel' = panel \/ panel' = [panel EXCEPT !.loading = TRUE])
      BY <2>6 DEF Vars!Created
    <3>2. /\ IsPanel(panel') /\ panel'.mode = panel.mode /\ panel'.part = panel.part
          /\ panel'.ai = panel.ai
      BY <1>t, <3>1, PanelLoads
    <3> QED BY <1>t, <3>1, <3>2, VarsKeep
  <2>7. CASE Vars!NotMade(a)
    BY <2>7, VarsSame DEF Vars!NotMade
  <2>8. ASSUME NEW ok, Vars!Previewed(a, ok) PROVE VarsInv'
    BY <2>8, VarsPreviewed
  <2>9. ASSUME NEW ok, Vars!Listing(a, ok) PROVE VarsInv'
    BY <2>9, VarsListing
  <2>10. ASSUME NEW rec, NEW new, Vars!Drafted(a, rec, new) PROVE VarsInv'
    BY <2>10, VarsSame DEF Vars!Drafted
  <2> QED BY <1>3, <2>1, <2>2, <2>3, <2>4, <2>5, <2>6, <2>7, <2>8, <2>9, <2>10 DEF Vars!Answer
<1>4. CASE UNCHANGED Vars!vars
  BY <1>4, VarsSame DEF Vars!vars
<1> QED BY <1>1, <1>2, <1>3, <1>4 DEF Vars!Next, Vars!Answered

(* VarsInv holds throughout.                                                *)
THEOREM VarsCorrect == ASSUME VarsSetting PROVE Vars!Spec => []VarsInv
<1>1. Vars!Init => VarsInv
  BY VarsInit
<1>2. VarsInv /\ [Vars!Next]_(Vars!vars) => VarsInv'
  BY VarsStep
<1> QED BY <1>1, <1>2, PTL DEF Vars!Spec

(* What was handed over is what the panel shows.                            *)
LEMMA ToldIsChosen == VarsInv => Vars!AddedIsChosen
<1> SUFFICES ASSUME VarsInv, dialog.open
             PROVE  /\ Vars!Gen(dialog) = Vars!Encode(panel.mode, panel.part)
                    /\ Vars!Ai(dialog) = (panel.ai # 0)
  BY DEF Vars!AddedIsChosen
<1>1. Told(dialog.sel, panel) /\ IsDialog(dialog)
  BY DEF VarsInv
<1>2. CASE dialog.sel = None
  BY <1>1, <1>2 DEF Told, Vars!Gen, Vars!Encode, Vars!Ai
<1>3. CASE dialog.sel # None
  <2>1. /\ dialog.sel.mode = panel.mode /\ dialog.sel.part = panel.part
        /\ dialog.sel.ai = (panel.ai # 0)
    BY <1>1, <1>3 DEF Told
  <2>2. Vars!Gen(dialog) = Vars!Encode(panel.mode, panel.part)
    BY <1>3, <2>1 DEF Vars!Gen
  <2>3. Vars!Ai(dialog) = dialog.sel.ai
    BY <1>3, <2>1 DEF Vars!Ai
  <2> QED BY <2>1, <2>2, <2>3
<1> QED BY <1>2, <1>3

(* A variable is added with what the panel shows as chosen, whichever lists,
   previews, saves and removals were answered in between (submit of
   CollectionVarDeclareDialog reads what the panel handed over).            *)
THEOREM DeclaredCorrect == ASSUME VarsSetting PROVE Vars!Spec => []Vars!AddedIsChosen
BY ToldIsChosen, VarsCorrect, PTL
==============================================================================
