------------------------- MODULE DraftImportProofs -------------------------
(* Theorems about DraftImport, for every value of its constants. *)
EXTENDS DraftImport, RuleRowsProofs

(* The inductive invariant for types: confirmed rules are rules. *)
TypeInv == TypeOK /\ rows \in [Service -> Rows]

(* What a request from source that may not overwrite has made sure of: no   *)
(* service it has checked had a draft ever since the request was sent.      *)
Asked(r) ==
  req[r].kind = "source" /\ ~ req[r].overwrite =>
    /\ req[r].pc = "guard" => held[r] \cap (req[r].asked \ req[r].todo) = {}
    /\ req[r].pc = "match" => held[r] \cap req[r].asked = {}
    /\ req[r].pc = "read"  => held[r] \cap req[r].work = {}

AskedInv == \A r \in Request : Asked(r)

-----------------------------------------------------------------------------
(* The operators of DraftImport. *)

(* What is known of a plan. *)
LEMMA PlanFacts ==
  ASSUME NEW kind, NEW d \in Doc, NEW p \in Plans(kind, d)
  PROVE  /\ p.match \subseteq Named(d)
         /\ p.new \cap Named(d) = {}
         /\ p.input \in Input
         /\ p.extra \in Extra \cup {NoExtra}
BY DEF Plans

(* A merged document is a document; the rules that it was merged into are   *)
(* still there, with their optional fields.                                 *)
LEMMA MergedFacts ==
  ASSUME NEW kind, NEW d \in Doc, NEW p \in Plans(kind, d)
  PROVE  /\ Merged(d, p) \in Doc
         /\ \A c \in Named(d) : Merged(d, p)[c] # NoRule /\ Merged(d, p)[c].extra = d[c].extra
<1>1. \A c \in Named(d) : c \in Case /\ d[c] \in Rule
  BY DEF Named, Doc
<1>2. ASSUME NEW c \in Case
      PROVE  /\ Merged(d, p)[c] \in Rule \cup {NoRule}
             /\ c \in Named(d) => Merged(d, p)[c] # NoRule /\ Merged(d, p)[c].extra = d[c].extra
  <2>1. CASE c \in p.match
    <3>1. d[c] \in Rule /\ c \notin p.new
      BY <1>1, <2>1, PlanFacts
    <3>2. Merged(d, p)[c] = [d[c] EXCEPT !.input = p.input]
      BY <2>1, <3>1 DEF Merged
    <3>3. Merged(d, p)[c] \in Rule /\ Merged(d, p)[c].extra = d[c].extra
      BY <3>1, <3>2, PlanFacts DEF Rule
    <3> QED BY <3>3, RuleRowsAssumption
  <2>2. CASE c \notin p.match /\ c \in p.new
    <3>1. Merged(d, p)[c] = [input |-> p.input, extra |-> p.extra]
      BY <2>2 DEF Merged
    <3>2. c \notin Named(d)
      BY <2>2, PlanFacts
    <3> QED BY <3>1, <3>2, PlanFacts DEF Rule
  <2>3. CASE c \notin p.match /\ c \notin p.new
    <3>1. Merged(d, p)[c] = d[c]
      BY <2>3 DEF Merged
    <3> QED BY <3>1 DEF Doc, Named
  <2> QED BY <2>1, <2>2, <2>3
<1>3. Merged(d, p) \in Doc
  BY <1>2 DEF Merged, Doc
<1> QED BY <1>1, <1>2, <1>3

(* What a request saves for one of its services. *)
LEMMA SavedFacts ==
  ASSUME TypeInv, NEW r \in Request, NEW plan \in PlansOf(r), Save(r, plan),
         NEW s \in Service
  PROVE  /\ s \in req[r].work =>
              /\ plan[s] \in Plans(req[r].kind, req[r].base[s])
              /\ rows'[s] = SavedRows(rows[s], Merged(req[r].base[s], plan[s]))
         /\ s \notin req[r].work => rows'[s] = rows[s]
         /\ req[r].base[s] \in Doc /\ rows[s] \in Rows
<1>1. s \in req[r].work => plan[s] \in Plans(req[r].kind, req[r].base[s])
  BY DEF PlansOf
<1>2. req[r] \in ReqType /\ rows \in [Service -> Rows]
  BY DEF TypeInv, TypeOK
<1>3. req[r].base[s] \in Doc
  BY <1>2 DEF ReqType
<1> QED BY <1>1, <1>2, <1>3 DEF Save

(* A request is changed by its own steps only. *)
LEMMA OwnSteps ==
  ASSUME TypeInv, [Next]_vars, NEW r \in Request, req'[r] # req[r]
  PROVE  RequestStep(r) /\ StillHeld
<1>1. Next
  BY DEF vars
<1>2. ASSUME NEW s \in Service, UserStep(s) PROVE FALSE
  BY <1>2 DEF UserStep, UserSave, UserConfirm, UserDeactivate
<1>3. PICK q \in Request : RequestStep(q)
  BY <1>1, <1>2 DEF Next
<1>4. req \in [Request -> ReqType]
  BY DEF TypeInv, TypeOK
<1>5. q # r => req'[r] = req[r]
  BY <1>3, <1>4 DEF RequestStep, Send, Guard, Match, ReadBase, Fail, Save
<1> QED BY <1>1, <1>3, <1>5 DEF Next

(* Writing is saving. *)
LEMMA WritesSaves ==
  ASSUME TypeInv, [Next]_vars, NEW r \in Request, Writes(r)
  PROVE  \E plan \in PlansOf(r) : Save(r, plan)
<1>1. req[r] \in ReqType /\ req \in [Request -> ReqType]
  BY DEF TypeInv, TypeOK
<1>2. RequestStep(r)
  BY OwnSteps DEF Writes
<1>3. ASSUME NEW kind, NEW S, NEW o, Send(r, kind, S, o) PROVE FALSE
  BY <1>3 DEF Send, Writes
<1>4. ASSUME NEW s \in Service, Guard(r, s) PROVE FALSE
  BY <1>4 DEF Guard, Writes
<1>5. ASSUME NEW s \in Service, ReadBase(r, s) PROVE FALSE
  BY <1>1, <1>5 DEF ReadBase, Writes, ReqType
<1>6. ASSUME NEW W, Match(r, W) PROVE FALSE
  BY <1>6 DEF Match, Writes
<1>7. ASSUME Fail(r) PROVE FALSE
  BY <1>1, <1>7 DEF Fail, Writes, ReqType
<1> QED BY <1>2, <1>3, <1>4, <1>5, <1>6, <1>7 DEF RequestStep

-----------------------------------------------------------------------------
(* Type correctness. *)

LEMMA TypeInvInit == Init => TypeInv
<1> SUFFICES ASSUME Init PROVE TypeInv
  OBVIOUS
<1>1. EmptyDoc \in Doc
  BY DEF EmptyDoc, Doc
<1>2. NewRequest \in ReqType
  BY <1>1 DEF NewRequest, ReqType
<1>3. rows \in [Service -> Rows] /\ rows \in [Service -> [Case -> Row \cup {NoRow}]]
  BY DEF Init, Rows
<1> QED BY <1>2, <1>3 DEF Init, TypeInv, TypeOK

(* A step of a request keeps the types. *)
LEMMA RequestTypes ==
  ASSUME TypeInv, NEW r \in Request, RequestStep(r)
  PROVE  rows' \in [Service -> Rows] /\ req' \in [Request -> ReqType]
<1>t. req \in [Request -> ReqType] /\ rows \in [Service -> Rows] /\ req[r] \in ReqType
  BY DEF TypeInv, TypeOK
<1>1. ASSUME NEW kind \in {"source", "postman"}, NEW S \in SUBSET Service,
             NEW o \in BOOLEAN, Send(r, kind, S, o)
      PROVE  rows' \in [Service -> Rows] /\ req' \in [Request -> ReqType]
  <2>1. EmptyDoc \in Doc
    BY DEF EmptyDoc, Doc
  <2> DEFINE q == [NewRequest EXCEPT !.pc = IF S = {} THEN "done"
                                            ELSE IF o THEN "match" ELSE "guard",
                                     !.kind = kind, !.overwrite = o,
                                     !.asked = S, !.todo = S]
  <2>2. q \in ReqType
    BY <2>1 DEF NewRequest, ReqType
  <2>3. req' = [req EXCEPT ![r] = q] /\ rows' = rows
    BY <1>1 DEF Send
  <2> HIDE DEF q
  <2> QED BY <1>t, <2>2, <2>3
<1>2. ASSUME NEW s \in Service, Guard(r, s)
      PROVE  rows' \in [Service -> Rows] /\ req' \in [Request -> ReqType]
  <2> DEFINE passed == [req[r] EXCEPT !.todo = @ \ {s},
                                      !.pc = IF req[r].todo = {s} THEN "match" ELSE @]
             refused == [req[r] EXCEPT !.pc = "conflict"]
  <2>1. passed \in ReqType /\ refused \in ReqType
    BY <1>t DEF ReqType
  <2>2. req' = [req EXCEPT ![r] = refused] \/ req' = [req EXCEPT ![r] = passed]
    BY <1>t, <1>2 DEF Guard
  <2>3. rows' = rows
    BY <1>2 DEF Guard
  <2> HIDE DEF passed, refused
  <2> QED BY <1>t, <2>1, <2>2, <2>3
<1>3. ASSUME NEW s \in Service, ReadBase(r, s)
      PROVE  rows' \in [Service -> Rows] /\ req' \in [Request -> ReqType]
  <2>1. EditorDoc(rows[s]) \in Doc
    BY <1>t, ReadTypes
  <2> QED BY <1>t, <1>3, <2>1 DEF ReadBase, ReqType
<1>4. ASSUME NEW W \in SUBSET Service, Match(r, W)
      PROVE  rows' \in [Service -> Rows] /\ req' \in [Request -> ReqType]
  BY <1>t, <1>4 DEF Match, ReqType
<1>5. ASSUME Fail(r)
      PROVE  rows' \in [Service -> Rows] /\ req' \in [Request -> ReqType]
  BY <1>t, <1>5 DEF Fail, ReqType
<1>6. ASSUME NEW plan \in PlansOf(r), Save(r, plan)
      PROVE  rows' \in [Service -> Rows] /\ req' \in [Request -> ReqType]
  <2>1. ASSUME NEW s \in Service PROVE rows'[s] \in Rows
    BY <1>6, <2>1, SavedFacts, MergedFacts, WriteTypes
  <2>2. rows' \in [Service -> Rows]
    BY <1>6, <2>1 DEF Save
  <2> QED BY <1>t, <1>6, <2>2 DEF Save, ReqType
<1> QED BY <1>1, <1>2, <1>3, <1>4, <1>5, <1>6 DEF RequestStep

(* So does a user's. *)
LEMMA UserTypes ==
  ASSUME TypeInv, NEW s \in Service, UserStep(s)
  PROVE  rows' \in [Service -> Rows] /\ req' = req
<1>t. rows \in [Service -> Rows] /\ rows[s] \in Rows
  BY DEF TypeInv, TypeOK
<1>1. ASSUME NEW d \in Doc, UserSave(s, d)
      PROVE  rows' \in [Service -> Rows] /\ req' = req
  BY <1>t, <1>1, WriteTypes DEF UserSave
<1>2. ASSUME NEW C, UserConfirm(s, C)
      PROVE  rows' \in [Service -> Rows] /\ req' = req
  <2>1. Only(DraftDoc(rows[s]), C) \in Doc
    BY <1>t, ReadTypes, OnlyType
  <2>2. PublishedRows(rows[s], Only(DraftDoc(rows[s]), C)) \in Rows
    BY <1>t, <2>1, WriteTypes
  <2>3. ClearedDrafts(PublishedRows(rows[s], Only(DraftDoc(rows[s]), C)), C) \in Rows
    BY <2>1, <2>2, WriteTypes
  <2> QED BY <1>t, <1>2, <2>3 DEF UserConfirm
<1>3. ASSUME NEW c \in Case, UserDeactivate(s, c)
      PROVE  rows' \in [Service -> Rows] /\ req' = req
  <2>1. [rows[s] EXCEPT ![c] = DeactivatedRow(@)] \in Rows
    BY <1>t, <1>3, DeactivatedType DEF UserDeactivate
  <2>2. rows' = [rows EXCEPT ![s] = [rows[s] EXCEPT ![c] = DeactivatedRow(@)]]
    BY <1>3 DEF UserDeactivate
  <2> QED BY <1>t, <1>3, <2>1, <2>2 DEF UserDeactivate
<1> QED BY <1>1, <1>2, <1>3 DEF UserStep

LEMMA TypeInvStep == TypeInv /\ [Next]_vars => TypeInv'
<1> SUFFICES ASSUME TypeInv, [Next]_vars PROVE TypeInv'
  OBVIOUS
<1>1. CASE UNCHANGED vars
  BY <1>1 DEF vars, TypeInv, TypeOK
<1>2. CASE Next
  <2>1. rows' \in [Service -> Rows] /\ req' \in [Request -> ReqType]
    BY <1>2, RequestTypes, UserTypes DEF Next, TypeInv, TypeOK
  <2>2. held' \in [Request -> SUBSET Service]
    BY <1>2 DEF Next, StillHeld, Drafted, TypeInv, TypeOK
  <2>3. rows' \in [Service -> [Case -> Row \cup {NoRow}]]
    BY <2>1 DEF Rows, GoodRow
  <2> QED BY <2>1, <2>2, <2>3 DEF TypeInv, TypeOK
<1> QED BY <1>1, <1>2

(* The types of the variables. *)
THEOREM TypeCorrect == Spec => []TypeOK
<1>1. Spec => []TypeInv
  BY TypeInvInit, TypeInvStep, PTL DEF Spec
<1>2. TypeInv => TypeOK
  BY DEF TypeInv
<1> QED BY <1>1, <1>2, PTL

-----------------------------------------------------------------------------
(* What drafting by AI leaves alone. *)

(* Whatever a request from AI was made from, saving its draft changes no    *)
(* confirmed rule.                                                          *)
THEOREM ConfirmedSurvivesCorrect == Spec => ConfirmedSurvives
<1>1. TypeInv /\ [Next]_vars =>
        [\A r \in Request : Writes(r) =>
           \A s \in Service : AppliedDoc(rows'[s]) = AppliedDoc(rows[s])]_vars
  <2> SUFFICES ASSUME TypeInv, [Next]_vars, NEW r \in Request, Writes(r),
                      NEW s \in Service
               PROVE  AppliedDoc(rows'[s]) = AppliedDoc(rows[s])
    OBVIOUS
  <2>1. PICK plan \in PlansOf(r) : Save(r, plan)
    BY WritesSaves
  <2>2. CASE s \in req[r].work
    BY <2>1, <2>2, SavedFacts, MergedFacts, SavedKeepsApplied
  <2>3. CASE s \notin req[r].work
    BY <2>1, <2>3, SavedFacts
  <2> QED BY <2>2, <2>3
<1> QED BY <1>1, TypeInvInit, TypeInvStep, PTL DEF Spec, ConfirmedSurvives

(* Nothing is lost that the request has read. *)
THEOREM MergeCorrect == Spec => UndisturbedMergeKeepsCases
<1>1. TypeInv /\ [Next]_vars =>
        [\A r \in Request : Writes(r) =>
           \A s \in req[r].work :
             EditorDoc(rows[s]) = req[r].base[s] =>
               \A c \in Named(EditorDoc(rows[s])) :
                 /\ EditorDoc(rows'[s])[c] # NoRule
                 /\ EditorDoc(rows'[s])[c].extra = EditorDoc(rows[s])[c].extra]_vars
  <2> SUFFICES ASSUME TypeInv, [Next]_vars, NEW r \in Request, Writes(r),
                      NEW s \in req[r].work,
                      EditorDoc(rows[s]) = req[r].base[s],
                      NEW c \in Named(EditorDoc(rows[s]))
               PROVE  /\ EditorDoc(rows'[s])[c] # NoRule
                      /\ EditorDoc(rows'[s])[c].extra = EditorDoc(rows[s])[c].extra
    OBVIOUS
  <2>1. PICK plan \in PlansOf(r) : Save(r, plan)
    BY WritesSaves
  <2>2. s \in Service
    BY DEF TypeInv, TypeOK, ReqType
  <2> DEFINE d == Merged(req[r].base[s], plan[s])
  <2>3. /\ rows'[s] = SavedRows(rows[s], d) /\ rows[s] \in Rows
        /\ d \in Doc /\ d[c] # NoRule /\ d[c].extra = EditorDoc(rows[s])[c].extra
    BY <2>1, <2>2, SavedFacts, MergedFacts
  <2>4. c \in Case /\ EditorDoc(rows[s])[c] # NoRule
    BY DEF Named
  <2> HIDE DEF d
  <2> QED BY <2>3, <2>4, SavedKeepsCase
<1> QED BY <1>1, TypeInvInit, TypeInvStep, PTL DEF Spec, UndisturbedMergeKeepsCases

-----------------------------------------------------------------------------
(* What a request from source asks for. *)

LEMMA AskedInit == Init => AskedInv
<1> SUFFICES ASSUME Init, NEW r \in Request PROVE Asked(r)
  BY DEF AskedInv
<1>1. req[r].pc = "new"
  BY DEF Init, NewRequest
<1> QED BY <1>1 DEF Asked

(* Once a request is sent, held only shrinks, and holds drafted services.   *)
LEMMA HeldShrinks ==
  ASSUME StillHeld, NEW r \in Request
  PROVE  /\ req[r].pc # "new" => held'[r] \subseteq held[r]
         /\ held'[r] \subseteq Drafted'
BY DEF StillHeld

(* The step of the request itself. *)
LEMMA AskedOwnStep ==
  ASSUME TypeInv, NEW r \in Request, Asked(r), RequestStep(r), StillHeld
  PROVE  Asked(r)'
<1>t. req \in [Request -> ReqType] /\ req[r] \in ReqType
  BY DEF TypeInv, TypeOK
<1>1. ASSUME NEW kind, NEW S, NEW o, Send(r, kind, S, o) PROVE Asked(r)'
  <2>1. /\ req'[r].kind = kind /\ req'[r].overwrite = o
        /\ req'[r].asked = S /\ req'[r].todo = S
        /\ req'[r].pc = IF S = {} THEN "done" ELSE IF o THEN "match" ELSE "guard"
    BY <1>t, <1>1 DEF Send, NewRequest
  <2> QED BY <2>1 DEF Asked
<1>2. ASSUME NEW s \in Service, Guard(r, s) PROVE Asked(r)'
  <2>1. CASE HasWorkingDraft(s)
    <3>1. req'[r].pc = "conflict"
      BY <1>t, <1>2, <2>1 DEF Guard, ReqType
    <3> QED BY <3>1 DEF Asked
  <2>2. CASE ~ HasWorkingDraft(s)
    <3>1. /\ req'[r].kind = req[r].kind /\ req'[r].overwrite = req[r].overwrite
          /\ req'[r].asked = req[r].asked /\ req'[r].todo = req[r].todo \ {s}
          /\ req'[r].pc = IF req[r].todo = {s} THEN "match" ELSE "guard"
      BY <1>t, <1>2, <2>2 DEF Guard, ReqType
    <3>2. req[r].pc = "guard" /\ rows' = rows
      BY <1>2 DEF Guard
    <3>3. s \notin Drafted'
      BY <2>2, <3>2 DEF Drafted, HasWorkingDraft
    <3>4. held'[r] \subseteq held[r] /\ s \notin held'[r]
      BY <3>2, <3>3, HeldShrinks
    <3> QED BY <3>1, <3>2, <3>4 DEF Asked
  <2> QED BY <2>1, <2>2
<1>3. ASSUME NEW s \in Service, ReadBase(r, s) PROVE Asked(r)'
  <2>1. /\ req'[r].kind = req[r].kind /\ req'[r].overwrite = req[r].overwrite
        /\ req'[r].work = req[r].work /\ req'[r].pc = "read" /\ req[r].pc = "read"
    BY <1>t, <1>3 DEF ReadBase, ReqType
  <2> QED BY <2>1, HeldShrinks DEF Asked
<1>4. ASSUME NEW W, Match(r, W) PROVE Asked(r)'
  <2>1. /\ req'[r].kind = req[r].kind /\ req'[r].overwrite = req[r].overwrite
        /\ req'[r].work = W /\ req'[r].pc \in {"read", "done"} /\ req[r].pc = "match"
        /\ req[r].kind = "source" => W = req[r].asked
    BY <1>t, <1>4 DEF Match, ReqType
  <2> QED BY <2>1, HeldShrinks DEF Asked
<1>5. ASSUME Fail(r) PROVE Asked(r)'
  <2>1. req'[r].pc = "failed"
    BY <1>t, <1>5 DEF Fail, ReqType
  <2> QED BY <2>1 DEF Asked
<1>6. ASSUME NEW plan, Save(r, plan) PROVE Asked(r)'
  <2>1. req'[r].pc = "done"
    BY <1>t, <1>6 DEF Save, ReqType
  <2> QED BY <2>1 DEF Asked
<1> QED BY <1>1, <1>2, <1>3, <1>4, <1>5, <1>6 DEF RequestStep

LEMMA AskedStep == TypeInv /\ AskedInv /\ [Next]_vars => AskedInv'
<1> SUFFICES ASSUME TypeInv, AskedInv, [Next]_vars, NEW r \in Request
             PROVE  Asked(r)'
  BY DEF AskedInv
<1>1. Asked(r)
  BY DEF AskedInv
<1>2. CASE req'[r] # req[r]
  BY <1>1, <1>2, OwnSteps, AskedOwnStep
<1>3. CASE req'[r] = req[r]
  <2>1. CASE UNCHANGED vars
    BY <1>1, <2>1 DEF vars, Asked
  <2>2. CASE StillHeld
    <3>1. req[r].pc # "new" => held'[r] \subseteq held[r]
      BY <2>2, HeldShrinks
    <3> QED BY <1>1, <1>3, <3>1 DEF Asked
  <2> QED BY <2>1, <2>2 DEF Next
<1> QED BY <1>2, <1>3

(* A request from source that may not overwrite never writes a service that *)
(* has had a draft ever since the request was sent, for any number of       *)
(* requests and users in between.                                           *)
THEOREM OldDraftCorrect == Spec => OldDraftIsAskedFor
<1>1. TypeInv /\ AskedInv /\ [Next]_vars =>
        [\A r \in Request :
           Writes(r) /\ req[r].kind = "source" /\ ~ req[r].overwrite
             => req[r].work \cap held[r] = {}]_vars
  BY DEF AskedInv, Asked, Writes
<1> QED BY <1>1, TypeInvInit, TypeInvStep, AskedInit, AskedStep, PTL
        DEF Spec, OldDraftIsAskedFor
=============================================================================
