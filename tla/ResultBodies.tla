---------------------------- MODULE ResultBodies ----------------------------
(***************************************************************************)
(* A body of a result and the one it is compared with (executionJsonDiff.ts*)
(* and ExecutionJsonPanel.tsx): what is highlighted, and what is shown when*)
(* only changes are asked for.  A path is written with dots, so a key that *)
(* holds a dot is several parts of it.  Arrays and scalars are values that *)
(* are only compared; objects are functions from keys.                     *)
(***************************************************************************)
EXTENDS Naturals, Sequences, SequencesExt

CONSTANTS
  KeyOrder,    \* the keys, in the order they are met
  Parts,       \* key -> the parts its name falls into
  Plain,       \* scalars and arrays
  Null, Undef, \* the scalar null, and no value
  Bodies,      \* bodies a panel is given
  Limit,       \* changed paths of a panel that are kept
  InjectLimit  \* changed paths of a step's request that are kept

VARIABLES value, other, changesOnly

vars == <<value, other, changesOnly>>

IsObject(v) == v \notin Plain \cup {Null, Undef}
Get(o, k) == IF k \in DOMAIN o THEN o[k] ELSE Undef
Put(o, k, v) == [x \in DOMAIN o \cup {k} |-> IF x = k THEN v ELSE o[x]]
Empty == [x \in {} |-> Undef]

(* The paths where two values differ; a difference of the roots has none. *)
RECURSIVE Walk(_, _, _)
Walk(l, r, p) ==
  IF l = r THEN <<>>
  ELSE IF IsObject(l) /\ IsObject(r)
  THEN FlattenSeq([i \in DOMAIN KeyOrder |->
         LET k == KeyOrder[i] IN Walk(Get(l, k), Get(r, k), p \o Parts[k])])
  ELSE IF p = <<>> THEN <<>> ELSE <<p>>

First(n, s) == SubSeq(s, 1, IF Len(s) < n THEN Len(s) ELSE n)
DiffPaths(a, b) == First(Limit, Walk(a, b, <<>>))
InjectedPaths(template, resolved) == First(InjectLimit, Walk(template, resolved, <<>>))

RECURSIVE GetAt(_, _)
GetAt(root, path) ==
  IF path = <<>> THEN root
  ELSE IF ~IsObject(root) THEN Undef ELSE GetAt(Get(root, Head(path)), Tail(path))

RECURSIVE SetAt(_, _, _)
SetAt(root, path, v) ==
  LET k == Head(path)
      next == Get(root, k)
  IN IF Len(path) = 1 THEN Put(root, k, v)
     ELSE Put(root, k, SetAt(IF IsObject(next) THEN next ELSE Empty, Tail(path), v))

(* The object that has only the paths, with the values of root. *)
Pick(root, paths) ==
  IF paths = <<>> THEN root
  ELSE FoldLeft(LAMBDA o, p : IF GetAt(root, p) = Undef THEN o
                              ELSE SetAt(o, p, GetAt(root, p)), Empty, paths)

(* A path is highlighted if it is, holds or lies below a changed one. *)
Highlighted(path, hs) == \E i \in DOMAIN hs : IsPrefix(path, hs[i]) \/ IsPrefix(hs[i], path)

Diff == IF other = Undef THEN <<>> ELSE DiffPaths(other, value)
Highlights == IF changesOnly THEN Diff ELSE Diff \o InjectedPaths(other, value)

Shown == IF ~changesOnly THEN value
         ELSE IF Diff = <<>> THEN Null ELSE Pick(value, Diff)
(* The panel says that the bodies are the same. *)
SaysSame == Shown \in {Null, Undef}

Init == value \in Bodies /\ other \in Bodies /\ changesOnly = FALSE

(* The box over the steps. *)
SetChangesOnly == changesOnly' = ~changesOnly /\ UNCHANGED <<value, other>>
(* The panel of the other body: what was expected and what came each have one. *)
OtherPanel == value' = other /\ other' = value /\ UNCHANGED changesOnly

Next == SetChangesOnly \/ OtherPanel
Spec == Init /\ [][Next]_vars

-----------------------------------------------------------------------------
(* The reference: the part of v that o does not have in the same place. *)
RECURSIVE Changed(_, _)
Changed(v, o) ==
  LET Below(k) == Changed(v[k], Get(o, k))
      Both(k) == IsObject(v[k]) /\ IsObject(Get(o, k))
  IN [k \in {x \in DOMAIN v : v[x] # Get(o, x) /\ (Both(x) => Below(x) # Empty)} |->
        IF Both(k) THEN Below(k) ELSE v[k]]

(* With only changes asked for, what is shown is what changed. *)
ShownIsChanged ==
  changesOnly /\ Diff # <<>> => Shown = Changed(value, other)

(* Two bodies that are equal are said to be. *)
EqualSaysSame == changesOnly /\ value = other => SaysSame

(* A key of the body, or of an object in it, is highlighted exactly if the
   compared body does not have the same there. *)
HighlightIsDiff ==
  IsObject(value) /\ IsObject(other) =>
    \A k \in DOMAIN value :
      /\ Highlighted(Parts[k], Highlights) <=> value[k] # Get(other, k)
      /\ IsObject(value[k]) =>
           \A m \in DOMAIN value[k] :
             Highlighted(Parts[k] \o Parts[m], Highlights)
               <=> value[k][m] # GetAt(other, <<k, m>>)
=============================================================================
