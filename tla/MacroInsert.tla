------------------------------ MODULE MacroInsert ------------------------------
(***************************************************************************)
(* A macro takes the place of the value at the cursor: in the YAML source  *)
(* of a case, and in the JSON text of its input.                           *)
(*                                                                         *)
(* The code scans the characters of the text.  The text is kept here with  *)
(* the values it was written from, one per line, so that what the scan     *)
(* replaces can be compared with the value the cursor is in.  A cursor is  *)
(* the number of characters before it.                                     *)
(***************************************************************************)
EXTENDS Naturals, Sequences, SequencesExt

CONSTANTS
  Style,    \* how values are written: a subset of "plain", "single", "double"
  Within,   \* the characters of a value, for each style
  MaxLines, MaxLen,
  Dq, Sq, Bs, Nl, Colon, Space, Name,  \* characters with a meaning, and a key
  Token,    \* the macro
  Json      \* the text is JSON

VARIABLES
  lines, \* the values: style and characters
  text   \* the text of the editor

vars == <<lines, text>>

Chars(s) == UNION {[1..n -> Within[s]] : n \in 0..MaxLen}
Escaped(c) == IF c = Dq THEN <<Bs, Dq>> ELSE IF c = Bs THEN <<Bs, Bs>> ELSE <<c>>

Written(l) ==
  CASE l.style = "plain"  -> l.chars
    [] l.style = "single" -> <<Sq>> \o FlattenSeq([k \in DOMAIN l.chars |-> IF l.chars[k] = Sq THEN <<Sq, Sq>> ELSE <<l.chars[k]>>]) \o <<Sq>>
    [] l.style = "double" -> <<Dq>> \o FlattenSeq([k \in DOMAIN l.chars |-> Escaped(l.chars[k])]) \o <<Dq>>

Key == IF Json THEN <<Dq, Name, Dq, Colon, Space>> ELSE <<Name, Colon, Space>>

Flat(ls) == FlattenSeq([k \in DOMAIN ls |-> Key \o Written(ls[k]) \o <<Nl>>])

(* Where the value of a line starts and ends.                              *)
Start(ls, k) == Len(Flat(SubSeq(ls, 1, k - 1))) + Len(Key)
End(ls, k)   == Start(ls, k) + Len(Written(ls[k]))

-----------------------------------------------------------------------------
(* The quoted string around the cursor, as <<start, end>>, or nothing.     *)
(* After a backslash between double quotes, and after the first of two     *)
(* single ones, the next character means nothing; a string that is not     *)
(* closed goes to the end of the text.                                     *)
Quoted(t, i, q) ==
  LET skips(p) == IF q = Dq THEN t[p] = Bs ELSE t[p] = Sq /\ p < Len(t) /\ t[p + 1] = Sq
      step(s, p) ==
        IF s.found # <<>> THEN s
        ELSE IF s.from = 0 THEN (IF t[p] = q THEN [s EXCEPT !.from = p] ELSE s)
        ELSE IF s.skip THEN [s EXCEPT !.skip = FALSE]
        ELSE IF skips(p) THEN [s EXCEPT !.skip = TRUE]
        ELSE IF t[p] # q THEN s
        ELSE [s EXCEPT !.from = 0, !.found = IF i \in (s.from - 1)..p THEN <<s.from - 1, p>> ELSE <<>>]
      last == FoldLeft(step, [from |-> 0, skip |-> FALSE, found |-> <<>>], [p \in DOMAIN t |-> p])
  IN IF last.found = <<>> /\ last.from # 0 /\ i >= last.from - 1 THEN <<last.from - 1, Len(t)>> ELSE last.found

(* At one end of the selection, the other, or between.                     *)
AtSelection(t, q, a, b) ==
  IF Quoted(t, a, q) # <<>> THEN Quoted(t, a, q)
  ELSE IF a = b THEN <<>>
  ELSE IF Quoted(t, b, q) # <<>> THEN Quoted(t, b, q) ELSE Quoted(t, (a + b) \div 2, q)

(* What follows the first colon of the line, unless it is quoted.          *)
Plain(t, i) ==
  LET from  == SelectLastInSubSeq(t, 1, i, LAMBDA c : c = Nl)
      to    == SelectInSubSeq(t, i + 1, Len(t), LAMBDA c : c = Nl)
      end   == IF to = 0 THEN Len(t) ELSE to - 1
      colon == SelectInSubSeq(t, from + 1, end, LAMBDA c : c = Colon)
      value == SelectInSubSeq(t, colon + 1, end, LAMBDA c : c # Space)
      first == IF value = 0 THEN end ELSE value - 1
  IN IF colon = 0 \/ i < colon - 1 \/ (value # 0 /\ t[value] \in {Sq, Dq}) THEN <<>> ELSE <<first, end>>

JsonRange(t, a, b) == AtSelection(t, Dq, a, b)

YamlRange(t, a, b) ==
  IF JsonRange(t, a, b) # <<>> THEN JsonRange(t, a, b)
  ELSE IF AtSelection(t, Sq, a, b) # <<>> THEN AtSelection(t, Sq, a, b)
  ELSE IF Plain(t, a) # <<>> THEN Plain(t, a)
  ELSE IF a = b THEN <<>> ELSE Plain(t, b)

(* Without a value the macro is put where the selection is.                *)
Inserted(t, a, b) ==
  LET got   == IF Json THEN JsonRange(t, a, b) ELSE YamlRange(t, a, b)
      range == IF got = <<>> THEN <<a, b>> ELSE got
  IN SubSeq(t, 1, range[1]) \o <<Dq, Token, Dq>> \o SubSeq(t, range[2] + 1, Len(t))

-----------------------------------------------------------------------------
Init == lines = <<>> /\ text = <<>>

AddLine(l) ==
  /\ Len(lines) < MaxLines
  /\ lines' = Append(lines, l)
  /\ text' = text \o Key \o Written(l) \o <<Nl>>

Insert(k, a, b) ==
  /\ Len(lines) = MaxLines /\ lines[k].chars # <<Token>>
  /\ text' = Inserted(text, a, b)
  /\ lines' = [lines EXCEPT ![k] = [style |-> "double", chars |-> <<Token>>]]

Next ==
  \/ \E s \in Style : \E c \in Chars(s) : AddLine([style |-> s, chars |-> c])
  \/ \E k \in DOMAIN lines : \E a \in Start(lines, k)..End(lines, k) : \E b \in a..End(lines, k) : Insert(k, a, b)

Spec == Init /\ [][Next]_vars

-----------------------------------------------------------------------------
(* "Replace the scalar under the cursor": after any number of macros the   *)
(* text says what the lines say, with the macro for the values the cursor  *)
(* was in and all the others as they were.                                 *)
ReplacesScalar == text = Flat(lines)
=============================================================================
