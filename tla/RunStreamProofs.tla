-------------------------- MODULE RunStreamProofs --------------------------
(***************************************************************************)
(* Theorems about RunStream, for a run of any number of steps, whose text  *)
(* is cut anywhere and as often as it may.                                 *)
(*                                                                         *)
(* The text under way is the frames of a sequence of events, of which the  *)
(* last may be cut off when the connection broke.  Each event of it may    *)
(* come after the one before it, the first after what is shown, and the    *)
(* last is where the server is.                                            *)
(***************************************************************************)
EXTENDS RunStream, SequenceTheorems, TLAPS

Token == Half \cup {NL}

(* What a run is about. *)
Setting == Total \in Nat /\ NL \notin Half

-----------------------------------------------------------------------------
(* Text and frames. *)

First(e)  == [event |-> e, half |-> 1]
Second(e) == [event |-> e, half |-> 2]

(* The text t goes on after its k-th character with the frame of e, as far  *)
(* as it goes.                                                              *)
FrameAt(t, k, e) ==
  /\ k + 1 <= Len(t) => t[k + 1] = First(e)
  /\ k + 2 <= Len(t) => t[k + 2] = Second(e)
  /\ k + 3 <= Len(t) => t[k + 3] = NL
  /\ k + 4 <= Len(t) => t[k + 4] = NL

(* The text t is the frames of es, all of them if the text is whole.        *)
Framed(t, whole, es) ==
  /\ Len(t) <= 4 * Len(es)
  /\ whole => Len(t) = 4 * Len(es)
  /\ \A i \in 1..Len(es) : FrameAt(t, 4 * (i - 1), es[i])

LEMMA HalfFacts ==
  ASSUME NEW e \in Event
  PROVE  /\ First(e) \in Half /\ Second(e) \in Half /\ First(e) # Second(e)
         /\ \A f : /\ First(f) = First(e) => f = e
                   /\ First(f) # Second(e)
                   /\ Second(f) = Second(e) => f = e
<1>1. First(e) \in Half /\ Second(e) \in Half
  BY DEF First, Second, Half
<1>2. \A f : First(f).event = f /\ First(f).half = 1 /\ Second(f).event = f /\ Second(f).half = 2
  BY DEF First, Second
<1>3. First(e).half # Second(e).half
  BY <1>2
<1>4. ASSUME NEW f PROVE /\ First(f) = First(e) => f = e
                         /\ First(f) # Second(e)
                         /\ Second(f) = Second(e) => f = e
  <2>1. First(f).event = f /\ First(e).event = e /\ Second(f).event = f /\ Second(e).event = e
    BY <1>2
  <2>2. First(f).half = 1 /\ Second(e).half = 2
    BY <1>2
  <2> QED BY <2>1, <2>2
<1> QED BY <1>1, <1>3, <1>4

LEMMA Joins ==
  ASSUME NEW s \in Seq(Token), NEW r \in Seq(Token)
  PROVE  /\ s \o r \in Seq(Token)
         /\ Len(s) \in Nat /\ Len(r) \in Nat /\ Len(s \o r) = Len(s) + Len(r)
         /\ \A i \in 1..Len(s) : (s \o r)[i] = s[i]
         /\ \A i \in 1..Len(r) : (s \o r)[Len(s) + i] = r[i]
<1>1. Len(s) \in Nat /\ Len(r) \in Nat
  OBVIOUS
<1>2. /\ s \o r \in Seq(Token) /\ Len(s \o r) = Len(s) + Len(r)
      /\ \A i \in 1..(Len(s) + Len(r)) :
           (s \o r)[i] = IF i <= Len(s) THEN s[i] ELSE r[i - Len(s)]
  BY ConcatProperties
<1>3. ASSUME NEW i \in 1..Len(s) PROVE (s \o r)[i] = s[i]
  <2>1. i \in 1..(Len(s) + Len(r)) /\ i <= Len(s)
    BY <1>1
  <2> QED BY <1>2, <2>1
<1>4. ASSUME NEW i \in 1..Len(r) PROVE (s \o r)[Len(s) + i] = r[i]
  <2>1. /\ Len(s) + i \in 1..(Len(s) + Len(r)) /\ ~ (Len(s) + i <= Len(s))
        /\ (Len(s) + i) - Len(s) = i
    BY <1>1
  <2> QED BY <1>2, <2>1
<1> QED BY <1>1, <1>2, <1>3, <1>4

LEMMA Cuts ==
  ASSUME NEW s \in Seq(Token), NEW n \in 0..Len(s)
  PROVE  LET p == SubSeq(s, 1, n)
             q == SubSeq(s, n + 1, Len(s)) IN
         /\ p \in Seq(Token) /\ Len(p) = n /\ \A k \in 1..n : p[k] = s[k]
         /\ q \in Seq(Token) /\ Len(q) = Len(s) - n
         /\ \A k \in 1..(Len(s) - n) : q[k] = s[n + k]
         /\ p \o q = s
<1> DEFINE p == SubSeq(s, 1, n)
           q == SubSeq(s, n + 1, Len(s))
<1>1. Len(s) \in Nat /\ n \in Nat /\ n <= Len(s) /\ \A i \in 1..Len(s) : s[i] \in Token
  BY ElementOfSeq
<1>2. p \in Seq(Token) /\ Len(p) = n /\ \A k \in 1..n : p[k] = s[k]
  <2>1. 1 \in Int /\ n \in Int /\ \A i \in 1..n : s[i] \in Token
    BY <1>1
  <2>2. /\ p \in Seq(Token) /\ Len(p) = IF 1 <= n THEN n - 1 + 1 ELSE 0
        /\ \A i \in 1..(n - 1 + 1) : p[i] = s[1 + i - 1]
    BY <2>1, SubSeqProperties
  <2>3. n - 1 + 1 = n /\ \A i \in Nat : 1 + i - 1 = i
    BY <1>1
  <2> HIDE DEF p
  <2> QED BY <1>1, <2>2, <2>3
<1>3. q \in Seq(Token) /\ Len(q) = Len(s) - n /\ \A k \in 1..(Len(s) - n) : q[k] = s[n + k]
  <2>1. n + 1 \in Int /\ Len(s) \in Int /\ \A i \in (n + 1)..Len(s) : s[i] \in Token
    BY <1>1
  <2>2. /\ q \in Seq(Token) /\ Len(q) = IF n + 1 <= Len(s) THEN Len(s) - (n + 1) + 1 ELSE 0
        /\ \A i \in 1..(Len(s) - (n + 1) + 1) : q[i] = s[(n + 1) + i - 1]
    BY <2>1, SubSeqProperties
  <2> HIDE DEF q
  <2>3. Len(q) = Len(s) - n
    BY <1>1, <2>2
  <2>4. ASSUME NEW k \in 1..(Len(s) - n) PROVE q[k] = s[n + k]
    <3>1. k \in 1..(Len(s) - (n + 1) + 1) /\ (n + 1) + k - 1 = n + k
      BY <1>1
    <3>2. q[k] = s[(n + 1) + k - 1]
      BY <2>2, <3>1
    <3> QED BY <3>1, <3>2
  <2> QED BY <2>2, <2>3, <2>4
<1> HIDE DEF p, q
<1>4. p \o q = s
  <2>1. p \o q \in Seq(Token) /\ Len(p \o q) = Len(s)
    BY <1>1, <1>2, <1>3, Joins
  <2>2. ASSUME NEW k \in 1..Len(s) PROVE (p \o q)[k] = s[k]
    <3>1. CASE k \in 1..n
      BY <1>2, <1>3, <3>1, Joins
    <3>2. CASE k > n
      <4>1. k - n \in 1..Len(q) /\ n + (k - n) = k
        BY <1>1, <1>3, <3>2
      <4>2. (p \o q)[Len(p) + (k - n)] = q[k - n] /\ q[k - n] = s[n + (k - n)]
        BY <1>2, <1>3, <4>1, Joins
      <4> QED BY <1>2, <4>1, <4>2
    <3>3. k \in 1..n \/ k > n
      BY <1>1
    <3> QED BY <3>1, <3>2, <3>3
  <2> QED BY <2>1, <2>2, SeqEqual
<1> QED BY <1>2, <1>3, <1>4 DEF p, q

LEMMA Regroup ==
  ASSUME NEW s \in Seq(Token), NEW r \in Seq(Token), NEW t \in Seq(Token)
  PROVE  (s \o r) \o t = s \o (r \o t)
BY ConcatAssociative

(* Reading moves text from the wire to the buffer and keeps its order.      *)
LEMMA PieceMoves ==
  ASSUME NEW b \in Seq(Token), NEW w \in Seq(Token), NEW n \in 1..Len(w)
  PROVE  /\ b \o SubSeq(w, 1, n) \in Seq(Token)
         /\ SubSeq(w, n + 1, Len(w)) \in Seq(Token)
         /\ (b \o SubSeq(w, 1, n)) \o SubSeq(w, n + 1, Len(w)) = b \o w
<1> DEFINE p == SubSeq(w, 1, n)
           q == SubSeq(w, n + 1, Len(w))
<1>1. n \in 0..Len(w)
  OBVIOUS
<1>2. p \in Seq(Token) /\ q \in Seq(Token) /\ p \o q = w
  BY <1>1, Cuts
<1> HIDE DEF p, q
<1>3. (b \o p) \o q = b \o (p \o q)
  BY <1>2, Regroup
<1>4. b \o p \in Seq(Token)
  BY <1>2, Joins
<1> QED BY <1>2, <1>3, <1>4 DEF p, q

(* A frame stays where it is when text is put behind it, and its place      *)
(* moves when text is taken away in front of it.                            *)
LEMMA FrameMoves ==
  ASSUME NEW s \in Seq(Token), NEW r \in Seq(Token), NEW k \in Nat, NEW e
  PROVE  /\ FrameAt(s \o r, k, e) => FrameAt(s, k, e)
         /\ FrameAt(s, k, e) /\ k + 4 <= Len(s) => FrameAt(s \o r, k, e)
         /\ FrameAt(r, k, e) => FrameAt(s \o r, Len(s) + k, e)
         /\ FrameAt(s \o r, Len(s) + k, e) => FrameAt(r, k, e)
<1> DEFINE u == s \o r
<1>1. /\ Len(s) \in Nat /\ Len(r) \in Nat /\ Len(u) = Len(s) + Len(r)
      /\ \A i \in 1..Len(s) : u[i] = s[i]
      /\ \A i \in 1..Len(r) : u[Len(s) + i] = r[i]
  BY Joins
<1> HIDE DEF u
<1>2. ASSUME NEW d \in 1..4
      PROVE  /\ k + d <= Len(s) => k + d <= Len(u) /\ u[k + d] = s[k + d]
             /\ k + d <= Len(r) <=> (Len(s) + k) + d <= Len(u)
             /\ k + d <= Len(r) => u[(Len(s) + k) + d] = r[k + d]
  <2>1. k + d \in Nat \ {0} /\ (Len(s) + k) + d = Len(s) + (k + d)
    BY <1>1
  <2>2. k + d <= Len(s) => k + d \in 1..Len(s) /\ k + d <= Len(u)
    BY <1>1, <2>1
  <2>3. k + d <= Len(r) => k + d \in 1..Len(r)
    BY <1>1, <2>1
  <2>4. k + d <= Len(r) <=> Len(s) + (k + d) <= Len(u)
    BY <1>1, <2>1
  <2> QED BY <1>1, <2>1, <2>2, <2>3, <2>4
<1>6. 1 \in 1..4 /\ 2 \in 1..4 /\ 3 \in 1..4 /\ 4 \in 1..4
  OBVIOUS
<1>3. FrameAt(u, k, e) => FrameAt(s, k, e)
  BY <1>2, <1>6 DEF FrameAt
<1>4. FrameAt(s, k, e) /\ k + 4 <= Len(s) => FrameAt(u, k, e)
  <2>1. k + 4 <= Len(s) => k + 1 <= Len(s) /\ k + 2 <= Len(s) /\ k + 3 <= Len(s)
    BY <1>1
  <2> QED BY <1>2, <2>1 DEF FrameAt
<1>5. FrameAt(r, k, e) <=> FrameAt(u, Len(s) + k, e)
  <2> DEFINE m == Len(s) + k
  <2>1. \A d \in 1..4 : /\ k + d <= Len(r) <=> m + d <= Len(u)
                        /\ k + d <= Len(r) => u[m + d] = r[k + d]
    BY <1>2
  <2> HIDE DEF m
  <2>2. FrameAt(r, k, e) <=> FrameAt(u, m, e)
    BY <1>6, <2>1 DEF FrameAt
  <2> QED BY <2>2 DEF m
<1> QED BY <1>3, <1>4, <1>5 DEF u

LEMMA FrameIsText ==
  ASSUME NEW e \in Event
  PROVE  Frame(e) \in Seq(Token) /\ Len(Frame(e)) = 4 /\ FrameAt(Frame(e), 0, e)
<1> DEFINE a == First(e)
           b == Second(e)
<1>1. a \in Token /\ b \in Token /\ NL \in Token
  BY HalfFacts DEF Token
<1>2. Frame(e) = <<a, b, NL, NL>>
  BY DEF Frame, First, Second
<1> HIDE DEF a, b
<1>3. Frame(e) \in Seq(Token) /\ Len(Frame(e)) = 4
  BY <1>1, <1>2
<1>4. Frame(e)[1] = a /\ Frame(e)[2] = b /\ Frame(e)[3] = NL /\ Frame(e)[4] = NL
  BY <1>2
<1> QED BY <1>3, <1>4 DEF FrameAt, a, b

(* The frame of an event is put behind the text. *)
LEMMA FramedAppend ==
  ASSUME NEW t \in Seq(Token), NEW es \in Seq(Event), NEW e \in Event,
         Framed(t, TRUE, es)
  PROVE  /\ Append(es, e) \in Seq(Event)
         /\ Framed(t \o Frame(e), TRUE, Append(es, e))
<1> DEFINE n == Len(es)
           u == t \o Frame(e)
           fs == Append(es, e)
<1>1. n \in Nat /\ Len(t) = 4 * n
  BY DEF Framed
<1>2. fs \in Seq(Event) /\ Len(fs) = n + 1 /\ fs[n + 1] = e /\ \A i \in 1..n : fs[i] = es[i]
  BY AppendProperties
<1>3. Len(u) = 4 * n + 4
  <2>1. Len(u) = Len(t) + Len(Frame(e))
    BY FrameIsText, Joins
  <2> QED BY <1>1, <2>1, FrameIsText
<1>4. ASSUME NEW i \in 1..n PROVE FrameAt(u, 4 * (i - 1), es[i])
  <2> DEFINE k == 4 * (i - 1)
  <2>1. k \in Nat /\ k + 4 <= Len(t)
    BY <1>1
  <2>2. FrameAt(t, k, es[i])
    BY DEF Framed
  <2> HIDE DEF k
  <2>3. FrameAt(u, k, es[i])
    BY <2>1, <2>2, FrameIsText, FrameMoves
  <2> QED BY <2>3 DEF k
<1>5. FrameAt(u, 4 * n, e)
  <2>1. FrameAt(u, Len(t) + 0, e)
    BY FrameIsText, FrameMoves
  <2> QED BY <1>1, <2>1
<1> HIDE DEF n, u, fs
<1>6. ASSUME NEW i \in 1..(n + 1) PROVE FrameAt(u, 4 * (i - 1), fs[i])
  <2>1. CASE i \in 1..n
    BY <1>2, <1>4, <2>1
  <2>2. CASE i = n + 1
    <3>1. i - 1 = n
      BY <1>1, <2>2
    <3> QED BY <1>2, <1>5, <2>2, <3>1
  <2> QED BY <1>1, <2>1, <2>2
<1>7. 4 * Len(fs) = 4 * n + 4
  BY <1>1, <1>2
<1>8. Framed(u, TRUE, fs)
  BY <1>1, <1>2, <1>3, <1>6, <1>7 DEF Framed
<1> QED BY <1>2, <1>8 DEF u, fs

(* The first frame is taken out of the text. *)
LEMMA FramedTail ==
  ASSUME NEW b \in Seq(Token), NEW w \in Seq(Token), NEW es \in Seq(Event),
         NEW whole \in BOOLEAN, Framed(b \o w, whole, es), Len(b) >= 4
  PROVE  /\ es # << >> /\ Tail(es) \in Seq(Event)
         /\ SubSeq(b, 5, Len(b)) \in Seq(Token)
         /\ Framed(SubSeq(b, 5, Len(b)) \o w, whole, Tail(es))
<1> DEFINE f == SubSeq(b, 1, 4)
           r == SubSeq(b, 4 + 1, Len(b))
           u == r \o w
           fs == Tail(es)
<1>1. Len(b) \in Nat /\ Len(w) \in Nat /\ Len(es) \in Nat /\ 4 \in 0..Len(b)
  OBVIOUS
<1>2. f \in Seq(Token) /\ r \in Seq(Token) /\ Len(f) = 4 /\ Len(r) = Len(b) - 4
  BY <1>1, Cuts
<1>3. f \o r = b
  BY <1>1, Cuts
<1> HIDE DEF f, r
<1>4. r \in Seq(Token) /\ u \in Seq(Token) /\ Len(u) = (Len(b) - 4) + Len(w)
  <2>1. r \in Seq(Token) /\ r \o w \in Seq(Token) /\ Len(r \o w) = Len(r) + Len(w)
    BY <1>2, Joins
  <2> QED BY <1>2, <2>1
<1>5. f \o u = b \o w
  <2>1. (f \o r) \o w = f \o (r \o w)
    BY <1>2, Regroup
  <2> QED BY <1>3, <2>1
<1>6. Len(b \o w) = Len(b) + Len(w)
  BY Joins
<1>7. /\ Len(b) + Len(w) <= 4 * Len(es)
      /\ whole => Len(b) + Len(w) = 4 * Len(es)
      /\ \A i \in 1..Len(es) : FrameAt(f \o u, 4 * (i - 1), es[i])
  BY <1>5, <1>6 DEF Framed
<1>8. Len(es) >= 1 /\ es # << >>
  BY <1>1, <1>7
<1>9. fs \in Seq(Event) /\ Len(fs) = Len(es) - 1 /\ \A i \in 1..Len(fs) : fs[i] = es[i + 1]
  BY <1>8, HeadTailProperties
<1> HIDE DEF u, fs
<1>10. ASSUME NEW i \in 1..Len(fs) PROVE FrameAt(u, 4 * (i - 1), fs[i])
  <2> DEFINE k == 4 * (i - 1)
  <2>1. /\ i + 1 \in 1..Len(es) /\ fs[i] = es[i + 1] /\ k \in Nat
        /\ 4 * ((i + 1) - 1) = 4 + k
    BY <1>1, <1>9
  <2> HIDE DEF k
  <2>2. FrameAt(f \o u, 4 + k, fs[i])
    BY <1>7, <2>1
  <2>3. FrameAt(u, k, fs[i])
    BY <1>2, <1>4, <2>1, <2>2, FrameMoves
  <2> QED BY <2>3 DEF k
<1>11. Len(u) <= 4 * Len(fs) /\ (whole => Len(u) = 4 * Len(fs))
  BY <1>1, <1>4, <1>7, <1>8, <1>9
<1>12. Framed(u, whole, fs)
  BY <1>10, <1>11 DEF Framed
<1>13. 4 + 1 = 5
  OBVIOUS
<1> QED BY <1>4, <1>8, <1>9, <1>12, <1>13 DEF u, r, fs

(* What was read is framed like the text that it is the beginning of.       *)
LEMMA FramedPrefix ==
  ASSUME NEW b \in Seq(Token), NEW w \in Seq(Token), NEW es \in Seq(Event),
         Framed(b \o w, FALSE, es)
  PROVE  Framed(b, FALSE, es)
<1>1. Len(b) \in Nat /\ Len(w) \in Nat /\ Len(es) \in Nat /\ Len(b \o w) = Len(b) + Len(w)
  BY Joins
<1>2. ASSUME NEW i \in 1..Len(es) PROVE FrameAt(b, 4 * (i - 1), es[i])
  <2>1. 4 * (i - 1) \in Nat /\ FrameAt(b \o w, 4 * (i - 1), es[i])
    BY <1>1 DEF Framed
  <2> QED BY <2>1, FrameMoves
<1>3. Len(b) <= 4 * Len(es)
  BY <1>1 DEF Framed
<1> QED BY <1>2, <1>3 DEF Framed

(* The first empty line ends the first frame, and no earlier. *)
LEMMA FirstFrame ==
  ASSUME Setting, NEW b \in Seq(Token), NEW es \in Seq(Event), Framed(b, FALSE, es)
  PROVE  /\ Ends(b) = {} => Len(b) < 4
         /\ Ends(b) # {} => Len(b) >= 4 /\ Min(Ends(b)) = 4
         /\ Ends(b) # {} => EventsIn(SubSeq(b, 1, 4)) = {es[1]}
         /\ Ends(b) = {} /\ EventsIn(b) # {} => Len(es) > 0 /\ EventsIn(b) = {es[1]}
<1>1. ASSUME Len(b) >= 1
      PROVE  /\ Len(es) >= 1 /\ es[1] \in Event
             /\ b[1] = First(es[1]) /\ First(es[1]) # NL
             /\ Len(b) >= 2 => b[2] = Second(es[1]) /\ Second(es[1]) # NL
             /\ Len(b) >= 3 => b[3] = NL
             /\ Len(b) >= 4 => b[4] = NL
  <2>1. Len(es) >= 1 /\ es[1] \in Event /\ 1 \in 1..Len(es)
    BY <1>1 DEF Framed
  <2>2. /\ 1 <= Len(b) => b[1] = First(es[1])
        /\ 2 <= Len(b) => b[2] = Second(es[1])
        /\ 3 <= Len(b) => b[3] = NL
        /\ 4 <= Len(b) => b[4] = NL
    <3>1. FrameAt(b, 4 * (1 - 1), es[1]) /\ 4 * (1 - 1) = 0
      BY <2>1 DEF Framed
    <3>2. FrameAt(b, 0, es[1])
      BY <3>1
    <3> QED BY <3>2 DEF FrameAt
  <2>3. First(es[1]) # NL /\ Second(es[1]) # NL
    BY <2>1, HalfFacts DEF Setting
  <2> QED BY <1>1, <2>1, <2>2, <2>3
<1>2. ASSUME NEW i \in Ends(b) PROVE i >= 4 /\ i \in Nat /\ i <= Len(b)
  <2>1. i \in 2..Len(b) /\ b[i - 1] = NL /\ b[i] = NL
    BY DEF Ends
  <2>2. i # 2 /\ i # 3
    BY <1>1, <2>1
  <2> QED BY <2>1, <2>2
<1>3. Len(b) >= 4 => 4 \in Ends(b)
  BY <1>1 DEF Ends
<1>4. Ends(b) # {} => Len(b) >= 4
  BY <1>2
<1>5. Ends(b) # {} => Min(Ends(b)) = 4
  <2> SUFFICES ASSUME Ends(b) # {} PROVE Min(Ends(b)) = 4
    OBVIOUS
  <2>1. 4 \in Ends(b) /\ \A i \in Ends(b) : 4 <= i /\ i \in Nat
    BY <1>2, <1>3, <1>4
  <2> QED BY <2>1 DEF Min
<1>6. ASSUME NEW s \in Seq(Token), NEW k \in Nat, k <= Len(b), Len(s) = k, k <= 4,
             \A i \in 1..k : s[i] = b[i]
      PROVE  /\ EventsIn(s) # {} => k >= 2 /\ EventsIn(s) = {es[1]}
             /\ k >= 2 => EventsIn(s) = {es[1]}
  <2>1. ToSet(s) = {b[i] : i \in 1..k}
    BY <1>6 DEF ToSet
  <2>2. ASSUME NEW e \in EventsIn(s) PROVE k >= 2 /\ e = es[1]
    <3>1. e \in Event /\ First(e) \in ToSet(s) /\ Second(e) \in ToSet(s)
      BY DEF EventsIn, First, Second
    <3>2. First(e) # NL /\ Second(e) # NL /\ First(e) # Second(e)
      BY <3>1, HalfFacts DEF Setting
    <3>3. PICK i \in 1..k : b[i] = Second(e)
      BY <2>1, <3>1
    <3>4. b[1] = First(es[1]) /\ es[1] \in Event /\ First(es[1]) # Second(e)
      BY <1>1, <1>6, <3>1, <3>3, HalfFacts
    <3>5. i # 1 /\ i # 3 /\ i # 4
      BY <1>1, <1>6, <3>2, <3>3, <3>4
    <3>6. i = 2
      BY <1>6, <3>3, <3>5
    <3>7. Second(e) = Second(es[1])
      BY <1>1, <1>6, <3>3, <3>6
    <3> QED BY <3>1, <3>4, <3>6, <3>7, HalfFacts
  <2>3. ASSUME k >= 2 PROVE es[1] \in EventsIn(s)
    <3>1. b[1] = First(es[1]) /\ b[2] = Second(es[1]) /\ es[1] \in Event
      BY <1>1, <1>6, <2>3
    <3>2. b[1] \in ToSet(s) /\ b[2] \in ToSet(s)
      BY <1>6, <2>1, <2>3
    <3> QED BY <3>1, <3>2 DEF EventsIn, First, Second
  <2> QED BY <2>2, <2>3
<1>7. Ends(b) # {} => EventsIn(SubSeq(b, 1, 4)) = {es[1]}
  <2> SUFFICES ASSUME Len(b) >= 4 PROVE EventsIn(SubSeq(b, 1, 4)) = {es[1]}
    BY <1>4
  <2> DEFINE s == SubSeq(b, 1, 4)
  <2>1. s \in Seq(Token) /\ Len(s) = 4 /\ \A i \in 1..4 : s[i] = b[i]
    BY Cuts
  <2> HIDE DEF s
  <2>2. 4 \in Nat /\ 4 <= Len(b) /\ 4 <= 4 /\ 4 >= 2
    OBVIOUS
  <2>3. EventsIn(s) = {es[1]}
    BY <1>6, <2>1, <2>2
  <2> QED BY <2>3 DEF s
<1>8. ASSUME Ends(b) = {}, EventsIn(b) # {}
      PROVE  Len(es) > 0 /\ EventsIn(b) = {es[1]}
  <2>1. Len(b) \in Nat /\ Len(b) < 4
    BY <1>3, <1>8
  <2>2. Len(b) >= 2 /\ EventsIn(b) = {es[1]}
    BY <1>6, <1>8, <2>1
  <2> QED BY <1>1, <2>2
<1>9. Ends(b) = {} => Len(b) < 4
  BY <1>3
<1> QED BY <1>4, <1>5, <1>7, <1>8, <1>9

-----------------------------------------------------------------------------
(* What may come next. *)

(* The steps that have finished when e is the last event; -1 while one runs. *)
DoneBy(e) == CASE e.type = "run_started" -> 0
               [] e.type = "step_finished" -> e.step + 1
               [] OTHER -> -1

(* The event that begins the next step after n, or ends the run. *)
NextOf(n, f) ==
  \/ f.type = "step_started" /\ f.step = n
  \/ f.type = "done" /\ n = Total

(* The event f may come directly after e. *)
Follows(e, f) ==
  \/ f.type = "error"
  \/ e.type = "step_started" /\ f.type = "step_finished" /\ f.step = e.step
  \/ e.type \in {"run_started", "step_finished"} /\ NextOf(DoneBy(e), f)

Finished == Progress!Finished

(* The event f may come after what is shown. *)
Fits(f) ==
  \/ f.type = "error"
  \/ f.type = "run_started" /\ index = 0 /\ status = "pending"
  \/ status = "running" /\ f.type = "step_finished" /\ f.step = index
  \/ status # "running" /\ NextOf(Finished, f)

(* The server is where the event e, its last, says. *)
Sent(e) ==
  /\ at # "ready"
  /\ at = "idle" => e.type \in {"run_started", "step_finished"} /\ DoneBy(e) = ran
  /\ at = "step" => e.type = "step_started" /\ e.step = ran

(* The server is where the browser shows it. *)
InStep ==
  /\ at = "ready" => index = 0 /\ status = "pending" /\ ran = 0
  /\ at = "idle" => status # "running" /\ Finished = ran
  /\ at = "step" => status = "running" /\ index = ran

(* The server has run every step and told so. *)
RanOut == at \in {"sent", "stored", "lost"}

(* The events es under way lead from what is shown to where the server is.  *)
Flow(es) ==
  /\ \A i \in 1..(Len(es) - 1) : Follows(es[i], es[i + 1])
  /\ es # << >> => Fits(es[1])
  /\ \A i \in 1..Len(es) : es[i].type = "done" => RanOut
  /\ up => IF es = << >> THEN InStep ELSE Sent(es[Len(es)])

UnderWay == \E es \in Seq(Event) : Framed(buffer \o wire, up, es) /\ Flow(es)

Types ==
  /\ ran \in 0..Total /\ at \in {"ready", "idle", "step", "failed", "sent", "stored", "lost"}
  /\ wire \in Seq(Token) /\ buffer \in Seq(Token)
  /\ up \in BOOLEAN /\ seen \in BOOLEAN
  /\ index \in 0..Total /\ status \in {"pending", "running", "passed", "failed"}
  /\ told \in {"nothing", "done", "error"}

Ended ==
  /\ told = "done" => seen
  /\ seen => RanOut /\ status # "running" /\ Finished = Total
  /\ RanOut => ran = Total
  /\ at = "step" => ran < Total
  /\ at = "ready" => ran = 0

IInv == Types /\ Ended /\ UnderWay

-----------------------------------------------------------------------------
(* The steps. *)

LEMMA InitCorrect == ASSUME Setting PROVE Init => IInv
<1> SUFFICES ASSUME Init PROVE IInv
  OBVIOUS
<1>1. Types
  <2>1. 0 \in 0..Total /\ << >> \in Seq(Token)
    BY EmptySeq DEF Setting
  <2>2. up \in BOOLEAN /\ seen \in BOOLEAN
    BY DEF Init
  <2> QED BY <2>1, <2>2 DEF Init, Types
<1>2. Ended
  BY DEF Init, Ended, RanOut, Finished, Progress!Finished
<1>3. UnderWay
  <2> DEFINE es == << >>
  <2>1. es \in Seq(Event) /\ Len(es) = 0 /\ buffer \o wire = << >>
    BY DEF Init
  <2>2. Framed(buffer \o wire, up, es)
    BY <2>1 DEF Framed
  <2>3. Flow(es)
    BY <2>1 DEF Flow, Init, InStep
  <2> QED BY <2>1, <2>2, <2>3 DEF UnderWay
<1> QED BY <1>1, <1>2, <1>3 DEF IInv

LEMMA EventFacts ==
  ASSUME NEW e \in Event, Total \in Nat
  PROVE  /\ e.type \in {"run_started", "done", "error", "step_started", "step_finished"}
         /\ e.type \in {"step_started", "step_finished"} => e.step \in 0..(Total - 1)
         /\ e.type = "step_finished" => e.status \in {"passed", "failed"}
         /\ e.type \in {"run_started", "step_finished"} => DoneBy(e) \in 0..Total
<1>1. /\ e.type \in {"run_started", "done", "error", "step_started", "step_finished"}
      /\ e.type \in {"step_started", "step_finished"} => e.step \in 0..(Total - 1)
      /\ e.type = "step_finished" => e.status \in {"passed", "failed"}
  BY DEF Event
<1>2. e.type = "run_started" => DoneBy(e) = 0
  BY DEF DoneBy
<1>3. e.type = "step_finished" => DoneBy(e) = e.step + 1
  BY DEF DoneBy
<1> QED BY <1>1, <1>2, <1>3

(* A step of the server that sends the event e. *)
LEMMA SendStep ==
  ASSUME Setting, IInv, NEW e \in Event, Sends(e),
         ran' \in 0..Total, at \in {"ready", "idle", "step"},
         at' \in {"idle", "step", "sent", "failed"},
         at' = "sent" => ran' = Total, at' = "step" => ran' < Total,
         \A f \in Event : Sent(f) => Follows(f, e),
         InStep => Fits(e), Sent(e)', e.type = "done" => at' = "sent"
  PROVE  IInv'
<1>1. /\ UNCHANGED <<up, buffer, shown, seen, told>> /\ wire \in Seq(Token)
      /\ wire' = IF up THEN wire \o Frame(e) ELSE wire
      /\ buffer \in Seq(Token) /\ up \in BOOLEAN
  BY DEF Sends, IInv, Types
<1>2. Types'
  BY <1>1, FrameIsText, Joins DEF IInv, Types, shown
<1>3. ~ seen /\ ~ RanOut
  BY DEF IInv, Ended, RanOut
<1>4. Finished' = Finished
  BY <1>1 DEF Finished, Progress!Finished, shown
<1>5. Ended'
  BY <1>1, <1>3 DEF IInv, Ended, RanOut
<1>6. PICK es \in Seq(Event) : Framed(buffer \o wire, up, es) /\ Flow(es)
  BY DEF IInv, UnderWay
<1>7. ASSUME NEW f PROVE Fits(f)' <=> Fits(f)
  BY <1>1, <1>4 DEF Fits, shown
<1>8. CASE ~ up
  <2>1. Framed(buffer' \o wire', up', es)
    BY <1>1, <1>6, <1>8
  <2>2. Flow(es)'
    BY <1>1, <1>3, <1>6, <1>7, <1>8 DEF Flow
  <2> QED BY <1>2, <1>5, <2>1, <2>2 DEF IInv, UnderWay
<1>9. CASE up
  <2> DEFINE fs == Append(es, e)
  <2>1. fs \in Seq(Event) /\ Framed((buffer \o wire) \o Frame(e), TRUE, fs)
    <3>1. Framed(buffer \o wire, TRUE, es) /\ buffer \o wire \in Seq(Token)
      BY <1>1, <1>6, <1>9, Joins
    <3> QED BY <3>1, FramedAppend
  <2>2. buffer' \o wire' = (buffer \o wire) \o Frame(e)
    BY <1>1, <1>9, FrameIsText, Regroup
  <2>3. /\ Len(es) \in Nat /\ Len(fs) = Len(es) + 1 /\ fs[Len(es) + 1] = e
        /\ fs # << >> /\ \A i \in 1..Len(es) : fs[i] = es[i]
        /\ \A i \in 1..Len(es) : es[i] \in Event
    BY AppendProperties, ElementOfSeq
  <2> HIDE DEF fs
  <2>4. ASSUME NEW i \in 1..(Len(fs) - 1) PROVE Follows(fs[i], fs[i + 1])
    <3>1. CASE i < Len(es)
      <4>1. i \in 1..(Len(es) - 1) /\ i \in 1..Len(es) /\ i + 1 \in 1..Len(es)
        BY <2>3, <3>1
      <4> QED BY <1>6, <2>3, <4>1 DEF Flow
    <3>2. CASE i = Len(es)
      <4>1. es # << >> /\ i \in 1..Len(es) /\ fs[i] = es[Len(es)] /\ fs[i + 1] = e
        BY <2>3, <3>2
      <4>2. Sent(es[Len(es)])
        BY <1>6, <1>9, <4>1 DEF Flow
      <4> QED BY <2>3, <3>2, <4>1, <4>2
    <3> QED BY <2>3, <3>1, <3>2
  <2>5. Fits(fs[1])'
    <3>1. CASE es = << >>
      <4>1. Len(es) = 0
        BY <3>1
      <4>2. fs[1] = e /\ InStep
        BY <1>6, <1>9, <2>3, <3>1, <4>1 DEF Flow
      <4>3. Fits(e)'
        BY <1>7, <4>2
      <4> QED BY <1>7, <4>2
    <3>2. CASE es # << >>
      <4>1. 1 \in 1..Len(es) /\ Fits(es[1])
        BY <1>6, <2>3, <3>2, EmptySeq DEF Flow
      <4> QED BY <1>7, <2>3, <4>1
    <3> QED BY <3>1, <3>2
  <2>6. ASSUME NEW i \in 1..Len(fs) PROVE fs[i].type = "done" => RanOut'
    <3>1. CASE i \in 1..Len(es)
      BY <1>3, <1>6, <2>3, <3>1 DEF Flow
    <3>2. CASE i = Len(es) + 1
      BY <2>3, <3>2 DEF RanOut
    <3> QED BY <2>3, <3>1, <3>2
  <2>7. fs[Len(fs)] = e
    BY <2>3
  <2>8. Flow(fs)'
    BY <2>3, <2>4, <2>5, <2>6, <2>7 DEF Flow
  <2>9. Framed(buffer' \o wire', up', fs)
    BY <1>1, <1>9, <2>1, <2>2 DEF fs
  <2>10. fs \in Seq(Event)
    BY <2>1 DEF fs
  <2>11. UnderWay'
    BY <2>8, <2>9, <2>10 DEF UnderWay
  <2> QED BY <1>2, <1>5, <2>11 DEF IInv
<1> QED BY <1>8, <1>9, <1>1

(* The commit comes after everything was told and is seen by nobody. *)
LEMMA CommitStep ==
  ASSUME Setting, IInv, Commits
  PROVE  IInv'
<1>1. /\ at = "sent" /\ at' \in {"stored", "lost"} /\ ran' = ran
      /\ UNCHANGED <<wire, up, buffer, index, status, seen, told>>
  BY DEF Commits, shown
<1>2. RanOut /\ RanOut' /\ Finished' = Finished
  BY <1>1 DEF RanOut, Finished, Progress!Finished
<1>3. Types'
  BY <1>1 DEF IInv, Types
<1>4. Ended'
  BY <1>1, <1>2 DEF IInv, Ended
<1>5. PICK es \in Seq(Event) : Framed(buffer \o wire, up, es) /\ Flow(es)
  BY DEF IInv, UnderWay
<1>6. Framed(buffer' \o wire', up', es)
  BY <1>1, <1>5
<1>7. Flow(es)'
  <2>1. ASSUME NEW f PROVE Fits(f)' <=> Fits(f)
    BY <1>1, <1>2 DEF Fits
  <2>2. InStep' /\ \A f : Sent(f)'
    BY <1>1 DEF InStep, Sent
  <2> QED BY <1>1, <1>2, <1>5, <2>1, <2>2 DEF Flow
<1> QED BY <1>3, <1>4, <1>5, <1>6, <1>7 DEF IInv, UnderWay

LEMMA ServerStep ==
  ASSUME Setting, IInv, Server
  PROVE  IInv'
<1>1. /\ ran \in 0..Total /\ Total \in Nat
      /\ at = "step" => ran < Total
      /\ at = "ready" => ran = 0
  BY DEF IInv, Types, Ended, Setting
<1>2. CASE RunStarted
  <2> DEFINE e == [type |-> "run_started"]
  <2>1. e \in Event /\ e.type = "run_started" /\ DoneBy(e) = 0
    BY DEF Event, DoneBy
  <2>2. Sends(e) /\ at = "ready" /\ at' = "idle" /\ ran' = ran /\ ran = 0
    BY <1>1, <1>2 DEF RunStarted
  <2> HIDE DEF e
  <2>3. Sent(e)' /\ (InStep => Fits(e)) /\ \A f : ~ Sent(f)
    BY <2>1, <2>2 DEF Sent, InStep, Fits
  <2>4. ran' \in 0..Total /\ at' # "sent" /\ at' # "step" /\ e.type # "done"
    BY <1>1, <2>1, <2>2
  <2> QED BY <2>1, <2>2, <2>3, <2>4, SendStep
<1>3. CASE StepStarted
  <2>0. PICK e : e = [type |-> "step_started", step |-> ran]
    OBVIOUS
  <2>1. Sends(e) /\ at = "idle" /\ at' = "step" /\ ran' = ran /\ ran < Total
    BY <1>3, <2>0 DEF StepStarted
  <2>2. e \in Event /\ e.type = "step_started" /\ e.step = ran
    BY <1>1, <2>0, <2>1 DEF Event
  <2>3. Sent(e)' /\ (InStep => Fits(e))
    BY <2>1, <2>2 DEF Sent, InStep, Fits, NextOf
  <2>4. ASSUME NEW f, Sent(f) PROVE Follows(f, e)
    BY <2>1, <2>2, <2>4 DEF Sent, Follows, NextOf
  <2>5. ran' \in 0..Total /\ at' # "sent" /\ ran' < Total /\ e.type # "done"
    BY <1>1, <2>1, <2>2
  <2> QED BY <2>1, <2>2, <2>3, <2>4, <2>5, SendStep
<1>4. CASE StepFinished
  <2>1. PICK st \in {"passed", "failed"} :
          Sends([type |-> "step_finished", step |-> ran, status |-> st])
    BY <1>4 DEF StepFinished
  <2>0. PICK e : e = [type |-> "step_finished", step |-> ran, status |-> st]
    OBVIOUS
  <2>2. Sends(e) /\ at = "step" /\ at' = "idle" /\ ran' = ran + 1
    BY <1>4, <2>0, <2>1 DEF StepFinished
  <2>3. e \in Event /\ e.type = "step_finished" /\ e.step = ran /\ DoneBy(e) = ran + 1
    BY <1>1, <2>0, <2>2 DEF Event, DoneBy
  <2>4. Sent(e)' /\ (InStep => Fits(e))
    BY <2>2, <2>3 DEF Sent, InStep, Fits
  <2>5. ASSUME NEW f, Sent(f) PROVE Follows(f, e)
    BY <2>2, <2>3, <2>5 DEF Sent, Follows
  <2>6. ran' \in 0..Total /\ at' # "sent" /\ at' # "step" /\ e.type # "done"
    BY <1>1, <2>2, <2>3
  <2> QED BY <2>2, <2>3, <2>4, <2>5, <2>6, SendStep
<1>5. CASE RunDone
  <2> DEFINE e == [type |-> "done"]
  <2>1. Sends(e) /\ at = "idle" /\ at' = "sent" /\ ran' = ran /\ ran = Total
    BY <1>5 DEF RunDone
  <2>2. e \in Event /\ e.type = "done"
    BY DEF Event
  <2> HIDE DEF e
  <2>3. Sent(e)' /\ (InStep => Fits(e)) /\ \A f : Sent(f) => Follows(f, e)
    BY <2>1, <2>2 DEF Sent, InStep, Fits, Follows, NextOf
  <2>4. ran' \in 0..Total /\ ran' = Total /\ at' # "step"
    BY <1>1, <2>1
  <2> QED BY <2>1, <2>2, <2>3, <2>4, SendStep
<1>6. CASE RunFails
  <2> DEFINE e == [type |-> "error"]
  <2>1. Sends(e) /\ at \in {"ready", "idle", "step"} /\ at' = "failed" /\ ran' = ran
    BY <1>6 DEF RunFails
  <2>2. e \in Event /\ e.type = "error"
    BY DEF Event
  <2> HIDE DEF e
  <2>3. Sent(e)' /\ (InStep => Fits(e)) /\ \A f : Sent(f) => Follows(f, e)
    BY <2>1, <2>2 DEF Sent, Fits, Follows
  <2>4. ran' \in 0..Total /\ at' # "sent" /\ at' # "step" /\ e.type # "done"
    BY <1>1, <2>1, <2>2
  <2> QED BY <2>1, <2>2, <2>3, <2>4, SendStep
<1> QED BY <1>2, <1>3, <1>4, <1>5, <1>6, CommitStep DEF Server

LEMMA BreaksStep ==
  ASSUME Setting, IInv, Breaks
  PROVE  IInv'
<1>1. /\ up' = FALSE /\ wire' = << >> /\ UNCHANGED <<server, buffer, shown, seen, told>>
      /\ wire \in Seq(Token) /\ buffer \in Seq(Token) /\ up \in BOOLEAN
  BY DEF Breaks, IInv, Types
<1>2. Types'
  BY <1>1, EmptySeq DEF IInv, Types, server, shown
<1>3. Finished' = Finished
  BY <1>1 DEF Finished, Progress!Finished, shown
<1>4. Ended'
  BY <1>1, <1>3 DEF IInv, Ended, RanOut, server, shown
<1>5. PICK es \in Seq(Event) : Framed(buffer \o wire, up, es) /\ Flow(es)
  BY DEF IInv, UnderWay
<1>6. Framed(buffer' \o wire', up', es)
  <2>1. buffer' \o wire' = buffer
    BY <1>1, ConcatEmptySeq
  <2>2. Framed(buffer, FALSE, es)
    <3>1. Framed(buffer \o wire, FALSE, es)
      BY <1>5 DEF Framed
    <3> QED BY <1>1, <3>1, FramedPrefix
  <2> QED BY <1>1, <2>1, <2>2
<1>7. Flow(es)'
  <2>1. ASSUME NEW f PROVE Fits(f)' <=> Fits(f)
    BY <1>1, <1>3 DEF Fits, shown
  <2> QED BY <1>1, <1>5, <2>1 DEF Flow, RanOut, server
<1> QED BY <1>2, <1>4, <1>6, <1>7 DEF IInv, UnderWay

LEMMA ReadStep ==
  ASSUME Setting, IInv, Read
  PROVE  IInv'
<1>1. PICK n \in DOMAIN wire :
        /\ buffer' = buffer \o SubSeq(wire, 1, n)
        /\ wire' = SubSeq(wire, n + 1, Len(wire))
  BY DEF Read
<1>2. /\ UNCHANGED <<server, up, shown, seen, told>> /\ n \in 1..Len(wire)
      /\ wire \in Seq(Token) /\ buffer \in Seq(Token)
  BY DEF Read, IInv, Types
<1>3. /\ buffer' \in Seq(Token) /\ wire' \in Seq(Token)
      /\ buffer' \o wire' = buffer \o wire
  BY <1>1, <1>2, PieceMoves
<1>4. Types'
  BY <1>2, <1>3 DEF IInv, Types, server, shown
<1>5. Finished' = Finished
  BY <1>2 DEF Finished, Progress!Finished, shown
<1>6. Ended'
  BY <1>2, <1>5 DEF IInv, Ended, RanOut, server, shown
<1>7. PICK es \in Seq(Event) : Framed(buffer \o wire, up, es) /\ Flow(es)
  BY DEF IInv, UnderWay
<1>8. Flow(es)'
  <2>1. ASSUME NEW f PROVE Fits(f)' <=> Fits(f)
    BY <1>2, <1>5 DEF Fits, shown
  <2>2. InStep' <=> InStep
    BY <1>2, <1>5 DEF InStep, server, shown
  <2>3. ASSUME NEW f PROVE Sent(f)' <=> Sent(f)
    BY <1>2 DEF Sent, server
  <2> QED BY <1>2, <1>7, <2>1, <2>2, <2>3 DEF Flow, RanOut, server
<1>9. Framed(buffer' \o wire', up', es)
  BY <1>2, <1>3, <1>7
<1> QED BY <1>4, <1>6, <1>8, <1>9 DEF IInv, UnderWay

(* The browser shows an event that fits: what may come after the event fits *)
(* what is shown then, and a step of the progress was taken, or none.       *)
LEMMA ShowStep ==
  ASSUME Setting, Types, Ended, NEW e \in Event, Fits(e), e.type = "done" => RanOut,
         told = "nothing", StepShown(e) \/ Ending(e), UNCHANGED server
  PROVE  /\ index' \in 0..Total /\ status' \in {"pending", "running", "passed", "failed"}
         /\ seen' \in BOOLEAN /\ told' \in {"nothing", "done", "error"}
         /\ Ended'
         /\ \A f \in Event : Follows(e, f) => Fits(f)'
         /\ Sent(e) => InStep'
         /\ [Progress!Next]_(Progress!vars)
<1>1. /\ e.type \in {"run_started", "done", "error", "step_started", "step_finished"}
      /\ e.type \in {"step_started", "step_finished"} => e.step \in 0..(Total - 1)
      /\ e.type = "step_finished" => e.status \in {"passed", "failed"}
  BY EventFacts DEF Setting
<1>2. /\ index \in 0..Total /\ status \in {"pending", "running", "passed", "failed"}
      /\ seen \in BOOLEAN /\ told = "nothing" /\ Total \in Nat
      /\ seen => RanOut /\ status # "running" /\ Finished = Total
      /\ RanOut => ran = Total
      /\ at = "step" => ran < Total
      /\ at = "ready" => ran = 0
      /\ ran' = ran /\ at' = at
  BY DEF Types, Ended, Setting, RanOut, server
<1>3. CASE e.type = "step_started"
  <2>1. index' = e.step /\ status' = "running" /\ seen' = seen /\ told' = told
    BY <1>3 DEF StepShown, Ending
  <2>2. status # "running" /\ e.step = Finished
    BY <1>3 DEF Fits, NextOf
  <2>3. Finished < Total /\ ~ seen
    BY <1>1, <1>2, <1>3, <2>2
  <2>4. Ended'
    BY <1>2, <2>1, <2>3 DEF Ended, RanOut
  <2>5. ASSUME NEW f, Follows(e, f) PROVE Fits(f)'
    BY <1>3, <2>1, <2>5 DEF Follows, Fits
  <2>6. Sent(e) => InStep'
    BY <1>2, <1>3, <2>1 DEF Sent, InStep
  <2>7. Progress!Start
    BY <1>2, <2>1, <2>2, <2>3 DEF Progress!Start, Finished
  <2>8. index' \in 0..Total
    BY <1>1, <1>2, <1>3, <2>1
  <2> QED BY <1>2, <2>1, <2>4, <2>5, <2>6, <2>7, <2>8 DEF Progress!Next
<1>4. CASE e.type = "step_finished"
  <2>1. index' = e.step /\ status' = e.status /\ seen' = seen /\ told' = told
    BY <1>4 DEF StepShown, Ending
  <2>2. status = "running" /\ e.step = index
    BY <1>4 DEF Fits, NextOf
  <2>3. ~ seen
    BY <1>2, <2>2
  <2>4. Finished' = e.step + 1 /\ status' # "running" /\ DoneBy(e) = e.step + 1
    BY <1>1, <1>4, <2>1 DEF Finished, Progress!Finished, DoneBy
  <2>5. Ended'
    BY <1>2, <2>1, <2>3 DEF Ended, RanOut
  <2>6. ASSUME NEW f, Follows(e, f) PROVE Fits(f)'
    BY <1>4, <2>1, <2>4, <2>6 DEF Follows, Fits
  <2>7. Sent(e) => InStep'
    BY <1>2, <1>4, <2>1, <2>4 DEF Sent, InStep
  <2>8. Progress!Finish
    BY <1>1, <1>2, <1>4, <2>1, <2>2 DEF Progress!Finish
  <2>9. index' \in 0..Total
    BY <1>1, <1>2, <1>4, <2>1
  <2> QED BY <1>1, <1>2, <1>4, <2>1, <2>5, <2>6, <2>7, <2>8, <2>9 DEF Progress!Next
<1>5. CASE e.type \in {"run_started", "done", "error"}
  <2>1. /\ seen' = (seen \/ e.type = "done")
        /\ told' = IF e.type = "error" THEN "error" ELSE told
        /\ index' = index /\ status' = status
    BY <1>5 DEF StepShown, Ending, shown
  <2>2. Finished' = Finished
    BY <2>1 DEF Finished, Progress!Finished
  <2>3. e.type = "done" => status # "running" /\ Finished = Total
    BY DEF Fits, NextOf
  <2>4. Ended'
    BY <1>2, <2>1, <2>2, <2>3 DEF Ended, RanOut
  <2>5. e.type = "run_started" => index = 0 /\ status = "pending" /\ Finished = 0 /\ DoneBy(e) = 0
    BY DEF Fits, NextOf, Finished, Progress!Finished, DoneBy
  <2>6. ASSUME NEW f, Follows(e, f) PROVE Fits(f)'
    BY <1>5, <2>1, <2>2, <2>5, <2>6 DEF Follows, Fits
  <2>7. Sent(e) => InStep'
    BY <1>2, <1>5, <2>1, <2>2, <2>5 DEF Sent, InStep
  <2>8. Progress!End \/ UNCHANGED Progress!vars
    BY <1>2, <2>1 DEF Progress!End, Progress!vars
  <2> QED BY <1>2, <2>1, <2>4, <2>6, <2>7, <2>8 DEF Progress!Next
<1> QED BY <1>1, <1>3, <1>4, <1>5

(* The first frame that is read is the first event under way. *)
LEMMA HandleStep ==
  ASSUME Setting, IInv, Handle
  PROVE  IInv' /\ [Progress!Next]_(Progress!vars)
<1>1. /\ UNCHANGED <<server, wire, up>> /\ told = "nothing" /\ Ends(buffer) # {}
      /\ wire \in Seq(Token) /\ buffer \in Seq(Token) /\ up \in BOOLEAN /\ Types /\ Ended
  BY DEF Handle, IInv, Types
<1>2. PICK es \in Seq(Event) : Framed(buffer \o wire, up, es) /\ Flow(es)
  BY DEF IInv, UnderWay
<1>3. Framed(buffer, FALSE, es)
  <2>1. Framed(buffer \o wire, FALSE, es)
    BY <1>2 DEF Framed
  <2> QED BY <1>1, <2>1, FramedPrefix
<1>4. /\ Len(buffer) >= 4 /\ Min(Ends(buffer)) = 4
      /\ EventsIn(SubSeq(buffer, 1, 4)) = {es[1]}
  BY <1>1, <1>3, FirstFrame
<1>5. /\ buffer' = SubSeq(buffer, 5, Len(buffer))
      /\ StepShown(es[1]) \/ Ending(es[1])
  <2>1. buffer' = SubSeq(buffer, 4 + 1, Len(buffer)) /\ Parse(SubSeq(buffer, 1, 4))
    BY <1>4 DEF Handle
  <2> QED BY <1>4, <2>1 DEF Parse
<1> DEFINE fs == Tail(es)
<1>6. /\ es # << >> /\ fs \in Seq(Event) /\ buffer' \in Seq(Token)
      /\ Framed(buffer' \o wire', up', fs)
  <2>1. Framed(buffer \o wire, FALSE, es) /\ (up => Framed(buffer \o wire, TRUE, es))
    BY <1>2 DEF Framed
  <2>2. /\ es # << >> /\ fs \in Seq(Event) /\ buffer' \in Seq(Token)
        /\ Framed(buffer' \o wire', FALSE, fs)
    BY <1>1, <1>4, <1>5, <2>1, FramedTail
  <2>3. up => Framed(buffer' \o wire', TRUE, fs)
    BY <1>1, <1>4, <1>5, <2>1, FramedTail
  <2>4. up' = up
    BY <1>1
  <2> HIDE DEF fs
  <2> QED BY <1>1, <2>2, <2>3, <2>4 DEF Framed
<1>7. /\ Len(es) \in Nat \ {0} /\ Len(fs) = Len(es) - 1
      /\ \A i \in 1..Len(fs) : fs[i] = es[i + 1]
      /\ \A i \in 1..Len(es) : es[i] \in Event
  BY <1>6, HeadTailProperties, EmptySeq, ElementOfSeq
<1> HIDE DEF fs
<1>8. es[1] \in Event /\ Fits(es[1]) /\ (es[1].type = "done" => RanOut)
  BY <1>2, <1>6, <1>7 DEF Flow
<1>9. /\ index' \in 0..Total /\ status' \in {"pending", "running", "passed", "failed"}
      /\ seen' \in BOOLEAN /\ told' \in {"nothing", "done", "error"}
      /\ Ended'
      /\ \A f \in Event : Follows(es[1], f) => Fits(f)'
      /\ Sent(es[1]) => InStep'
      /\ [Progress!Next]_(Progress!vars)
  BY <1>1, <1>5, <1>8, ShowStep
<1>10. Types'
  BY <1>1, <1>6, <1>9 DEF Types, server
<1>11. Flow(fs)'
  <2>1. ASSUME NEW i \in 1..(Len(fs) - 1) PROVE Follows(fs[i], fs[i + 1])
    <3>1. i \in 1..Len(fs) /\ i + 1 \in 1..Len(fs) /\ i + 1 \in 1..(Len(es) - 1)
      BY <1>7
    <3>2. fs[i] = es[i + 1] /\ fs[i + 1] = es[(i + 1) + 1]
      BY <1>7, <3>1
    <3> QED BY <1>2, <3>1, <3>2 DEF Flow
  <2>2. fs # << >> => Fits(fs[1])'
    <3>1. SUFFICES ASSUME fs # << >> PROVE Fits(fs[1])'
      OBVIOUS
    <3>2. Len(fs) \in Nat \ {0}
      BY <1>6, <3>1, EmptySeq
    <3>3. 1 \in 1..Len(fs) /\ 1 \in 1..(Len(es) - 1) /\ 1 + 1 \in 1..Len(es) /\ 1 + 1 = 2
      BY <1>7, <3>2
    <3>4. fs[1] = es[2] /\ es[2] \in Event /\ Follows(es[1], es[2])
      BY <1>2, <1>7, <3>3 DEF Flow
    <3> QED BY <1>9, <3>4
  <2>3. ASSUME NEW i \in 1..Len(fs) PROVE fs[i].type = "done" => RanOut'
    <3>1. fs[i] = es[i + 1] /\ i + 1 \in 1..Len(es)
      BY <1>7
    <3> QED BY <1>1, <1>2, <3>1 DEF Flow, RanOut, server
  <2>4. up' => IF fs = << >> THEN InStep' ELSE Sent(fs[Len(fs)])'
    <3>1. SUFFICES ASSUME up PROVE IF fs = << >> THEN InStep' ELSE Sent(fs[Len(fs)])'
      BY <1>1
    <3>2. Sent(es[Len(es)])
      BY <1>2, <1>6, <3>1 DEF Flow
    <3>3. CASE fs = << >>
      <4>1. Len(fs) = 0
        BY <3>3, EmptySeq
      <4>2. Len(es) = 1
        BY <1>7, <4>1
      <4> QED BY <1>9, <3>2, <3>3, <4>2
    <3>4. CASE fs # << >>
      <4>1. Len(fs) \in Nat \ {0}
        BY <1>6, <3>4, EmptySeq
      <4>2. Len(fs) \in 1..Len(fs) /\ Len(fs) + 1 = Len(es)
        BY <1>7, <4>1
      <4>3. fs[Len(fs)] = es[Len(es)]
        BY <1>7, <4>2
      <4> QED BY <1>1, <3>2, <3>4, <4>3 DEF Sent, server
    <3> QED BY <3>3, <3>4
  <2> QED BY <2>1, <2>2, <2>3, <2>4 DEF Flow
<1> QED BY <1>6, <1>9, <1>10, <1>11 DEF IInv, UnderWay

(* When nothing more comes, what is left is the beginning of a frame, and   *)
(* only of a connection that broke.                                         *)
LEMMA FlushStep ==
  ASSUME Setting, IInv, Flush
  PROVE  IInv' /\ [Progress!Next]_(Progress!vars)
<1>1. /\ UNCHANGED <<server, wire, up>> /\ told = "nothing" /\ Ends(buffer) = {}
      /\ wire = << >> /\ buffer # << >> /\ buffer' = << >> /\ Parse(buffer)
      /\ buffer \in Seq(Token) /\ up \in BOOLEAN /\ Types /\ Ended
  BY DEF Flush, Over, IInv, Types
<1>2. PICK es \in Seq(Event) : Framed(buffer \o wire, up, es) /\ Flow(es)
  BY DEF IInv, UnderWay
<1>3. buffer \o wire = buffer
  BY <1>1, ConcatEmptySeq
<1>4. Framed(buffer, FALSE, es) /\ Len(buffer) \in Nat \ {0} /\ Len(es) \in Nat
  BY <1>1, <1>2, <1>3, EmptySeq DEF Framed
<1>5. Len(buffer) < 4 /\ (EventsIn(buffer) # {} => Len(es) > 0 /\ EventsIn(buffer) = {es[1]})
  BY <1>1, <1>4, FirstFrame
<1>6. ~ up
  <2>1. up => Len(buffer) = 4 * Len(es)
    BY <1>2, <1>3 DEF Framed
  <2> QED BY <1>4, <1>5, <2>1
<1>7. /\ index' \in 0..Total /\ status' \in {"pending", "running", "passed", "failed"}
      /\ seen' \in BOOLEAN /\ told' \in {"nothing", "done", "error"}
      /\ Ended' /\ [Progress!Next]_(Progress!vars)
  <2>1. CASE EventsIn(buffer) # {}
    <3>1. StepShown(es[1]) \/ Ending(es[1])
      BY <1>1, <1>5, <2>1 DEF Parse
    <3>2. Len(es) > 0 /\ 1 \in 1..Len(es) /\ es # << >>
      BY <1>4, <1>5, <2>1
    <3>3. es[1] \in Event /\ Fits(es[1]) /\ (es[1].type = "done" => RanOut)
      BY <1>2, <3>2, ElementOfSeq DEF Flow
    <3> QED BY <1>1, <3>1, <3>3, ShowStep
  <2>2. CASE EventsIn(buffer) = {}
    <3>1. UNCHANGED <<shown, seen, told>>
      BY <1>1, <2>2 DEF Parse
    <3>2. Finished' = Finished
      BY <3>1 DEF Finished, Progress!Finished, shown
    <3>3. Ended'
      BY <1>1, <3>1, <3>2 DEF Ended, RanOut, server, shown
    <3> QED BY <1>1, <3>1, <3>3 DEF Types, shown, Progress!vars
  <2> QED BY <2>1, <2>2
<1>8. Types'
  BY <1>1, <1>7, EmptySeq DEF Types, server
<1>9. UnderWay'
  <2> DEFINE fs == << >>
  <2>1. fs \in Seq(Event) /\ Len(fs) = 0 /\ buffer' \o wire' = << >> /\ ~ up'
    BY <1>1, <1>6
  <2>2. Framed(buffer' \o wire', up', fs) /\ Flow(fs)'
    BY <2>1 DEF Framed, Flow
  <2> QED BY <2>1, <2>2 DEF UnderWay
<1> QED BY <1>7, <1>8, <1>9 DEF IInv

LEMMA EndStep ==
  ASSUME Setting, IInv, End
  PROVE  IInv' /\ [Progress!Next]_(Progress!vars)
<1>1. /\ UNCHANGED <<server, wire, up, buffer, shown, seen>> /\ told = "nothing"
      /\ told' = "error" \/ (told' = "done" /\ seen)
  BY DEF End, Over
<1>2. Types'
  BY <1>1 DEF IInv, Types, server, shown
<1>3. Finished' = Finished
  BY <1>1 DEF Finished, Progress!Finished, shown
<1>4. Ended'
  BY <1>1, <1>3 DEF IInv, Ended, RanOut, server, shown
<1>5. PICK es \in Seq(Event) : Framed(buffer \o wire, up, es) /\ Flow(es)
  BY DEF IInv, UnderWay
<1>6. Flow(es)'
  <2>1. ASSUME NEW f PROVE Fits(f)' <=> Fits(f)
    BY <1>1, <1>3 DEF Fits, shown
  <2>2. InStep' <=> InStep
    BY <1>1, <1>3 DEF InStep, server, shown
  <2>3. ASSUME NEW f PROVE Sent(f)' <=> Sent(f)
    BY <1>1 DEF Sent, server
  <2> QED BY <1>1, <1>5, <2>1, <2>2, <2>3 DEF Flow, RanOut, server
<1>7. Framed(buffer' \o wire', up', es)
  BY <1>1, <1>5
<1>8. Progress!End
  BY <1>1 DEF IInv, Ended, Finished, Progress!End, shown
<1> QED BY <1>2, <1>4, <1>6, <1>7, <1>8 DEF IInv, UnderWay, Progress!Next

LEMMA NextCorrect ==
  ASSUME Setting, IInv, [Next]_vars
  PROVE  IInv' /\ [Progress!Next]_(Progress!vars)
<1>1. CASE Server \/ Breaks \/ Read
  <2>1. IInv'
    BY <1>1, ServerStep, BreaksStep, ReadStep
  <2>2. UNCHANGED Progress!vars
    BY <1>1 DEF Server, RunStarted, StepStarted, StepFinished, RunDone, RunFails,
                Commits, Sends, Breaks, Read, shown, Progress!vars
  <2> QED BY <2>1, <2>2
<1>2. CASE UNCHANGED vars
  <2>1. /\ UNCHANGED <<server, wire, up, buffer, shown, seen, told>>
    BY <1>2 DEF vars
  <2>2. IInv'
    BY <2>1 DEF IInv, Types, Ended, UnderWay, Flow, Fits, InStep, Sent, Finished,
                Progress!Finished, RanOut, server, shown
  <2> QED BY <2>1, <2>2 DEF Progress!vars, shown
<1> QED BY <1>1, <1>2, HandleStep, FlushStep, EndStep DEF Next, Browser

-----------------------------------------------------------------------------
(* The text of a run (sse_stream_events, streamExecutionEvents) is at any   *)
(* time the frames of the events between what the browser shows and where   *)
(* the server is.                                                           *)
THEOREM InvariantCorrect ==
  ASSUME Setting PROVE Spec => []IInv
<1>1. Init => IInv
  BY InitCorrect
<1>2. IInv /\ [Next]_vars => IInv'
  BY NextCorrect
<1> QED BY <1>1, <1>2, PTL DEF Spec

(* The variables of the stream keep their types, however the text is cut.   *)
THEOREM TypeCorrect ==
  ASSUME Setting PROVE Spec => []TypeOK
<1>1. IInv => TypeOK
  BY DEF IInv, Types, TypeOK, Token
<1> QED BY <1>1, InvariantCorrect, PTL

(* streamExecutionEvents and consumeExecutionProgressStream implement       *)
(* RunProgress for a run of any number of steps: no cut, no loss of the     *)
(* connection and no delay makes the browser skip a step, repeat one or     *)
(* report a run as done before its last step.                               *)
THEOREM ProgressCorrect ==
  ASSUME Setting PROVE Spec => ShowsProgress
<1>1. Init => Progress!Init
  BY DEF Init, Progress!Init
<1>2. IInv /\ [Next]_vars => [Progress!Next]_(Progress!vars)
  BY NextCorrect
<1> QED BY <1>1, <1>2, InvariantCorrect, PTL DEF Spec, ShowsProgress, Progress!Spec

(* streamExecutionEvents reports a run as done only when the server ran all *)
(* of it and no step raised an exception (_iter_run_for_testcases), however *)
(* the text was cut and whenever the connection broke.  It does not say     *)
(* that the run is stored: the commit may still come or fail.               *)
THEOREM DoneIsRunCorrect ==
  ASSUME Setting PROVE Spec => []DoneIsRun
<1>1. IInv => DoneIsRun
  BY DEF IInv, Ended, RanOut, DoneIsRun
<1> QED BY <1>1, InvariantCorrect, PTL

(* When a run is reported as done, finixProgressStepState marks every step  *)
(* of it as done or failed.                                                 *)
THEOREM ShownCorrect ==
  ASSUME Setting PROVE Spec => []DoneShowsAll
<1>1. IInv => DoneShowsAll
  <2> SUFFICES ASSUME IInv, told = "done", NEW i \in 0..(Total - 1)
               PROVE  StepState(i) \in {"done", "error"}
    BY DEF DoneShowsAll
  <2>0. /\ Overall = "success" \/ i < index => StepState(i) = "done"
        /\ Overall = "error" /\ i = index => StepState(i) \in {"done", "error"}
    BY DEF StepState
  <2>1. /\ Total \in Nat /\ index \in 0..Total /\ Finished = Total
        /\ status \in {"pending", "passed", "failed"}
    BY DEF IInv, Types, Ended, Setting
  <2>2. CASE status = "passed"
    <3>1. Overall = "success"
      BY <2>2 DEF Overall
    <3> QED BY <2>0, <3>1
  <2>3. CASE status = "failed"
    <3>1. i < index \/ i = index
      BY <2>1, <2>3 DEF Finished, Progress!Finished
    <3>2. Overall = "error"
      BY <2>3 DEF Overall
    <3> QED BY <2>0, <3>1, <3>2
  <2>4. CASE status = "pending"
    <3>1. i < index
      BY <2>1, <2>4 DEF Finished, Progress!Finished
    <3> QED BY <2>0, <3>1
  <2> QED BY <2>1, <2>2, <2>3, <2>4
<1> QED BY <1>1, InvariantCorrect, PTL
=============================================================================
