-------------------------- MODULE DecoderTaskProofs --------------------------
(***************************************************************************)
(* A decoder task, for every size of a packet and of a page, every number  *)
(* of packets, every cut of them into pages, one page with the wrong flag, *)
(* and every size of the pipe and the channel.  Parts 1 to 4 are lemmas    *)
(* about the stream (OpusStream), parts 5 to 8 about the task that pulls   *)
(* it.                                                                     *)
(*                                                                         *)
(* Part 1: how the segments of all packets lie one behind the other.       *)
(* FlattenSeq is a recursive function, and what it computes is shown by    *)
(* induction on the number of packets, in the form of a least counter-     *)
(* example.  Part 2: the stream's invariant.  That a packet is never put   *)
(* together from the pieces of two needs where in the media the reader is, *)
(* that what it has collected ends there and starts where a packet starts, *)
(* and that it is only lost within a packet if the one wrong flag is       *)
(* behind it.  Part 3: every action of the stream keeps it.  Part 4: it    *)
(* holds at first, and what it says of the frames and of what was read     *)
(* ahead.                                                                  *)
(*                                                                         *)
(* Part 5: the task's invariant.  The frames that the worker has received, *)
(* those in the channel and the one that is being sent are the frames that *)
(* the stream has returned, in order (Handed).  So what the stream's       *)
(* invariant says of its frames, and of the frames it may report an end    *)
(* behind, holds at the other end of the channel.  Part 6: every action    *)
(* keeps it.  Part 7: the theorems.  Part 8: the task implements           *)
(* FrameStream.                                                            *)
(***************************************************************************)
EXTENDS DecoderTask, SequenceTheorems, WellFoundedInduction, TLAPS

------------------------------------------------------------------------------
(* Part 1: the media *)

(* Induction, for a set of numbers. *)
LEMMA Induction ==
  ASSUME NEW A, 0 \in A, \A m \in Nat : m \in A => m + 1 \in A
  PROVE  Nat \subseteq A
<1> SUFFICES ASSUME Nat \ A # {} PROVE FALSE
  OBVIOUS
<1>1. PICK m \in Nat \ A : \A k \in Nat \ A : ~ (<< k, m >> \in OpToRel(<, Nat))
  <2>1. IsWellFoundedOn(OpToRel(<, Nat), Nat)
    BY NatLessThanWellFounded
  <2>2. Nat \ A \subseteq Nat
    OBVIOUS
  <2> QED BY <2>1, <2>2, WFMin
<1>2. m \in Nat /\ m # 0
  OBVIOUS
<1>3. m - 1 \in Nat /\ m - 1 < m /\ (m - 1) + 1 = m
  BY <1>2
<1>4. << m - 1, m >> \in OpToRel(<, Nat)
  BY <1>2, <1>3 DEF OpToRel
<1> QED BY <1>1, <1>3, <1>4

(* The partial results of flattening ss. *)
Joins(ss, m, g) ==
  g = [i \in 1 .. m |-> IF i = 1 THEN ss[i] ELSE g[i - 1] \o ss[i]]

(* One more result, *)
LEMMA JoinsNext ==
  ASSUME NEW ss, NEW m \in Nat, NEW g, Joins(ss, m, g)
  PROVE  \E h : Joins(ss, m + 1, h)
<1> DEFINE Step(x, i) == IF i = 1 THEN ss[i] ELSE x \o ss[i]
           e == Step(g[m], m + 1)
           h == [i \in 1 .. m + 1 |-> IF i = m + 1 THEN e ELSE g[i]]
           h2 == [i \in 1 .. m + 1 |-> Step(h[i - 1], i)]
<1>1. \A i \in 1 .. m : g[i] = Step(g[i - 1], i)
  <2>1. g = [i \in 1 .. m |-> Step(g[i - 1], i)]
    BY DEF Joins
  <2> HIDE DEF Step
  <2> QED BY <2>1
<1> HIDE DEF e
<1>2. ASSUME NEW i \in 1 .. m + 1
      PROVE  h[i] = Step(h[i - 1], i)
  <2>1. CASE i = 1
    <3>1. h[1] = ss[1]
      <4>1. CASE m = 0
        BY <4>1 DEF e
      <4>2. CASE m # 0
        BY <1>1, <4>2
      <4> QED BY <4>1, <4>2
    <3> QED BY <2>1, <3>1
  <2>2. CASE i # 1
    <3>1. i - 1 \in 1 .. m + 1 /\ i - 1 # m + 1
      BY <2>2
    <3>2. h[i - 1] = g[i - 1]
      BY <3>1
    <3>3. CASE i = m + 1
      <4>1. i - 1 = m
        BY <3>3
      <4>2. h[i] = e
        BY <3>3
      <4> HIDE DEF h, Step
      <4> QED BY <3>2, <3>3, <4>1, <4>2 DEF e
    <3>4. CASE i # m + 1
      <4>1. h[i] = g[i] /\ i \in 1 .. m
        BY <3>4
      <4> HIDE DEF h, Step
      <4> QED BY <1>1, <3>2, <4>1
    <3> QED BY <3>3, <3>4
  <2> QED BY <2>1, <2>2
<1>3. h = [i \in 1 .. m + 1 |-> h[i]]
  OBVIOUS
<1>4. h = h2
  <2> HIDE DEF h, Step
  <2> QED BY <1>2, <1>3
<1>5. Joins(ss, m + 1, h)
  <2> HIDE DEF h
  <2> QED BY <1>4 DEF Joins
<1> HIDE DEF h
<1> QED BY <1>5

(* hence any number of them; *)
LEMMA JoinsExist ==
  ASSUME NEW ss, NEW n \in Nat
  PROVE  \E g : Joins(ss, n, g)
<1> DEFINE A == {m \in Nat : \E g : Joins(ss, m, g)}
<1>1. 0 \in A
  <2>1. Joins(ss, 0, << >>)
    BY DEF Joins
  <2> QED BY <2>1
<1>2. \A m \in Nat : m \in A => m + 1 \in A
  BY JoinsNext
<1>3. Nat \subseteq A
  <2> HIDE DEF A
  <2> QED BY <1>1, <1>2, Induction
<1> QED BY <1>3

(* the last one is what FlattenSeq computes. *)
LEMMA FlattenIs ==
  ASSUME NEW ss, NEW n \in Nat \ {0}, Len(ss) = n
  PROVE  \E g : Joins(ss, n, g) /\ FlattenSeq(ss) = g[n]
<1> DEFINE Def(f) == [i \in 1 .. n |-> IF i = 1 THEN ss[i] ELSE f[i - 1] \o ss[i]]
           F == CHOOSE x : x = Def(x)
<1>1. PICK f : f = Def(f)
  BY JoinsExist DEF Joins
<1>2. F = Def(F)
  <2> HIDE DEF Def
  <2> QED BY <1>1
<1>3. FlattenSeq(ss) = F[n]
  BY DEF FlattenSeq
<1> HIDE DEF F
<1>4. Joins(ss, n, F)
  BY <1>2 DEF Joins
<1> QED BY <1>3, <1>4

Size(n) == packets[n].segments
Pieces == [packet : DOMAIN packets, last : BOOLEAN]
Piece(n, k) == [packet |-> n, last |-> k = Size(n)]

(* The n-th packet ends at off[n]. *)
Laid(off) ==
  /\ off \in [0 .. Len(packets) -> Nat] /\ off[0] = 0
  /\ \A n \in 1 .. Len(packets) : off[n] = off[n - 1] + Size(n)
  /\ \A m, n \in 0 .. Len(packets) : m <= n => off[m] <= off[n]
  /\ Media \in Seq(Pieces) /\ Len(Media) = off[Len(packets)]
  /\ \A n \in 1 .. Len(packets) : \A k \in 1 .. Size(n) :
       Media[off[n - 1] + k] = Piece(n, k)
  /\ \A i \in 1 .. Len(Media) :
       \E n \in 1 .. Len(packets) : \E k \in 1 .. Size(n) : i = off[n - 1] + k

(* The first n packets, one behind the other. *)
Row(n, s, off) ==
  /\ s \in Seq(Pieces) /\ Len(s) = off[n]
  /\ \A m \in 1 .. n : \A k \in 1 .. Size(m) :
       off[m - 1] + k <= off[n] /\ s[off[m - 1] + k] = Piece(m, k)
  /\ \A i \in 1 .. off[n] :
       \E m \in 1 .. n : \E k \in 1 .. Size(m) : i = off[m - 1] + k

LEMMA PacketFacts ==
  ASSUME packets \in Seq(PacketKinds)
  PROVE  /\ Len(packets) \in Nat /\ DOMAIN packets = 1 .. Len(packets)
         /\ \A n \in 1 .. Len(packets) : Size(n) \in Nat \ {0}
<1>1. Len(packets) \in Nat /\ DOMAIN packets = 1 .. Len(packets)
  BY LenProperties
<1>2. ASSUME NEW n \in 1 .. Len(packets) PROVE Size(n) \in Nat \ {0}
  <2>1. packets[n] \in PacketKinds
    BY ElementOfSeq
  <2>2. MaxPacket \in Nat
    BY BoundAssumption
  <2> QED BY <2>1, <2>2 DEF PacketKinds, Size
<1> QED BY <1>1, <1>2

LEMMA SegmentIs ==
  ASSUME packets \in Seq(PacketKinds),
         NEW n \in 1 .. Len(packets)
  PROVE  /\ Segment(n, Size(n)) \in Seq(Pieces) /\ Len(Segment(n, Size(n))) = Size(n)
         /\ \A k \in 1 .. Size(n) : Segment(n, Size(n))[k] = Piece(n, k)
<1>1. Size(n) \in Nat /\ n \in DOMAIN packets
  BY PacketFacts
<1>2. Segment(n, Size(n)) \in [1 .. Size(n) -> Pieces]
  BY <1>1 DEF Segment, Pieces
<1>3. Segment(n, Size(n)) \in Seq(Pieces)
  BY <1>1, <1>2, SeqDef
<1>4. Len(Segment(n, Size(n))) = Size(n)
  BY <1>1, <1>2, <1>3
<1> QED BY <1>3, <1>4 DEF Segment, Piece

(* A packet more behind the first n - 1. *)
LEMMA RowNext ==
  ASSUME packets \in Seq(PacketKinds),
         NEW n \in 1 .. Len(packets), NEW s, NEW off,
         off[n - 1] \in Nat, \A m \in 1 .. n - 1 : off[m - 1] \in Nat,
         off[n] = off[n - 1] + Size(n), Row(n - 1, s, off)
  PROVE  Row(n, s \o Segment(n, Size(n)), off)
<1> DEFINE t == Segment(n, Size(n))
<1>1. /\ t \in Seq(Pieces) /\ Len(t) = Size(n) /\ Size(n) \in Nat \ {0}
      /\ \A k \in 1 .. Size(n) : t[k] = Piece(n, k)
      /\ Len(packets) \in Nat
      /\ \A m \in 1 .. n - 1 : Size(m) \in Nat
  <2>1. /\ t \in Seq(Pieces) /\ Len(t) = Size(n)
        /\ \A k \in 1 .. Size(n) : t[k] = Piece(n, k)
    BY SegmentIs
  <2>2. Len(packets) \in Nat /\ \A m \in 1 .. Len(packets) : Size(m) \in Nat \ {0}
    BY PacketFacts
  <2>3. \A m \in 1 .. n - 1 : m \in 1 .. Len(packets)
    BY <2>2
  <2> HIDE DEF t
  <2> QED BY <2>1, <2>2, <2>3
<1> HIDE DEF t
<1>2. /\ s \in Seq(Pieces) /\ Len(s) = off[n - 1]
      /\ \A m \in 1 .. n - 1 : \A k \in 1 .. Size(m) :
           off[m - 1] + k <= off[n - 1] /\ s[off[m - 1] + k] = Piece(m, k)
      /\ \A i \in 1 .. off[n - 1] :
           \E m \in 1 .. n - 1 : \E k \in 1 .. Size(m) : i = off[m - 1] + k
  BY DEF Row
<1>3. /\ s \o t \in Seq(Pieces) /\ Len(s \o t) = off[n]
      /\ \A i \in 1 .. off[n] :
           (s \o t)[i] = IF i <= off[n - 1] THEN s[i] ELSE t[i - off[n - 1]]
  <2>1. Len(s) + Len(t) = off[n]
    BY <1>1, <1>2
  <2>2. /\ s \o t \in Seq(Pieces) /\ Len(s \o t) = Len(s) + Len(t)
        /\ \A i \in 1 .. Len(s) + Len(t) :
             (s \o t)[i] = IF i <= Len(s) THEN s[i] ELSE t[i - Len(s)]
    BY <1>1, <1>2, ConcatProperties
  <2> QED BY <1>2, <2>1, <2>2
<1>4. ASSUME NEW m \in 1 .. n, NEW k \in 1 .. Size(m)
      PROVE  off[m - 1] + k <= off[n] /\ (s \o t)[off[m - 1] + k] = Piece(m, k)
  <2>1. CASE m = n
    <3> DEFINE a == off[n - 1]
    <3>0. a \in Nat /\ off[n] = a + Size(n) /\ k \in 1 .. Size(n)
      BY <2>1
    <3>1. a + k \in 1 .. off[n] /\ ~ (a + k <= a) /\ a + k - a = k
      <4> HIDE DEF a
      <4> QED BY <1>1, <3>0
    <3> DEFINE u == s \o t
    <3>2. \A i \in 1 .. off[n] : ~ (i <= a) => u[i] = t[i - a]
      BY <1>3
    <3> HIDE DEF a, u
    <3>3. ~ (a + k <= a) => u[a + k] = t[a + k - a]
      BY <1>1, <3>0, <3>1, <3>2
    <3>4. u[a + k] = t[k]
      BY <3>1, <3>3
    <3> QED BY <1>1, <2>1, <3>1, <3>4 DEF a, u
  <2>2. CASE m # n
    <3>1. m \in 1 .. n - 1
      BY <2>2
    <3>2. off[m - 1] + k <= off[n - 1] /\ s[off[m - 1] + k] = Piece(m, k)
      BY <1>2, <3>1
    <3>3. off[m - 1] + k \in 1 .. off[n]
      BY <1>1, <3>1, <3>2
    <3> QED BY <1>3, <3>2, <3>3
  <2> QED BY <2>1, <2>2
<1>5. ASSUME NEW i \in 1 .. off[n]
      PROVE  \E m \in 1 .. n : \E k \in 1 .. Size(m) : i = off[m - 1] + k
  <2>1. CASE i \in 1 .. off[n - 1]
    <3>1. PICK m \in 1 .. n - 1 : \E k \in 1 .. Size(m) : i = off[m - 1] + k
      BY <1>2, <2>1
    <3>2. m \in 1 .. n
      OBVIOUS
    <3> QED BY <3>1, <3>2
  <2>2. CASE i \notin 1 .. off[n - 1]
    <3>1. i - off[n - 1] \in 1 .. Size(n) /\ i = off[n - 1] + (i - off[n - 1])
      BY <1>1, <2>2
    <3>2. n \in 1 .. n
      OBVIOUS
    <3> QED BY <3>1, <3>2
  <2> QED BY <2>1, <2>2
<1> QED BY <1>3, <1>4, <1>5 DEF Row, t

LEMMA MediaLaid ==
  ASSUME packets \in Seq(PacketKinds)
  PROVE  \E off : Laid(off)
<1> DEFINE N == Len(packets)
           ss == [n \in DOMAIN packets |-> Segment(n, packets[n].segments)]
<1>1. /\ N \in Nat /\ DOMAIN packets = 1 .. N
      /\ \A n \in 1 .. N : Size(n) \in Nat \ {0}
  BY PacketFacts
<1>2. /\ Len(ss) = N /\ Media = FlattenSeq(ss)
      /\ \A n \in 1 .. N : ss[n] = Segment(n, Size(n))
  <2>1. DOMAIN ss = 1 .. N
    BY <1>1
  <2> QED BY <1>1, <2>1 DEF Media, Size
<1>3. CASE N = 0
  <2> DEFINE off == [n \in 0 .. 0 |-> 0]
  <2>1. Media = << >>
    BY <1>1, <1>2, <1>3 DEF FlattenSeq
  <2>2. Media \in Seq(Pieces) /\ Len(Media) = 0
    BY <2>1
  <2>3. Laid(off)
    BY <1>1, <1>3, <2>2 DEF Laid
  <2> HIDE DEF off
  <2> QED BY <2>3
<1>4. CASE N # 0
  <2> HIDE DEF ss
  <2>1. PICK g : Joins(ss, N, g) /\ FlattenSeq(ss) = g[N]
    BY <1>1, <1>2, <1>4, FlattenIs
  <2> DEFINE row == [n \in 0 .. N |-> IF n = 0 THEN << >> ELSE g[n]]
             off == [n \in 0 .. N |-> Len(row[n])]
  <2>2. ASSUME NEW n \in 0 .. N - 1, row[n] \in Seq(Pieces)
        PROVE  row[n + 1] = row[n] \o Segment(n + 1, Size(n + 1))
    <3>1. n + 1 \in 1 .. N /\ n \in 0 .. N /\ n + 1 \in 0 .. N /\ n + 1 # 0
      BY <1>1
    <3>2. g[n + 1] = IF n + 1 = 1 THEN ss[n + 1] ELSE g[n + 1 - 1] \o ss[n + 1]
      <4> DEFINE e(i) == IF i = 1 THEN ss[i] ELSE g[i - 1] \o ss[i]
      <4>1. g = [i \in 1 .. N |-> e(i)]
        BY <2>1 DEF Joins
      <4> HIDE DEF e
      <4>2. g[n + 1] = e(n + 1)
        BY <3>1, <4>1
      <4> QED BY <4>2 DEF e
    <3>3. row[n + 1] = g[n + 1] /\ ss[n + 1] = Segment(n + 1, Size(n + 1))
      BY <1>2, <3>1
    <3>4. CASE n = 0
      <4>1. row[n] = << >> /\ Segment(n + 1, Size(n + 1)) \in Seq(Pieces)
        BY <3>1, <3>4, SegmentIs
      <4>2. << >> \o Segment(n + 1, Size(n + 1)) = Segment(n + 1, Size(n + 1))
        BY <4>1, ConcatEmptySeq
      <4> QED BY <3>2, <3>3, <3>4, <4>1, <4>2
    <3>5. CASE n # 0
      <4>1. row[n] = g[n] /\ n + 1 - 1 = n /\ n + 1 # 1
        BY <3>1, <3>5
      <4> HIDE DEF row
      <4> QED BY <3>2, <3>3, <4>1
    <3> QED BY <3>4, <3>5
  <2>3. \A n \in 0 .. N : off[n] = Len(row[n])
    OBVIOUS
  <2>4. row[0] = << >> /\ row[N] = Media /\ off \in [0 .. N -> {off[n] : n \in 0 .. N}]
    BY <1>1, <1>2, <1>4, <2>1
  <2> HIDE DEF row, off
  <2> DEFINE Good(n) == /\ Row(n, row[n], off)
                        /\ \A m \in 0 .. n : off[m] \in Nat /\ off[m] <= off[n]
             A == {n \in Nat : n \in 0 .. N => Good(n)}
  <2>5. Good(0)
    <3>1. off[0] = 0 /\ << >> \in Seq(Pieces) /\ Len(<< >>) = 0
      BY <1>1, <2>3, <2>4
    <3> QED BY <2>4, <3>1 DEF Row
  <2>6. ASSUME NEW n \in 0 .. N - 1, Good(n)
        PROVE  Good(n + 1) /\ off[n + 1] = off[n] + Size(n + 1)
    <3>1. /\ row[n] \in Seq(Pieces) /\ n + 1 \in 1 .. N /\ n + 1 - 1 = n
          /\ n \in 0 .. N /\ n + 1 \in 0 .. N
      BY <1>1, <2>6 DEF Row
    <3>2. row[n + 1] = row[n] \o Segment(n + 1, Size(n + 1))
      BY <2>2, <3>1
    <3>3. /\ Segment(n + 1, Size(n + 1)) \in Seq(Pieces)
          /\ Len(Segment(n + 1, Size(n + 1))) = Size(n + 1)
      BY <3>1, SegmentIs
    <3>4. Len(row[n + 1]) = Len(row[n]) + Size(n + 1)
      <4> DEFINE s == row[n]
                 t == Segment(n + 1, Size(n + 1))
      <4>1. s \in Seq(Pieces) /\ t \in Seq(Pieces) /\ Len(t) = Size(n + 1)
        BY <3>1, <3>3
      <4> HIDE DEF s, t
      <4>2. Len(s \o t) = Len(s) + Len(t)
        BY <4>1, ConcatProperties
      <4> QED BY <3>2, <4>1, <4>2 DEF s, t
    <3>5. off[n + 1] = off[n] + Size(n + 1)
      BY <2>3, <3>1, <3>4
    <3>6. off[n] \in Nat /\ \A m \in 1 .. n : off[m - 1] \in Nat
      <4>1. n \in 0 .. n /\ \A m \in 1 .. n : m - 1 \in 0 .. n
        OBVIOUS
      <4> QED BY <2>6, <4>1
    <3>7. Row(n + 1, row[n + 1], off)
      <4> DEFINE k == n + 1
                 s == row[n]
      <4>1. /\ k - 1 = n /\ k = n + 1 /\ k \in 1 .. Len(packets)
            /\ Row(n, s, off) /\ row[k] = s \o Segment(k, Size(k))
        BY <2>6, <3>1, <3>2
      <4> HIDE DEF k, s
      <4>2. /\ Row(k - 1, s, off) /\ off[k - 1] \in Nat
            /\ \A m \in 1 .. k - 1 : off[m - 1] \in Nat
            /\ off[k] = off[k - 1] + Size(k)
        BY <3>5, <3>6, <4>1
      <4>3. Row(k, s \o Segment(k, Size(k)), off)
        BY <4>1, <4>2, RowNext
      <4> QED BY <4>1, <4>3
    <3>8. Size(n + 1) \in Nat
      BY <1>1, <3>1
    <3>9. \A m \in 0 .. n + 1 : off[m] \in Nat /\ off[m] <= off[n + 1]
      <4> TAKE m \in 0 .. n + 1
      <4>1. CASE m = n + 1
        BY <3>5, <3>6, <3>8, <4>1
      <4>2. CASE m # n + 1
        <5>1. m \in 0 .. n
          BY <4>2
        <5>2. off[m] \in Nat /\ off[m] <= off[n]
          BY <2>6, <5>1
        <5> QED BY <3>5, <3>6, <3>8, <5>2
      <4> QED BY <4>1, <4>2
    <3> QED BY <3>5, <3>7, <3>9
  <2>7. \A n \in 0 .. N : Good(n)
    <3> HIDE DEF Good
    <3>1. 0 \in A
      BY <2>5
    <3>2. ASSUME NEW n \in Nat, n \in A PROVE n + 1 \in A
      <4>1. CASE n + 1 \in 0 .. N
        <5>1. n \in 0 .. N - 1 /\ n \in 0 .. N
          BY <1>1, <4>1
        <5> QED BY <2>6, <3>2, <5>1
      <4>2. CASE n + 1 \notin 0 .. N
        BY <4>2
      <4> QED BY <4>1, <4>2
    <3> HIDE DEF A
    <3>3. Nat \subseteq A
      BY <3>1, <3>2, Induction
    <3>4. \A n \in 0 .. N : n \in A
      BY <1>1, <3>3
    <3> QED BY <3>4 DEF A
  <2>8. \A n \in 1 .. N : off[n] = off[n - 1] + Size(n)
    <3> HIDE DEF Good
    <3> TAKE n \in 1 .. N
    <3>1. n - 1 \in 0 .. N - 1 /\ n - 1 \in 0 .. N /\ n - 1 + 1 = n
      BY <1>1
    <3>2. off[n - 1 + 1] = off[n - 1] + Size(n - 1 + 1)
      BY <2>6, <2>7, <3>1
    <3> QED BY <3>1, <3>2
  <2>9. \A m, n \in 0 .. N : off[m] \in Nat /\ (m <= n => off[m] <= off[n])
    <3> TAKE m, n \in 0 .. N
    <3>1. m \in 0 .. m /\ (m <= n => m \in 0 .. n)
      OBVIOUS
    <3> QED BY <2>7, <3>1
  <2>10. Row(N, Media, off) /\ off[0] = 0
    <3>1. N \in 0 .. N /\ 0 \in 0 .. N
      BY <1>1
    <3>2. off[0] = 0
      BY <2>3, <2>4, <3>1
    <3> QED BY <2>4, <2>7, <3>1, <3>2
  <2>11. off \in [0 .. N -> Nat]
    BY <2>4, <2>9
  <2> HIDE DEF Good, A, N
  <2>12. Laid(off)
    BY <2>8, <2>9, <2>10, <2>11 DEF Row, Laid, N
  <2> QED BY <2>12
<1> QED BY <1>3, <1>4

(* A packet ends behind the first r segments, or there are none. *)
Boundary(r) == r = 0 \/ Media[r].last

(* The packets that end within the first r segments. *)
Completed(r) == {Media[i].packet : i \in {j \in 1 .. r : Media[j].last}}

LEMMA PieceAt ==
  ASSUME packets \in Seq(PacketKinds), NEW off, Laid(off),
         NEW i \in 1 .. Len(Media)
  PROVE  LET n == Media[i].packet
         IN  /\ n \in 1 .. Len(packets)
             /\ off[n - 1] \in Nat /\ off[n] \in Nat
             /\ off[n - 1] < i /\ i <= off[n]
             /\ Media[i].last = (i = off[n])
<1>1. PICK n \in 1 .. Len(packets) : \E k \in 1 .. Size(n) : i = off[n - 1] + k
  BY DEF Laid
<1>2. PICK k \in 1 .. Size(n) : i = off[n - 1] + k
  BY <1>1
<1>3. Media[i] = Piece(n, k)
  BY <1>2 DEF Laid
<1>4. Media[i].packet = n /\ Media[i].last = (k = Size(n))
  BY <1>3 DEF Piece
<1>5. /\ Len(packets) \in Nat /\ Size(n) \in Nat
      /\ n - 1 \in 0 .. Len(packets) /\ n \in 0 .. Len(packets)
  BY PacketFacts
<1>6. off[n - 1] \in Nat /\ off[n] \in Nat /\ off[n] = off[n - 1] + Size(n)
  BY <1>5 DEF Laid
<1>7. off[n - 1] < i /\ i <= off[n] /\ (k = Size(n) <=> i = off[n])
  BY <1>2, <1>5, <1>6
<1> QED BY <1>4, <1>6, <1>7

(* Packets end exactly at the offsets. *)
LEMMA BoundaryIs ==
  ASSUME packets \in Seq(PacketKinds), NEW off, Laid(off),
         NEW r \in 0 .. Len(Media)
  PROVE  Boundary(r) <=> \E n \in 0 .. Len(packets) : r = off[n]
<1>1. Len(packets) \in Nat /\ Len(Media) \in Nat
  BY PacketFacts, LenProperties DEF Laid
<1>2. CASE r = 0
  <2>1. off[0] = 0 /\ 0 \in 0 .. Len(packets)
    BY <1>1 DEF Laid
  <2> QED BY <1>2, <2>1 DEF Boundary
<1>3. CASE r # 0
  <2> DEFINE m == Media[r].packet
  <2>1. /\ m \in 1 .. Len(packets) /\ off[m - 1] \in Nat /\ off[m] \in Nat
        /\ off[m - 1] < r /\ r <= off[m] /\ Media[r].last = (r = off[m])
    <3>1. r \in 1 .. Len(Media)
      BY <1>3
    <3> QED BY <3>1, PieceAt
  <2> HIDE DEF m
  <2>2. ASSUME NEW n \in 0 .. Len(packets), r = off[n]
        PROVE  r = off[m]
    <3>1. off[n] \in Nat /\ m - 1 \in 0 .. Len(packets) /\ m \in 0 .. Len(packets)
      BY <1>1, <2>1, <2>2
    <3>2. CASE n <= m - 1
      <4>1. off[n] <= off[m - 1]
        BY <3>1, <3>2 DEF Laid
      <4> QED BY <2>1, <2>2, <3>1, <4>1
    <3>3. CASE m <= n
      <4>1. off[m] <= off[n]
        BY <3>1, <3>3 DEF Laid
      <4> QED BY <2>1, <2>2, <3>1, <4>1
    <3> QED BY <2>1, <3>2, <3>3
  <2>3. m \in 0 .. Len(packets)
    BY <2>1
  <2> QED BY <1>3, <2>1, <2>2, <2>3 DEF Boundary
<1> QED BY <1>2, <1>3

LEMMA CompletedIs ==
  ASSUME packets \in Seq(PacketKinds), NEW off, Laid(off),
         NEW r \in 0 .. Len(Media)
  PROVE  Completed(r) = {n \in 1 .. Len(packets) : off[n] <= r}
<1>1. Len(packets) \in Nat /\ Len(Media) \in Nat
  BY PacketFacts, LenProperties DEF Laid
<1>2. ASSUME NEW i \in 1 .. r, Media[i].last
      PROVE  Media[i].packet \in 1 .. Len(packets) /\ off[Media[i].packet] <= r
  <2>1. i \in 1 .. Len(Media)
    BY <1>1
  <2>2. Media[i].packet \in 1 .. Len(packets) /\ i = off[Media[i].packet]
    BY <1>2, <2>1, PieceAt
  <2> QED BY <2>2
<1>3. ASSUME NEW n \in 1 .. Len(packets), off[n] <= r
      PROVE  off[n] \in 1 .. r /\ Media[off[n]].last /\ Media[off[n]].packet = n
  <2>1. Size(n) \in Nat \ {0} /\ n - 1 \in 0 .. Len(packets)
    BY <1>1, PacketFacts
  <2>2. off[n - 1] \in Nat /\ off[n] = off[n - 1] + Size(n)
    BY <2>1 DEF Laid
  <2>3. Media[off[n - 1] + Size(n)] = Piece(n, Size(n))
    <3>1. \A k \in 1 .. Size(n) : Media[off[n - 1] + k] = Piece(n, k)
      BY DEF Laid
    <3>2. Size(n) \in 1 .. Size(n)
      BY <2>1
    <3> QED BY <3>1, <3>2
  <2>4. Media[off[n]] = Piece(n, Size(n))
    BY <2>2, <2>3
  <2>5. Piece(n, Size(n)).last /\ Piece(n, Size(n)).packet = n
    BY DEF Piece
  <2>6. off[n] \in 1 .. r
    BY <1>1, <1>3, <2>1, <2>2
  <2> QED BY <2>4, <2>5, <2>6
<1> QED BY <1>2, <1>3 DEF Completed

LEMMA MediaFacts ==
  ASSUME packets \in Seq(PacketKinds)
  PROVE  /\ Media \in Seq(Pieces) /\ Len(Media) \in Nat
         /\ Boundary(Len(Media)) /\ Completed(Len(Media)) = DOMAIN packets
<1>1. PICK off : Laid(off)
  BY MediaLaid
<1>2. /\ Media \in Seq(Pieces) /\ Len(Media) \in Nat
      /\ Len(packets) \in Nat /\ DOMAIN packets = 1 .. Len(packets)
  BY <1>1, PacketFacts, LenProperties DEF Laid
<1>3. Len(Media) = off[Len(packets)] /\ Len(packets) \in 0 .. Len(packets)
      /\ Len(Media) \in 0 .. Len(Media)
  BY <1>1, <1>2 DEF Laid
<1>4. Boundary(Len(Media))
  BY <1>1, <1>3, BoundaryIs
<1>5. \A n \in 1 .. Len(packets) : off[n] <= Len(Media)
  BY <1>1, <1>2, <1>3 DEF Laid
<1>6. Completed(Len(Media)) = {n \in 1 .. Len(packets) : off[n] <= Len(Media)}
  BY <1>1, <1>3, CompletedIs
<1> QED BY <1>2, <1>4, <1>5, <1>6

(* What lies between two ends of packets is a whole packet, the next one. *)
LEMMA WholeBetween ==
  ASSUME packets \in Seq(PacketKinds), NEW a \in 0 .. Len(Media),
         NEW b \in a + 1 .. Len(Media), Boundary(a), Media[b].last,
         \A i \in a + 1 .. b - 1 : ~ Media[i].last
  PROVE  /\ Media[b].packet \in DOMAIN packets
         /\ SubSeq(Media, a + 1, b) = Whole(Media[b].packet)
         /\ \A n \in Completed(a) : n < Media[b].packet
<1> DEFINE n == Media[b].packet
<1>1. PICK off : Laid(off)
  BY MediaLaid
<1>2. /\ Media \in Seq(Pieces) /\ Len(Media) \in Nat
      /\ Len(packets) \in Nat /\ DOMAIN packets = 1 .. Len(packets)
  BY MediaFacts, PacketFacts
<1>3. /\ n \in 1 .. Len(packets) /\ off[n - 1] \in Nat /\ b = off[n]
      /\ off[n - 1] < b
  <2>1. b \in 1 .. Len(Media)
    BY <1>2
  <2> QED BY <1>1, <2>1, PieceAt
<1> HIDE DEF n
<1>4. PICK m \in 0 .. Len(packets) : a = off[m]
  BY <1>1, BoundaryIs
<1>5. \A k \in 0 .. Len(packets) : off[k] \in Nat
  BY <1>1 DEF Laid
<1>6. m <= n - 1
  <2>1. CASE n <= m
    <3>1. n \in 0 .. Len(packets)
      BY <1>3
    <3>2. off[n] <= off[m]
      BY <1>1, <2>1, <3>1 DEF Laid
    <3> QED BY <1>3, <1>4, <1>5, <3>2
  <2> QED BY <1>2, <1>3, <2>1
<1>7. m = n - 1
  <2>1. SUFFICES ASSUME m + 1 <= n - 1 PROVE FALSE
    BY <1>3, <1>6
  <2>2. /\ m + 1 \in 1 .. Len(packets) /\ m + 1 \in 0 .. Len(packets)
        /\ n - 1 \in 0 .. Len(packets) /\ m + 1 - 1 = m
    BY <1>2, <1>3, <2>1
  <2>3. Size(m + 1) \in Nat \ {0} /\ off[m + 1] = off[m] + Size(m + 1)
    BY <1>1, <2>2, PacketFacts DEF Laid
  <2>4. off[m + 1] <= off[n - 1]
    BY <1>1, <2>1, <2>2 DEF Laid
  <2>5. off[m + 1] \in a + 1 .. b - 1 /\ off[m + 1] \in 1 .. Len(Media)
        /\ off[m + 1] \in 0 .. Len(Media)
    <3>1. PICK x : x = off[m + 1]
      OBVIOUS
    <3>2. a \in Nat /\ b \in Nat /\ b <= Len(Media)
      BY <1>2, <1>4, <1>5
    <3>3. x \in Nat /\ a < x
      BY <1>4, <1>5, <2>2, <2>3, <3>1, <3>2
    <3>4. x < b
      BY <1>3, <1>5, <2>2, <2>4, <3>1, <3>2
    <3> QED BY <1>2, <3>1, <3>2, <3>3, <3>4
  <2>6. Boundary(off[m + 1])
    BY <1>1, <2>2, <2>5, BoundaryIs
  <2> QED BY <2>5, <2>6 DEF Boundary
<1>8. Size(n) \in Nat \ {0} /\ b = a + Size(n) /\ a = off[n - 1]
  <2>1. Size(n) \in Nat \ {0} /\ off[n] = off[n - 1] + Size(n)
    BY <1>1, <1>3, PacketFacts DEF Laid
  <2> QED BY <1>3, <1>4, <1>7, <2>1
<1>9. \A k \in 1 .. Size(n) : Media[a + k] = Piece(n, k)
  BY <1>1, <1>3, <1>8 DEF Laid
<1>10. SubSeq(Media, a + 1, b) = Segment(n, Size(n))
  <2> DEFINE s == SubSeq(Media, a + 1, b)
             t == Segment(n, Size(n))
  <2>1. t \in Seq(Pieces) /\ Len(t) = Size(n)
        /\ \A k \in 1 .. Size(n) : t[k] = Piece(n, k)
    BY <1>3, SegmentIs
  <2>2. /\ a \in Int /\ b \in Int /\ a + 1 <= b /\ b - (a + 1) + 1 = Size(n)
        /\ \A i \in a + 1 .. b : i \in 1 .. Len(Media)
    <3>1. a \in Nat /\ b \in Nat /\ b <= Len(Media)
      BY <1>2
    <3> QED BY <1>2, <1>8, <3>1
  <2>3. \A i \in a + 1 .. b : Media[i] \in Pieces
    BY <1>2, <2>2, ElementOfSeq
  <2>4. /\ s \in Seq(Pieces) /\ Len(s) = Size(n)
        /\ \A k \in 1 .. Size(n) : s[k] = Media[a + 1 + k - 1]
    <3>1. a + 1 \in Int
      BY <2>2
    <3> QED BY <2>2, <2>3, <3>1, SubSeqProperties
  <2> HIDE DEF s, t
  <2>5. \A k \in 1 .. Size(n) : s[k] = t[k]
    <3> TAKE k \in 1 .. Size(n)
    <3>1. a + 1 + k - 1 = a + k
      BY <1>8, <2>2
    <3> QED BY <1>9, <2>1, <2>4, <3>1
  <2>6. s = t
    BY <2>1, <2>4, <2>5, SeqEqual
  <2> QED BY <2>6 DEF s, t
<1>11. \A k \in Completed(a) : k < n
  <2> TAKE k \in Completed(a)
  <2>1. k \in 1 .. Len(packets) /\ off[k] <= a
    BY <1>1, CompletedIs
  <2>2. CASE n <= k
    <3>1. off[n] <= off[k]
      BY <1>1, <1>3, <2>1, <2>2 DEF Laid
    <3> QED BY <1>3, <1>5, <2>1, <3>1
  <2> QED BY <1>3, <2>1, <2>2
<1> QED BY <1>2, <1>3, <1>10, <1>11 DEF n, Whole, Size

(* The completed packets are the first ones, *)
LEMMA CompletedFirst ==
  ASSUME packets \in Seq(PacketKinds), NEW r \in 0 .. Len(Media),
         NEW n \in Completed(r), NEW m \in 1 .. n
  PROVE  m \in Completed(r)
<1>1. PICK off : Laid(off)
  BY MediaLaid
<1>2. Completed(r) = {k \in 1 .. Len(packets) : off[k] <= r}
  BY <1>1, CompletedIs
<1>3. n \in 1 .. Len(packets) /\ off[n] <= r /\ m \in 1 .. Len(packets)
  BY <1>2, PacketFacts
<1>4. off[m] <= off[n] /\ off[m] \in Nat /\ off[n] \in Nat
  BY <1>1, <1>3 DEF Laid
<1>5. Len(Media) \in Nat
  BY MediaFacts
<1> QED BY <1>2, <1>3, <1>4, <1>5

(* and one more segment adds the packet that it ends, if any. *)
LEMMA CompletedNext ==
  ASSUME NEW r \in Nat
  PROVE  /\ Media[r + 1].last =>
              Completed(r + 1) = Completed(r) \union {Media[r + 1].packet}
         /\ ~ Media[r + 1].last => Completed(r + 1) = Completed(r)
<1>1. \A j : j \in 1 .. r + 1 <=> j \in 1 .. r \/ j = r + 1
  OBVIOUS
<1> QED BY <1>1 DEF Completed

(* Cuts of the media. *)
LEMMA CutIs ==
  ASSUME packets \in Seq(PacketKinds), NEW a \in 0 .. Len(Media),
         NEW b \in a .. Len(Media)
  PROVE  /\ SubSeq(Media, a + 1, b) \in Seq(ToSet(Media))
         /\ Len(SubSeq(Media, a + 1, b)) = b - a
         /\ \A i \in 1 .. b - a : SubSeq(Media, a + 1, b)[i] = Media[a + i]
<1>1. Media \in Seq(Pieces) /\ Len(Media) \in Nat /\ DOMAIN Media = 1 .. Len(Media)
  BY MediaFacts, LenProperties
<1>2. a \in Nat /\ b \in Nat /\ a + 1 \in Int /\ b - (a + 1) + 1 = b - a
      /\ (a + 1 <= b \/ b - a = 0)
  BY <1>1
<1>3. \A i \in a + 1 .. b : Media[i] \in ToSet(Media)
  <2>1. \A i \in a + 1 .. b : i \in 1 .. Len(Media)
    BY <1>1, <1>2
  <2> QED BY <1>1, <2>1 DEF ToSet
<1> DEFINE s == SubSeq(Media, a + 1, b)
<1>4. /\ s \in Seq(ToSet(Media)) /\ Len(s) = IF a + 1 <= b THEN b - (a + 1) + 1 ELSE 0
      /\ \A i \in 1 .. b - (a + 1) + 1 : s[i] = Media[a + 1 + i - 1]
  BY <1>2, <1>3, SubSeqProperties
<1> HIDE DEF s
<1>5. \A i \in 1 .. b - a : s[i] = Media[a + i]
  <2> TAKE i \in 1 .. b - a
  <2>1. a + 1 + i - 1 = a + i
    BY <1>2
  <2> QED BY <1>2, <1>4, <2>1
<1>6. Len(s) = b - a
  BY <1>2, <1>4
<1> QED BY <1>4, <1>5, <1>6 DEF s

LEMMA CutHead ==
  ASSUME packets \in Seq(PacketKinds), NEW a \in 0 .. Len(Media),
         NEW b \in a + 1 .. Len(Media)
  PROVE  /\ SubSeq(Media, a + 1, b) # << >>
         /\ Head(SubSeq(Media, a + 1, b)) = Media[a + 1]
         /\ Tail(SubSeq(Media, a + 1, b)) = SubSeq(Media, a + 2, b)
<1>1. Media \in Seq(Pieces) /\ Len(Media) \in Nat
  BY MediaFacts
<1>2. a + 1 \in 1 .. Len(Media) /\ a + 1 + 1 = a + 2 /\ b - a > 0 /\ b \in a .. Len(Media)
  BY <1>1
<1>3. /\ Head(SubSeq(Media, a + 1, b)) = Media[a + 1]
      /\ Tail(SubSeq(Media, a + 1, b)) = SubSeq(Media, a + 2, b)
  BY <1>1, <1>2, HeadTailOfSubSeq
<1>4. Len(SubSeq(Media, a + 1, b)) = b - a
  BY <1>2, CutIs
<1> QED BY <1>2, <1>3, <1>4

LEMMA CutLonger ==
  ASSUME packets \in Seq(PacketKinds), NEW a \in 0 .. Len(Media),
         NEW b \in a .. Len(Media) - 1
  PROVE  Append(SubSeq(Media, a + 1, b), Media[b + 1]) = SubSeq(Media, a + 1, b + 1)
<1>1. Media \in Seq(Pieces) /\ Len(Media) \in Nat
  BY MediaFacts
<1>2. /\ a + 1 \in 1 .. Len(Media) /\ b + 1 \in a + 1 .. Len(Media)
      /\ b + 1 - 1 = b /\ b \in a .. Len(Media) /\ b + 1 \in 1 .. Len(Media)
  BY <1>1
<1>3. SubSeq(Media, a + 1, b + 1) =
        SubSeq(Media, a + 1, b + 1 - 1) \o << Media[b + 1] >>
  BY <1>1, <1>2, SubSeqRecursiveSecond
<1>4. SubSeq(Media, a + 1, b) \in Seq(ToSet(Media)) /\ Media[b + 1] \in ToSet(Media)
  <2>1. DOMAIN Media = 1 .. Len(Media)
    BY <1>1, LenProperties
  <2> QED BY <1>2, <2>1, CutIs DEF ToSet
<1> QED BY <1>2, <1>3, <1>4, AppendIsConcat

------------------------------------------------------------------------------
(* Part 2: the stream's invariant *)

Number(packet) == Head(packet).packet
Numbers(list) == {Number(list[i]) : i \in DOMAIN list}
Audio == {n \in DOMAIN packets : packets[n].kind = "audio"}
Pages == [continued : BOOLEAN, segments : Seq(ToSet(Media))]

Types ==
  /\ packets \in Seq(PacketKinds) /\ Len(packets) <= MaxPackets
  /\ written \in 0 .. Len(Media)
  /\ misflagged \in BOOLEAN /\ torn \in BOOLEAN /\ discarding \in BOOLEAN
  /\ child \in {"none", "running", "succeeded", "failed", "killed"}
  /\ at \in {"closed", "idle", "packet", "page", "wait"}
  /\ outcome \in {"open", "end", "error", "stopped"}
  /\ pipe \in Seq(Pages) /\ Len(pipe) <= PipePages
  /\ \A i \in 1 .. Len(pipe) : Len(pipe[i].segments) \in 1 .. PageSegments
  /\ page \in Seq(ToSet(Media)) /\ partial \in Seq(ToSet(Media))
  /\ Len(partial) <= MaxPacket
  /\ pending \in Seq(Seq(ToSet(Media))) /\ frames \in Seq(Seq(ToSet(Media)))

(* What is known wherever next_frame is. *)
Calls ==
  /\ at \in {"packet", "page", "wait"} => outcome = "open"
  /\ at # "page" /\ outcome = "open" => page = << >>
  /\ at = "wait" => /\ pending = << >> /\ pipe = << >> /\ partial = << >>
                    /\ child # "running"
  /\ child = "succeeded" => written = Len(Media)
  /\ child = "none" => pipe = << >> /\ at = "closed"
  /\ at = "closed" => child # "running"

(* Packets that were completed are whole; they come out in their order. *)
Wholes(list) ==
  \A i \in 1 .. Len(list) :
    Number(list[i]) \in DOMAIN packets /\ list[i] = Whole(Number(list[i]))

Rising(list) ==
  \A i, j \in 1 .. Len(list) : i < j => Number(list[i]) < Number(list[j])

Ordered ==
  /\ Wholes(pending) /\ Wholes(frames) /\ Rising(pending) /\ Rising(frames)
  /\ \A m \in Numbers(frames), n \in Numbers(pending) : m < n
  /\ Numbers(frames) \subseteq Audio

(* None is left out of those that were handed out, as long as no flag was  *)
(* wrong; and the end is only reported behind the last.                    *)
Dense ==
  ~ misflagged =>
    /\ \A n \in Numbers(frames), m \in Audio : m < n => m \in Numbers(frames)
    /\ outcome = "end" => Audio \subseteq Numbers(frames)

(* The pages in the pipe are cuts of the media, one behind the other, the  *)
(* i-th from start[i]; r segments have been taken before them and before   *)
(* what is left of the current page.                                       *)
Chain(start, r) ==
  /\ start[Len(pipe) + 1] = written
  /\ \A i \in 1 .. Len(pipe) :
       /\ start[i] < start[i + 1]
       /\ pipe[i].segments = SubSeq(Media, start[i] + 1, start[i + 1])
  /\ r + Len(page) = start[1] /\ page = SubSeq(Media, r + 1, start[1])

(* The pages that say "continued" where a packet starts, or do not where   *)
(* none does: one at most of all that were written.                        *)
Wrong(start) == {i \in 1 .. Len(pipe) : pipe[i].continued = Boundary(start[i])}

Flags(start) ==
  /\ Wrong(start) # {} => misflagged
  /\ \A i, j \in Wrong(start) : i = j

(* The packet under construction is what was taken last, from its start on. *)
Building(r) ==
  /\ Len(partial) <= r /\ partial = SubSeq(Media, r - Len(partial) + 1, r)
  /\ partial # << >> => Boundary(r - Len(partial))
  /\ \A i \in r - Len(partial) + 1 .. r : ~ Media[i].last

(* The reader is within a packet without its start only behind the wrong   *)
(* flag, and then it discards.                                             *)
Lost(start) == misflagged /\ Wrong(start) = {}

InStep(start, r) ==
  /\ partial = << >> /\ ~ Boundary(r) => Lost(start)
  /\ at = "page" /\ discarding => partial = << >> /\ Lost(start)
  /\ at = "page" /\ ~ discarding /\ partial = << >> => Boundary(r)

(* Of the packets that were completed none is missing. *)
Kept(r) ==
  /\ Numbers(frames) \union Numbers(pending) \subseteq Completed(r)
  /\ ~ misflagged =>
       Audio \intersect Completed(r) \subseteq Numbers(frames) \union Numbers(pending)

Reading(start, r) ==
  Chain(start, r) /\ Flags(start) /\ Building(r) /\ InStep(start, r) /\ Kept(r)

Tracked ==
  outcome = "open" =>
    \E start \in [1 .. Len(pipe) + 1 -> 0 .. written], r \in 0 .. written :
      Reading(start, r)

StreamInv ==
  Types /\ Calls /\ ReadAheadBounded /\ Ordered /\ Dense /\ Tracked

------------------------------------------------------------------------------
(* Part 3: every action keeps it *)

LEMMA SameMedia ==
  ASSUME packets' = packets
  PROVE  /\ Media' = Media /\ Audio' = Audio
         /\ \A r : Boundary(r)' = Boundary(r) /\ Completed(r)' = Completed(r)
         /\ \A list : Wholes(list)' = Wholes(list)
<1>1. Media' = Media
  BY DEF Media
<1>2. Audio' = Audio
  BY DEF Audio
<1>3. \A r : Boundary(r)' = Boundary(r) /\ Completed(r)' = Completed(r)
  BY <1>1 DEF Boundary, Completed
<1>4. \A list : Wholes(list)' = Wholes(list)
  BY DEF Wholes, Whole
<1> QED BY <1>1, <1>2, <1>3, <1>4

(* Where the reader is, while the stream is open. *)
LEMMA ReaderAt ==
  ASSUME StreamInv, outcome = "open"
  PROVE  \E start \in [1 .. Len(pipe) + 1 -> 0 .. written], r \in 0 .. written :
           Reading(start, r)
BY DEF StreamInv, Tracked

LEMMA Numeric ==
  ASSUME Types
  PROVE  /\ Len(Media) \in Nat /\ written \in Nat /\ Len(pipe) \in Nat
         /\ DOMAIN pipe = 1 .. Len(pipe)
         /\ Len(page) \in Nat /\ Len(partial) \in Nat /\ Len(pending) \in Nat
         /\ DOMAIN pending = 1 .. Len(pending)
         /\ Len(frames) \in Nat /\ DOMAIN frames = 1 .. Len(frames)
         /\ Media \in Seq(ToSet(Media)) /\ DOMAIN Media = 1 .. Len(Media)
<1>1. packets \in Seq(PacketKinds)
  BY DEF Types
<1>2. Len(Media) \in Nat /\ Media \in Seq(Pieces)
  BY <1>1, MediaFacts
<1>3. DOMAIN Media = 1 .. Len(Media)
  BY <1>2, LenProperties
<1>4. Media \in Seq(ToSet(Media))
  <2>1. Media \in [1 .. Len(Media) -> ToSet(Media)]
    BY <1>2, <1>3, LenProperties DEF ToSet
  <2> QED BY <1>2, <2>1, SeqDef
<1> QED BY <1>2, <1>3, <1>4, LenProperties DEF Types

(* What an action that leaves the packets alone does not touch. *)
LEMMA OrderedSame ==
  ASSUME StreamInv, packets' = packets, UNCHANGED << pending, frames >>
  PROVE  Ordered'
BY SameMedia DEF StreamInv, Ordered

(* FFmpeg writes a page. *)
LEMMA MuxPageTracked ==
  ASSUME StreamInv, MuxPage, outcome = "open"
  PROVE  Tracked'
<1>1. /\ UNCHANGED << packets, child, torn, at, page, discarding, partial, pending,
                      frames, outcome >>
      /\ Types
  BY DEF MuxPage, StreamInv
<1>2. PICK n \in 1 .. PageSegments, wrong \in Misflags :
        /\ written + n <= Len(Media)
        /\ wrong => ~ misflagged
        /\ written' = written + n
        /\ misflagged' = (misflagged \/ wrong)
        /\ pipe' = Append(pipe, [continued |-> MidPacket # wrong,
                                 segments |-> SubSeq(Media, written + 1, written + n)])
  BY DEF MuxPage
<1>3. PICK start \in [1 .. Len(pipe) + 1 -> 0 .. written], r \in 0 .. written :
        Reading(start, r)
  BY ReaderAt
<1> DEFINE new == [continued |-> MidPacket # wrong,
                   segments |-> SubSeq(Media, written + 1, written + n)]
<1>4. /\ wrong \in BOOLEAN /\ misflagged \in BOOLEAN /\ n \in Nat /\ Len(pipe) \in Nat
      /\ written \in Nat /\ Len(Media) \in Nat /\ pipe \in Seq(Pages)
      /\ packets \in Seq(PacketKinds)
  BY <1>1, BoundAssumption, Numeric DEF Types
<1>5. SubSeq(Media, written + 1, written + n) \in Seq(ToSet(Media))
  <2>1. written \in 0 .. Len(Media) /\ written + n \in written .. Len(Media)
    BY <1>2, <1>4
  <2> QED BY <1>4, <2>1, CutIs
<1>6. new \in Pages
  BY <1>5 DEF Pages
<1> PICK k \in Nat : k = Len(pipe)
  BY <1>4
<1>7. /\ Len(pipe') = k + 1 /\ pipe'[k + 1] = new
      /\ \A i \in 1 .. k : pipe'[i] = pipe[i]
  <2> HIDE DEF new
  <2>1. pipe' = Append(pipe, new)
    BY <1>2 DEF new
  <2> QED BY <1>4, <1>6, <2>1, AppendProperties
<1>8. /\ new.segments = SubSeq(Media, written + 1, written + n)
      /\ (new.continued = Boundary(written)) <=> wrong
  <2>1. MidPacket <=> ~ Boundary(written)
    BY <1>4 DEF MidPacket, Boundary
  <2>2. Boundary(written) \in BOOLEAN
    <3>1. ~ Boundary(written) => Boundary(written) = FALSE
      BY DEF Boundary
    <3>2. written \in 1 .. Len(Media) => Media[written] \in Pieces
      BY <1>4, MediaFacts, ElementOfSeq
    <3> QED BY <1>4, <3>2 DEF Boundary, Pieces
  <2> QED BY <1>4, <2>1, <2>2
<1> HIDE DEF new
<1>9. PICK s \in [1 .. Len(pipe') + 1 -> 0 .. written'] :
        s[k + 2] = written' /\ \A i \in 1 .. k + 1 : s[i] = start[i]
  <2> DEFINE t == [i \in 1 .. k + 2 |-> IF i = k + 2 THEN written + n ELSE start[i]]
  <2>1. Len(pipe') + 1 = k + 2 /\ written' = written + n
    BY <1>2, <1>7
  <2>2. \A i \in 1 .. k + 1 : start[i] \in 0 .. written
    OBVIOUS
  <2>3. /\ t \in [1 .. Len(pipe') + 1 -> 0 .. written']
        /\ t[k + 2] = written' /\ \A i \in 1 .. k + 1 : t[i] = start[i]
    BY <1>4, <2>1, <2>2
  <2> HIDE DEF t
  <2> QED BY <2>3
<1>10. /\ start[k + 1] = written /\ r + Len(page) = start[1]
       /\ page = SubSeq(Media, r + 1, start[1])
       /\ \A i \in 1 .. k : start[i] < start[i + 1]
                            /\ pipe[i].segments = SubSeq(Media, start[i] + 1, start[i + 1])
  BY <1>3 DEF Reading, Chain
<1>11. s[k + 1] = written /\ s[k + 1 + 1] = written + n
  <2>1. k + 1 \in 1 .. k + 1 /\ k + 1 + 1 = k + 2
    BY <1>4
  <2> QED BY <1>2, <1>9, <1>10, <2>1
<1>12. Chain(s, r)'
  <2>1. s[Len(pipe') + 1] = written'
    BY <1>4, <1>7, <1>9
  <2>2. ASSUME NEW i \in 1 .. Len(pipe')
        PROVE  /\ s[i] < s[i + 1]
               /\ pipe'[i].segments = SubSeq(Media, s[i] + 1, s[i + 1])
    <3>1. CASE i = k + 1
      <4>1. s[i] = written /\ s[i + 1] = written + n /\ pipe'[i] = new
        BY <1>2, <1>7, <1>11, <3>1
      <4> QED BY <1>4, <1>8, <4>1
    <3>2. CASE i # k + 1
      <4>1. i \in 1 .. k /\ i + 1 \in 1 .. k + 1 /\ i \in 1 .. k + 1
        BY <1>4, <1>7, <3>2
      <4> QED BY <1>7, <1>9, <1>10, <4>1
    <3> QED BY <3>1, <3>2
  <2>3. s[1] = start[1]
    BY <1>4, <1>9
  <2> QED BY <1>1, <1>10, <2>1, <2>2, <2>3, SameMedia DEF Chain
<1>13. /\ ~ wrong => Wrong(s)' = Wrong(start)
       /\ wrong => Wrong(s)' = Wrong(start) \union {k + 1}
  <2>1. Wrong(s)' = {i \in 1 .. k + 1 : pipe'[i].continued = Boundary(s[i])}
    BY <1>1, <1>4, <1>7, SameMedia DEF Wrong
  <2>2. \A i \in 1 .. k : pipe'[i] = pipe[i] /\ s[i] = start[i]
    BY <1>4, <1>7, <1>9
  <2>3. s[k + 1] = written /\ pipe'[k + 1] = new
    BY <1>7, <1>11
  <2>4. (pipe'[k + 1].continued = Boundary(s[k + 1])) <=> wrong
    BY <1>8, <2>3
  <2>5. \A i : i \in 1 .. k + 1 <=> i \in 1 .. k \/ i = k + 1
    BY <1>4
  <2> QED BY <2>1, <2>2, <2>4, <2>5 DEF Wrong
<1>14. Flags(s)'
  <2>1. (Wrong(start) # {} => misflagged) /\ \A i, j \in Wrong(start) : i = j
    BY <1>3 DEF Reading, Flags
  <2>2. CASE ~ wrong
    BY <1>2, <1>13, <2>1, <2>2 DEF Flags
  <2>3. CASE wrong
    <3>1. ~ misflagged /\ misflagged' /\ Wrong(start) = {}
      BY <1>2, <2>1, <2>3
    <3> QED BY <1>13, <2>3, <3>1 DEF Flags
  <2> QED BY <2>2, <2>3
<1>15. Lost(start) => Lost(s)'
  BY <1>2, <1>13 DEF Lost
<1>16. Building(r)'
  BY <1>1, <1>3, SameMedia DEF Reading, Building
<1>17. InStep(s, r)'
  BY <1>1, <1>3, <1>15, SameMedia DEF Reading, InStep
<1>18. Kept(r)'
  BY <1>1, <1>2, <1>3, SameMedia DEF Reading, Kept
<1>19. Reading(s, r)'
  BY <1>12, <1>14, <1>16, <1>17, <1>18 DEF Reading
<1>20. r \in 0 .. written'
  BY <1>2, <1>4
<1> QED BY <1>9, <1>19, <1>20 DEF Tracked

(* What an action keeps that does not move the reader: *)
LEMMA DenseSame ==
  ASSUME StreamInv, packets' = packets, frames' = frames,
         misflagged => misflagged', outcome' = "end" => outcome = "end"
  PROVE  Dense'
<1>1. Audio' = Audio /\ Numbers(frames)' = Numbers(frames)
  BY SameMedia DEF Numbers, Number
<1> QED BY <1>1 DEF StreamInv, Dense

LEMMA TrackedSame ==
  ASSUME StreamInv, UNCHANGED << packets, written, misflagged, pipe, page,
                                 discarding, partial, pending, frames >>,
         at' = "page" => at = "page", outcome' = "open" => outcome = "open"
  PROVE  Tracked'
<1>1. CASE outcome' # "open"
  BY <1>1 DEF Tracked
<1>2. CASE outcome' = "open"
  <2>1. PICK start \in [1 .. Len(pipe) + 1 -> 0 .. written], r \in 0 .. written :
          Reading(start, r)
    BY <1>2, ReaderAt
  <2>2. Chain(start, r)' /\ Building(r)' /\ Kept(r)'
    <3>1. Chain(start, r)'
      BY <2>1, SameMedia DEF Reading, Chain
    <3>2. Building(r)'
      BY <2>1, SameMedia DEF Reading, Building
    <3>3. Kept(r)'
      BY <2>1, SameMedia DEF Reading, Kept, Numbers, Number
    <3> QED BY <3>1, <3>2, <3>3
  <2>3. Wrong(start)' = Wrong(start)
    BY SameMedia DEF Wrong
  <2>4. Flags(start)' /\ InStep(start, r)'
    BY <2>1, <2>3, SameMedia DEF Reading, Flags, InStep, Lost
  <2>5. Reading(start, r)'
    BY <2>1, <2>2, <2>4 DEF Reading
  <2> QED BY <2>1, <2>5 DEF Tracked
<1> QED BY <1>1, <1>2

LEMMA BoundSame ==
  ASSUME StreamInv, page' = page, pending' = pending
  PROVE  ReadAheadBounded'
BY DEF StreamInv, ReadAheadBounded

(* The types of what does not move with the reader. *)
LEMMA TypesSame ==
  ASSUME StreamInv, UNCHANGED << packets, written, misflagged, pipe, page,
                                 discarding, partial, pending, frames >>,
         torn' \in BOOLEAN,
         child' \in {"none", "running", "succeeded", "failed", "killed"},
         at' \in {"closed", "idle", "packet", "page", "wait"},
         outcome' \in {"open", "end", "error", "stopped"}
  PROVE  Types'
<1>1. Types
  BY DEF StreamInv
<1>2. Media' = Media /\ Pages' = Pages
  BY SameMedia DEF Pages
<1> QED BY <1>1, <1>2 DEF Types

LEMMA StreamStutters ==
  ASSUME StreamInv, UNCHANGED stream
  PROVE  StreamInv'
<1>1. /\ UNCHANGED << packets, written, misflagged, torn, child, pipe, at, page,
                      discarding, partial, pending, frames, outcome >>
      /\ Types /\ Calls
  BY DEF stream, source, StreamInv
<1>2. Types'
  <2>1. /\ torn' \in BOOLEAN
        /\ child' \in {"none", "running", "succeeded", "failed", "killed"}
        /\ at' \in {"closed", "idle", "packet", "page", "wait"}
        /\ outcome' \in {"open", "end", "error", "stopped"}
    BY <1>1 DEF Types
  <2> QED BY <1>1, <2>1, TypesSame
<1>3. Calls'
  <2>1. Media' = Media
    BY <1>1, SameMedia
  <2> QED BY <1>1, <2>1 DEF Calls
<1>4. ReadAheadBounded' /\ Ordered'
  BY <1>1, BoundSame, OrderedSame
<1>5. Dense' /\ Tracked'
  BY <1>1, DenseSame, TrackedSame
<1> QED BY <1>2, <1>3, <1>4, <1>5 DEF StreamInv

LEMMA MuxPageKeeps ==
  ASSUME StreamInv, MuxPage
  PROVE  StreamInv'
<1>1. /\ UNCHANGED << packets, child, torn, at, page, discarding, partial, pending,
                      frames, outcome >>
      /\ child = "running" /\ Len(pipe) < PipePages /\ Types /\ Calls
  BY DEF MuxPage, StreamInv
<1>2. PICK n \in 1 .. PageSegments, wrong \in Misflags :
        /\ written + n <= Len(Media)
        /\ written' = written + n
        /\ misflagged' = (misflagged \/ wrong)
        /\ pipe' = Append(pipe, [continued |-> MidPacket # wrong,
                                 segments |-> SubSeq(Media, written + 1, written + n)])
  BY DEF MuxPage
<1> DEFINE cut == SubSeq(Media, written + 1, written + n)
           new == [continued |-> MidPacket # wrong, segments |-> cut]
<1>3. /\ wrong \in BOOLEAN /\ misflagged \in BOOLEAN /\ n \in Nat /\ PipePages \in Nat
      /\ PageSegments \in Nat
      /\ Len(pipe) \in Nat /\ written \in Nat /\ Len(Media) \in Nat
      /\ pipe \in Seq(Pages) /\ packets \in Seq(PacketKinds)
  BY <1>1, BoundAssumption, Numeric DEF Types
<1>4. cut \in Seq(ToSet(Media)) /\ Len(cut) = n
  <2>1. written \in 0 .. Len(Media) /\ written + n \in written .. Len(Media)
        /\ written + n - written = n
    BY <1>2, <1>3
  <2> QED BY <1>3, <2>1, CutIs
<1> HIDE DEF cut
<1>5. new \in Pages /\ new.segments = cut
  BY <1>4 DEF Pages
<1> PICK k \in Nat : k = Len(pipe)
  BY <1>3
<1>6. /\ pipe' \in Seq(Pages) /\ Len(pipe') = k + 1 /\ pipe'[k + 1] = new
      /\ \A i \in 1 .. k : pipe'[i] = pipe[i]
  <2>1. pipe' = Append(pipe, new)
    BY <1>2 DEF cut
  <2> HIDE DEF new
  <2> QED BY <1>3, <1>5, <2>1, AppendProperties
<1>7. Media' = Media /\ Pages' = Pages
  BY <1>1, SameMedia DEF Pages
<1>8. \A i \in 1 .. Len(pipe') : Len(pipe'[i].segments) \in 1 .. PageSegments
  <2> TAKE i \in 1 .. Len(pipe')
  <2>1. CASE i = k + 1
    BY <1>3, <1>4, <1>5, <1>6, <2>1
  <2>2. CASE i # k + 1
    <3>1. i \in 1 .. k
      BY <1>6, <2>2
    <3>2. Len(pipe[i].segments) \in 1 .. PageSegments
      BY <1>1, <3>1 DEF Types
    <3> QED BY <1>6, <3>1, <3>2
  <2> QED BY <2>1, <2>2
<1>9. Types'
  <2>1. Len(pipe') <= PipePages /\ written' \in 0 .. Len(Media) /\ misflagged' \in BOOLEAN
    BY <1>1, <1>2, <1>3, <1>6
  <2> QED BY <1>1, <1>6, <1>7, <1>8, <2>1 DEF Types
<1>10. Calls'
  BY <1>1 DEF Calls
<1>11. ReadAheadBounded' /\ Ordered'
  BY <1>1, BoundSame, OrderedSame
<1>12. Dense'
  BY <1>1, <1>2, DenseSame
<1>13. Tracked'
  <2>1. CASE outcome = "open"
    BY <2>1, MuxPageTracked
  <2>2. CASE outcome # "open"
    BY <1>1, <2>2 DEF Tracked
  <2> QED BY <2>1, <2>2
<1> QED BY <1>9, <1>10, <1>11, <1>12, <1>13 DEF StreamInv

(* FFmpeg ends. *)
LEMMA ExitsKeeps ==
  ASSUME StreamInv, Exits
  PROVE  StreamInv'
<1>1. /\ UNCHANGED << packets, written, misflagged, pipe, at, page, discarding,
                      partial, pending, frames, outcome >>
      /\ child = "running" /\ Types /\ Calls
  BY DEF Exits, StreamInv
<1>2. /\ child' \in {"succeeded", "failed"} /\ torn' \in BOOLEAN
      /\ child' = "succeeded" => written = Len(Media)
  BY <1>1 DEF Exits, Types
<1>3. Types'
  BY <1>1, <1>2, TypesSame DEF Types
<1>4. Calls'
  <2>1. Media' = Media
    BY <1>1, SameMedia
  <2> QED BY <1>1, <1>2, <2>1 DEF Calls
<1>5. ReadAheadBounded' /\ Ordered'
  BY <1>1, BoundSame, OrderedSame
<1>6. Dense' /\ Tracked'
  BY <1>1, DenseSame, TrackedSame
<1> QED BY <1>3, <1>4, <1>5, <1>6 DEF StreamInv

(* The stream is opened, or not. *)
LEMMA OpenKeeps ==
  ASSUME StreamInv, Open
  PROVE  StreamInv'
<1>1. /\ UNCHANGED << packets, written, misflagged, torn, pipe, page, discarding,
                      partial, pending, frames, outcome >>
      /\ at = "closed" /\ at' = "idle" /\ child' = "running" /\ Types /\ Calls
  BY DEF Open, source, StreamInv
<1>2. Types'
  BY <1>1, TypesSame DEF Types
<1>3. Calls'
  BY <1>1 DEF Calls
<1>4. ReadAheadBounded' /\ Ordered'
  BY <1>1, BoundSame, OrderedSame
<1>5. Dense' /\ Tracked'
  BY <1>1, DenseSame, TrackedSame
<1> QED BY <1>2, <1>3, <1>4, <1>5 DEF StreamInv

LEMMA OpenFailsKeeps ==
  ASSUME StreamInv, OpenFails
  PROVE  StreamInv'
<1>1. /\ UNCHANGED << packets, written, misflagged, torn, child, pipe, at, page,
                      discarding, partial, pending, frames >>
      /\ at = "closed" /\ outcome' = "error" /\ Types /\ Calls
  BY DEF OpenFails, source, StreamInv
<1>2. Types'
  BY <1>1, TypesSame DEF Types
<1>3. Calls'
  <2>1. Media' = Media
    BY <1>1, SameMedia
  <2> QED BY <1>1, <2>1 DEF Calls
<1>4. ReadAheadBounded' /\ Ordered'
  BY <1>1, BoundSame, OrderedSame
<1>5. Dense' /\ Tracked'
  BY <1>1, DenseSame, TrackedSame
<1> QED BY <1>2, <1>3, <1>4, <1>5 DEF StreamInv

(* The next frame is asked for. *)
LEMMA NextFrameKeeps ==
  ASSUME StreamInv, NextFrame
  PROVE  StreamInv'
<1>1. /\ UNCHANGED << packets, written, misflagged, torn, child, pipe, page,
                      discarding, partial, pending, frames, outcome >>
      /\ at = "idle" /\ at' = "packet" /\ outcome = "open" /\ Types /\ Calls
  BY DEF NextFrame, source, StreamInv
<1>2. Types'
  BY <1>1, TypesSame DEF Types
<1>3. Calls'
  <2>1. Media' = Media
    BY <1>1, SameMedia
  <2> QED BY <1>1, <2>1 DEF Calls
<1>4. ReadAheadBounded' /\ Ordered'
  BY <1>1, BoundSame, OrderedSame
<1>5. Dense' /\ Tracked'
  BY <1>1, DenseSame, TrackedSame
<1> QED BY <1>2, <1>3, <1>4, <1>5 DEF StreamInv

(* One packet less at the front, one more at the end. *)
LEMMA Fronts ==
  ASSUME NEW S, NEW list \in Seq(S), list # << >>
  PROVE  /\ Tail(list) \in Seq(S)
         /\ Numbers(list) = {Number(Head(list))} \union Numbers(Tail(list))
         /\ Wholes(list) => /\ Wholes(Tail(list))
                            /\ Number(Head(list)) \in DOMAIN packets
                            /\ Head(list) = Whole(Number(Head(list)))
         /\ Rising(list) => /\ Rising(Tail(list))
                            /\ \A n \in Numbers(Tail(list)) : Number(Head(list)) < n
<1> DEFINE t == Tail(list)
<1>1. PICK k \in Nat : Len(list) = k + 1 /\ Len(t) = k
  <2>1. Len(list) \in Nat \ {0} /\ Len(t) = Len(list) - 1
    BY EmptySeq, HeadTailProperties
  <2> HIDE DEF t
  <2>2. Len(list) - 1 \in Nat /\ Len(list) = Len(list) - 1 + 1
    BY <2>1
  <2> QED BY <2>1, <2>2
<1>2. /\ t \in Seq(S) /\ \A i \in 1 .. k : t[i] = list[i + 1]
      /\ Head(list) = list[1] /\ DOMAIN list = 1 .. k + 1 /\ DOMAIN t = 1 .. k
  <2>1. t \in Seq(S) /\ \A i \in 1 .. Len(t) : t[i] = list[i + 1]
    BY HeadTailProperties
  <2>2. DOMAIN list = 1 .. Len(list) /\ DOMAIN t = 1 .. Len(t)
    BY <2>1, LenProperties
  <2> QED BY <1>1, <2>1, <2>2
<1> HIDE DEF t
<1>3. /\ \A i \in 1 .. k : i + 1 \in 1 .. k + 1
      /\ \A i \in 1 .. k + 1 : i = 1 \/ (i - 1 \in 1 .. k /\ i - 1 + 1 = i)
      /\ 1 \in 1 .. k + 1
  OBVIOUS
<1>4. Numbers(list) = {Number(list[1])} \union Numbers(t)
  <2>1. \A i \in 1 .. k + 1 : i = 1 \/ (i - 1 \in 1 .. k /\ list[i] = t[i - 1])
    BY <1>2, <1>3
  <2>2. \A i \in 1 .. k : i + 1 \in 1 .. k + 1 /\ t[i] = list[i + 1]
    BY <1>2, <1>3
  <2>3. Numbers(list) = {Number(list[i]) : i \in 1 .. k + 1}
        /\ Numbers(t) = {Number(t[i]) : i \in 1 .. k}
    BY <1>2 DEF Numbers
  <2> QED BY <1>3, <2>1, <2>2, <2>3
<1>5. Wholes(list) => /\ Wholes(t) /\ Number(list[1]) \in DOMAIN packets
                      /\ list[1] = Whole(Number(list[1]))
  BY <1>1, <1>2, <1>3 DEF Wholes
<1>6. Rising(list) => Rising(t) /\ \A n \in Numbers(t) : Number(list[1]) < n
  <2> HAVE Rising(list)
  <2>1. \A i, j \in 1 .. k : i < j => Number(t[i]) < Number(t[j])
    <3> TAKE i, j \in 1 .. k
    <3>1. i < j => i + 1 < j + 1
      OBVIOUS
    <3> QED BY <1>1, <1>2, <1>3, <3>1 DEF Rising
  <2>2. \A i \in 1 .. k : Number(list[1]) < Number(t[i])
    <3> TAKE i \in 1 .. k
    <3>1. 1 < i + 1
      OBVIOUS
    <3> QED BY <1>1, <1>2, <1>3, <3>1 DEF Rising
  <2> QED BY <1>1, <1>2, <2>1, <2>2 DEF Rising, Numbers
<1> QED BY <1>2, <1>4, <1>5, <1>6 DEF t

LEMMA Backs ==
  ASSUME NEW S, NEW list \in Seq(S), NEW packet \in S
  PROVE  /\ Append(list, packet) \in Seq(S)
         /\ Len(Append(list, packet)) = Len(list) + 1
         /\ Numbers(Append(list, packet)) = Numbers(list) \union {Number(packet)}
         /\ Wholes(list) /\ Number(packet) \in DOMAIN packets
              /\ packet = Whole(Number(packet)) => Wholes(Append(list, packet))
         /\ Rising(list) /\ (\A n \in Numbers(list) : n < Number(packet)) =>
              Rising(Append(list, packet))
<1> DEFINE t == Append(list, packet)
<1>1. PICK k \in Nat : Len(list) = k
  BY LenProperties
<1>2. /\ t \in Seq(S) /\ Len(t) = k + 1 /\ t[k + 1] = packet
      /\ \A i \in 1 .. k : t[i] = list[i]
  BY <1>1, AppendProperties
<1> HIDE DEF t
<1>3. DOMAIN list = 1 .. k /\ DOMAIN t = 1 .. k + 1
  BY <1>1, <1>2, LenProperties
<1>4. /\ \A i : i \in 1 .. k + 1 <=> i \in 1 .. k \/ i = k + 1
      /\ \A i \in 1 .. k : ~ (k + 1 < i)
      /\ ~ (k + 1 < k + 1)
  OBVIOUS
<1>5. Numbers(t) = Numbers(list) \union {Number(packet)}
  BY <1>2, <1>3, <1>4 DEF Numbers
<1>6. Wholes(list) /\ Number(packet) \in DOMAIN packets
        /\ packet = Whole(Number(packet)) => Wholes(t)
  BY <1>1, <1>2, <1>4 DEF Wholes
<1>7. Rising(list) /\ (\A n \in Numbers(list) : n < Number(packet)) => Rising(t)
  <2> HAVE Rising(list) /\ (\A n \in Numbers(list) : n < Number(packet))
  <2>1. ASSUME NEW i \in 1 .. k + 1, NEW j \in 1 .. k + 1, i < j
        PROVE  Number(t[i]) < Number(t[j])
    <3>1. i \in 1 .. k
      BY <1>4, <2>1
    <3>2. CASE j = k + 1
      <4>1. Number(list[i]) \in Numbers(list)
        BY <1>3, <3>1 DEF Numbers
      <4> QED BY <1>2, <3>1, <3>2, <4>1
    <3>3. CASE j \in 1 .. k
      BY <1>1, <1>2, <2>1, <3>1, <3>3 DEF Rising
    <3> QED BY <1>4, <3>2, <3>3
  <2> QED BY <1>2, <2>1 DEF Rising
<1> QED BY <1>1, <1>2, <1>5, <1>6, <1>7 DEF t

LEMMA NoPackets ==
  /\ Numbers(<< >>) = {} /\ Wholes(<< >>) /\ Rising(<< >>)
BY EmptySeq DEF Numbers, Wholes, Rising

LEMMA BoundaryType ==
  ASSUME packets \in Seq(PacketKinds), NEW r \in 0 .. Len(Media)
  PROVE  Boundary(r) \in BOOLEAN
<1>1. Media \in Seq(Pieces) /\ Len(Media) \in Nat
  BY MediaFacts
<1>2. CASE r = 0
  BY <1>2 DEF Boundary
<1>3. CASE r # 0
  <2>1. r \in 1 .. Len(Media)
    BY <1>1, <1>3
  <2>2. Media[r] \in Pieces
    BY <1>1, <2>1, ElementOfSeq
  <2>3. Media[r].last \in BOOLEAN
    BY <2>2 DEF Pieces
  <2> QED BY <1>3, <2>3 DEF Boundary
<1> QED BY <1>2, <1>3

(* The stream is dropped. *)
LEMMA DropKeeps ==
  ASSUME StreamInv, Drop
  PROVE  StreamInv'
<1>1. /\ UNCHANGED << packets, written, misflagged, torn, discarding, frames >>
      /\ child' = Killed /\ at' = "closed"
      /\ outcome' = (IF outcome = "open" THEN "stopped" ELSE outcome)
      /\ pipe' = << >> /\ page' = << >> /\ partial' = << >> /\ pending' = << >>
      /\ Types /\ Calls /\ Ordered
  BY DEF Drop, source, StreamInv
<1>2. Media' = Media
  BY <1>1, SameMedia
<1>3. Len(<< >>) = 0 /\ MaxPacket \in Nat /\ PipePages \in Nat /\ PageSegments \in Nat
  BY EmptySeq, BoundAssumption
<1>4. Types'
  BY <1>1, <1>2, <1>3 DEF Types, Killed, Pages
<1>5. Calls'
  BY <1>1, <1>2 DEF Types, Calls, Killed
<1>6. ReadAheadBounded'
  BY <1>1, <1>3 DEF ReadAheadBounded
<1>7. Ordered'
  <2>1. Numbers(frames)' = Numbers(frames) /\ Rising(frames)' = Rising(frames)
    BY <1>1 DEF Numbers, Number, Rising
  <2>2. Numbers(pending') = {} /\ Rising(pending')
    BY <1>1, NoPackets
  <2>3. Wholes(pending)'
    BY <1>1, <1>3 DEF Wholes
  <2>4. Numbers(pending)' = {} /\ Rising(pending)'
    BY <2>2 DEF Numbers, Rising, Number
  <2> QED BY <1>1, <2>1, <2>3, <2>4, SameMedia DEF Ordered
<1>8. Dense'
  BY <1>1, DenseSame
<1>9. Tracked'
  BY <1>1 DEF Tracked
<1> QED BY <1>4, <1>5, <1>6, <1>7, <1>8, <1>9 DEF StreamInv

(* The page is processed. *)
LEMMA EndPageKeeps ==
  ASSUME StreamInv, EndPage
  PROVE  StreamInv'
<1>1. /\ UNCHANGED << packets, written, misflagged, torn, child, pipe, page,
                      discarding, partial, pending, frames, outcome >>
      /\ at = "page" /\ page = << >> /\ at' = "packet" /\ Types /\ Calls
  BY DEF EndPage, source, StreamInv
<1>2. Types'
  BY <1>1, TypesSame DEF Types
<1>3. Calls'
  <2>1. Media' = Media
    BY <1>1, SameMedia
  <2> QED BY <1>1, <2>1 DEF Calls
<1>4. ReadAheadBounded' /\ Ordered'
  BY <1>1, BoundSame, OrderedSame
<1>5. Dense' /\ Tracked'
  BY <1>1, DenseSame, TrackedSame
<1> QED BY <1>2, <1>3, <1>4, <1>5 DEF StreamInv

(* The pipe is closed. *)
LEMMA EndPipeKeeps ==
  ASSUME StreamInv, EndPipe
  PROVE  StreamInv'
<1>1. /\ UNCHANGED << packets, written, misflagged, torn, child, pipe, page,
                      discarding, partial, pending, frames >>
      /\ at = "packet" /\ pending = << >> /\ pipe = << >> /\ child # "running"
      /\ \/ outcome' = "error" /\ at' = "idle"
         \/ outcome' = outcome /\ at' = "wait" /\ partial = << >>
      /\ Types /\ Calls
  BY DEF EndPipe, Over, source, StreamInv
<1>2. Types'
  BY <1>1, TypesSame DEF Types
<1>3. Calls'
  <2>1. Media' = Media
    BY <1>1, SameMedia
  <2> QED BY <1>1, <2>1 DEF Calls
<1>4. ReadAheadBounded' /\ Ordered'
  BY <1>1, BoundSame, OrderedSame
<1>5. Dense' /\ Tracked'
  BY <1>1, DenseSame, TrackedSame
<1> QED BY <1>2, <1>3, <1>4, <1>5 DEF StreamInv

(* At the end of the pipe of a process that succeeded every packet has     *)
(* been completed: all was written, read and taken.                        *)
LEMMA AllTaken ==
  ASSUME StreamInv, at = "wait", child = "succeeded", ~ misflagged
  PROVE  Audio \subseteq Numbers(frames)
<1>1. /\ outcome = "open" /\ page = << >> /\ pending = << >> /\ pipe = << >>
      /\ written = Len(Media) /\ Types
  BY DEF StreamInv, Calls
<1>2. PICK start \in [1 .. Len(pipe) + 1 -> 0 .. written], r \in 0 .. written :
        Reading(start, r)
  BY <1>1, ReaderAt
<1>3. Len(<< >>) = 0
  BY EmptySeq
<1>4. r = written
  <2>1. start[0 + 1] = written /\ r + 0 = start[1]
    BY <1>1, <1>2, <1>3 DEF Reading, Chain
  <2>2. written \in Nat
    BY <1>1, Numeric
  <2> QED BY <2>1, <2>2
<1>5. Completed(r) = DOMAIN packets
  BY <1>1, <1>4, MediaFacts DEF Types
<1>6. Audio \intersect Completed(r) \subseteq Numbers(frames) \union Numbers(pending)
  BY <1>2 DEF Reading, Kept
<1> QED BY <1>1, <1>5, <1>6, NoPackets DEF Audio

LEMMA ChildEndsKeeps ==
  ASSUME StreamInv, ChildEnds
  PROVE  StreamInv'
<1>1. /\ UNCHANGED << packets, written, misflagged, torn, child, pipe, page,
                      discarding, partial, pending, frames >>
      /\ at = "wait" /\ at' = "idle"
      /\ outcome' = (IF child = "succeeded" THEN "end" ELSE "error")
      /\ Types /\ Calls
  BY DEF ChildEnds, Over, source, StreamInv
<1>2. Types'
  BY <1>1, TypesSame DEF Types
<1>3. Calls'
  <2>1. Media' = Media
    BY <1>1, SameMedia
  <2> QED BY <1>1, <2>1 DEF Calls
<1>4. ReadAheadBounded' /\ Ordered'
  BY <1>1, BoundSame, OrderedSame
<1>5. Dense'
  <2>1. Audio' = Audio /\ Numbers(frames)' = Numbers(frames)
    BY <1>1, SameMedia DEF Numbers, Number
  <2>2. outcome' = "end" /\ ~ misflagged => Audio \subseteq Numbers(frames)
    BY <1>1, AllTaken
  <2> QED BY <1>1, <2>1, <2>2 DEF StreamInv, Dense
<1>6. Tracked'
  BY <1>1 DEF Tracked
<1> QED BY <1>2, <1>3, <1>4, <1>5, <1>6 DEF StreamInv

(* A packet is handed out, skipped or refused. *)
LEMMA TakePacketKeeps ==
  ASSUME StreamInv, TakePacket
  PROVE  StreamInv'
<1> DEFINE packet == Head(pending)
           n == Number(packet)
           kind == packets[n].kind
<1>1. /\ UNCHANGED << packets, written, misflagged, torn, child, pipe, page,
                      discarding, partial >>
      /\ at = "packet" /\ pending # << >> /\ pending' = Tail(pending)
      /\ Types /\ Calls /\ Ordered /\ Dense /\ ReadAheadBounded
  BY DEF TakePacket, Over, source, StreamInv
<1>2. \/ kind = "header" /\ UNCHANGED << at, frames, outcome >>
      \/ kind = "empty" /\ outcome' = "error" /\ at' = "idle" /\ frames' = frames
      \/ kind = "audio" /\ frames' = Append(frames, packet) /\ at' = "idle"
         /\ outcome' = outcome
  BY DEF TakePacket, Over, Number
<1>3. outcome = "open"
  BY <1>1 DEF Calls
<1>4. /\ pending \in Seq(Seq(ToSet(Media))) /\ frames \in Seq(Seq(ToSet(Media)))
      /\ Media' = Media /\ packets \in Seq(PacketKinds)
  BY <1>1, SameMedia DEF Types
<1>5. /\ pending' \in Seq(Seq(ToSet(Media))) /\ packet \in Seq(ToSet(Media))
      /\ Numbers(pending) = {n} \union Numbers(pending')
      /\ Wholes(pending') /\ n \in DOMAIN packets /\ packet = Whole(n)
      /\ Rising(pending') /\ \A m \in Numbers(pending') : n < m
  BY <1>1, <1>4, Fronts, HeadTailProperties DEF Ordered
<1> HIDE DEF packet, n
<1>6. Len(pending') \in Nat /\ Len(pending') = Len(pending) - 1 /\ Len(pending) \in Nat
      /\ Len(page) \in Nat
  <2>1. Len(pending') = Len(pending) - 1
    BY <1>1, <1>4, HeadTailProperties
  <2> QED BY <1>1, <1>5, <2>1, Numeric, LenProperties
<1>7. ReadAheadBounded'
  BY <1>1, <1>6, BoundAssumption DEF ReadAheadBounded
<1>8. /\ \/ frames' = frames
         \/ frames' = Append(frames, packet) /\ kind = "audio" /\ outcome' = outcome
      /\ frames' \in Seq(Seq(ToSet(Media)))
      /\ Wholes(frames') /\ Rising(frames')
      /\ \/ Numbers(frames') = Numbers(frames)
         \/ Numbers(frames') = Numbers(frames) \union {n} /\ kind = "audio"
            /\ outcome' = outcome
  <2>1. \A m \in Numbers(frames) : m < n
    BY <1>1, <1>5 DEF Ordered
  <2>2. CASE frames' = frames
    BY <1>1, <1>4, <2>2 DEF Ordered
  <2>3. CASE kind = "audio" /\ frames' = Append(frames, packet) /\ outcome' = outcome
    <3>1. Number(packet) = n
      BY DEF n
    <3> HIDE DEF kind
    <3>2. Wholes(frames) /\ Rising(frames)
      BY <1>1 DEF Ordered
    <3> QED BY <1>4, <1>5, <2>1, <2>3, <3>1, <3>2, Backs
  <2> QED BY <1>2, <2>2, <2>3
<1>9. /\ Numbers(pending)' = Numbers(pending') /\ Numbers(frames)' = Numbers(frames')
      /\ Rising(pending)' = Rising(pending') /\ Rising(frames)' = Rising(frames')
      /\ Wholes(pending)' = Wholes(pending') /\ Wholes(frames)' = Wholes(frames')
      /\ Audio' = Audio
  BY <1>1, SameMedia DEF Numbers, Number, Rising, Wholes, Whole, Audio
<1>10. kind = "audio" => n \in Audio
  BY <1>5 DEF Audio
<1>11. Ordered'
  <2>1. \A l \in Numbers(frames'), m \in Numbers(pending') : l < m
    BY <1>1, <1>5, <1>8 DEF Ordered
  <2>2. Numbers(frames') \subseteq Audio
    BY <1>1, <1>8, <1>10 DEF Ordered
  <2> QED BY <1>5, <1>8, <1>9, <2>1, <2>2 DEF Ordered
<1>12. PICK start \in [1 .. Len(pipe) + 1 -> 0 .. written], r \in 0 .. written :
         Reading(start, r)
  BY <1>3, ReaderAt
<1>13. /\ Numbers(frames) \union Numbers(pending) \subseteq Completed(r)
       /\ ~ misflagged => Audio \intersect Completed(r) \subseteq
                            Numbers(frames) \union Numbers(pending)
  BY <1>12 DEF Reading, Kept
<1>14. ~ misflagged /\ kind = "audio" =>
         \A m \in Audio : m < n => m \in Numbers(frames)
  <2> SUFFICES ASSUME ~ misflagged, kind = "audio", NEW m \in Audio, m < n
               PROVE  m \in Numbers(frames)
    OBVIOUS
  <2>1. m \in 1 .. n /\ m \in Nat /\ n \in Nat
    BY <1>4, <1>5, PacketFacts DEF Audio
  <2>2. n \in Completed(r) /\ r \in 0 .. Len(Media)
    <3>1. written \in 0 .. Len(Media) /\ Len(Media) \in Nat
      BY <1>1, Numeric DEF Types
    <3> QED BY <1>5, <1>13, <3>1
  <2>3. m \in Completed(r)
    BY <1>4, <2>1, <2>2, CompletedFirst
  <2>4. m \in Numbers(frames) \union {n} \union Numbers(pending')
    BY <1>5, <1>13, <2>3
  <2>5. m \notin Numbers(pending')
    <3> SUFFICES ASSUME m \in Numbers(pending') PROVE FALSE
      OBVIOUS
    <3>1. n < m
      BY <1>5
    <3> QED BY <2>1, <3>1
  <2>6. m # n
    BY <2>1
  <2> QED BY <2>4, <2>5, <2>6
<1>15. Dense'
  <2>1. outcome' # "end"
    BY <1>2, <1>3
  <2>2. ASSUME ~ misflagged, NEW l \in Numbers(frames'), NEW m \in Audio, m < l
        PROVE  m \in Numbers(frames')
    <3>1. CASE l \in Numbers(frames)
      BY <1>1, <1>8, <2>2, <3>1 DEF Dense
    <3>2. CASE l = n /\ kind = "audio"
      BY <1>8, <1>14, <2>2, <3>2
    <3> QED BY <1>8, <3>1, <3>2
  <2> QED BY <1>1, <1>9, <2>1, <2>2 DEF Dense
<1>16. Tracked'
  <2>1. CASE outcome' # "open"
    BY <2>1 DEF Tracked
  <2>2. CASE outcome' = "open"
    <3>1. Numbers(frames') \union Numbers(pending') \subseteq Completed(r)
      BY <1>5, <1>8, <1>13
    <3>2. ~ misflagged => Audio \intersect Completed(r) \subseteq
                            Numbers(frames') \union Numbers(pending')
      <4>1. kind # "audio" => n \notin Audio
        BY DEF Audio
      <4>2. kind = "audio" => n \in Numbers(frames')
        <5>1. kind = "audio" => frames' = Append(frames, packet)
          BY <1>2
        <5>2. Number(packet) = n
          BY DEF n
        <5>3. Numbers(Append(frames, packet)) = Numbers(frames) \union {Number(packet)}
          BY <1>4, <1>5, Backs
        <5> HIDE DEF kind
        <5> QED BY <5>1, <5>2, <5>3
      <4>3. Numbers(frames) \subseteq Numbers(frames')
        BY <1>8
      <4> QED BY <1>5, <1>13, <4>1, <4>2, <4>3
    <3>3. Kept(r)'
      BY <1>1, <1>9, <3>1, <3>2, SameMedia DEF Kept
    <3>4. Chain(start, r)' /\ Building(r)' /\ Wrong(start)' = Wrong(start)
      BY <1>1, <1>12, SameMedia DEF Reading, Chain, Building, Wrong
    <3>5. Flags(start)' /\ InStep(start, r)'
      BY <1>1, <1>2, <1>12, <3>4, SameMedia DEF Reading, Flags, InStep, Lost
    <3>6. Reading(start, r)'
      BY <3>3, <3>4, <3>5 DEF Reading
    <3> QED BY <1>1, <1>12, <3>6 DEF Tracked
  <2> QED BY <2>1, <2>2
<1>17. Types'
  BY <1>1, <1>2, <1>4, <1>5, <1>8 DEF Types, Pages
<1>18. Calls'
  BY <1>1, <1>2, <1>3, <1>4 DEF Calls
<1> QED BY <1>7, <1>11, <1>15, <1>16, <1>17, <1>18 DEF StreamInv

(* A page is read from the pipe. *)
LEMMA ReadPageTracked ==
  ASSUME StreamInv, ReadPage, outcome' = "open"
  PROVE  Tracked'
<1>1. /\ UNCHANGED << packets, written, misflagged, torn, partial, pending, frames >>
      /\ at = "packet" /\ pending = << >> /\ pipe # << >> /\ pipe' = Tail(pipe)
      /\ Types /\ Calls
  BY DEF ReadPage, source, StreamInv
<1> DEFINE continued == Head(pipe).continued
<1>2. /\ continued \/ partial = << >>
      /\ page' = Head(pipe).segments /\ discarding' = (continued /\ partial = << >>)
      /\ at' = "page" /\ outcome = "open"
  BY DEF ReadPage, Over
<1>3. page = << >> /\ Len(<< >>) = 0
  BY <1>1, <1>2, EmptySeq DEF Calls
<1>4. PICK start \in [1 .. Len(pipe) + 1 -> 0 .. written], r \in 0 .. written :
        Reading(start, r)
  BY <1>2, ReaderAt
<1>5. /\ pipe \in Seq(Pages) /\ written \in Nat /\ Len(Media) \in Nat
      /\ written \in 0 .. Len(Media) /\ packets \in Seq(PacketKinds)
      /\ misflagged \in BOOLEAN
  BY <1>1, Numeric DEF Types
<1>6. PICK k \in Nat : Len(pipe) = k + 1 /\ Len(pipe') = k
  <2>1. Len(pipe) \in Nat \ {0} /\ Len(pipe') = Len(pipe) - 1
    BY <1>1, <1>5, EmptySeq, HeadTailProperties
  <2>2. Len(pipe) - 1 \in Nat /\ Len(pipe) = Len(pipe) - 1 + 1
    BY <2>1
  <2> QED BY <2>1, <2>2
<1>7. /\ \A i \in 1 .. k : pipe'[i] = pipe[i + 1]
      /\ Head(pipe) = pipe[1] /\ pipe[1] \in Pages
  <2>1. 1 \in 1 .. Len(pipe)
    BY <1>6
  <2>2. \A i \in 1 .. Len(pipe') : pipe'[i] = pipe[i + 1]
    BY <1>1, <1>5, HeadTailProperties
  <2> QED BY <1>5, <1>6, <2>1, <2>2, ElementOfSeq
<1>8. continued \in BOOLEAN /\ continued = pipe[1].continued
  BY <1>7 DEF Pages
<1>9. PICK s \in [1 .. Len(pipe') + 1 -> 0 .. written] :
        \A i \in 1 .. k + 1 : s[i] = start[i + 1]
  <2> DEFINE t == [i \in 1 .. k + 1 |-> start[i + 1]]
  <2>1. \A i \in 1 .. k + 1 : i + 1 \in 1 .. k + 2 /\ k + 2 = Len(pipe) + 1
    BY <1>6
  <2>2. t \in [1 .. Len(pipe') + 1 -> 0 .. written]
    BY <1>6, <2>1
  <2> QED BY <2>2
<1> HIDE DEF continued
<1>10. /\ start[k + 2] = written /\ r = start[1]
       /\ \A i \in 1 .. k + 1 : start[i] < start[i + 1]
            /\ pipe[i].segments = SubSeq(Media, start[i] + 1, start[i + 1])
  <2>1. /\ start[Len(pipe) + 1] = written /\ r + Len(page) = start[1]
        /\ \A i \in 1 .. Len(pipe) : start[i] < start[i + 1]
             /\ pipe[i].segments = SubSeq(Media, start[i] + 1, start[i + 1])
    BY <1>4 DEF Reading, Chain
  <2>2. Len(pipe) + 1 = k + 2 /\ r + 0 = r
    BY <1>6
  <2> QED BY <1>3, <1>6, <2>1, <2>2
<1>11. Media' = Media /\ Boundary(r)' = Boundary(r)
       /\ Boundary(r) \in BOOLEAN
       /\ \A i \in 1 .. k + 1 : Boundary(start[i])' = Boundary(start[i])
  <2>1. r \in 0 .. Len(Media)
    BY <1>5
  <2> QED BY <1>1, <1>5, <2>1, BoundaryType, SameMedia
<1>12. /\ s[1] = start[2] /\ 1 \in 1 .. k + 1
       /\ \A i \in 1 .. k : i + 1 \in 1 .. k + 1 /\ i \in 1 .. k + 1
            /\ s[i] = start[i + 1] /\ s[i + 1] = start[i + 1 + 1]
       /\ s[k + 1] = start[k + 2]
  <2>1. 1 \in 1 .. k + 1 /\ 1 + 1 = 2 /\ k + 1 \in 1 .. k + 1 /\ k + 1 + 1 = k + 2
    OBVIOUS
  <2>2. \A i \in 1 .. k : i + 1 \in 1 .. k + 1 /\ i \in 1 .. k + 1
    OBVIOUS
  <2> QED BY <1>9, <2>1, <2>2
<1>13. page' = SubSeq(Media, r + 1, s[1]) /\ r + Len(page') = s[1]
  <2>1. page' = SubSeq(Media, start[1] + 1, start[1 + 1]) /\ start[1] < start[1 + 1]
    BY <1>2, <1>7, <1>10, <1>12
  <2>2. 1 + 1 = 2
    OBVIOUS
  <2>3. page' = SubSeq(Media, r + 1, s[1]) /\ r < s[1]
    BY <1>10, <1>12, <2>1, <2>2
  <2>4. s[1] \in 0 .. written
    BY <1>6, <1>12
  <2>5. r \in 0 .. Len(Media) /\ s[1] \in r .. Len(Media)
    BY <1>5, <2>3, <2>4
  <2>6. Len(page') = s[1] - r
    BY <1>5, <2>3, <2>5, CutIs
  <2> QED BY <1>5, <2>3, <2>4, <2>6
<1>14. Chain(s, r)'
  <2>1. s[Len(pipe') + 1] = written'
    BY <1>1, <1>6, <1>10, <1>12
  <2>2. \A i \in 1 .. Len(pipe') :
          s[i] < s[i + 1] /\ pipe'[i].segments = SubSeq(Media, s[i] + 1, s[i + 1])
    BY <1>6, <1>7, <1>10, <1>12
  <2> QED BY <1>11, <1>13, <2>1, <2>2 DEF Chain
<1>15. \A i \in Wrong(s)' : i \in Nat /\ i + 1 \in Wrong(start)
  <2> TAKE i \in Wrong(s)'
  <2>1. i \in 1 .. k /\ pipe'[i].continued = Boundary(s[i])'
    BY <1>6 DEF Wrong
  <2>2. i + 1 \in 1 .. k + 1 /\ pipe[i + 1].continued = Boundary(start[i + 1])
    BY <1>7, <1>11, <1>12, <2>1
  <2> QED BY <1>6, <2>1, <2>2 DEF Wrong
<1>16. (Wrong(start) # {} => misflagged) /\ \A i, j \in Wrong(start) : i = j
  BY <1>4 DEF Reading, Flags
<1>17. Flags(s)'
  <2>1. Wrong(s)' # {} => misflagged'
    BY <1>1, <1>15, <1>16
  <2>2. ASSUME NEW i \in Wrong(s)', NEW j \in Wrong(s)' PROVE i = j
    <3>1. i \in Nat /\ j \in Nat /\ i + 1 = j + 1
      BY <1>15, <1>16
    <3> QED BY <3>1
  <2> QED BY <2>1, <2>2 DEF Flags
<1>18. (continued = Boundary(r)) => 1 \in Wrong(start)
  BY <1>6, <1>8, <1>10, <1>12 DEF Wrong
<1>19. 1 \in Wrong(start) => misflagged /\ Wrong(s)' = {}
  <2> HAVE 1 \in Wrong(start)
  <2>1. ASSUME NEW i \in Wrong(s)' PROVE FALSE
    <3>1. i \in Nat /\ i + 1 = 1 /\ i \in 1 .. k
      BY <1>6, <1>15, <1>16 DEF Wrong
    <3> QED BY <3>1
  <2> QED BY <1>16, <2>1
<1>20. Lost(start) => Lost(s)' /\ Wrong(start) = {}
  BY <1>1, <1>15 DEF Lost
<1>21. 1 \in Wrong(start) => Lost(s)'
  BY <1>1, <1>19 DEF Lost
<1>22. partial = << >> /\ Boundary(r) = FALSE => Lost(start)
  BY <1>4 DEF Reading, InStep
<1>23. InStep(s, r)'
  <2>1. partial' = << >> /\ ~ Boundary(r)' => Lost(s)'
    BY <1>1, <1>11, <1>20, <1>22
  <2>2. discarding' => partial' = << >> /\ Lost(s)'
    <3> HAVE discarding'
    <3>1. continued = TRUE /\ partial = << >>
      BY <1>2, <1>8 DEF continued
    <3>2. Boundary(r) = TRUE \/ Boundary(r) = FALSE
      BY <1>11
    <3> QED BY <1>1, <1>18, <1>20, <1>21, <1>22, <3>1, <3>2
  <2>3. ~ discarding' /\ partial' = << >> => Boundary(r)'
    <3> HAVE ~ discarding' /\ partial' = << >>
    <3>1. continued = FALSE /\ partial = << >>
      BY <1>1, <1>2, <1>8 DEF continued
    <3>2. Boundary(r) # FALSE
      BY <1>18, <1>20, <1>22, <3>1
    <3> QED BY <1>11, <3>2
  <2> QED BY <2>1, <2>2, <2>3 DEF InStep
<1>24. Building(r)' /\ Kept(r)'
  BY <1>1, <1>4, SameMedia DEF Reading, Building, Kept, Numbers, Number
<1>25. Reading(s, r)'
  BY <1>14, <1>17, <1>23, <1>24 DEF Reading
<1> QED BY <1>1, <1>9, <1>25 DEF Tracked

LEMMA ReadPageKeeps ==
  ASSUME StreamInv, ReadPage
  PROVE  StreamInv'
<1>1. /\ UNCHANGED << packets, written, misflagged, torn, partial, pending, frames >>
      /\ at = "packet" /\ pending = << >> /\ pipe # << >> /\ pipe' = Tail(pipe)
      /\ Types /\ Calls
  BY DEF ReadPage, source, StreamInv
<1>2. /\ outcome = "open" /\ page = << >> /\ child' = child /\ child # "none"
      /\ \/ /\ page' = Head(pipe).segments
            /\ discarding' = (Head(pipe).continued /\ partial = << >>)
            /\ at' = "page" /\ outcome' = "open"
         \/ /\ outcome' = "error" /\ at' = "idle"
            /\ page' = page /\ discarding' = discarding
  BY <1>1 DEF ReadPage, Over, Calls
<1>3. /\ Media' = Media /\ Pages' = Pages
  BY <1>1, SameMedia DEF Pages
<1>4. /\ pipe \in Seq(Pages) /\ pipe' \in Seq(Pages) /\ Head(pipe) \in Pages
      /\ Len(pipe') = Len(pipe) - 1 /\ Len(pipe) \in Nat \ {0}
      /\ \A i \in 1 .. Len(pipe') : pipe'[i] = pipe[i + 1]
      /\ Head(pipe) = pipe[1]
  <2>1. pipe \in Seq(Pages)
    BY <1>1 DEF Types
  <2> QED BY <1>1, <2>1, EmptySeq, HeadTailProperties
<1>5. PipePages \in Nat /\ PageSegments \in Nat /\ Len(<< >>) = 0
  BY BoundAssumption, EmptySeq
<1>6. /\ page' \in Seq(ToSet(Media)) /\ discarding' \in BOOLEAN
      /\ page' = << >> \/ Len(page') \in 1 .. PageSegments
  <2>1. /\ Head(pipe).segments \in Seq(ToSet(Media)) /\ Head(pipe).continued \in BOOLEAN
    BY <1>4 DEF Pages
  <2>2. Len(Head(pipe).segments) \in 1 .. PageSegments
    <3>1. 1 \in 1 .. Len(pipe)
      BY <1>4
    <3> QED BY <1>1, <1>4, <3>1 DEF Types
  <2> QED BY <1>1, <1>2, <2>1, <2>2 DEF Types
<1>7. \A i \in 1 .. Len(pipe') : Len(pipe'[i].segments) \in 1 .. PageSegments
  <2> TAKE i \in 1 .. Len(pipe')
  <2>1. i + 1 \in 1 .. Len(pipe)
    BY <1>4
  <2> QED BY <1>1, <1>4, <2>1 DEF Types
<1>8. Types'
  <2>1. Len(pipe') <= PipePages
    BY <1>1, <1>4, <1>5 DEF Types
  <2>2. at' \in {"closed", "idle", "packet", "page", "wait"}
        /\ outcome' \in {"open", "end", "error", "stopped"}
    BY <1>2
  <2> QED BY <1>1, <1>2, <1>3, <1>4, <1>6, <1>7, <2>1, <2>2 DEF Types
<1>9. Calls'
  BY <1>1, <1>2, <1>3 DEF Calls
<1>10. ReadAheadBounded'
  <2>1. Len(page') \in 0 .. PageSegments
    BY <1>5, <1>6
  <2>2. Len(pending') = 0
    BY <1>1, <1>5
  <2> QED BY <1>5, <2>1, <2>2 DEF ReadAheadBounded
<1>11. Ordered'
  BY <1>1, OrderedSame
<1>12. Dense'
  <2>1. outcome' # "end"
    BY <1>2
  <2> QED BY <1>1, <2>1, DenseSame
<1>13. Tracked'
  <2>1. CASE outcome' = "open"
    BY <2>1, ReadPageTracked
  <2>2. CASE outcome' # "open"
    BY <2>2 DEF Tracked
  <2> QED BY <2>1, <2>2
<1> QED BY <1>8, <1>9, <1>10, <1>11, <1>12, <1>13 DEF StreamInv

(* A segment is taken from the page: where that leaves the reader. *)
LEMMA SegmentTaken ==
  ASSUME Types, page # << >>,
         NEW start \in [1 .. Len(pipe) + 1 -> 0 .. written], NEW r \in 0 .. written,
         Chain(start, r)
  PROVE  /\ r + 1 \in 0 .. written /\ r \in Nat /\ r \in 0 .. Len(Media)
         /\ r + 1 \in 0 .. Len(Media) /\ r + 1 \in 1 .. Len(Media)
         /\ Head(page) = Media[r + 1] /\ Media[r + 1] \in ToSet(Media)
         /\ Media[r + 1] \in Pieces
         /\ Tail(page) \in Seq(ToSet(Media)) /\ Len(Tail(page)) = Len(page) - 1
         /\ Len(page) \in Nat \ {0}
         /\ r + 1 + Len(Tail(page)) = start[1]
         /\ Tail(page) = SubSeq(Media, r + 1 + 1, start[1])
<1>1. /\ page \in Seq(ToSet(Media)) /\ packets \in Seq(PacketKinds)
      /\ written \in 0 .. Len(Media) /\ Len(Media) \in Nat /\ written \in Nat
      /\ Len(pipe) \in Nat
  BY Numeric DEF Types
<1>2. /\ Len(page) \in Nat \ {0}
      /\ Tail(page) \in Seq(ToSet(Media)) /\ Len(Tail(page)) = Len(page) - 1
  BY <1>1, EmptySeq, HeadTailProperties
<1>3. r + Len(page) = start[1] /\ page = SubSeq(Media, r + 1, start[1])
  BY DEF Chain
<1>4. start[1] \in 0 .. written
  <2>1. 1 \in 1 .. Len(pipe) + 1
    BY <1>1
  <2> QED BY <2>1
<1>5. r \in 0 .. Len(Media) /\ start[1] \in r + 1 .. Len(Media) /\ r + 1 \in 0 .. written
      /\ r + 1 \in 1 .. Len(Media) /\ r \in Nat /\ r + 1 \in 0 .. Len(Media)
  <2>1. r + Len(page) = start[1] /\ Len(page) \in Nat \ {0} /\ r \in Nat
        /\ start[1] \in Nat /\ start[1] <= written /\ written <= Len(Media)
    BY <1>1, <1>2, <1>3, <1>4
  <2> QED BY <1>1, <2>1
<1>6. Head(page) = Media[r + 1] /\ Tail(page) = SubSeq(Media, r + 2, start[1])
  BY <1>1, <1>3, <1>5, CutHead
<1>7. r + 2 = r + 1 + 1 /\ r + 1 + Len(Tail(page)) = start[1]
  BY <1>2, <1>3, <1>4, <1>5
<1>8. Media[r + 1] \in ToSet(Media) /\ Media[r + 1] \in Pieces
  <2>1. DOMAIN Media = 1 .. Len(Media) /\ Media \in Seq(Pieces)
    BY <1>1, Numeric, MediaFacts
  <2> QED BY <1>5, <2>1, ElementOfSeq DEF ToSet
<1> QED BY <1>2, <1>5, <1>6, <1>7, <1>8

LEMMA ChainTaken ==
  ASSUME Types, page # << >>,
         NEW start \in [1 .. Len(pipe) + 1 -> 0 .. written], NEW r \in 0 .. written,
         Chain(start, r), UNCHANGED << packets, written, pipe >>, page' = Tail(page)
  PROVE  Chain(start, r + 1)'
<1>1. /\ r + 1 + Len(Tail(page)) = start[1]
      /\ Tail(page) = SubSeq(Media, r + 1 + 1, start[1])
  BY SegmentTaken
<1>2. Media' = Media
  BY SameMedia
<1> QED BY <1>1, <1>2 DEF Chain

(* The rest of a packet is passed over. *)
LEMMA DiscardSegmentTracked ==
  ASSUME StreamInv, DiscardSegment, outcome = "open"
  PROVE  Tracked'
<1>1. /\ UNCHANGED << packets, written, misflagged, torn, child, at, pipe, partial,
                      pending, frames, outcome >>
      /\ at = "page" /\ page # << >> /\ discarding /\ page' = Tail(page)
      /\ discarding' = ~ Head(page).last
      /\ Types
  BY DEF DiscardSegment, source, StreamInv
<1>2. PICK start \in [1 .. Len(pipe) + 1 -> 0 .. written], r \in 0 .. written :
        Reading(start, r)
  BY ReaderAt
<1>3. /\ r + 1 \in 0 .. written /\ r \in Nat /\ r + 1 \in 1 .. Len(Media)
      /\ Head(page) = Media[r + 1] /\ Media[r + 1] \in Pieces
  <2>1. Chain(start, r)
    BY <1>2 DEF Reading
  <2> QED BY <1>1, <2>1, SegmentTaken
<1>4. Chain(start, r + 1)'
  BY <1>1, <1>2, ChainTaken DEF Reading
<1>5. partial = << >> /\ Lost(start) /\ Len(<< >>) = 0
  BY <1>1, <1>2, EmptySeq DEF Reading, InStep
<1>6. Wrong(start)' = Wrong(start)
  BY <1>1, SameMedia DEF Wrong
<1>7. Lost(start)' /\ Flags(start)'
  BY <1>1, <1>2, <1>5, <1>6 DEF Lost, Reading, Flags
<1>8. Building(r + 1)'
  <2>1. \A i \in r + 1 - 0 + 1 .. r + 1 : FALSE
    BY <1>3
  <2>2. SubSeq(Media, r + 1 - 0 + 1, r + 1) = << >> /\ 0 <= r + 1
    BY <1>3, SubSeqEmpty
  <2> QED BY <1>1, <1>5, <2>1, <2>2, SameMedia DEF Building
<1>9. InStep(start, r + 1)'
  <2>1. ~ discarding' => Boundary(r + 1)
    BY <1>1, <1>3 DEF Boundary
  <2> QED BY <1>1, <1>5, <1>7, <2>1, SameMedia DEF InStep
<1>10. Kept(r + 1)'
  <2>1. Completed(r) \subseteq Completed(r + 1) /\ misflagged
    <3>1. (Media[r + 1].last = TRUE) \/ (Media[r + 1].last = FALSE)
      BY <1>3 DEF Pieces
    <3> QED BY <1>3, <1>5, <3>1, CompletedNext DEF Lost
  <2>2. Numbers(frames) \union Numbers(pending) \subseteq Completed(r)
    BY <1>2 DEF Reading, Kept
  <2>3. /\ Numbers(frames)' = Numbers(frames) /\ Numbers(pending)' = Numbers(pending)
        /\ Completed(r + 1)' = Completed(r + 1)
    BY <1>1, SameMedia DEF Numbers, Number
  <2> QED BY <1>1, <2>1, <2>2, <2>3 DEF Kept
<1>11. Reading(start, r + 1)'
  BY <1>4, <1>7, <1>8, <1>9, <1>10 DEF Reading
<1> QED BY <1>1, <1>2, <1>3, <1>11 DEF Tracked

LEMMA DiscardSegmentKeeps ==
  ASSUME StreamInv, DiscardSegment
  PROVE  StreamInv'
<1>1. /\ UNCHANGED << packets, written, misflagged, torn, child, at, pipe, partial,
                      pending, frames, outcome >>
      /\ at = "page" /\ page # << >> /\ discarding /\ page' = Tail(page)
      /\ discarding' = ~ Head(page).last
      /\ Types /\ Calls /\ ReadAheadBounded
  BY DEF DiscardSegment, source, StreamInv
<1>2. outcome = "open" /\ Media' = Media /\ Pages' = Pages
  BY <1>1, SameMedia DEF Calls, Pages
<1>3. /\ Tail(page) \in Seq(ToSet(Media)) /\ Len(Tail(page)) = Len(page) - 1
      /\ Len(page) \in Nat
  <2>1. page \in Seq(ToSet(Media))
    BY <1>1 DEF Types
  <2> QED BY <1>1, <2>1, LenProperties, HeadTailProperties
<1>4. Types'
  BY <1>1, <1>2, <1>3 DEF Types
<1>5. Calls'
  BY <1>1, <1>2 DEF Calls
<1>6. ReadAheadBounded'
  BY <1>1, <1>3, Numeric, BoundAssumption DEF ReadAheadBounded
<1>7. Ordered' /\ Dense' /\ Tracked'
  BY <1>1, <1>2, OrderedSame, DenseSame, DiscardSegmentTracked
<1> QED BY <1>4, <1>5, <1>6, <1>7 DEF StreamInv

(* A segment joins the packet under construction. *)
LEMMA Grown ==
  ASSUME StreamInv, at = "page", page # << >>, ~ discarding,
         NEW start \in [1 .. Len(pipe) + 1 -> 0 .. written], NEW r \in 0 .. written,
         Reading(start, r)
  PROVE  /\ Append(partial, Head(page)) \in Seq(ToSet(Media))
         /\ Len(Append(partial, Head(page))) = Len(partial) + 1
         /\ Len(partial) \in Nat /\ r - Len(partial) \in Nat
         /\ Append(partial, Head(page)) = SubSeq(Media, r - Len(partial) + 1, r + 1)
         /\ Boundary(r - Len(partial))
<1>1. Types
  BY DEF StreamInv
<1>2. /\ Len(partial) \in Nat /\ partial \in Seq(ToSet(Media))
      /\ packets \in Seq(PacketKinds) /\ Len(Media) \in Nat
  BY <1>1, Numeric DEF Types
<1>3. /\ r \in Nat /\ r + 1 \in 1 .. Len(Media) /\ Head(page) = Media[r + 1]
      /\ Media[r + 1] \in ToSet(Media)
  BY <1>1, SegmentTaken DEF Reading
<1>4. Len(partial) <= r /\ partial = SubSeq(Media, r - Len(partial) + 1, r)
  BY DEF Reading, Building
<1>5. Append(partial, Head(page)) = SubSeq(Media, r - Len(partial) + 1, r + 1)
  <2> DEFINE a == r - Len(partial)
  <2>1. a \in 0 .. Len(Media) /\ r \in a .. Len(Media) - 1
    BY <1>2, <1>3, <1>4
  <2> HIDE DEF a
  <2>2. Append(SubSeq(Media, a + 1, r), Media[r + 1]) = SubSeq(Media, a + 1, r + 1)
    BY <1>2, <2>1, CutLonger
  <2> QED BY <1>3, <1>4, <2>2 DEF a
<1>6. Boundary(r - Len(partial))
  <2>1. CASE partial = << >>
    <3>1. r - Len(partial) = r
      BY <1>3, <2>1, EmptySeq
    <3> QED BY <2>1, <3>1 DEF Reading, InStep
  <2>2. CASE partial # << >>
    BY <2>2 DEF Reading, Building
  <2> QED BY <2>1, <2>2
<1>7. r - Len(partial) \in Nat
  BY <1>2, <1>3, <1>4
<1>8. /\ Append(partial, Head(page)) \in Seq(ToSet(Media))
      /\ Len(Append(partial, Head(page))) = Len(partial) + 1
  <2>1. Head(page) \in ToSet(Media)
    BY <1>3
  <2> QED BY <1>2, <2>1, AppendProperties
<1> QED BY <1>2, <1>5, <1>6, <1>7, <1>8

(* When it is the last, they are a whole packet, the next one. *)
LEMMA GrownWhole ==
  ASSUME StreamInv, at = "page", page # << >>, ~ discarding, Head(page).last,
         NEW start \in [1 .. Len(pipe) + 1 -> 0 .. written], NEW r \in 0 .. written,
         Reading(start, r)
  PROVE  /\ Media[r + 1].packet \in DOMAIN packets
         /\ Append(partial, Head(page)) = Whole(Media[r + 1].packet)
         /\ Number(Append(partial, Head(page))) = Media[r + 1].packet
         /\ \A n \in Completed(r) : n < Media[r + 1].packet
<1> DEFINE a == r - Len(partial)
           n == Media[r + 1].packet
<1>1. Types
  BY DEF StreamInv
<1>2. /\ r + 1 \in 1 .. Len(Media) /\ r \in Nat /\ Head(page) = Media[r + 1]
      /\ Len(Media) \in Nat /\ packets \in Seq(PacketKinds)
  BY <1>1, SegmentTaken, Numeric DEF Reading, Types
<1>3. /\ a \in Nat /\ Len(partial) \in Nat /\ Boundary(a)
      /\ Append(partial, Head(page)) = SubSeq(Media, a + 1, r + 1)
  BY Grown
<1>4. \A i \in a + 1 .. r : ~ Media[i].last
  BY DEF Reading, Building
<1>5. /\ a \in 0 .. Len(Media) /\ r + 1 \in a + 1 .. Len(Media) /\ r + 1 - 1 = r
  BY <1>2, <1>3
<1> HIDE DEF a
<1>6. \A i \in a + 1 .. r + 1 - 1 : ~ Media[i].last
  BY <1>4, <1>5
<1>7. /\ n \in DOMAIN packets
      /\ SubSeq(Media, a + 1, r + 1) = Whole(n)
      /\ \A m \in Completed(a) : m < n
  <2> DEFINE b == r + 1
  <2>1. b \in a + 1 .. Len(Media) /\ Media[b].last /\ a \in 0 .. Len(Media)
    BY <1>2, <1>5
  <2>2. \A i \in a + 1 .. b - 1 : ~ Media[i].last
    BY <1>6
  <2> HIDE DEF b, n
  <2>3. /\ Media[b].packet \in DOMAIN packets
        /\ SubSeq(Media, a + 1, b) = Whole(Media[b].packet)
        /\ \A m \in Completed(a) : m < Media[b].packet
    BY <1>2, <1>3, <2>1, <2>2, WholeBetween
  <2> QED BY <2>3 DEF b, n
<1>8. Completed(r) = Completed(a)
  <2>1. \A j : j \in 1 .. r <=> j \in 1 .. a \/ j \in a + 1 .. r
    BY <1>2, <1>3, <1>5
  <2> QED BY <1>4, <2>1 DEF Completed
<1>9. Number(Whole(n)) = n
  <2>1. n \in 1 .. Len(packets) /\ Size(n) \in Nat \ {0}
    BY <1>2, <1>7, PacketFacts
  <2>2. /\ Segment(n, Size(n)) \in Seq(Pieces) /\ Len(Segment(n, Size(n))) = Size(n)
        /\ Segment(n, Size(n))[1] = Piece(n, 1)
    <3>1. 1 \in 1 .. Size(n)
      BY <2>1
    <3> HIDE DEF n
    <3> QED BY <1>2, <2>1, <3>1, SegmentIs
  <2>3. Head(Segment(n, Size(n))) = Piece(n, 1)
    BY <2>2
  <2> QED BY <2>3 DEF Number, Whole, Size, Piece
<1> QED BY <1>3, <1>7, <1>8, <1>9

LEMMA TakeSegmentTracked ==
  ASSUME StreamInv, TakeSegment, outcome = "open", outcome' = "open"
  PROVE  Tracked'
<1> DEFINE grown == Append(partial, Head(page))
<1>1. /\ UNCHANGED << packets, written, misflagged, torn, child, at, pipe,
                      discarding, frames >>
      /\ at = "page" /\ page # << >> /\ ~ discarding /\ page' = Tail(page)
      /\ \/ Head(page).last /\ partial' = << >> /\ pending' = Append(pending, grown)
         \/ ~ Head(page).last /\ partial' = grown /\ pending' = pending
      /\ Types
  BY DEF TakeSegment, Over, source, StreamInv
<1>2. PICK start \in [1 .. Len(pipe) + 1 -> 0 .. written], r \in 0 .. written :
        Reading(start, r)
  BY ReaderAt
<1>3. /\ r + 1 \in 0 .. written /\ r \in Nat /\ r + 1 \in 1 .. Len(Media)
      /\ Head(page) = Media[r + 1] /\ Media[r + 1] \in Pieces
  BY <1>1, <1>2, SegmentTaken DEF Reading
<1>4. Chain(start, r + 1)'
  BY <1>1, <1>2, ChainTaken DEF Reading
<1>5. Wrong(start)' = Wrong(start)
  BY <1>1, SameMedia DEF Wrong
<1>6. Flags(start)'
  BY <1>1, <1>2, <1>5 DEF Reading, Flags
<1>7. /\ grown \in Seq(ToSet(Media)) /\ Len(grown) = Len(partial) + 1
      /\ Len(partial) \in Nat /\ r - Len(partial) \in Nat
      /\ grown = SubSeq(Media, r - Len(partial) + 1, r + 1)
      /\ Boundary(r - Len(partial))
  BY <1>1, <1>2, Grown
<1>8. \A i \in r - Len(partial) + 1 .. r : ~ Media[i].last
  BY <1>2 DEF Reading, Building
<1>9. /\ Numbers(frames) \union Numbers(pending) \subseteq Completed(r)
      /\ ~ misflagged => Audio \intersect Completed(r) \subseteq
                           Numbers(frames) \union Numbers(pending)
  BY <1>2 DEF Reading, Kept
<1>10. /\ Completed(r + 1)' = Completed(r + 1) /\ Audio' = Audio /\ Media' = Media
       /\ Boundary(r + 1)' = Boundary(r + 1)
       /\ Boundary(r - Len(partial))' = Boundary(r - Len(partial)')
  BY <1>1, SameMedia DEF Boundary
<1>11. CASE ~ Head(page).last
  <2>1. partial' = grown /\ pending' = pending
    BY <1>1, <1>11
  <2> HIDE DEF grown
  <2>2. partial' # << >> /\ Len(partial') = Len(partial) + 1
    <3>1. Len(<< >>) = 0
      BY EmptySeq
    <3>2. Len(partial') = Len(partial) + 1 /\ Len(partial) + 1 # 0
      BY <1>7, <2>1
    <3> QED BY <3>1, <3>2
  <2>3. r + 1 - Len(partial') = r - Len(partial) /\ Len(partial') <= r + 1
    BY <1>3, <1>7, <2>2
  <2>4. Building(r + 1)'
    <3>1. Boundary(r + 1 - Len(partial'))
      BY <1>7, <2>3
    <3>2. \A i \in r + 1 - Len(partial') + 1 .. r + 1 : ~ Media[i].last
      <4>1. \A i \in r - Len(partial) + 1 .. r + 1 :
              i \in r - Len(partial) + 1 .. r \/ i = r + 1
        BY <1>3, <1>7
      <4> QED BY <1>3, <1>8, <1>11, <2>3, <4>1
    <3>3. partial' = SubSeq(Media, r + 1 - Len(partial') + 1, r + 1)
      BY <1>7, <2>1, <2>3
    <3>4. Boundary(r + 1 - Len(partial))' = Boundary(r + 1 - Len(partial'))
      BY <1>10 DEF Boundary
    <3> QED BY <1>10, <2>3, <3>1, <3>2, <3>3, <3>4 DEF Building
  <2>5. InStep(start, r + 1)'
    BY <1>1, <2>2 DEF InStep
  <2>6. Kept(r + 1)'
    <3>1. Completed(r + 1) = Completed(r)
      BY <1>3, <1>11, CompletedNext
    <3>2. Numbers(frames)' = Numbers(frames) /\ Numbers(pending)' = Numbers(pending)
      BY <1>1, <2>1 DEF Numbers, Number
    <3> QED BY <1>1, <1>9, <1>10, <3>1, <3>2 DEF Kept
  <2>7. Reading(start, r + 1)'
    BY <1>4, <1>6, <2>4, <2>5, <2>6 DEF Reading
  <2> QED BY <1>1, <1>2, <1>3, <2>7 DEF Tracked
<1>12. CASE Head(page).last
  <2>1. partial' = << >> /\ pending' = Append(pending, grown) /\ Len(<< >>) = 0
    BY <1>1, <1>12, EmptySeq
  <2>2. Number(grown) = Media[r + 1].packet
    BY <1>1, <1>2, <1>12, GrownWhole
  <2>3. Building(r + 1)'
    <3>1. \A i \in r + 1 - 0 + 1 .. r + 1 : FALSE
      BY <1>3
    <3>2. SubSeq(Media, r + 1 - 0 + 1, r + 1) = << >> /\ 0 <= r + 1
      BY <1>3, SubSeqEmpty
    <3> QED BY <1>10, <2>1, <3>1, <3>2 DEF Building
  <2>4. InStep(start, r + 1)'
    <3>1. Boundary(r + 1)
      BY <1>3, <1>12 DEF Boundary
    <3> QED BY <1>1, <1>10, <3>1 DEF InStep
  <2>5. Kept(r + 1)'
    <3>1. Completed(r + 1) = Completed(r) \union {Number(grown)}
      BY <1>3, <1>12, <2>2, CompletedNext
    <3>2. Numbers(Append(pending, grown)) = Numbers(pending) \union {Number(grown)}
      <4>1. pending \in Seq(Seq(ToSet(Media)))
        BY <1>1 DEF Types
      <4> HIDE DEF grown
      <4> QED BY <1>7, <4>1, Backs
    <3>3. Numbers(frames)' = Numbers(frames)
          /\ Numbers(pending)' = Numbers(Append(pending, grown))
      BY <1>1, <2>1 DEF Numbers, Number
    <3> QED BY <1>1, <1>9, <1>10, <3>1, <3>2, <3>3 DEF Kept
  <2>6. Reading(start, r + 1)'
    BY <1>4, <1>6, <2>3, <2>4, <2>5 DEF Reading
  <2> QED BY <1>1, <1>2, <1>3, <2>6 DEF Tracked
<1> QED BY <1>11, <1>12

LEMMA TakeSegmentKeeps ==
  ASSUME StreamInv, TakeSegment
  PROVE  StreamInv'
<1> DEFINE grown == Append(partial, Head(page))
<1>1. /\ UNCHANGED << packets, written, misflagged, torn, child, pipe,
                      discarding, frames >>
      /\ at = "page" /\ page # << >> /\ ~ discarding /\ page' = Tail(page)
      /\ Types /\ Calls /\ Ordered /\ ReadAheadBounded
  BY DEF TakeSegment, Over, source, StreamInv
<1>2. \/ /\ outcome' = "error" /\ at' = "idle"
         /\ UNCHANGED << partial, pending >>
      \/ /\ Len(grown) <= MaxPacket /\ Head(page).last /\ partial' = << >>
         /\ pending' = Append(pending, grown) /\ UNCHANGED << at, outcome >>
      \/ /\ Len(grown) <= MaxPacket /\ partial' = grown
         /\ UNCHANGED << at, outcome, pending >>
  BY DEF TakeSegment, Over
<1>3. outcome = "open" /\ Media' = Media /\ Pages' = Pages
  BY <1>1, SameMedia DEF Calls, Pages
<1>4. PICK start \in [1 .. Len(pipe) + 1 -> 0 .. written], r \in 0 .. written :
        Reading(start, r)
  BY <1>3, ReaderAt
<1>5. grown \in Seq(ToSet(Media))
  BY <1>1, <1>4, Grown
<1>6. Head(page).last => /\ Number(grown) \in DOMAIN packets
                         /\ grown = Whole(Number(grown))
                         /\ \A n \in Completed(r) : n < Number(grown)
  BY <1>1, <1>4, GrownWhole
<1> HIDE DEF grown
<1>7. /\ Tail(page) \in Seq(ToSet(Media)) /\ Len(Tail(page)) = Len(page) - 1
      /\ Len(page) \in Nat \ {0}
  BY <1>1, <1>4, SegmentTaken DEF Reading
<1>8. /\ pending \in Seq(Seq(ToSet(Media))) /\ Len(pending) \in Nat
      /\ MaxPacket \in Nat /\ PageSegments \in Nat /\ Len(<< >>) = 0
      /\ << >> \in Seq(ToSet(Media))
  BY <1>1, Numeric, BoundAssumption, EmptySeq DEF Types
<1>9. \A n \in Numbers(frames) \union Numbers(pending) :
        Head(page).last => n < Number(grown)
  <2>1. Numbers(frames) \union Numbers(pending) \subseteq Completed(r)
    BY <1>4 DEF Reading, Kept
  <2> QED BY <1>6, <2>1
<1>10. /\ pending' \in Seq(Seq(ToSet(Media)))
       /\ Len(pending') <= Len(pending) + 1 /\ Len(pending') \in Nat
       /\ Wholes(pending') /\ Rising(pending')
       /\ Numbers(pending') \subseteq Numbers(pending) \union
            (IF Head(page).last THEN {Number(grown)} ELSE {})
  <2>1. Wholes(pending) /\ Rising(pending)
    BY <1>1 DEF Ordered
  <2>2. CASE pending' = pending
    BY <1>8, <2>1, <2>2
  <2>3. CASE pending' = Append(pending, grown) /\ Head(page).last
    <3>1. /\ Append(pending, grown) \in Seq(Seq(ToSet(Media)))
          /\ Len(Append(pending, grown)) = Len(pending) + 1
          /\ Numbers(Append(pending, grown)) = Numbers(pending) \union {Number(grown)}
      BY <1>5, <1>8, Backs
    <3>2. Wholes(Append(pending, grown)) /\ Rising(Append(pending, grown))
      BY <1>5, <1>6, <1>8, <1>9, <2>1, <2>3, Backs
    <3> QED BY <1>8, <2>3, <3>1, <3>2
  <2> QED BY <1>2, <2>2, <2>3
<1>11. Types'
  <2>1. partial' \in Seq(ToSet(Media)) /\ Len(partial') <= MaxPacket
    <3>1. partial \in Seq(ToSet(Media)) /\ Len(partial) <= MaxPacket
      BY <1>1 DEF Types
    <3>2. \/ partial' = partial
          \/ partial' = << >>
          \/ partial' = grown /\ Len(grown) <= MaxPacket
      BY <1>2
    <3>3. << >> \in Seq(ToSet(Media)) /\ Len(<< >>) <= MaxPacket
      BY <1>8
    <3>4. CASE partial' = partial
      BY <3>1, <3>4
    <3>5. CASE partial' = << >>
      BY <3>3, <3>5
    <3>6. CASE partial' = grown /\ Len(grown) <= MaxPacket
      BY <1>5, <3>6
    <3> QED BY <3>2, <3>4, <3>5, <3>6
  <2>2. at' \in {"closed", "idle", "packet", "page", "wait"}
        /\ outcome' \in {"open", "end", "error", "stopped"}
    BY <1>1, <1>2, <1>3
  <2>3. /\ packets' \in Seq(PacketKinds) /\ Len(packets') <= MaxPackets
        /\ written' \in 0 .. Len(Media)
        /\ misflagged' \in BOOLEAN /\ torn' \in BOOLEAN /\ discarding' \in BOOLEAN
        /\ child' \in {"none", "running", "succeeded", "failed", "killed"}
        /\ frames' \in Seq(Seq(ToSet(Media)))
    BY <1>1 DEF Types
  <2>4. /\ pipe' \in Seq(Pages) /\ Len(pipe') <= PipePages
        /\ \A i \in 1 .. Len(pipe') : Len(pipe'[i].segments) \in 1 .. PageSegments
    BY <1>1 DEF Types
  <2>5. page' \in Seq(ToSet(Media)) /\ pending' \in Seq(Seq(ToSet(Media)))
    BY <1>1, <1>7, <1>10
  <2> QED BY <1>3, <2>1, <2>2, <2>3, <2>4, <2>5 DEF Types
<1>12. Calls'
  BY <1>1, <1>2, <1>3 DEF Calls
<1>13. ReadAheadBounded'
  BY <1>1, <1>7, <1>8, <1>10 DEF ReadAheadBounded
<1>14. Ordered'
  <2>1. /\ Numbers(pending)' = Numbers(pending') /\ Numbers(frames)' = Numbers(frames)
        /\ Rising(pending)' = Rising(pending') /\ Rising(frames)' = Rising(frames)
        /\ Wholes(pending)' = Wholes(pending') /\ Wholes(frames)' = Wholes(frames)
        /\ Audio' = Audio
    BY <1>1, SameMedia DEF Numbers, Number, Rising, Wholes, Whole, Audio
  <2>2. \A m \in Numbers(frames), n \in Numbers(pending') : m < n
    <3>1. \A m \in Numbers(frames), n \in Numbers(pending) : m < n
      BY <1>1 DEF Ordered
    <3> QED BY <1>9, <1>10, <3>1
  <2> QED BY <1>1, <1>10, <2>1, <2>2 DEF Ordered
<1>15. Dense'
  <2>1. outcome' # "end"
    BY <1>2, <1>3
  <2> QED BY <1>1, <2>1, DenseSame
<1>16. Tracked'
  <2>1. CASE outcome' = "open"
    BY <1>3, <2>1, TakeSegmentTracked
  <2>2. CASE outcome' # "open"
    BY <2>2 DEF Tracked
  <2> QED BY <2>1, <2>2
<1> QED BY <1>11, <1>12, <1>13, <1>14, <1>15, <1>16 DEF StreamInv

(* The reader as a whole. *)
LEMMA ReadKeeps ==
  ASSUME StreamInv, Read
  PROVE  StreamInv'
BY TakePacketKeeps, ReadPageKeeps, DiscardSegmentKeeps, TakeSegmentKeeps,
   EndPageKeeps, EndPipeKeeps, ChildEndsKeeps DEF Read

------------------------------------------------------------------------------
(* Part 4: it holds at first, and what it says of the stream *)

LEMMA UnopenedInv ==
  ASSUME Unopened
  PROVE  StreamInv
<1>1. /\ written = 0 /\ misflagged = FALSE /\ child = "none" /\ pipe = << >>
      /\ torn = FALSE /\ at = "closed" /\ page = << >> /\ discarding = FALSE
      /\ partial = << >> /\ pending = << >> /\ frames = << >> /\ outcome = "open"
  BY DEF Unopened
<1>2. packets \in Seq(PacketKinds) /\ Len(packets) <= MaxPackets
  <2>1. packets \in BoundedSeq(PacketKinds, MaxPackets) /\ MaxPackets \in Nat
    BY BoundAssumption DEF Unopened
  <2>2. PICK n \in 0 .. MaxPackets : packets \in [1 .. n -> PacketKinds]
    BY <2>1 DEF BoundedSeq, SeqOf
  <2>3. packets \in Seq(PacketKinds) /\ Len(packets) = n
    BY <2>1, <2>2
  <2> QED BY <2>1, <2>2, <2>3
<1>3. /\ Len(<< >>) = 0 /\ MaxPacket \in Nat /\ PageSegments \in Nat /\ PipePages \in Nat
      /\ << >> \in Seq(ToSet(Media)) /\ << >> \in Seq(Pages)
      /\ << >> \in Seq(Seq(ToSet(Media)))
  BY EmptySeq, BoundAssumption
<1>4. Len(Media) \in Nat
  BY <1>2, MediaFacts
<1>5. Types
  <2>1. /\ written \in 0 .. Len(Media)
        /\ misflagged \in BOOLEAN /\ torn \in BOOLEAN /\ discarding \in BOOLEAN
    <3>1. 0 \in 0 .. Len(Media) /\ FALSE \in BOOLEAN
      BY <1>4
    <3> QED BY <1>1, <3>1
  <2>2. /\ child \in {"none", "running", "succeeded", "failed", "killed"}
        /\ at \in {"closed", "idle", "packet", "page", "wait"}
        /\ outcome \in {"open", "end", "error", "stopped"}
    BY <1>1
  <2>3. /\ pipe \in Seq(Pages) /\ Len(pipe) <= PipePages
        /\ \A i \in 1 .. Len(pipe) : Len(pipe[i].segments) \in 1 .. PageSegments
    BY <1>1, <1>3
  <2>4. /\ page \in Seq(ToSet(Media)) /\ partial \in Seq(ToSet(Media))
        /\ Len(partial) <= MaxPacket
        /\ pending \in Seq(Seq(ToSet(Media))) /\ frames \in Seq(Seq(ToSet(Media)))
    BY <1>1, <1>3
  <2> QED BY <1>2, <2>1, <2>2, <2>3, <2>4 DEF Types
<1>6. Calls /\ ReadAheadBounded
  BY <1>1, <1>3 DEF Calls, ReadAheadBounded
<1>7. Ordered /\ Dense
  BY <1>1, NoPackets DEF Ordered, Dense
<1>8. Tracked
  <2> DEFINE s == [i \in 1 .. 1 |-> 0]
  <2>1. /\ s \in [1 .. Len(pipe) + 1 -> 0 .. written] /\ s[1] = 0
        /\ 0 \in 0 .. written
    BY <1>1, <1>3
  <2> HIDE DEF s
  <2>2. SubSeq(Media, 0 + 1, 0) = << >> /\ SubSeq(Media, 0 - 0 + 1, 0) = << >>
    BY SubSeqEmpty
  <2>3. Chain(s, 0)
    BY <1>1, <1>3, <2>1, <2>2 DEF Chain
  <2>4. Wrong(s) = {}
    BY <1>1, <1>3 DEF Wrong
  <2>5. Flags(s)
    BY <2>4 DEF Flags
  <2>6. Building(0)
    <3>1. \A i \in 0 - 0 + 1 .. 0 : FALSE
      OBVIOUS
    <3> QED BY <1>1, <1>3, <2>2, <3>1 DEF Building
  <2>7. InStep(s, 0)
    BY <1>1 DEF InStep, Boundary
  <2>8. Kept(0)
    BY <1>1, NoPackets DEF Kept, Completed
  <2>9. Reading(s, 0)
    BY <2>3, <2>5, <2>6, <2>7, <2>8 DEF Reading
  <2> QED BY <2>1, <2>9 DEF Tracked
<1> QED BY <1>5, <1>6, <1>7, <1>8 DEF StreamInv

(* The types of the stream, whole packets, and the bound on what is read   *)
(* ahead follow from the invariant.                                        *)
LEMMA StreamSafe ==
  ASSUME StreamInv
  PROVE  StreamTypeOK /\ FramesWhole /\ ReadAheadBounded
<1>1. Types /\ Ordered /\ ReadAheadBounded
  BY DEF StreamInv
<1>2. /\ Len(page) \in Nat /\ Len(pending) \in Nat /\ DOMAIN pending = 1 .. Len(pending)
      /\ DOMAIN frames = 1 .. Len(frames) /\ PageSegments \in Nat
  BY <1>1, Numeric, BoundAssumption
<1>3. Len(page) <= PageSegments
  BY <1>1, <1>2 DEF ReadAheadBounded
<1>4. StreamTypeOK
  BY <1>1, <1>3 DEF StreamTypeOK, Types, Pages
<1>5. FramesWhole
  <2>1. \A i \in 1 .. Len(pending) : pending[i] = Whole(Head(pending[i]).packet)
    BY <1>1 DEF Ordered, Wholes, Number
  <2>2. \A i \in 1 .. Len(frames) : frames[i] = Whole(Head(frames[i]).packet)
    BY <1>1 DEF Ordered, Wholes, Number
  <2> QED BY <1>2, <2>1, <2>2 DEF FramesWhole, ToSet
<1> QED BY <1>1, <1>4, <1>5

------------------------------------------------------------------------------
(* Part 5: the task *)

Events == [kind : {"Frame"} \union Ends, packet : Nat]

TaskTypes ==
  /\ task \in {"resolving", "opening", "reading", "sending", "over"} \union Ends
  /\ process \in {"none", "running", "succeeded", "failed", "killed"}
  /\ events \in Seq(Events) /\ received \in Seq(Nat)
  /\ listening \in BOOLEAN /\ report \in {"none"} \union Ends

(* What the task knows of its stream and its processes. *)
Tasks ==
  /\ task \in {"resolving", "opening"} =>
       outcome = "open" /\ at = "closed" /\ child = "none"
  /\ task \in {"reading", "sending"} => outcome = "open"
  /\ task = "sending" => frames # << >>
  /\ task = "Finished" => outcome = "end"
  /\ task = "over" => child # "running" /\ process # "running"
  /\ process = "running" => task = "resolving"

(* The channel holds k frames, and how the task ended behind them once it  *)
(* is over.                                                                *)
Channel(k) ==
  /\ Len(frames) = Len(received) + k + (IF task = "sending" THEN 1 ELSE 0)
  /\ \A i \in 1 .. Len(received) : received[i] = Number(frames[i])
  /\ \A i \in 1 .. k : events[i] = Frame(Number(frames[Len(received) + i]))
  /\ \/ Len(events) = k
     \/ /\ Len(events) = k + 1 /\ task = "over"
        /\ events[k + 1].kind \in Ends
        /\ events[k + 1].kind = "Finished" => outcome = "end"

Handed ==
  /\ listening => \E k \in Nat : Channel(k)
  /\ listening /\ report # "none" => events = << >> /\ task = "over"
  /\ report = "Finished" => outcome = "end" \/ ~ listening

IInv == StreamInv /\ TaskTypes /\ Tasks /\ Handed

LEMMA InitIInv == Init => IInv
<1> SUFFICES ASSUME Init PROVE IInv
  OBVIOUS
<1>1. StreamInv
  BY UnopenedInv DEF Init
<1>2. /\ task = "resolving" /\ process = "none" /\ events = << >> /\ listening = TRUE
      /\ received = << >> /\ report = "none"
      /\ outcome = "open" /\ at = "closed" /\ child = "none" /\ frames = << >>
  BY DEF Init, Unopened
<1>3. Len(<< >>) = 0 /\ << >> \in Seq(Events) /\ << >> \in Seq(Nat)
  BY EmptySeq
<1>4. TaskTypes
  BY <1>2, <1>3 DEF TaskTypes
<1>5. Tasks
  BY <1>2 DEF Tasks
<1>6. Channel(0)
  BY <1>2, <1>3 DEF Channel
<1>7. Handed
  BY <1>2, <1>6 DEF Handed
<1> QED BY <1>1, <1>4, <1>5, <1>7 DEF IInv

(* What an action keeps that neither touches the channel nor the frames. *)
LEMMA HandedSame ==
  ASSUME IInv, UNCHANGED << frames, events, worker >>,
         task = "sending" <=> task' = "sending", task = "over" => task' = "over",
         outcome = "end" => outcome' = "end"
  PROVE  Handed'
<1>1. /\ Handed /\ frames' = frames /\ events' = events /\ listening' = listening
      /\ received' = received /\ report' = report
  BY DEF IInv, worker
<1>2. ASSUME NEW k \in Nat, Channel(k) PROVE Channel(k)'
  BY <1>1, <1>2 DEF Channel, Number, Frame
<1> QED BY <1>1, <1>2 DEF Handed

(* Nobody is listening: nothing is to be shown of the channel. *)
LEMMA HandedAlone ==
  ASSUME listening' = FALSE
  PROVE  Handed'
BY DEF Handed

(* How the stream ends within a call. *)
LEMMA ReadOutcome ==
  ASSUME StreamInv, Read, outcome = "open"
  PROVE  /\ outcome' \in {"open", "end", "error"}
         /\ frames' # frames => outcome' = "open"
         /\ \/ frames' = frames
            \/ frames' \in Seq(Seq(ToSet(Media))) /\ frames' # frames
               /\ Len(frames') = Len(frames) + 1
               /\ \A i \in 1 .. Len(frames) : frames'[i] = frames[i]
         /\ frames \in Seq(Seq(ToSet(Media)))
<1>1. /\ Types /\ frames \in Seq(Seq(ToSet(Media))) /\ pending \in Seq(Seq(ToSet(Media)))
  BY DEF StreamInv, Types
<1>2. CASE TakePacket
  <2>1. \/ frames' = frames /\ outcome' \in {"open", "end", "error"}
        \/ pending # << >> /\ frames' = Append(frames, Head(pending)) /\ outcome' = "open"
    BY <1>2 DEF TakePacket, Over
  <2>2. CASE pending # << >> /\ frames' = Append(frames, Head(pending)) /\ outcome' = "open"
    <3>1. Head(pending) \in Seq(ToSet(Media))
      BY <1>1, <2>2, HeadTailProperties
    <3>2. /\ frames' \in Seq(Seq(ToSet(Media))) /\ Len(frames') = Len(frames) + 1
          /\ \A i \in 1 .. Len(frames) : frames'[i] = frames[i]
      BY <1>1, <2>2, <3>1, AppendProperties
    <3>3. Len(frames) \in Nat
      BY <1>1, LenProperties
    <3>4. Len(frames') # Len(frames)
      BY <3>2, <3>3
    <3>5. frames' # frames
      BY <3>4
    <3> QED BY <1>1, <2>2, <3>2, <3>5
  <2> QED BY <1>1, <2>1, <2>2
<1>3. CASE ReadPage \/ DiscardSegment \/ TakeSegment \/ EndPage \/ EndPipe \/ ChildEnds
  <2>1. frames' = frames
    BY <1>3 DEF ReadPage, DiscardSegment, TakeSegment, EndPage, EndPipe, ChildEnds
  <2>2. outcome' \in {"open", "end", "error"}
    BY <1>3 DEF ReadPage, DiscardSegment, TakeSegment, EndPage, EndPipe, ChildEnds, Over
  <2> QED BY <1>1, <2>1, <2>2
<1> QED BY <1>2, <1>3 DEF Read

(* The stream is never opened. *)
LEMMA NeverOpened ==
  ASSUME StreamInv, at = "closed", outcome' = "error",
         UNCHANGED << source, child, pipe, at, page, discarding, partial, pending, frames >>
  PROVE  StreamInv'
<1>1. /\ UNCHANGED << packets, written, misflagged, torn, child, pipe, at, page,
                      discarding, partial, pending, frames >>
      /\ Types /\ Calls
  BY DEF source, StreamInv
<1>2. Types'
  BY <1>1, TypesSame DEF Types
<1>3. Calls'
  <2>1. Media' = Media
    BY <1>1, SameMedia
  <2> QED BY <1>1, <2>1 DEF Calls
<1>4. ReadAheadBounded' /\ Ordered'
  BY <1>1, BoundSame, OrderedSame
<1>5. Dense' /\ Tracked'
  BY <1>1, DenseSame, TrackedSame
<1> QED BY <1>2, <1>3, <1>4, <1>5 DEF StreamInv

------------------------------------------------------------------------------
(* Part 6: every action of the task keeps it *)

LEMMA SpawnKeeps ==
  ASSUME IInv, Spawn
  PROVE  IInv'
<1>1. /\ StreamInv /\ TaskTypes /\ Tasks
      /\ task = "resolving" /\ process = "none" /\ UNCHANGED << frames, events, worker >>
      /\ UNCHANGED << source, child, pipe, at, page, discarding, partial, pending, frames >>
      /\ \/ process' = "running" /\ task' = task /\ outcome' = outcome
         \/ process' = "failed" /\ task' = "MediaResolution" /\ outcome' = "error"
  BY DEF Spawn, IInv
<1>2. at = "closed" /\ outcome = "open" /\ child = "none"
  BY <1>1 DEF Tasks
<1>3. StreamInv'
  <2>1. CASE outcome' = outcome
    BY <1>1, <2>1, StreamStutters DEF stream
  <2>2. CASE outcome' = "error"
    BY <1>1, <1>2, <2>2, NeverOpened
  <2> QED BY <1>1, <2>1, <2>2
<1>4. TaskTypes'
  BY <1>1 DEF TaskTypes, worker, Ends
<1>5. Tasks'
  BY <1>1, <1>2 DEF Tasks
<1>6. Handed'
  BY <1>1, <1>2, HandedSame
<1> QED BY <1>3, <1>4, <1>5, <1>6 DEF IInv

LEMMA YtDlpExitsKeeps ==
  ASSUME IInv, YtDlpExits
  PROVE  IInv'
<1>1. /\ StreamInv /\ TaskTypes /\ Tasks
      /\ process = "running" /\ process' \in {"succeeded", "failed"}
      /\ UNCHANGED << stream, task, events, worker >>
  BY DEF YtDlpExits, IInv
<1>2. UNCHANGED << at, child, frames, outcome >>
  BY <1>1 DEF stream
<1>3. StreamInv'
  BY <1>1, StreamStutters
<1>4. TaskTypes'
  BY <1>1 DEF TaskTypes, worker
<1>5. Tasks'
  BY <1>1, <1>2 DEF Tasks
<1>6. Handed'
  BY <1>1, <1>2, HandedSame
<1> QED BY <1>3, <1>4, <1>5, <1>6 DEF IInv

LEMMA TimesOutKeeps ==
  ASSUME IInv, TimesOut
  PROVE  IInv'
<1>1. /\ StreamInv /\ TaskTypes /\ Tasks
      /\ task = "resolving" /\ process' = "killed" /\ UNCHANGED << frames, events, worker >>
      /\ UNCHANGED << source, child, pipe, at, page, discarding, partial, pending, frames >>
      /\ task' = "MediaResolution" /\ outcome' = "error"
  BY DEF TimesOut, IInv
<1>2. at = "closed" /\ outcome = "open" /\ child = "none"
  BY <1>1 DEF Tasks
<1>3. StreamInv'
  BY <1>1, <1>2, NeverOpened
<1>4. TaskTypes'
  BY <1>1 DEF TaskTypes, worker, Ends
<1>5. Tasks'
  BY <1>1, <1>2 DEF Tasks
<1>6. Handed'
  BY <1>1, <1>2, HandedSame
<1> QED BY <1>3, <1>4, <1>5, <1>6 DEF IInv

LEMMA ResolvesKeeps ==
  ASSUME IInv, Resolves
  PROVE  IInv'
<1>1. /\ StreamInv /\ TaskTypes /\ Tasks
      /\ task = "resolving" /\ process \in {"succeeded", "failed"}
      /\ UNCHANGED << frames, process, events, worker >>
      /\ UNCHANGED << source, child, pipe, at, page, discarding, partial, pending, frames >>
      /\ \/ task' = "opening" /\ outcome' = outcome
         \/ task' = "MediaResolution" /\ outcome' = "error"
  BY DEF Resolves, IInv
<1>2. at = "closed" /\ outcome = "open" /\ child = "none"
  BY <1>1 DEF Tasks
<1>3. StreamInv'
  <2>1. CASE outcome' = outcome
    BY <1>1, <2>1, StreamStutters DEF stream
  <2>2. CASE outcome' = "error"
    BY <1>1, <1>2, <2>2, NeverOpened
  <2> QED BY <1>1, <2>1, <2>2
<1>4. TaskTypes'
  BY <1>1 DEF TaskTypes, worker, Ends
<1>5. Tasks'
  BY <1>1, <1>2 DEF Tasks
<1>6. Handed'
  BY <1>1, <1>2, HandedSame
<1> QED BY <1>3, <1>4, <1>5, <1>6 DEF IInv

LEMMA OpenStreamKeeps ==
  ASSUME IInv, OpenStream
  PROVE  IInv'
<1>1. /\ StreamInv /\ TaskTypes /\ Tasks
      /\ task = "opening" /\ UNCHANGED << process, events, worker >>
      /\ \/ Open /\ task' = "reading"
         \/ OpenFails /\ task' = "DecoderStart"
  BY DEF OpenStream, resolver, IInv
<1>2. StreamInv'
  BY <1>1, OpenKeeps, OpenFailsKeeps
<1>3. /\ frames' = frames /\ outcome = "open"
      /\ task' = "reading" => outcome' = "open"
  BY <1>1 DEF Open, OpenFails, Tasks
<1>4. TaskTypes'
  BY <1>1 DEF TaskTypes, worker, Ends
<1>5. Tasks'
  BY <1>1, <1>3 DEF Tasks
<1>6. Handed'
  BY <1>1, <1>3, HandedSame
<1> QED BY <1>2, <1>4, <1>5, <1>6 DEF IInv

LEMMA CallStreamKeeps ==
  ASSUME IInv, CallStream
  PROVE  IInv'
<1>1. /\ StreamInv /\ TaskTypes /\ Tasks /\ Handed
      /\ task = "reading" /\ (NextFrame \/ Read)
      /\ process' = process /\ events' = events /\ listening' = listening
      /\ received' = received /\ report' = report
  BY DEF CallStream, resolver, worker, IInv
<1>2. StreamInv'
  BY <1>1, NextFrameKeeps, ReadKeeps
<1>3. outcome = "open"
  BY <1>1 DEF Tasks
<1>4. /\ outcome' \in {"open", "end", "error"}
      /\ frames' # frames => outcome' = "open"
      /\ \/ frames' = frames
         \/ frames' \in Seq(Seq(ToSet(Media))) /\ frames' # frames
            /\ Len(frames') = Len(frames) + 1
            /\ \A i \in 1 .. Len(frames) : frames'[i] = frames[i]
      /\ frames \in Seq(Seq(ToSet(Media)))
  <2>1. CASE NextFrame
    <3>1. frames \in Seq(Seq(ToSet(Media)))
      BY <1>1 DEF StreamInv, Types
    <3> QED BY <1>3, <2>1, <3>1 DEF NextFrame
  <2>2. CASE Read
    BY <1>1, <1>3, <2>2, ReadOutcome
  <2> QED BY <1>1, <2>1, <2>2
<1>5. \/ outcome' = "end" /\ task' = "Finished" /\ frames' = frames
      \/ outcome' = "error" /\ task' = "DecoderRead" /\ frames' = frames
      \/ outcome' = "open" /\ frames' # frames /\ task' = "sending"
      \/ outcome' = "open" /\ frames' = frames /\ task' = "reading"
  <2> DEFINE next == CASE outcome' = "end"   -> "Finished"
                       [] outcome' = "error" -> "DecoderRead"
                       [] outcome' = "open"  ->
                            IF frames' # frames THEN "sending" ELSE "reading"
  <2>1. /\ outcome' = "end" => next = "Finished"
        /\ outcome' = "error" => next = "DecoderRead"
        /\ outcome' = "open" => next = IF frames' # frames THEN "sending" ELSE "reading"
    OBVIOUS
  <2>2. task' = next
    BY DEF CallStream
  <2> HIDE DEF next
  <2> QED BY <1>4, <2>1, <2>2
<1>6. TaskTypes'
  BY <1>1, <1>5 DEF TaskTypes, Ends
<1>7. Tasks'
  <2>1. frames' # frames => frames' # << >>
    <3>1. Len(frames) \in Nat /\ Len(<< >>) = 0
      BY <1>4, LenProperties, EmptySeq
    <3>2. frames' # frames => Len(frames') # 0
      BY <1>4, <3>1
    <3> QED BY <3>1, <3>2
  <2> QED BY <1>1, <1>5, <2>1 DEF Tasks
<1>8. Handed'
  <2>1. ASSUME listening, NEW k \in Nat, Channel(k) PROVE Channel(k)'
    <3>1. /\ Len(frames) = Len(received) + k + 0
          /\ \A i \in 1 .. Len(received) : received[i] = Number(frames[i])
          /\ \A i \in 1 .. k : events[i] = Frame(Number(frames[Len(received) + i]))
          /\ Len(events) = k
          /\ Len(received) \in Nat
      <4>1. Len(received) \in Nat
        BY <1>1, LenProperties DEF TaskTypes
      <4> QED BY <1>1, <2>1, <4>1 DEF Channel
    <3>2. /\ \A i \in 1 .. Len(received) : i \in 1 .. Len(frames)
          /\ \A i \in 1 .. k : Len(received) + i \in 1 .. Len(frames)
      BY <3>1
    <3>3. \A i \in 1 .. Len(frames) : frames'[i] = frames[i]
      BY <1>4
    <3>4. Len(frames') = Len(received) + k + (IF task' = "sending" THEN 1 ELSE 0)
      <4>1. CASE frames' = frames
        BY <1>5, <3>1, <4>1
      <4>2. CASE frames' # frames
        BY <1>4, <1>5, <3>1, <4>2
      <4> QED BY <4>1, <4>2
    <3>5. /\ \A i \in 1 .. Len(received) : received[i] = Number(frames'[i])
          /\ \A i \in 1 .. k : events[i] = Frame(Number(frames'[Len(received) + i]))
      BY <3>1, <3>2, <3>3
    <3> QED BY <1>1, <3>1, <3>4, <3>5 DEF Channel, Number, Frame
  <2>2. ~ (listening /\ report # "none")
    BY <1>1 DEF Handed
  <2>3. report = "Finished" => ~ listening
    BY <2>2
  <2> QED BY <1>1, <2>1, <2>2, <2>3 DEF Handed
<1> QED BY <1>2, <1>6, <1>7, <1>8 DEF IInv

LEMMA FFmpegKeeps ==
  ASSUME IInv, FFmpeg
  PROVE  IInv'
<1>1. /\ StreamInv /\ TaskTypes /\ Tasks
      /\ MuxPage \/ Exits
      /\ UNCHANGED << task, process, events, worker >>
  BY DEF FFmpeg, resolver, IInv
<1>2. StreamInv'
  BY <1>1, MuxPageKeeps, ExitsKeeps
<1>3. /\ UNCHANGED << frames, outcome, at >> /\ child = "running"
      /\ child' = "running" \/ child' = "succeeded" \/ child' = "failed"
  BY <1>1 DEF MuxPage, Exits
<1>4. TaskTypes'
  BY <1>1 DEF TaskTypes, worker
<1>5. Tasks'
  BY <1>1, <1>3 DEF Tasks
<1>6. Handed'
  BY <1>1, <1>3, HandedSame
<1> QED BY <1>2, <1>4, <1>5, <1>6 DEF IInv

LEMMA FrameNumbers ==
  ASSUME StreamInv
  PROVE  /\ Len(frames) \in Nat
         /\ \A i \in 1 .. Len(frames) :
              Number(frames[i]) \in Audio /\ Number(frames[i]) \in Nat
<1>1. Types /\ Ordered
  BY DEF StreamInv
<1>2. Len(frames) \in Nat /\ DOMAIN frames = 1 .. Len(frames)
      /\ DOMAIN packets = 1 .. Len(packets) /\ Len(packets) \in Nat
  BY <1>1, Numeric, PacketFacts DEF Types
<1>3. \A i \in 1 .. Len(frames) : Number(frames[i]) \in Audio
  BY <1>1, <1>2 DEF Ordered, Numbers
<1>4. Audio \subseteq Nat
  BY <1>2 DEF Audio
<1> QED BY <1>2, <1>3, <1>4

LEMMA SendFrameKeeps ==
  ASSUME IInv, SendFrame
  PROVE  IInv'
<1> DEFINE e == Frame(Number(frames[Len(frames)]))
<1>1. /\ StreamInv /\ TaskTypes /\ Tasks /\ Handed
      /\ task = "sending" /\ listening /\ task' = "reading"
      /\ events' = Append(events, e)
      /\ UNCHANGED << stream, process, worker >>
  BY DEF SendFrame, HasRoom, resolver, IInv, Last, Number
<1>2. UNCHANGED << at, child, frames, outcome >>
      /\ listening' = listening /\ received' = received /\ report' = report
  BY <1>1 DEF stream, worker
<1>3. StreamInv'
  BY <1>1, StreamStutters
<1>4. PICK k \in Nat : Channel(k)
  BY <1>1 DEF Handed
<1>5. /\ Len(frames) = Len(received) + k + 1
      /\ \A i \in 1 .. Len(received) : received[i] = Number(frames[i])
      /\ \A i \in 1 .. k : events[i] = Frame(Number(frames[Len(received) + i]))
      /\ Len(events) = k /\ Len(received) \in Nat /\ events \in Seq(Events)
  <2>1. Len(received) \in Nat /\ events \in Seq(Events)
    BY <1>1, LenProperties DEF TaskTypes
  <2> QED BY <1>1, <1>4, <2>1 DEF Channel
<1>6. e \in Events
  <2>1. Len(frames) \in 1 .. Len(frames)
    BY <1>5
  <2>2. Number(frames[Len(frames)]) \in Nat
    BY <1>1, <2>1, FrameNumbers
  <2> QED BY <2>2 DEF Frame, Events
<1> HIDE DEF e
<1>7. /\ events' \in Seq(Events) /\ Len(events') = k + 1 /\ events'[k + 1] = e
      /\ \A i \in 1 .. k : events'[i] = events[i]
  BY <1>1, <1>5, <1>6, AppendProperties
<1>8. TaskTypes'
  BY <1>1, <1>2, <1>7 DEF TaskTypes
<1>9. Tasks'
  BY <1>1, <1>2 DEF Tasks
<1>10. Handed'
  <2>1. Len(frames) = Len(received) + (k + 1) + 0 /\ k + 1 \in Nat
    BY <1>5
  <2>2. \A i \in 1 .. k + 1 : events'[i] = Frame(Number(frames[Len(received) + i]))
    <3> TAKE i \in 1 .. k + 1
    <3>1. CASE i \in 1 .. k
      BY <1>5, <1>7, <3>1
    <3>2. CASE i = k + 1
      <4>1. Len(received) + i = Len(frames)
        BY <1>5, <3>2
      <4> QED BY <1>7, <3>2, <4>1 DEF e
    <3> QED BY <3>1, <3>2
  <2>3. Channel(k + 1)'
    BY <1>1, <1>2, <1>5, <1>7, <2>1, <2>2 DEF Channel, Number, Frame
  <2>4. ~ (listening /\ report # "none")
    BY <1>1 DEF Handed
  <2> QED BY <1>1, <1>2, <2>1, <2>3, <2>4 DEF Handed
<1> QED BY <1>3, <1>8, <1>9, <1>10 DEF IInv

LEMMA SendEndKeeps ==
  ASSUME IInv, SendEnd
  PROVE  IInv'
<1>1. /\ StreamInv /\ TaskTypes /\ Tasks /\ Handed /\ Drop
      /\ task \in Ends /\ listening /\ task' = "over"
      /\ events' = Append(events, End(task))
      /\ UNCHANGED << process, worker >>
  BY DEF SendEnd, HasRoom, resolver, IInv
<1>2. /\ frames' = frames /\ child' = Killed /\ at' = "closed"
      /\ outcome' = (IF outcome = "open" THEN "stopped" ELSE outcome)
      /\ listening' = listening /\ received' = received /\ report' = report
  BY <1>1 DEF Drop, worker
<1>3. StreamInv'
  BY <1>1, DropKeeps
<1>4. /\ task # "sending" /\ task # "over" /\ task # "resolving"
      /\ task = "Finished" => outcome' = "end"
  BY <1>1, <1>2 DEF Tasks, Ends
<1>5. PICK k \in Nat : Channel(k)
  BY <1>1 DEF Handed
<1>6. /\ Len(frames) = Len(received) + k + 0
      /\ \A i \in 1 .. Len(received) : received[i] = Number(frames[i])
      /\ \A i \in 1 .. k : events[i] = Frame(Number(frames[Len(received) + i]))
      /\ Len(events) = k /\ events \in Seq(Events)
  BY <1>1, <1>4, <1>5 DEF Channel, TaskTypes
<1>7. End(task) \in Events /\ End(task).kind = task
  BY <1>1 DEF End, Events
<1>8. /\ events' \in Seq(Events) /\ Len(events') = k + 1 /\ events'[k + 1] = End(task)
      /\ \A i \in 1 .. k : events'[i] = events[i]
  BY <1>1, <1>6, <1>7, AppendProperties
<1>9. TaskTypes'
  BY <1>1, <1>2, <1>8 DEF TaskTypes
<1>10. Tasks'
  <2>1. child' # "running" /\ process # "running"
    BY <1>1, <1>2, <1>4 DEF Killed, Tasks
  <2> QED BY <1>1, <2>1 DEF Tasks
<1>11. Handed'
  <2>1. Channel(k)'
    <3>1. /\ events'[k + 1].kind \in Ends
          /\ events'[k + 1].kind = "Finished" => outcome' = "end"
      BY <1>1, <1>4, <1>7, <1>8
    <3>2. \A i \in 1 .. k : events'[i] = Frame(Number(frames[Len(received) + i]))
      BY <1>6, <1>8
    <3> QED BY <1>1, <1>2, <1>6, <1>8, <3>1, <3>2 DEF Channel, Number, Frame
  <2>2. ~ (listening /\ report # "none")
    BY <1>1, <1>4 DEF Handed
  <2> QED BY <1>1, <1>2, <2>1, <2>2 DEF Handed
<1> QED BY <1>3, <1>9, <1>10, <1>11 DEF IInv

LEMMA SendFailsKeeps ==
  ASSUME IInv, SendFails
  PROVE  IInv'
<1>1. /\ StreamInv /\ TaskTypes /\ Tasks /\ Drop
      /\ task \in {"sending"} \union Ends /\ ~ listening /\ task' = "over"
      /\ UNCHANGED << process, events, worker >>
  BY DEF SendFails, resolver, IInv
<1>2. child' # "running"
  BY <1>1 DEF Drop, Killed
<1>3. StreamInv'
  BY <1>1, DropKeeps
<1>4. TaskTypes'
  BY <1>1 DEF TaskTypes, worker
<1>5. Tasks'
  <2>1. process # "running"
    BY <1>1 DEF Tasks, Ends
  <2> QED BY <1>1, <1>2, <2>1 DEF Tasks
<1>6. Handed'
  <2>1. listening' = FALSE
    BY <1>1 DEF worker, TaskTypes
  <2> QED BY <2>1, HandedAlone
<1> QED BY <1>3, <1>4, <1>5, <1>6 DEF IInv

LEMMA AbortedKeeps ==
  ASSUME IInv, Aborted
  PROVE  IInv'
<1>1. /\ StreamInv /\ TaskTypes /\ Tasks /\ Drop
      /\ ~ listening /\ task' = "over"
      /\ process' = IF process = "running" THEN "killed" ELSE process
      /\ UNCHANGED << events, worker >>
  BY DEF Aborted, IInv
<1>2. child' # "running" /\ process' # "running"
  BY <1>1 DEF Drop, Killed
<1>3. StreamInv'
  BY <1>1, DropKeeps
<1>4. TaskTypes'
  BY <1>1 DEF TaskTypes, worker
<1>5. Tasks'
  BY <1>1, <1>2 DEF Tasks
<1>6. Handed'
  <2>1. listening' = FALSE
    BY <1>1 DEF worker, TaskTypes
  <2> QED BY <2>1, HandedAlone
<1> QED BY <1>3, <1>4, <1>5, <1>6 DEF IInv

(* What it receives next. *)
LEMMA ReceiveIs ==
  ASSUME IInv, Receive, NEW k \in Nat, Channel(k)
  PROVE  /\ report = "none" /\ Len(received) \in Nat
         /\ \/ /\ k \in Nat \ {0} /\ Len(received) + 1 \in 1 .. Len(frames)
               /\ received' = Append(received, Number(frames[Len(received) + 1]))
               /\ report' = report
            \/ /\ k = 0 /\ events' = << >> /\ received' = received /\ task = "over"
               /\ report' \in Ends
               /\ report' = "Finished" => outcome = "end"
<1>1. /\ TaskTypes /\ Handed /\ listening /\ events # << >> /\ events' = Tail(events)
      /\ \/ /\ Head(events).kind = "Frame"
            /\ received' = Append(received, Head(events).packet) /\ report' = report
         \/ /\ Head(events).kind # "Frame"
            /\ report' = Head(events).kind /\ received' = received
  BY DEF Receive, IInv
<1>2. events \in Seq(Events) /\ Len(received) \in Nat
  BY <1>1, LenProperties DEF TaskTypes
<1>3. /\ Len(events) \in Nat \ {0} /\ Head(events) = events[1]
      /\ events' \in Seq(Events) /\ Len(events') = Len(events) - 1
  BY <1>1, <1>2, EmptySeq, HeadTailProperties
<1>4. report = "none"
  BY <1>1 DEF Handed
<1>5. CASE k # 0
  <2>1. 1 \in 1 .. k
    BY <1>5
  <2>2. events[1] = Frame(Number(frames[Len(received) + 1]))
    BY <2>1 DEF Channel
  <2>3. /\ events[1].kind = "Frame"
        /\ events[1].packet = Number(frames[Len(received) + 1])
    BY <2>2 DEF Frame
  <2>4. Len(received) + 1 \in 1 .. Len(frames)
    <3>1. \/ Len(frames) = Len(received) + k + 1
          \/ Len(frames) = Len(received) + k + 0
      BY DEF Channel
    <3> QED BY <1>2, <1>5, <3>1
  <2> QED BY <1>1, <1>2, <1>3, <1>4, <1>5, <2>3, <2>4
<1>6. CASE k = 0
  <2>1. /\ Len(events) = 1 /\ task = "over" /\ events[1].kind \in Ends
        /\ events[1].kind = "Finished" => outcome = "end"
    BY <1>3, <1>6 DEF Channel
  <2>2. events[1].kind # "Frame"
    BY <2>1 DEF Ends
  <2>3. events' = << >>
    <3>1. Len(events') = 0
      BY <1>3, <2>1
    <3> QED BY <1>3, <3>1, EmptySeq
  <2> QED BY <1>1, <1>2, <1>3, <1>4, <1>6, <2>1, <2>2, <2>3
<1> QED BY <1>5, <1>6

LEMMA ReceiveKeeps ==
  ASSUME IInv, Receive
  PROVE  IInv'
<1>1. /\ StreamInv /\ TaskTypes /\ Tasks /\ Handed
      /\ listening /\ events # << >> /\ events' = Tail(events)
      /\ UNCHANGED << stream, task, process, listening >>
  BY DEF Receive, resolver, IInv
<1>2. UNCHANGED << at, child, frames, outcome >>
  BY <1>1 DEF stream
<1>3. StreamInv'
  BY <1>1, StreamStutters
<1>4. PICK k \in Nat : Channel(k)
  BY <1>1 DEF Handed
<1>5. /\ report = "none" /\ Len(received) \in Nat
      /\ \/ /\ k \in Nat \ {0} /\ Len(received) + 1 \in 1 .. Len(frames)
            /\ received' = Append(received, Number(frames[Len(received) + 1]))
            /\ report' = report
         \/ /\ k = 0 /\ events' = << >> /\ received' = received /\ task = "over"
            /\ report' \in Ends
            /\ report' = "Finished" => outcome = "end"
  BY <1>4, ReceiveIs
<1>6. /\ events \in Seq(Events) /\ received \in Seq(Nat)
      /\ events' \in Seq(Events) /\ Len(events') = Len(events) - 1
      /\ \A i \in 1 .. Len(events') : events'[i] = events[i + 1]
  <2>1. events \in Seq(Events) /\ received \in Seq(Nat)
    BY <1>1 DEF TaskTypes
  <2> QED BY <1>1, <2>1, HeadTailProperties
<1>7. Tasks'
  BY <1>1, <1>2 DEF Tasks
<1>8. CASE k = 0
  <2>1. /\ events' = << >> /\ received' = received /\ task = "over"
        /\ report' \in Ends
        /\ report' = "Finished" => outcome = "end"
    BY <1>5, <1>8
  <2>2. TaskTypes'
    BY <1>1, <1>6, <2>1 DEF TaskTypes
  <2>3. Channel(0)'
    <3>1. Len(<< >>) = 0
      BY EmptySeq
    <3> QED BY <1>1, <1>2, <1>4, <1>8, <2>1, <3>1 DEF Channel, Number
  <2>4. Handed'
    BY <1>1, <1>2, <2>1, <2>3 DEF Handed
  <2> QED BY <1>3, <1>7, <2>2, <2>4 DEF IInv
<1>9. CASE k # 0
  <2> DEFINE n == Number(frames[Len(received) + 1])
  <2>1. /\ received' = Append(received, n) /\ report' = report
        /\ Len(received) + 1 \in 1 .. Len(frames)
    BY <1>5, <1>9
  <2>2. n \in Nat
    BY <1>1, <2>1, FrameNumbers
  <2> HIDE DEF n
  <2>3. /\ received' \in Seq(Nat) /\ Len(received') = Len(received) + 1
        /\ received'[Len(received) + 1] = n
        /\ \A i \in 1 .. Len(received) : received'[i] = received[i]
    BY <1>6, <2>1, <2>2, AppendProperties
  <2>4. TaskTypes'
    BY <1>1, <1>6, <2>1, <2>3 DEF TaskTypes
  <2>5. PICK j \in Nat : k = j + 1
    <3>1. k - 1 \in Nat /\ k = k - 1 + 1
      BY <1>9
    <3> QED BY <3>1
  <2>6. /\ \A i \in 1 .. Len(received) : received[i] = Number(frames[i])
        /\ \A i \in 1 .. k : events[i] = Frame(Number(frames[Len(received) + i]))
        /\ \/ Len(events) = k
           \/ /\ Len(events) = k + 1 /\ task = "over"
              /\ events[k + 1].kind \in Ends
              /\ events[k + 1].kind = "Finished" => outcome = "end"
    BY <1>4 DEF Channel
  <2>7. Len(frames) = Len(received) + k + (IF task = "sending" THEN 1 ELSE 0)
    BY <1>4 DEF Channel
  <2>8. Channel(j)'
    <3>1. Len(frames) = Len(received') + j + (IF task = "sending" THEN 1 ELSE 0)
      <4>1. Len(received') + j = Len(received) + k
        BY <1>5, <2>3, <2>5
      <4> QED BY <2>7, <4>1
    <3>2. \A i \in 1 .. Len(received') : received'[i] = Number(frames[i])
      <4> TAKE i \in 1 .. Len(received')
      <4>1. CASE i = Len(received) + 1
        BY <2>3, <4>1 DEF n
      <4>2. CASE i # Len(received) + 1
        <5>1. i \in 1 .. Len(received)
          BY <1>5, <2>3, <4>2
        <5> QED BY <2>3, <2>6, <5>1
      <4> QED BY <4>1, <4>2
    <3>3. \A i \in 1 .. j : events'[i] = Frame(Number(frames[Len(received') + i]))
      <4> TAKE i \in 1 .. j
      <4>1. /\ i \in 1 .. Len(events') /\ i + 1 \in 1 .. k
            /\ Len(received') + i = Len(received) + (i + 1)
        BY <1>5, <1>6, <2>3, <2>5, <2>6
      <4>2. events'[i] = events[i + 1]
        BY <1>6, <4>1
      <4> QED BY <2>6, <4>1, <4>2
    <3>4. \/ Len(events') = j
          \/ /\ Len(events') = j + 1 /\ task = "over"
             /\ events'[j + 1].kind \in Ends
             /\ events'[j + 1].kind = "Finished" => outcome = "end"
      <4>1. CASE Len(events) = k
        BY <1>6, <2>5, <4>1
      <4>2. CASE Len(events) = k + 1
        <5>1. Len(events') = j + 1 /\ j + 1 \in 1 .. Len(events') /\ j + 1 + 1 = k + 1
              /\ k + 1 # k
          BY <1>6, <2>5, <4>2
        <5>2. events'[j + 1] = events[k + 1]
          BY <1>6, <5>1
        <5> QED BY <2>6, <4>2, <5>1, <5>2
      <4> QED BY <2>6, <4>1, <4>2
    <3> QED BY <1>1, <1>2, <3>1, <3>2, <3>3, <3>4 DEF Channel, Number, Frame
  <2>9. Handed'
    BY <1>1, <1>5, <2>1, <2>8 DEF Handed
  <2> QED BY <1>3, <1>7, <2>4, <2>9 DEF IInv
<1> QED BY <1>8, <1>9

LEMMA CancelKeeps ==
  ASSUME IInv, Cancel
  PROVE  IInv'
<1>1. /\ StreamInv /\ TaskTypes /\ Tasks
      /\ listening' = FALSE /\ events' = << >>
      /\ UNCHANGED << stream, task, process, received, report >>
  BY DEF Cancel, resolver, IInv
<1>2. UNCHANGED << at, child, frames, outcome >>
  BY <1>1 DEF stream
<1>3. StreamInv'
  BY <1>1, StreamStutters
<1>4. TaskTypes'
  <2>1. << >> \in Seq(Events)
    BY EmptySeq
  <2> QED BY <1>1, <2>1 DEF TaskTypes
<1>5. Tasks'
  BY <1>1, <1>2 DEF Tasks
<1>6. Handed'
  BY <1>1, HandedAlone
<1> QED BY <1>3, <1>4, <1>5, <1>6 DEF IInv

LEMMA StutterKeeps ==
  ASSUME IInv, UNCHANGED vars
  PROVE  IInv'
<1>1. /\ StreamInv /\ TaskTypes /\ Tasks
      /\ UNCHANGED << stream, task, process, events, worker >>
  BY DEF vars, resolver, IInv
<1>2. UNCHANGED << at, child, frames, outcome >>
  BY <1>1 DEF stream
<1>3. StreamInv'
  BY <1>1, StreamStutters
<1>4. TaskTypes'
  BY <1>1 DEF TaskTypes, worker
<1>5. Tasks'
  BY <1>1, <1>2 DEF Tasks
<1>6. Handed'
  BY <1>1, <1>2, HandedSame
<1> QED BY <1>3, <1>4, <1>5, <1>6 DEF IInv

LEMMA NextIInv == IInv /\ [Next]_vars => IInv'
BY SpawnKeeps, YtDlpExitsKeeps, TimesOutKeeps, ResolvesKeeps, OpenStreamKeeps,
   CallStreamKeeps, FFmpegKeeps, SendFrameKeeps, SendEndKeeps, SendFailsKeeps,
   AbortedKeeps, ReceiveKeeps, CancelKeeps, StutterKeeps
   DEF Next, Resolve, Run, Done

LEMMA Inductive == Spec => []IInv
BY InitIInv, NextIInv, PTL DEF Spec

------------------------------------------------------------------------------
(* Part 7: the theorems *)

(* What yt-dlp printed, and the bound of the channel. *)
Held == printed \in Printed /\ Len(events) <= FrameCapacity

LEMMA HeldKept ==
  ASSUME IInv, Held, [Next]_vars
  PROVE  Held'
<1>1. /\ events \in Seq(Events) /\ Len(events) \in Nat /\ FrameCapacity \in Nat
      /\ printed \in Printed /\ Len(events) <= FrameCapacity /\ FrameCapacity > 0
  BY CapacityAssumption, LenProperties DEF IInv, TaskTypes, Held
<1>2. CASE Resolve
  <2>1. printed' \in Printed /\ events' = events
    BY <1>1, <1>2 DEF Resolve, Spawn, TimesOut, Resolves, Printed
  <2> QED BY <1>1, <2>1 DEF Held
<1>3. CASE YtDlpExits
  <2>1. printed' \in Printed /\ events' = events
    BY <1>1, <1>3 DEF YtDlpExits
  <2> QED BY <1>1, <2>1 DEF Held
<1>4. CASE OpenStream \/ CallStream \/ SendFails \/ Aborted
  <2>1. printed' = printed /\ events' = events
    BY <1>4 DEF OpenStream, CallStream, SendFails, Aborted, resolver
  <2> QED BY <1>1, <2>1 DEF Held
<1>5. CASE SendFrame \/ SendEnd
  <2>1. /\ printed' = printed /\ Len(events) < FrameCapacity
        /\ \/ events' = Append(events, Frame(Head(Last(frames)).packet))
           \/ events' = Append(events, End(task))
    BY <1>5 DEF SendFrame, SendEnd, HasRoom, resolver
  <2>2. Len(events') = Len(events) + 1
    <3>1. \A e : Len(Append(events, e)) = Len(events) + 1
      BY <1>1
    <3> QED BY <2>1, <3>1
  <2> QED BY <1>1, <2>1, <2>2 DEF Held
<1>6. CASE FFmpeg
  <2>1. printed' = printed /\ events' = events
    BY <1>6 DEF FFmpeg, resolver
  <2> QED BY <1>1, <2>1 DEF Held
<1>7. CASE Receive
  <2>1. printed' = printed /\ events # << >> /\ events' = Tail(events)
    BY <1>7 DEF Receive, resolver
  <2>2. Len(events') = Len(events) - 1
    BY <1>1, <2>1, HeadTailProperties
  <2> QED BY <1>1, <2>1, <2>2 DEF Held
<1>8. CASE Cancel
  <2>1. printed' = printed /\ events' = << >> /\ Len(<< >>) = 0
    BY <1>8 DEF Cancel, resolver
  <2> QED BY <1>1, <2>1 DEF Held
<1>9. CASE UNCHANGED vars
  BY <1>1, <1>9 DEF Held, vars, resolver
<1> QED
  BY <1>2, <1>3, <1>4, <1>5, <1>6, <1>7, <1>8, <1>9 DEF Next, Run, Done

(* The types of the stream, of the task that pulls it, of the yt-dlp       *)
(* before it and of the channel to the worker.                             *)
THEOREM TypeCorrect == Spec => []TypeOK
<1>1. Init => Held
  <2> SUFFICES ASSUME Init PROVE Held
    OBVIOUS
  <2>1. printed = NoDocument /\ events = << >> /\ Len(<< >>) = 0
    BY DEF Init
  <2> QED BY <2>1, CapacityAssumption DEF Held, Printed
<1>2. IInv /\ Held /\ [Next]_vars => Held'
  BY HeldKept
<1>3. IInv /\ Held => TypeOK
  BY StreamSafe DEF IInv, TaskTypes, Held, TypeOK, Events
<1> QED BY Inductive, <1>1, <1>2, <1>3, PTL DEF Spec

(* No frame is ever put together from the pieces of two packets or misses  *)
(* one of its own, wherever FFmpeg cuts packets into pages, and even if a  *)
(* page is marked wrongly (OggPacketReader.next_packet).                   *)
THEOREM NeverSpliced == Spec => []FramesWhole
<1>1. IInv => FramesWhole
  BY StreamSafe DEF IInv
<1> QED BY Inductive, <1>1, PTL

(* At most one page and the packets completed from it are held in memory,  *)
(* however slow the worker is.                                             *)
THEOREM Bounded == Spec => []ReadAheadBounded
<1>1. IInv => ReadAheadBounded
  BY StreamSafe DEF IInv
<1> QED BY Inductive, <1>1, PTL

(* However a task ends, neither yt-dlp nor FFmpeg is left running, and the *)
(* two never run at a time (kill_on_drop).                                 *)
THEOREM NothingLeftBehind == Spec => []NoOrphans
<1>1. IInv => NoOrphans
  BY DEF IInv, Tasks, NoOrphans
<1> QED BY Inductive, <1>1, PTL

------------------------------------------------------------------------------
(* Part 8: the task implements FrameStream *)

Told ==
  CASE ~ listening -> "stopped"
    [] listening /\ report = "none" -> "open"
    [] listening /\ report = "Finished" -> "end"
    [] OTHER -> "error"

LEMMA ToldIs ==
  /\ ~ listening => Told = "stopped"
  /\ listening /\ report = "none" => Told = "open"
  /\ listening /\ report = "Finished" => Told = "end"
  /\ listening /\ report # "none" /\ report # "Finished" => Told = "error"
BY DEF Told

LEMMA StreamInit == Init => Stream!Init
<1> SUFFICES ASSUME Init PROVE Stream!Init
  OBVIOUS
<1>1. received = << >> /\ misflagged = FALSE /\ listening /\ report = "none"
  BY DEF Init, Unopened
<1>2. Told = "open"
  BY <1>1, ToldIs
<1>3. StreamInv
  BY UnopenedInv DEF Init
<1>4. Audio \subseteq Nat
  <2>1. DOMAIN packets = 1 .. Len(packets) /\ Len(packets) \in Nat
    BY <1>3, PacketFacts DEF StreamInv, Types
  <2> QED BY <2>1 DEF Audio
<1> QED BY <1>1, <1>2, <1>4 DEF Stream!Init, Told, Audio

(* What the reader of FrameStream sees. *)
LEMMA StreamSame ==
  ASSUME UNCHANGED << packets, received, misflagged >>, Told' = Told
  PROVE  UNCHANGED Stream!vars
BY DEF Stream!vars, Told

LEMMA ToldSame ==
  ASSUME UNCHANGED worker
  PROVE  received' = received /\ Told' = Told
BY DEF worker, Told

(* The frames received are the first that the stream has returned. *)
LEMMA ReceivedFirst ==
  ASSUME IInv, listening, NEW k \in Nat, Channel(k)
  PROVE  /\ Len(received) \in Nat /\ DOMAIN received = 1 .. Len(received)
         /\ Len(frames) \in Nat /\ DOMAIN frames = 1 .. Len(frames)
         /\ Len(received) <= Len(frames)
         /\ \A i \in 1 .. Len(received) : received[i] = Number(frames[i])
<1>1. TaskTypes /\ Types
  BY DEF IInv, StreamInv
<1>2. Len(received) \in Nat /\ DOMAIN received = 1 .. Len(received)
  BY <1>1, LenProperties DEF TaskTypes
<1>3. Len(frames) \in Nat /\ DOMAIN frames = 1 .. Len(frames)
  BY <1>1, Numeric
<1>4. \/ Len(frames) = Len(received) + k + 1
      \/ Len(frames) = Len(received) + k + 0
  BY DEF Channel
<1>5. Len(received) <= Len(frames)
  <2>1. Len(received) \in Nat /\ Len(frames) \in Nat /\ k \in Nat
    BY <1>2, <1>3
  <2>2. \A f, l, c \in Nat : f = l + c + 1 \/ f = l + c + 0 => l <= f
    OBVIOUS
  <2> QED BY <1>4, <2>1, <2>2
<1> QED BY <1>2, <1>3, <1>5 DEF Channel

(* The next is the least that is missing. *)
LEMMA FrameDelivered ==
  ASSUME IInv, listening, NEW k \in Nat, Channel(k),
         Len(received) + 1 \in 1 .. Len(frames)
  PROVE  /\ Number(frames[Len(received) + 1]) \in Stream!Missing
         /\ ~ misflagged =>
              \A m \in Stream!Missing : Number(frames[Len(received) + 1]) <= m
<1> DEFINE l == Len(received)
           n == Number(frames[l + 1])
<1>1. /\ l \in Nat /\ DOMAIN received = 1 .. l
      /\ Len(frames) \in Nat /\ DOMAIN frames = 1 .. Len(frames) /\ l <= Len(frames)
      /\ \A i \in 1 .. l : received[i] = Number(frames[i])
  BY ReceivedFirst
<1>2. /\ Rising(frames) /\ Dense
      /\ \A i \in 1 .. Len(frames) :
           Number(frames[i]) \in Audio /\ Number(frames[i]) \in Nat
  BY FrameNumbers DEF IInv, StreamInv, Ordered
<1>3. Stream!Missing = {m \in Audio : \A i \in 1 .. l : received[i] < m}
  BY <1>1 DEF Stream!Missing, Audio
<1>4. Audio \subseteq Nat
  <2>1. DOMAIN packets = 1 .. Len(packets) /\ Len(packets) \in Nat
    BY PacketFacts DEF IInv, StreamInv, Types
  <2> QED BY <2>1 DEF Audio
<1> HIDE DEF l
<1>5. n \in Audio /\ n \in Nat /\ l + 1 \in 1 .. Len(frames)
  BY <1>2 DEF l
<1>6. n \in Stream!Missing
  <2>1. ASSUME NEW i \in 1 .. l PROVE received[i] < n
    <3>1. i \in 1 .. Len(frames) /\ i < l + 1
      BY <1>1
    <3>2. Number(frames[i]) < Number(frames[l + 1])
      BY <1>2, <1>5, <3>1 DEF Rising
    <3> QED BY <1>1, <3>2
  <2> QED BY <1>3, <1>5, <2>1
<1>7. ASSUME ~ misflagged, NEW m \in Stream!Missing PROVE n <= m
  <2>1. m \in Audio /\ m \in Nat /\ \A i \in 1 .. l : received[i] < m
    BY <1>3, <1>4, <1>7
  <2>2. SUFFICES ASSUME m < n PROVE FALSE
    BY <1>5, <2>1
  <2>3. m \in Numbers(frames)
    <3>1. n \in Numbers(frames)
      BY <1>1, <1>5 DEF Numbers
    <3> QED BY <1>2, <1>7, <2>1, <2>2, <3>1 DEF Dense
  <2>4. PICK i \in 1 .. Len(frames) : m = Number(frames[i])
    BY <1>1, <2>3 DEF Numbers
  <2>5. CASE i <= l
    <3>1. i \in 1 .. l
      BY <1>1, <2>5
    <3>2. received[i] = m /\ received[i] < m
      BY <1>1, <2>1, <2>4, <3>1
    <3> QED BY <2>1, <3>2
  <2>6. CASE i = l + 1
    BY <1>5, <2>1, <2>2, <2>4, <2>6
  <2>7. CASE l + 1 < i
    <3>1. n < m
      BY <1>2, <1>5, <2>4, <2>7 DEF Rising
    <3> QED BY <1>5, <2>1, <2>2, <3>1
  <2> QED BY <1>1, <2>5, <2>6, <2>7
<1> QED BY <1>6, <1>7 DEF l

(* Behind a proper end none is missing. *)
LEMMA NoneMissing ==
  ASSUME IInv, listening, Channel(0), task = "over", outcome = "end", ~ misflagged
  PROVE  Stream!Missing = {}
<1>1. /\ Len(received) \in Nat /\ DOMAIN received = 1 .. Len(received)
      /\ DOMAIN frames = 1 .. Len(frames)
      /\ \A i \in 1 .. Len(received) : received[i] = Number(frames[i])
  BY ReceivedFirst
<1>2. Len(frames) = Len(received)
  <2>1. Len(frames) = Len(received) + 0 + 0
    BY DEF Channel
  <2> QED BY <1>1, <2>1
<1>3. Audio \subseteq Numbers(frames) /\ Audio \subseteq Nat
  <2>1. DOMAIN packets = 1 .. Len(packets) /\ Len(packets) \in Nat
    BY PacketFacts DEF IInv, StreamInv, Types
  <2> QED BY <2>1 DEF Audio, IInv, StreamInv, Dense
<1>4. ASSUME NEW m \in Stream!Missing PROVE FALSE
  <2>1. m \in Audio /\ \A i \in 1 .. Len(received) : received[i] < m
    BY <1>1, <1>4 DEF Stream!Missing, Audio
  <2>2. PICK i \in 1 .. Len(frames) : m = Number(frames[i])
    BY <1>1, <1>3, <2>1 DEF Numbers
  <2>3. m < m
    BY <1>1, <1>2, <2>1, <2>2
  <2> QED BY <1>3, <2>1, <2>3
<1> QED BY <1>4

LEMMA ReceiveRefines ==
  ASSUME IInv, Receive
  PROVE  Stream!Next
<1>1. /\ listening /\ listening' = listening /\ UNCHANGED << packets, misflagged, outcome >>
  BY DEF Receive, stream, source
<1>2. PICK k \in Nat : Channel(k)
  BY <1>1 DEF IInv, Handed
<1>3. /\ report = "none"
      /\ \/ /\ k \in Nat \ {0} /\ Len(received) + 1 \in 1 .. Len(frames)
            /\ received' = Append(received, Number(frames[Len(received) + 1]))
            /\ report' = report
         \/ /\ k = 0 /\ events' = << >> /\ received' = received /\ task = "over"
            /\ report' \in Ends
            /\ report' = "Finished" => outcome = "end"
  BY <1>2, ReceiveIs
<1>4. Told = "open" /\ Audio' = Audio
  BY <1>1, <1>3, ToldIs DEF Audio
<1>5. CASE k # 0
  <2> DEFINE n == Number(frames[Len(received) + 1])
  <2>1. received' = Append(received, n) /\ Told' = "open"
    BY <1>1, <1>3, <1>5 DEF Told
  <2>2. n \in Stream!Missing /\ (~ misflagged => \A m \in Stream!Missing : n <= m)
    BY <1>1, <1>2, <1>3, <1>5, FrameDelivered
  <2>3. misflagged \in BOOLEAN
    BY DEF IInv, StreamInv, Types
  <2> HIDE DEF n
  <2>4. Stream!Deliver
    BY <1>1, <1>4, <2>1, <2>2, <2>3 DEF Stream!Deliver, Told, Audio
  <2> QED BY <2>4 DEF Stream!Next
<1>6. CASE k = 0
  <2>1. /\ received' = received /\ task = "over" /\ report' \in Ends
        /\ report' = "Finished" => outcome = "end"
    BY <1>3, <1>6
  <2>2. CASE report' = "Finished"
    <3>1. Told' = "end"
      BY <1>1, <2>2 DEF Told
    <3>2. misflagged \/ Stream!Missing = {}
      BY <1>1, <1>2, <1>6, <2>1, <2>2, NoneMissing
    <3>3. Stream!End
      BY <1>1, <1>4, <2>1, <3>1, <3>2 DEF Stream!End, Told, Audio
    <3> QED BY <3>3 DEF Stream!Next
  <2>3. CASE report' # "Finished"
    <3>1. report' # "none"
      BY <2>1 DEF Ends
    <3>2. Told' = "error"
      BY <1>1, <2>3, <3>1 DEF Told
    <3>3. Stream!Fail
      BY <1>1, <1>4, <2>1, <3>2 DEF Stream!Fail, Told, Audio
    <3> QED BY <3>3 DEF Stream!Next
  <2> QED BY <2>2, <2>3
<1> QED BY <1>5, <1>6

LEMMA CancelRefines ==
  ASSUME IInv, Cancel
  PROVE  Stream!Next
<1>1. /\ listening /\ report = "none" /\ listening' = FALSE
      /\ UNCHANGED << packets, misflagged, received >>
  BY DEF Cancel, stream, source
<1>2. Told = "open" /\ Told' = "stopped"
  BY <1>1 DEF Told
<1>3. Stream!Fail
  BY <1>1, <1>2 DEF Stream!Fail, Told
<1> QED BY <1>3 DEF Stream!Next

(* Only FFmpeg may set a wrong flag. *)
LEMMA FFmpegRefines ==
  ASSUME IInv, FFmpeg
  PROVE  Stream!Next \/ UNCHANGED Stream!vars
<1>1. received' = received /\ Told' = Told /\ packets' = packets
  BY ToldSame DEF FFmpeg, MuxPage, Exits
<1>2. CASE misflagged' = misflagged
  BY <1>1, <1>2, StreamSame
<1>3. CASE misflagged' # misflagged
  <2>1. misflagged' = TRUE
    <3>1. misflagged \in BOOLEAN
      BY DEF IInv, StreamInv, Types
    <3>2. MuxPage
      BY <1>3 DEF FFmpeg, Exits
    <3>3. PICK wrong \in Misflags : misflagged' = (misflagged \/ wrong)
      BY <3>2 DEF MuxPage
    <3>4. wrong \in BOOLEAN
      BY BoundAssumption
    <3> QED BY <1>3, <3>1, <3>3, <3>4
  <2>2. Stream!Malform
    BY <1>1, <2>1 DEF Stream!Malform, Told
  <2> QED BY <2>2 DEF Stream!Next
<1> QED BY <1>2, <1>3

LEMMA StreamStep ==
  IInv /\ [Next]_vars => [Stream!Next]_(Stream!vars)
<1> SUFFICES ASSUME IInv, [Next]_vars PROVE Stream!Next \/ UNCHANGED Stream!vars
  OBVIOUS
<1>1. CASE Receive
  BY <1>1, ReceiveRefines
<1>2. CASE Cancel
  BY <1>2, CancelRefines
<1>3. CASE FFmpeg
  BY <1>3, FFmpegRefines
<1>4. ASSUME UNCHANGED << packets, misflagged, worker >> PROVE UNCHANGED Stream!vars
  BY <1>4, ToldSame, StreamSame
<1>5. CASE Spawn \/ TimesOut \/ Resolves
  BY <1>4, <1>5 DEF Spawn, TimesOut, Resolves, source
<1>6. CASE YtDlpExits \/ SendFrame
  BY <1>4, <1>6 DEF YtDlpExits, SendFrame, stream, source
<1>7. CASE OpenStream
  BY <1>4, <1>7 DEF OpenStream, Open, OpenFails, source
<1>8. CASE CallStream
  <2>1. UNCHANGED worker /\ (NextFrame \/ Read)
    BY <1>8 DEF CallStream
  <2>2. UNCHANGED << packets, misflagged >>
    BY <2>1 DEF NextFrame, Read, TakePacket, ReadPage, DiscardSegment, TakeSegment,
                EndPage, EndPipe, ChildEnds, source
  <2> QED BY <1>4, <2>1, <2>2
<1>9. CASE SendEnd \/ SendFails \/ Aborted
  BY <1>4, <1>9 DEF SendEnd, SendFails, Aborted, Drop, source
<1>10. CASE UNCHANGED vars
  BY <1>4, <1>10 DEF vars, stream, source
<1> QED BY <1>1, <1>2, <1>3, <1>5, <1>6, <1>7, <1>8, <1>9, <1>10
        DEF Next, Resolve, Run, Done

(* The worker receives the frames of the source, each once and in order,   *)
(* and learns of a proper end only when none is missing, through the       *)
(* stream and the channel: the task implements FrameStream.                *)
THEOREM Delivers == Spec => StreamSpec
<1>1. IInv /\ [Next]_vars => [Stream!Next]_(Stream!vars)
  BY StreamStep
<1> QED BY StreamInit, Inductive, <1>1, PTL DEF Spec, StreamSpec, Stream!Spec
==============================================================================
