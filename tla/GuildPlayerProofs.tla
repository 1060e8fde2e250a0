--------------------------- MODULE GuildPlayerProofs ---------------------------
(***************************************************************************)
(* Every operation of GuildPlayer maps a player over a set T of tracks to  *)
(* a player over T, and a history over T to one: no operation makes a      *)
(* track up.  Some leave the current track alone, some rearrange the queue *)
(* or put a track in front of it, and how often each track is in the queue *)
(* afterwards is counted.                                                  *)
(***************************************************************************)
EXTENDS GuildPlayer, SequenceTheorems, FiniteSetTheorems, TLAPS

(* Cutting an element out of a sequence stays within its elements. *)
LEMMA RemoveAtType ==
  ASSUME NEW T, NEW s \in Seq(T), NEW i \in 1 .. Len(s)
  PROVE  /\ RemoveAt(s, i) \in Seq(T)
         /\ Len(RemoveAt(s, i)) = Len(s) - 1
<1> DEFINE before == SubSeq(s, 1, i - 1)
<1> DEFINE after == SubSeq(s, i + 1, Len(s))
<1>1. before \in Seq(T) /\ Len(before) = i - 1
  BY SubSeqProperties, ElementOfSeq
<1>2. after \in Seq(T) /\ Len(after) = Len(s) - i
  BY SubSeqProperties, ElementOfSeq
<1>3. Len(s) \in Nat
  BY LenProperties
<1>4. RemoveAt(s, i) = before \o after
  BY Zenon DEF RemoveAt
<1> HIDE DEF before, after
<1>5. /\ before \o after \in Seq(T)
      /\ Len(before \o after) = Len(before) + Len(after)
  BY <1>1, <1>2, ConcatProperties
<1> QED BY <1>1, <1>2, <1>3, <1>4, <1>5

(* Putting an element of T into a sequence over T gives another one. *)
LEMMA InsertAtType ==
  ASSUME NEW T, NEW s \in Seq(T), NEW i \in 1 .. Len(s) + 1, NEW e \in T
  PROVE  InsertAt(s, i, e) \in Seq(T)
<1>1. SubSeq(s, 1, i - 1) \in Seq(T)
  BY SubSeqProperties, ElementOfSeq
<1>2. SubSeq(s, i, Len(s)) \in Seq(T)
  BY SubSeqProperties, ElementOfSeq
<1>3. << e >> \in Seq(T)
  OBVIOUS
<1> QED BY <1>1, <1>2, <1>3, ConcatProperties DEF InsertAt

(* remove_queued: whether the position exists or not. *)
LEMMA RemoveQueuedType ==
  ASSUME NEW T, NEW p \in Player(T), NEW i \in Nat
  PROVE  RemoveQueued(p, i) \in Player(T)
<1>1. CASE Holds(p, i)
  <2>1. i + 1 \in 1 .. Len(p.queue)
    BY <1>1 DEF Holds, Player
  <2>2. RemoveAt(p.queue, i + 1) \in Seq(T)
    BY <2>1, RemoveAtType DEF Player
  <2> QED BY <1>1, <2>2 DEF RemoveQueued, Player
<1>2. CASE ~ Holds(p, i)
  BY <1>2 DEF RemoveQueued
<1> QED BY <1>1, <1>2

(* move_queued: remove at one position, insert at the other. *)
LEMMA MoveQueuedType ==
  ASSUME NEW T, NEW p \in Player(T), NEW from \in Int, NEW to \in Int
  PROVE  MoveQueued(p, from, to) \in Player(T)
<1>1. CASE Holds(p, from) /\ Holds(p, to)
  <2> DEFINE rest == RemoveAt(p.queue, from + 1)
  <2>1. from + 1 \in 1 .. Len(p.queue) /\ to + 1 \in 1 .. Len(p.queue)
    BY <1>1 DEF Holds, Player
  <2>2. rest \in Seq(T) /\ Len(rest) = Len(p.queue) - 1
    BY <2>1, RemoveAtType DEF Player
  <2>3. p.queue[from + 1] \in T
    BY <2>1, ElementOfSeq DEF Player
  <2>4. to + 1 \in 1 .. Len(rest) + 1
    BY <2>1, <2>2
  <2>5. InsertAt(rest, to + 1, p.queue[from + 1]) \in Seq(T)
    BY <2>2, <2>3, <2>4, InsertAtType
  <2> QED BY <2>5 DEF MoveQueued, Player
<1>2. CASE ~ (Holds(p, from) /\ Holds(p, to))
  BY <1>2 DEF MoveQueued
<1> QED BY <1>1, <1>2

(* shuffle_queued: a bijection of the positions. *)
LEMMA ShuffledType ==
  ASSUME NEW T, NEW p \in Player(T), NEW r \in Shuffled(p)
  PROVE  r \in Player(T)
<1>1. PICK f \in Bijection(DOMAIN p.queue, DOMAIN p.queue) :
        r = [p EXCEPT !.queue = [i \in DOMAIN @ |-> @[f[i]]]]
  BY DEF Shuffled
<1>2. DOMAIN p.queue = 1 .. Len(p.queue) /\ Len(p.queue) \in Nat
  BY LenProperties DEF Player
<1>3. f \in [1 .. Len(p.queue) -> 1 .. Len(p.queue)]
  BY <1>2 DEF Bijection, Injection
<1>4. [i \in 1 .. Len(p.queue) |-> p.queue[f[i]]] \in Seq(T)
  <2>1. \A i \in 1 .. Len(p.queue) : p.queue[f[i]] \in T
    BY <1>2, <1>3, ElementOfSeq DEF Player
  <2> QED BY <1>2, <2>1
<1> QED BY <1>1, <1>2, <1>4 DEF Player

(* enqueue, start_next, finish_current and complete_current. *)
LEMMA QueueOpsType ==
  ASSUME NEW T, NEW p \in Player(T), NEW t \in T, NEW id
  PROVE  /\ Enqueue(p, t) \in Player(T)
         /\ StartNext(p) \in Player(T)
         /\ FinishCurrent(p, id) \in Player(T)
         /\ CompleteCurrent(p, id) \in Player(T)
<1>1. Enqueue(p, t) \in Player(T)
  BY AppendProperties DEF Enqueue, Player
<1>2. StartNext(p) \in Player(T)
  BY HeadTailProperties DEF StartNext, Player
<1>3. FinishCurrent(p, id) \in Player(T)
  BY DEF FinishCurrent, Player
<1>4. CompleteCurrent(p, id) \in Player(T)
  <2>1. CASE p.now = id /\ id # NoTrack
    <3>1. p.now \in T /\ p.queue \in Seq(T) /\ p.loop \in LoopModes
      BY <2>1 DEF Player
    <3>2. << p.now >> \o p.queue \in Seq(T)
      BY <3>1, ConcatProperties
    <3>3. Append(p.queue, p.now) \in Seq(T)
      BY <3>1, AppendProperties
    <3>4. Requeued(p) \in Seq(T)
      BY <3>1, <3>2, <3>3 DEF Requeued, LoopModes
    <3> QED BY <2>1, <3>4 DEF CompleteCurrent, Player
  <2>2. CASE ~ (p.now = id /\ id # NoTrack)
    BY <2>2 DEF CompleteCurrent
  <2> QED BY <2>1, <2>2
<1> QED BY <1>1, <1>2, <1>3, <1>4

(* The critical section of /previous. *)
LEMMA RewindType ==
  ASSUME NEW T, NEW p \in Player(T), NEW current \in T \union {NoTrack},
         NEW previous \in T
  PROVE  Rewind(p, current, previous) \in Player(T)
<1>1. ASSUME NEW q \in Player(T), NEW t \in T
      PROVE  EnqueueFirst(q, t) \in Player(T)
  <2>1. Len(q.queue) \in Int
    BY LenProperties DEF Player
  <2>2. Enqueue(q, t) \in Player(T)
    BY QueueOpsType
  <2> QED BY <2>1, <2>2, MoveQueuedType DEF EnqueueFirst
<1>2. CASE current # NoTrack /\ p.now = current
  <2>1. FinishCurrent(p, current) \in Player(T)
    BY QueueOpsType
  <2> QED BY <1>1, <1>2, <2>1 DEF Rewind
<1>3. CASE ~ (current # NoTrack /\ p.now = current)
  BY <1>1, <1>3 DEF Rewind
<1> QED BY <1>2, <1>3

(* A push keeps a history within its limit. *)
LEMMA RememberType ==
  ASSUME NEW T, NEW h \in Seq(T), NEW t \in T, NEW limit \in Nat \ {0},
         Len(h) <= limit
  PROVE  /\ Remember(h, t, limit) \in Seq(T)
         /\ Len(Remember(h, t, limit)) <= limit
<1>1. CASE Len(h) = limit
  <2>1. h # << >>
    BY <1>1, EmptySeq
  <2>2. Tail(h) \in Seq(T) /\ Len(Tail(h)) = Len(h) - 1
    BY <2>1, HeadTailProperties
  <2> QED BY <1>1, <2>2, AppendProperties DEF Remember
<1>2. CASE Len(h) # limit
  BY <1>2, AppendProperties DEF Remember
<1> QED BY <1>1, <1>2

(* A pop leaves a prefix. *)
LEMMA ForgetType ==
  ASSUME NEW T, NEW h \in Seq(T), NEW limit \in Nat, Len(h) <= limit
  PROVE  Forget(h) \in Seq(T) /\ Len(Forget(h)) <= limit
<1>1. CASE h = << >>
  BY <1>1 DEF Forget
<1>2. CASE h # << >>
  <2> DEFINE n == Len(h) - 1
  <2>1. n \in Nat /\ \A i \in 1 .. n : h[i] \in T
    BY <1>2, EmptySeq, ElementOfSeq
  <2>2. Forget(h) = SubSeq(h, 1, n)
    BY <1>2 DEF Forget, Front
  <2>3. SubSeq(h, 1, n) \in Seq(T) /\ Len(SubSeq(h, 1, n)) = n
    <3> HIDE DEF n
    <3>1. /\ SubSeq(h, 1, n) \in Seq(T)
          /\ Len(SubSeq(h, 1, n)) = IF 1 <= n THEN n - 1 + 1 ELSE 0
      BY <2>1, SubSeqProperties
    <3> QED BY <2>1, <3>1
  <2> QED BY <2>1, <2>2, <2>3
<1> QED BY <1>1, <1>2

(* What changes the queue leaves the current track alone. *)
LEMMA NowUntouched ==
  ASSUME NEW T, NEW p \in Player(T), NEW t, NEW i, NEW j, NEW mode
  PROVE  /\ Enqueue(p, t).now = p.now
         /\ RemoveQueued(p, i).now = p.now
         /\ MoveQueued(p, i, j).now = p.now
         /\ SetLoopMode(p, mode).now = p.now
         /\ \A r \in Shuffled(p) : r.now = p.now
BY DEF Enqueue, RemoveQueued, MoveQueued, SetLoopMode, Shuffled, Player

(* /previous only takes back the track that it found current. *)
LEMMA RewindNow ==
  ASSUME NEW T, NEW p \in Player(T), NEW current \in T \union {NoTrack},
         NEW previous \in T
  PROVE  Rewind(p, current, previous).now =
           IF current # NoTrack /\ p.now = current THEN NoTrack ELSE p.now
<1>1. ASSUME NEW q \in Player(T), NEW t \in T
      PROVE  EnqueueFirst(q, t) \in Player(T) /\ EnqueueFirst(q, t).now = q.now
  <2>1. Len(q.queue) \in Int
    BY LenProperties DEF Player
  <2>2. Enqueue(q, t) \in Player(T) /\ Enqueue(q, t).now = q.now
    BY QueueOpsType, NowUntouched
  <2> QED BY <2>1, <2>2, MoveQueuedType, NowUntouched DEF EnqueueFirst
<1>2. FinishCurrent(p, current) \in Player(T)
  BY <1>1, QueueOpsType
<1>3. p.now = current => FinishCurrent(p, current).now = NoTrack
  BY DEF FinishCurrent, Player
<1> QED BY <1>1, <1>2, <1>3 DEF Rewind

(* The latest track of a history is one of its tracks. *)
LEMMA LatestType ==
  ASSUME NEW T, NEW h \in Seq(T)
  PROVE  Latest(h) \in T \union {NoTrack}
<1>1. CASE h # << >>
  <2>1. Len(h) \in 1 .. Len(h)
    BY <1>1, EmptySeq, LenProperties
  <2> QED BY <2>1, ElementOfSeq DEF Latest, Last
<1> QED BY <1>1 DEF Latest

(* and of one that is not empty, its last. *)
LEMMA LatestInside ==
  ASSUME NEW T, NEW h \in Seq(T), h # << >>
  PROVE  Latest(h) \in T /\ Latest(h) = Last(h)
<1>1. Len(h) \in 1 .. Len(h)
  BY EmptySeq, LenProperties
<1> QED BY <1>1, ElementOfSeq DEF Latest, Last

(* If the track it set out to take back is the current one, none is left.  *)
LEMMA RewindFrees ==
  ASSUME NEW T, NEW p \in Player(T), NEW current \in T \union {NoTrack},
         NEW previous \in T, p.now = current
  PROVE  Rewind(p, current, previous).now = NoTrack
<1>1. CASE current = NoTrack
  BY <1>1, RewindNow
<1>2. CASE current # NoTrack
  BY <1>2, RewindNow
<1> QED BY <1>1, <1>2

(* The elements of a sequence after one was cut out, *)
LEMMA RemoveAtElements ==
  ASSUME NEW T, NEW s \in Seq(T), NEW i \in 1 .. Len(s)
  PROVE  \A k \in 1 .. Len(s) - 1 :
           RemoveAt(s, i)[k] = IF k < i THEN s[k] ELSE s[k + 1]
<1> DEFINE before == SubSeq(s, 1, i - 1)
<1> DEFINE after == SubSeq(s, i + 1, Len(s))
<1>1. Len(s) \in Nat /\ RemoveAt(s, i) = before \o after
  BY LenProperties, Zenon DEF RemoveAt
<1>2. /\ before \in Seq(T) /\ Len(before) = i - 1
      /\ \A k \in 1 .. i - 1 : before[k] = s[k]
  BY <1>1, SubSeqProperties, ElementOfSeq
<1>3. /\ after \in Seq(T) /\ Len(after) = Len(s) - i
      /\ \A k \in 1 .. Len(s) - i : after[k] = s[i + k]
  BY <1>1, SubSeqProperties, ElementOfSeq
<1> HIDE DEF before, after
<1>4. \A k \in 1 .. Len(s) - 1 :
        (before \o after)[k] = IF k <= i - 1 THEN before[k] ELSE after[k - (i - 1)]
  BY <1>1, <1>2, <1>3, ConcatProperties
<1> QED BY <1>1, <1>2, <1>3, <1>4

(* and after one was put in. *)
LEMMA InsertAtElements ==
  ASSUME NEW T, NEW s \in Seq(T), NEW i \in 1 .. Len(s) + 1, NEW e \in T
  PROVE  /\ Len(InsertAt(s, i, e)) = Len(s) + 1
         /\ \A k \in 1 .. Len(s) + 1 :
              InsertAt(s, i, e)[k] =
                IF k < i THEN s[k] ELSE IF k = i THEN e ELSE s[k - 1]
<1> DEFINE before == SubSeq(s, 1, i - 1)
<1> DEFINE after == SubSeq(s, i, Len(s))
<1> DEFINE mid == << e >>
<1>1. Len(s) \in Nat /\ InsertAt(s, i, e) = (before \o mid) \o after
  BY LenProperties, Zenon DEF InsertAt
<1>2. /\ before \in Seq(T) /\ Len(before) = i - 1
      /\ \A k \in 1 .. i - 1 : before[k] = s[k]
  BY <1>1, SubSeqProperties, ElementOfSeq
<1>3. /\ after \in Seq(T) /\ Len(after) = Len(s) - i + 1
      /\ \A k \in 1 .. Len(s) - i + 1 : after[k] = s[i + k - 1]
  BY <1>1, SubSeqProperties, ElementOfSeq
<1>4. mid \in Seq(T) /\ Len(mid) = 1 /\ mid[1] = e
  OBVIOUS
<1> HIDE DEF before, after, mid
<1>5. /\ before \o mid \in Seq(T) /\ Len(before \o mid) = i
      /\ \A k \in 1 .. i : (before \o mid)[k] = IF k < i THEN s[k] ELSE e
  <2>1. Len(before) + Len(mid) = i
    BY <1>1, <1>2, <1>4
  <2>2. /\ before \o mid \in Seq(T) /\ Len(before \o mid) = i
        /\ \A k \in 1 .. i : (before \o mid)[k] =
             IF k <= Len(before) THEN before[k] ELSE mid[k - Len(before)]
    BY <1>2, <1>4, <2>1, ConcatProperties
  <2> QED BY <1>1, <1>2, <1>4, <2>2
<1>6. /\ Len((before \o mid) \o after) = Len(s) + 1
      /\ \A k \in 1 .. Len(s) + 1 :
           ((before \o mid) \o after)[k] =
             IF k <= i THEN (before \o mid)[k] ELSE after[k - i]
  <2> DEFINE front == before \o mid
  <2>1. Len(front) + Len(after) = Len(s) + 1 /\ front \in Seq(T) /\ Len(front) = i
    BY <1>1, <1>3, <1>5
  <2> HIDE DEF front
  <2>2. /\ Len(front \o after) = Len(front) + Len(after)
        /\ \A k \in 1 .. Len(front) + Len(after) : (front \o after)[k] =
             IF k <= Len(front) THEN front[k] ELSE after[k - Len(front)]
    BY <1>3, <2>1, ConcatProperties
  <2> QED BY <2>1, <2>2 DEF front
<1>7. ASSUME NEW k \in 1 .. Len(s) + 1
      PROVE  InsertAt(s, i, e)[k] =
               IF k < i THEN s[k] ELSE IF k = i THEN e ELSE s[k - 1]
  <2>1. CASE k <= i
    <3>1. k \in 1 .. i
      BY <2>1
    <3> QED BY <1>1, <1>5, <1>6, <3>1
  <2>2. CASE k > i
    <3>1. k - i \in 1 .. Len(s) - i + 1 /\ i + (k - i) - 1 = k - 1 /\ ~ (k <= i)
      BY <1>1, <2>2
    <3>2. after[k - i] = s[k - 1]
      BY <1>3, <3>1
    <3> QED BY <1>1, <1>6, <2>2, <3>1, <3>2
  <2>3. k <= i \/ k > i
    BY <1>1
  <2> QED BY <2>1, <2>2, <2>3, Zenon
<1> QED BY <1>1, <1>6, <1>7

(* Player q has tracks of the queue of p, each at most once. *)
Rearranged(p, q) ==
  /\ q = [p EXCEPT !.queue = q.queue]
  /\ \E f \in Injection(DOMAIN q.queue, DOMAIN p.queue) :
       q.queue = [k \in DOMAIN q.queue |-> p.queue[f[k]]]

LEMMA RearrangedBy ==
  ASSUME NEW T, NEW p \in Player(T), NEW m,
         NEW f \in Injection(DOMAIN m, DOMAIN p.queue),
         m = [k \in DOMAIN m |-> p.queue[f[k]]]
  PROVE  Rearranged(p, [p EXCEPT !.queue = m])
<1>1. [p EXCEPT !.queue = m].queue = m
  BY DEF Player
<1> QED BY <1>1, Zenon DEF Rearranged

(* A removal keeps the others, in their order, *)
LEMMA RemoveQueuedRearranges ==
  ASSUME NEW T, NEW p \in Player(T), NEW i \in 1 .. Len(p.queue)
  PROVE  Rearranged(p, RemoveQueued(p, i - 1))
<1> DEFINE s == p.queue
           r == RemoveAt(s, i)
           f == [k \in 1 .. Len(s) - 1 |-> IF k < i THEN k ELSE k + 1]
<1>1. s \in Seq(T) /\ Len(s) \in Nat /\ DOMAIN s = 1 .. Len(s)
  BY LenProperties DEF Player
<1>2. RemoveQueued(p, i - 1) = [p EXCEPT !.queue = r]
  <2>1. Holds(p, i - 1) /\ (i - 1) + 1 = i
    BY <1>1 DEF Holds
  <2> QED BY <2>1, Zenon DEF RemoveQueued
<1>4. r \in Seq(T) /\ Len(r) = Len(s) - 1 /\ DOMAIN r = 1 .. Len(s) - 1
  BY <1>1, RemoveAtType, LenProperties
<1>5. f \in Injection(1 .. Len(s) - 1, 1 .. Len(s))
  BY <1>1 DEF Injection, IsInjective
<1>6. \A k \in 1 .. Len(s) - 1 : r[k] = s[f[k]]
  BY <1>1, RemoveAtElements
<1>7. r = [k \in 1 .. Len(s) - 1 |-> r[k]]
  BY <1>4
<1> HIDE DEF f, r
<1>8. r = [k \in DOMAIN r |-> s[f[k]]]
  BY <1>4, <1>6, <1>7
<1>9. f \in Injection(DOMAIN r, DOMAIN s)
  BY <1>1, <1>4, <1>5
<1> QED BY <1>2, <1>8, <1>9, RearrangedBy

(* a move puts one at another place, *)
LEMMA MoveQueuedRearranges ==
  ASSUME NEW T, NEW p \in Player(T), NEW i \in 1 .. Len(p.queue),
         NEW j \in 1 .. Len(p.queue)
  PROVE  \/ MoveQueued(p, i - 1, j - 1) = p
         \/ Rearranged(p, MoveQueued(p, i - 1, j - 1))
<1> DEFINE s == p.queue
           r == RemoveAt(s, i)
           m == InsertAt(r, j, s[i])
           rest(k) == IF k < i THEN k ELSE k + 1
           f == [k \in 1 .. Len(s) |->
                   IF k < j THEN rest(k) ELSE IF k = j THEN i ELSE rest(k - 1)]
<1>1. s \in Seq(T) /\ Len(s) \in Nat /\ DOMAIN s = 1 .. Len(s) /\ s[i] \in T
  BY LenProperties, ElementOfSeq DEF Player
<1>2. CASE i = j
  <2>1. MoveQueued(p, i - 1, j - 1) = p
    BY <1>1, <1>2 DEF MoveQueued
  <2> QED BY <2>1
<1>3. CASE i # j
  <2>1. MoveQueued(p, i - 1, j - 1) = [p EXCEPT !.queue = m]
    <3>1. /\ Holds(p, i - 1) /\ Holds(p, j - 1) /\ i - 1 # j - 1
          /\ (i - 1) + 1 = i /\ (j - 1) + 1 = j
      BY <1>1, <1>3 DEF Holds
    <3> QED BY <3>1, Zenon DEF MoveQueued
  <2>3. /\ r \in Seq(T) /\ Len(r) = Len(s) - 1
        /\ \A k \in 1 .. Len(s) - 1 : r[k] = s[rest(k)]
    BY <1>1, RemoveAtType, RemoveAtElements
  <2>4. j \in 1 .. Len(r) + 1 /\ Len(r) + 1 = Len(s)
    BY <1>1, <2>3
  <2> HIDE DEF r
  <2>5. /\ m \in Seq(T) /\ Len(m) = Len(s)
        /\ \A k \in 1 .. Len(s) :
             m[k] = IF k < j THEN r[k] ELSE IF k = j THEN s[i] ELSE r[k - 1]
    <3> DEFINE e == s[i]
    <3>1. e \in T
      BY <1>1
    <3> HIDE DEF e
    <3>2. /\ InsertAt(r, j, e) \in Seq(T)
          /\ Len(InsertAt(r, j, e)) = Len(r) + 1
          /\ \A k \in 1 .. Len(r) + 1 : InsertAt(r, j, e)[k] =
               IF k < j THEN r[k] ELSE IF k = j THEN e ELSE r[k - 1]
      BY <2>3, <2>4, <3>1, InsertAtType, InsertAtElements
    <3> QED BY <2>4, <3>2 DEF e
  <2>6. DOMAIN m = 1 .. Len(s)
    BY <2>5, LenProperties
  <2>7. f \in Injection(1 .. Len(s), 1 .. Len(s))
    <3>1. \A k \in 1 .. Len(s) : f[k] \in 1 .. Len(s)
      BY <1>1
    <3>2. f \in [1 .. Len(s) -> 1 .. Len(s)]
      BY <3>1
    <3>3. \A a, b \in 1 .. Len(s) : f[a] = f[b] => a = b
      BY <1>1
    <3> QED BY <3>2, <3>3 DEF Injection, IsInjective
  <2> HIDE DEF m
  <2>8. ASSUME NEW k \in 1 .. Len(s)
        PROVE  m[k] = s[f[k]]
    <3>1. CASE k < j
      <4>1. k \in 1 .. Len(s) - 1
        BY <1>1, <3>1
      <4> QED BY <1>1, <2>3, <2>5, <3>1, <4>1
    <3>2. CASE k = j
      BY <1>1, <2>5, <3>2
    <3>3. CASE k > j
      <4>1. k - 1 \in 1 .. Len(s) - 1 /\ ~ (k < j) /\ k # j
        BY <1>1, <3>3
      <4> QED BY <1>1, <2>3, <2>5, <3>3, <4>1
    <3> QED BY <1>1, <3>1, <3>2, <3>3
  <2> HIDE DEF f
  <2>9. m = [k \in DOMAIN m |-> s[f[k]]]
    <3>1. m = [k \in 1 .. Len(s) |-> m[k]]
      BY <2>5, <2>6
    <3> QED BY <2>6, <2>8, <3>1
  <2>10. f \in Injection(DOMAIN m, DOMAIN s)
    BY <1>1, <2>6, <2>7
  <2> QED BY <2>1, <2>9, <2>10, RearrangedBy
<1> QED BY <1>2, <1>3

(* and a shuffle permutes them. *)
LEMMA ShuffledRearranges ==
  ASSUME NEW T, NEW p \in Player(T), NEW q \in Shuffled(p)
  PROVE  Rearranged(p, q)
<1>1. PICK f \in Bijection(DOMAIN p.queue, DOMAIN p.queue) :
        q = [p EXCEPT !.queue = [i \in DOMAIN @ |-> @[f[i]]]]
  BY DEF Shuffled
<1> DEFINE s == [i \in DOMAIN p.queue |-> p.queue[f[i]]]
<1>2. q = [p EXCEPT !.queue = s]
  BY <1>1
<1>3. DOMAIN s = DOMAIN p.queue /\ f \in Injection(DOMAIN p.queue, DOMAIN p.queue)
  BY DEF Bijection
<1>4. s = [k \in DOMAIN s |-> p.queue[f[k]]]
  OBVIOUS
<1> QED BY <1>2, <1>3, <1>4, RearrangedBy

(* To enqueue and then move to the front is to put at the front. *)
LEMMA EnqueueFirstIs ==
  ASSUME NEW T, NEW p \in Player(T), NEW t \in T
  PROVE  EnqueueFirst(p, t) = [p EXCEPT !.queue = << t >> \o @]
<1> DEFINE s == p.queue
           n == Len(s)
           a == Append(s, t)
           front == << t >> \o s
<1>1. s \in Seq(T) /\ n \in Nat /\ << t >> \in Seq(T) /\ Len(<< t >>) = 1
  BY LenProperties DEF Player
<1>2. /\ a \in Seq(T) /\ Len(a) = n + 1 /\ a[n + 1] = t
      /\ \A i \in 1 .. n : a[i] = s[i]
  BY <1>1, AppendProperties
<1>3. Enqueue(p, t) = [p EXCEPT !.queue = a] /\ [p EXCEPT !.queue = a].queue = a
  BY DEF Enqueue, Player
<1>4. /\ front \in Seq(T) /\ Len(front) = n + 1 /\ front[1] = t
      /\ \A i \in 2 .. n + 1 : front[i] = s[i - 1]
  <2>1. << t >>[1] = t
    OBVIOUS
  <2>2. /\ front \in Seq(T) /\ Len(front) = 1 + n
        /\ \A i \in 1 .. 1 + n : front[i] = IF i <= 1 THEN << t >>[i] ELSE s[i - 1]
    BY <1>1, ConcatProperties
  <2> QED BY <1>1, <2>1, <2>2
<1> HIDE DEF a, front
<1>5. CASE n = 0
  <2>1. MoveQueued(Enqueue(p, t), n, 0) = Enqueue(p, t)
    BY <1>5 DEF MoveQueued
  <2>2. a = front
    BY <1>2, <1>4, <1>5, SeqEqual
  <2> QED BY <1>3, <2>1, <2>2 DEF EnqueueFirst, front
<1>6. CASE n # 0
  <2> DEFINE r == RemoveAt(a, n + 1)
  <2>1. r = s
    <3>1. n + 1 \in 1 .. Len(a) /\ Len(a) - 1 = n
      BY <1>1, <1>2
    <3>2. /\ r \in Seq(T) /\ Len(r) = n
          /\ \A k \in 1 .. n : r[k] = IF k < n + 1 THEN a[k] ELSE a[k + 1]
      BY <1>2, <3>1, RemoveAtType, RemoveAtElements
    <3> HIDE DEF r
    <3>3. \A k \in 1 .. n : r[k] = s[k]
      BY <1>1, <1>2, <3>2
    <3> QED BY <1>1, <3>2, <3>3, SeqEqual
  <2>2. InsertAt(s, 1, t) = front
    <3>1. 1 \in 1 .. Len(s) + 1
      BY <1>1
    <3> HIDE DEF s
    <3>2. /\ InsertAt(s, 1, t) \in Seq(T) /\ Len(InsertAt(s, 1, t)) = Len(s) + 1
          /\ \A k \in 1 .. Len(s) + 1 : InsertAt(s, 1, t)[k] =
               IF k < 1 THEN s[k] ELSE IF k = 1 THEN t ELSE s[k - 1]
      <4>1. InsertAt(s, 1, t) \in Seq(T)
        BY <1>1, <3>1, InsertAtType
      <4>2. /\ Len(InsertAt(s, 1, t)) = Len(s) + 1
            /\ \A k \in 1 .. Len(s) + 1 : InsertAt(s, 1, t)[k] =
                 IF k < 1 THEN s[k] ELSE IF k = 1 THEN t ELSE s[k - 1]
        BY <1>1, <3>1, InsertAtElements
      <4> QED BY <4>1, <4>2
    <3>3. \A k \in 1 .. Len(s) + 1 : InsertAt(s, 1, t)[k] = front[k]
      BY <1>1, <1>4, <3>2
    <3> QED BY <1>1, <1>4, <3>2, <3>3, SeqEqual
  <2>3. MoveQueued(Enqueue(p, t), n, 0) = [Enqueue(p, t) EXCEPT !.queue = front]
    <3> DEFINE q == Enqueue(p, t)
    <3>1. q.queue = a
      BY <1>3
    <3> HIDE DEF q
    <3>2. Holds(q, n) /\ Holds(q, 0) /\ n # 0 /\ 0 + 1 = 1
      BY <1>1, <1>2, <1>6, <3>1 DEF Holds
    <3>3. q.queue[n + 1] = t /\ RemoveAt(q.queue, n + 1) = s
      BY <1>2, <2>1, <3>1
    <3>4. MoveQueued(q, n, 0) =
            [q EXCEPT !.queue = InsertAt(RemoveAt(q.queue, n + 1), 0 + 1, q.queue[n + 1])]
      BY <3>2 DEF MoveQueued
    <3>5. MoveQueued(q, n, 0) = [q EXCEPT !.queue = front]
      BY <2>2, <3>2, <3>3, <3>4
    <3> QED BY <3>5 DEF q
  <2> QED BY <1>3, <2>3 DEF EnqueueFirst, front, Player
<1> QED BY <1>5, <1>6

(* What the critical section of /previous does to the track it set out to  *)
(* take back and to the queue.                                             *)
LEMMA RewindIs ==
  ASSUME NEW T, NEW p \in Player(T), NEW previous \in T
  PROVE  Rewind(p, p.now, previous) =
           [p EXCEPT !.now = NoTrack,
                     !.queue = << previous >>
                       \o (IF p.now = NoTrack THEN << >> ELSE << p.now >>) \o @]
<1>1. p.queue \in Seq(T) /\ << previous >> \in Seq(T)
  BY DEF Player
<1>2. CASE p.now = NoTrack
  <2>1. Rewind(p, p.now, previous) = [p EXCEPT !.queue = << previous >> \o @]
    BY <1>2, EnqueueFirstIs DEF Rewind
  <2>2. << previous >> \o << >> = << previous >>
    BY <1>1, ConcatEmptySeq
  <2> QED BY <1>2, <2>1, <2>2 DEF Player
<1>3. CASE p.now # NoTrack
  <2> DEFINE q == FinishCurrent(p, p.now)
             r == EnqueueFirst(q, p.now)
  <2>1. p.now \in T /\ << p.now >> \in Seq(T)
    BY <1>3 DEF Player
  <2>2. q = [p EXCEPT !.now = NoTrack] /\ q \in Player(T) /\ q.queue = p.queue
    BY DEF FinishCurrent, Player
  <2> HIDE DEF q
  <2>3. r = [q EXCEPT !.queue = << p.now >> \o @]
    BY <2>1, <2>2, EnqueueFirstIs
  <2>4. r \in Player(T) /\ r.queue = << p.now >> \o p.queue /\ r.now = NoTrack
        /\ r.loop = p.loop
    <3>1. << p.now >> \o p.queue \in Seq(T)
      BY <1>1, <2>1, ConcatProperties
    <3> QED BY <2>2, <2>3, <3>1 DEF Player
  <2> HIDE DEF r
  <2>5. Rewind(p, p.now, previous) = EnqueueFirst(r, previous)
    BY <1>3 DEF Rewind, r, q
  <2>6. EnqueueFirst(r, previous) = [r EXCEPT !.queue = << previous >> \o @]
    BY <2>4, EnqueueFirstIs
  <2>7. << previous >> \o (<< p.now >> \o p.queue)
          = (<< previous >> \o << p.now >>) \o p.queue
    BY <1>1, <2>1, ConcatAssociative
  <2>8. r = [p EXCEPT !.now = NoTrack, !.queue = << p.now >> \o p.queue]
    BY <2>2, <2>3 DEF Player
  <2> QED BY <1>3, <2>5, <2>6, <2>7, <2>8 DEF Player
<1> QED BY <1>2, <1>3

------------------------------------------------------------------------------
(* How often track t is in sequence s. *)
Count(s, t) == Cardinality({i \in DOMAIN s : s[i] = t})

LEMMA CountType ==
  ASSUME NEW T, NEW s \in Seq(T), NEW t
  PROVE  /\ IsFiniteSet({i \in DOMAIN s : s[i] = t})
         /\ Count(s, t) \in Nat
         /\ Count(s, t) = 0 <=> \A i \in DOMAIN s : s[i] # t
<1> DEFINE at == {i \in DOMAIN s : s[i] = t}
<1>1. DOMAIN s = 1 .. Len(s) /\ Len(s) \in Nat
  BY LenProperties
<1>2. IsFiniteSet(1 .. Len(s))
  BY <1>1, FS_Interval
<1>3. IsFiniteSet(at)
  BY <1>1, <1>2, FS_Subset
<1>4. Cardinality(at) \in Nat /\ (Cardinality(at) = 0 <=> at = {})
  BY <1>3, FS_CardinalityType, FS_EmptySet
<1> QED BY <1>3, <1>4 DEF Count

(* Sequences put one behind the other are counted one after the other. *)
LEMMA CountConcat ==
  ASSUME NEW T, NEW r \in Seq(T), NEW s \in Seq(T), NEW t
  PROVE  Count(r \o s, t) = Count(r, t) + Count(s, t)
<1> DEFINE m == Len(r)
           n == Len(s)
           whole == r \o s
           atR == {i \in DOMAIN r : r[i] = t}
           atS == {i \in DOMAIN s : s[i] = t}
           shifted == {i \in m + 1 .. m + n : s[i - m] = t}
           at == {i \in DOMAIN whole : whole[i] = t}
<1>1. m \in Nat /\ n \in Nat /\ DOMAIN r = 1 .. m /\ DOMAIN s = 1 .. n
  BY LenProperties
<1>2. /\ whole \in Seq(T) /\ DOMAIN whole = 1 .. m + n
      /\ \A i \in 1 .. m + n : whole[i] = IF i <= m THEN r[i] ELSE s[i - m]
  BY <1>1, ConcatProperties, LenProperties
<1>3. IsFiniteSet(atR) /\ IsFiniteSet(atS)
  BY CountType
<1> HIDE DEF m, n, whole
<1>4. IsFiniteSet(shifted) /\ Cardinality(shifted) = Cardinality(atS)
  <2> DEFINE f == [j \in atS |-> j + m]
  <2>1. f \in Bijection(atS, shifted)
    <3>1. \A j \in atS : f[j] \in shifted
      BY <1>1
    <3>2. \A a, b \in atS : f[a] = f[b] => a = b
      BY <1>1
    <3>3. \A i \in shifted : i - m \in atS /\ f[i - m] = i
      BY <1>1
    <3>4. f \in [atS -> shifted]
      BY <3>1
    <3> HIDE DEF f, atS, shifted
    <3>5. f \in Injection(atS, shifted)
      BY <3>2, <3>4 DEF Injection, IsInjective
    <3>6. f \in Surjection(atS, shifted)
      BY <3>3, <3>4 DEF Surjection
    <3> QED BY <3>5, <3>6 DEF Bijection
  <2>2. ExistsBijection(atS, shifted)
    BY <2>1 DEF ExistsBijection
  <2> QED BY <1>3, <2>2, FS_Bijection
<1>5. at = atR \union shifted
  BY <1>1, <1>2
<1>6. atR \intersect shifted = {}
  BY <1>1
<1> HIDE DEF atR, atS, shifted, at
<1>7. Cardinality(atR \intersect shifted) = 0
  BY <1>6, FS_EmptySet
<1>8. Cardinality(atR \union shifted)
        = Cardinality(atR) + Cardinality(shifted) - Cardinality(atR \intersect shifted)
  BY <1>3, <1>4, FS_Union
<1>9. Cardinality(atR) \in Nat /\ Cardinality(atS) \in Nat
  BY <1>3, FS_CardinalityType
<1>10. Cardinality(at) = Cardinality(atR) + Cardinality(atS)
  BY <1>4, <1>5, <1>7, <1>8, <1>9
<1> QED BY <1>10 DEF Count, at, atR, atS, whole

LEMMA CountOne ==
  ASSUME NEW e, NEW t
  PROVE  Count(<< e >>, t) = IF e = t THEN 1 ELSE 0
<1>1. DOMAIN << e >> = {1} /\ << e >>[1] = e
  OBVIOUS
<1>2. CASE e = t
  <2>1. {i \in DOMAIN << e >> : << e >>[i] = t} = {1}
    BY <1>1, <1>2
  <2> QED BY <1>2, <2>1, FS_Singleton DEF Count
<1>3. CASE e # t
  <2>1. {i \in DOMAIN << e >> : << e >>[i] = t} = {}
    BY <1>1, <1>3
  <2> QED BY <1>3, <2>1, FS_EmptySet DEF Count
<1> QED BY <1>2, <1>3

(* One more track, in front or at the back. *)
LEMMA CountPut ==
  ASSUME NEW T, NEW s \in Seq(T), NEW e \in T, NEW t
  PROVE  /\ Count(<< e >> \o s, t) = Count(s, t) + Count(<< e >>, t)
         /\ Count(Append(s, e), t) = Count(s, t) + Count(<< e >>, t)
         /\ Count(<< e >>, t) = IF e = t THEN 1 ELSE 0
<1>1. << e >> \in Seq(T)
  OBVIOUS
<1>2. Append(s, e) = s \o << e >>
  BY AppendIsConcat
<1>3. Count(<< e >> \o s, t) = Count(<< e >>, t) + Count(s, t)
  BY <1>1, CountConcat
<1>4. Count(s \o << e >>, t) = Count(s, t) + Count(<< e >>, t)
  BY <1>1, CountConcat
<1>5. Count(s, t) \in Nat /\ Count(<< e >>, t) \in Nat
  BY <1>1, CountType
<1> QED BY <1>2, <1>3, <1>4, <1>5, CountOne

(* The first track of a queue, taken off it. *)
LEMMA CountTail ==
  ASSUME NEW T, NEW s \in Seq(T), s # << >>, NEW t
  PROVE  Count(s, t) = Count(Tail(s), t) + Count(<< Head(s) >>, t)
<1>1. Head(s) \in T /\ Tail(s) \in Seq(T)
  BY HeadTailProperties
<1> DEFINE one == << Head(s) >>
           rest == Tail(s)
<1>2. one \in Seq(T) /\ Len(one) = 1 /\ one[1] = s[1]
  BY <1>1
<1>3. /\ rest \in Seq(T) /\ Len(s) \in Nat /\ Len(s) = 1 + Len(rest)
      /\ \A i \in 1 .. Len(rest) : rest[i] = s[i + 1]
  BY HeadTailProperties, LenProperties
<1> HIDE DEF one, rest
<1>4. /\ one \o rest \in Seq(T) /\ Len(one \o rest) = 1 + Len(rest)
      /\ \A i \in 1 .. 1 + Len(rest) :
           (one \o rest)[i] = IF i <= 1 THEN one[i] ELSE rest[i - 1]
  <2>1. /\ one \o rest \in Seq(T) /\ Len(one \o rest) = Len(one) + Len(rest)
        /\ \A i \in 1 .. Len(one) + Len(rest) : (one \o rest)[i] =
             IF i <= Len(one) THEN one[i] ELSE rest[i - Len(one)]
    BY <1>2, <1>3, ConcatProperties
  <2> QED BY <1>2, <2>1
<1>5. Len(rest) \in Nat
  BY <1>3, LenProperties
<1>6. ASSUME NEW i \in 1 .. Len(s) PROVE (one \o rest)[i] = s[i]
  <2>1. CASE i = 1
    BY <1>2, <1>3, <1>4, <2>1
  <2>2. CASE i # 1
    <3>1. i - 1 \in 1 .. Len(rest) /\ (i - 1) + 1 = i /\ ~ (i <= 1)
      BY <1>3, <1>5, <2>2
    <3> QED BY <1>3, <1>4, <3>1
  <2> QED BY <2>1, <2>2
<1>7. s = one \o rest
  BY <1>3, <1>4, <1>6, SeqEqual
<1>8. Count(one \o rest, t) = Count(rest, t) + Count(one, t)
  BY <1>1, <1>3, CountPut DEF one
<1> QED BY <1>7, <1>8 DEF one, rest

(* A sequence is what is before a position and what is from there on. *)
LEMMA CountSplit ==
  ASSUME NEW T, NEW s \in Seq(T), NEW i \in 1 .. Len(s) + 1, NEW t
  PROVE  LET before == SubSeq(s, 1, i - 1)
             after == SubSeq(s, i, Len(s))
         IN  /\ before \in Seq(T) /\ after \in Seq(T)
             /\ Count(s, t) = Count(before, t) + Count(after, t)
<1> DEFINE before == SubSeq(s, 1, i - 1)
           after == SubSeq(s, i, Len(s))
<1>1. Len(s) \in Nat
  BY LenProperties
<1>2. /\ before \in Seq(T) /\ Len(before) = i - 1
      /\ \A k \in 1 .. i - 1 : before[k] = s[k]
  BY <1>1, SubSeqProperties, ElementOfSeq
<1>3. /\ after \in Seq(T) /\ Len(after) = Len(s) - i + 1
      /\ \A k \in 1 .. Len(s) - i + 1 : after[k] = s[i + k - 1]
  BY <1>1, SubSeqProperties, ElementOfSeq
<1> HIDE DEF before, after
<1>4. /\ before \o after \in Seq(T) /\ Len(before \o after) = Len(before) + Len(after)
      /\ \A k \in 1 .. Len(before) + Len(after) : (before \o after)[k] =
           IF k <= Len(before) THEN before[k] ELSE after[k - Len(before)]
  BY <1>2, <1>3, ConcatProperties
<1>5. Len(before) + Len(after) = Len(s)
  BY <1>1, <1>2, <1>3
<1>6. ASSUME NEW k \in 1 .. Len(s) PROVE (before \o after)[k] = s[k]
  <2>1. CASE k <= i - 1
    <3>1. k \in 1 .. i - 1 /\ k \in 1 .. Len(before) + Len(after)
      BY <1>5, <2>1
    <3> QED BY <1>2, <1>4, <2>1, <3>1
  <2>2. CASE ~ (k <= i - 1)
    <3>1. /\ k - (i - 1) \in 1 .. Len(s) - i + 1
          /\ i + (k - (i - 1)) - 1 = k
          /\ k \in 1 .. Len(before) + Len(after)
      BY <1>1, <1>5, <2>2
    <3>2. (before \o after)[k] = after[k - (i - 1)]
      BY <1>2, <1>4, <2>2, <3>1
    <3> QED BY <1>3, <3>1, <3>2
  <2> QED BY <2>1, <2>2
<1>7. s = before \o after
  BY <1>4, <1>5, <1>6, SeqEqual
<1>8. Count(before \o after, t) = Count(before, t) + Count(after, t)
  BY <1>2, <1>3, CountConcat
<1> QED BY <1>2, <1>3, <1>7, <1>8 DEF before, after

(* A track put in is there once more, *)
LEMMA CountInsert ==
  ASSUME NEW T, NEW s \in Seq(T), NEW i \in 1 .. Len(s) + 1, NEW e \in T, NEW t
  PROVE  Count(InsertAt(s, i, e), t) = Count(s, t) + (IF e = t THEN 1 ELSE 0)
<1> DEFINE before == SubSeq(s, 1, i - 1)
           after == SubSeq(s, i, Len(s))
           mid == << e >>
<1>1. /\ before \in Seq(T) /\ after \in Seq(T)
      /\ Count(s, t) = Count(before, t) + Count(after, t)
  BY CountSplit
<1>2. InsertAt(s, i, e) = (before \o mid) \o after
  BY Zenon DEF InsertAt
<1>3. mid \in Seq(T) /\ Count(mid, t) = IF e = t THEN 1 ELSE 0
  BY CountOne
<1> HIDE DEF before, after, mid
<1>4. /\ before \o mid \in Seq(T)
      /\ Count(before \o mid, t) = Count(before, t) + Count(mid, t)
  BY <1>1, <1>3, ConcatProperties, CountConcat
<1>5. Count((before \o mid) \o after, t) = Count(before \o mid, t) + Count(after, t)
  BY <1>1, <1>4, CountConcat
<1>6. Count(before, t) \in Nat /\ Count(after, t) \in Nat /\ Count(mid, t) \in Nat
  BY <1>1, <1>3, CountType
<1> QED BY <1>1, <1>2, <1>3, <1>4, <1>5, <1>6

(* and one cut out once less. *)
LEMMA CountRemove ==
  ASSUME NEW T, NEW s \in Seq(T), NEW i \in 1 .. Len(s), NEW t
  PROVE  Count(s, t) = Count(RemoveAt(s, i), t) + (IF s[i] = t THEN 1 ELSE 0)
<1> DEFINE before == SubSeq(s, 1, i - 1)
           after == SubSeq(s, i, Len(s))
           rest == SubSeq(s, i + 1, Len(s))
<1>1. Len(s) \in Nat /\ i \in 1 .. Len(s) + 1
  BY LenProperties
<1>2. /\ before \in Seq(T) /\ after \in Seq(T)
      /\ Count(s, t) = Count(before, t) + Count(after, t)
  BY <1>1, CountSplit
<1>3. RemoveAt(s, i) = before \o rest
  BY Zenon DEF RemoveAt
<1>4. /\ Len(after) = Len(s) - i + 1
      /\ \A k \in 1 .. Len(s) - i + 1 : after[k] = s[i + k - 1]
  BY <1>1, SubSeqProperties, ElementOfSeq
<1>5. /\ rest \in Seq(T) /\ Len(rest) = Len(s) - i
      /\ \A k \in 1 .. Len(s) - i : rest[k] = s[i + k]
  BY <1>1, SubSeqProperties, ElementOfSeq
<1> HIDE DEF before, after, rest
<1>6. after # << >> /\ Head(after) = s[i]
  <2>1. 1 \in 1 .. Len(s) - i + 1 /\ i + 1 - 1 = i
    BY <1>1
  <2>2. after[1] = s[i] /\ Len(after) # 0
    BY <1>1, <1>4, <2>1
  <2>3. after # << >>
    BY <1>2, <2>2, EmptySeq
  <2> QED BY <1>2, <2>2, <2>3, HeadTailProperties
<1>7. Tail(after) = rest
  <2>1. /\ Tail(after) \in Seq(T) /\ Len(Tail(after)) = Len(after) - 1
        /\ \A k \in 1 .. Len(after) - 1 : Tail(after)[k] = after[k + 1]
    BY <1>2, <1>6, HeadTailProperties
  <2>2. Len(Tail(after)) = Len(rest)
    <3>1. (Len(s) - i + 1) - 1 = Len(s) - i
      BY <1>1
    <3>2. Len(after) - 1 = (Len(s) - i + 1) - 1
      BY <1>4
    <3>3. Len(Tail(after)) = Len(after) - 1
      BY <2>1
    <3> QED BY <1>5, <3>1, <3>2, <3>3
  <2>3. ASSUME NEW k \in 1 .. Len(rest) PROVE Tail(after)[k] = rest[k]
    <3>1. /\ k \in 1 .. Len(s) - i /\ k \in 1 .. Len(after) - 1
          /\ k + 1 \in 1 .. Len(s) - i + 1 /\ i + (k + 1) - 1 = i + k
      BY <1>1, <1>4, <1>5
    <3> QED BY <1>4, <1>5, <2>1, <3>1
  <2> QED BY <1>5, <2>1, <2>2, <2>3, SeqEqual
<1>8. Count(after, t) = Count(Tail(after), t) + Count(<< Head(after) >>, t)
  BY <1>2, <1>6, CountTail
<1>9. Count(<< s[i] >>, t) = IF s[i] = t THEN 1 ELSE 0
  BY CountOne
<1>10. Count(before \o rest, t) = Count(before, t) + Count(rest, t)
  BY <1>2, <1>5, CountConcat
<1>11. Count(before, t) \in Nat /\ Count(rest, t) \in Nat
  BY <1>2, <1>5, CountType
<1> DEFINE one == IF s[i] = t THEN 1 ELSE 0
<1>12. Count(after, t) = Count(rest, t) + one
  BY <1>6, <1>7, <1>8, <1>9
<1>13. one \in Nat
  OBVIOUS
<1>14. /\ Count(s, t) = Count(before, t) + Count(after, t)
       /\ Count(RemoveAt(s, i), t) = Count(before, t) + Count(rest, t)
  BY <1>2, <1>3, <1>10
<1> HIDE DEF one
<1>15. Count(s, t) = Count(RemoveAt(s, i), t) + one
  BY <1>11, <1>12, <1>13, <1>14
<1> QED BY <1>15 DEF one

(* Rearranged, no track is there more often than before; and as often, if  *)
(* none was taken away.                                                    *)
LEMMA CountRearranged ==
  ASSUME NEW T, NEW p \in Player(T), NEW q \in Player(T), Rearranged(p, q), NEW t
  PROVE  /\ Count(q.queue, t) <= Count(p.queue, t)
         /\ Len(q.queue) = Len(p.queue) => Count(q.queue, t) = Count(p.queue, t)
<1>1. PICK f \in Injection(DOMAIN q.queue, DOMAIN p.queue) :
        q.queue = [k \in DOMAIN q.queue |-> p.queue[f[k]]]
  BY DEF Rearranged
<1> DEFINE r == q.queue
           s == p.queue
           atR == {i \in DOMAIN r : r[i] = t}
           atS == {i \in DOMAIN s : s[i] = t}
           g == [i \in atR |-> f[i]]
<1>2. /\ r \in Seq(T) /\ s \in Seq(T)
      /\ DOMAIN r = 1 .. Len(r) /\ DOMAIN s = 1 .. Len(s)
      /\ Len(r) \in Nat /\ Len(s) \in Nat
  BY LenProperties DEF Player
<1>3. /\ f \in [DOMAIN r -> DOMAIN s]
      /\ \A a, b \in DOMAIN r : f[a] = f[b] => a = b
      /\ \A k \in DOMAIN r : r[k] = s[f[k]]
  BY <1>1 DEF Injection, IsInjective
<1>4. IsFiniteSet(atR) /\ IsFiniteSet(atS)
  BY <1>2, CountType
<1>5. g \in Injection(atR, atS)
  <2>1. g \in [atR -> atS] /\ \A a, b \in atR : g[a] = g[b] => a = b
    BY <1>3
  <2> HIDE DEF g, atR, atS
  <2> QED BY <2>1 DEF Injection, IsInjective
<1>6. Cardinality(atR) <= Cardinality(atS)
  <2> HIDE DEF g, atR, atS
  <2> QED BY <1>4, <1>5, FS_Injection
<1>7. ASSUME Len(r) = Len(s) PROVE Cardinality(atR) = Cardinality(atS)
  <2>1. f \in Surjection(DOMAIN r, DOMAIN s)
    <3>1. IsFiniteSet(DOMAIN s) /\ DOMAIN r = DOMAIN s
      BY <1>2, <1>7, FS_Interval
    <3>2. f \in Injection(DOMAIN r, DOMAIN s)
      BY <1>1
    <3> QED BY <3>1, <3>2, FS_Injection
  <2>2. \A i \in DOMAIN s : \E k \in DOMAIN r : f[k] = i
    BY <2>1 DEF Surjection
  <2>3. \A i \in atS : \E k \in atR : g[k] = i
    BY <1>3, <2>2
  <2> HIDE DEF g, atR, atS
  <2>4. g \in [atR -> atS]
    BY <1>5 DEF Injection
  <2>5. g \in Surjection(atR, atS)
    BY <2>3, <2>4 DEF Surjection
  <2> QED BY <1>4, <1>5, <2>5, FS_Injection
<1> QED BY <1>6, <1>7 DEF Count
==============================================================================
