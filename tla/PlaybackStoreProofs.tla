------------------------- MODULE PlaybackStoreProofs -------------------------
(***************************************************************************)
(* What PlaybackStore promises for every set of guilds and every bound.    *)
(*                                                                         *)
(* Part 1: the inductive invariant Owned: what a guild holds was issued    *)
(* to it.  The operators of GuildPlayer are closed over any set of tracks, *)
(* here the ids issued for the guild (GuildPlayerProofs).  Part 2: type    *)
(* correctness, the isolation of guilds and the freshness of ids.          *)
(* Part 3: TracksKept, by counting how often a track is in a queue.        *)
(* Part 4: the numbers that QueueViews shows name the tracks of a queue,   *)
(* for which it must not be longer than the bound and one.                 *)
(***************************************************************************)
EXTENDS QueueViews, GuildPlayerProofs

------------------------------------------------------------------------------
(* Part 1: Owned is inductive. *)

(* A step that changes one player within the ids of its guild. *)
LEMMA UpdateKeepsOwned ==
  ASSUME Owned, NEW g \in Guilds, NEW p \in Player(issued[g]), Update(g, p)
  PROVE  Owned'
BY DEF Owned, Update

(* A step that changes one history within the ids of its guild. *)
LEMMA RecordKeepsOwned ==
  ASSUME Owned, NEW g \in Guilds, NEW h \in Seq(issued[g]),
         Len(h) <= HistoryLimit, Record(g, h)
  PROVE  Owned'
BY DEF Owned, Record

(* The counter below its bound yields the next number. *)
LEMMA NextTrackIdFresh ==
  ASSUME nextTrackId \in 0 .. MaxTracks, nextTrackId < MaxTracks
  PROVE  NextTrackId(nextTrackId, IdModulus) = nextTrackId + 1
BY BoundAssumption DEF NextTrackId

(* A new id belongs to the guild that asked for it, and to nobody else. *)
LEMMA EnqueueKeepsOwned ==
  ASSUME Owned, NEW g \in Guilds, EnqueueResolved(g)
  PROVE  Owned'
<1> DEFINE id == nextTrackId + 1
<1>1. nextTrackId' = id /\ id \in 1 .. MaxTracks
  BY NextTrackIdFresh, BoundAssumption DEF EnqueueResolved, Owned
<1>2. issued' = [issued EXCEPT ![g] = @ \union {id}]
  BY <1>1 DEF EnqueueResolved
<1>3. issued' \in [Guilds -> SUBSET (1 .. nextTrackId')]
  BY <1>1, <1>2 DEF Owned
<1>4. \A h \in Guilds : id \notin issued[h]
  BY DEF Owned
<1>5. \A a, b \in Guilds : a # b => issued'[a] \intersect issued'[b] = {}
  BY <1>2, <1>4 DEF Owned
<1>6. \A h \in Guilds : issued[h] \subseteq issued'[h]
  BY <1>2 DEF Owned
<1>7. ASSUME NEW h \in Guilds
      PROVE  /\ players'[h] \in Player(issued'[h])
             /\ histories'[h] \in Seq(issued'[h])
             /\ Len(histories'[h]) <= HistoryLimit
  <2>1. players[h] \in Player(issued'[h]) /\ histories[h] \in Seq(issued'[h])
    BY <1>6, SeqMonotonic DEF Owned, Player
  <2>2. players'[h] \in Player(issued'[h])
    <3>1. CASE h = g
      <4>1. players'[g] = Enqueue(players[g], id)
        BY <1>1 DEF EnqueueResolved, Owned
      <4>2. id \in issued'[g]
        BY <1>2 DEF Owned
      <4> QED BY <2>1, <3>1, <4>1, <4>2, QueueOpsType
    <3>2. CASE h # g
      BY <2>1, <3>2 DEF EnqueueResolved, Owned
    <3> QED BY <3>1, <3>2
  <2> QED BY <2>1, <2>2 DEF EnqueueResolved, Owned
<1> QED
  <2>1. /\ players' = [h \in Guilds |-> players'[h]]
        /\ histories' = [h \in Guilds |-> histories'[h]]
    BY DEF EnqueueResolved, Owned
  <2> QED BY <1>1, <1>3, <1>5, <1>7, <2>1 DEF Owned

(* So do all the ids of a playlist. *)
LEMMA PlaylistKeepsOwned ==
  ASSUME Owned, NEW g \in Guilds, EnqueuePlaylist(g)
  PROVE  Owned'
<1>1. PICK added \in 2 .. MaxQueue :
        /\ nextTrackId + added <= MaxTracks
        /\ nextTrackId' = nextTrackId + added
        /\ players' = [players EXCEPT ![g].queue =
                         @ \o [i \in 1 .. added |-> nextTrackId + i]]
        /\ issued' = [issued EXCEPT ![g] =
                        @ \union (nextTrackId + 1 .. nextTrackId + added)]
        /\ UNCHANGED histories
  BY DEF EnqueuePlaylist
<1> DEFINE ids == [i \in 1 .. added |-> nextTrackId + i]
           new == nextTrackId + 1 .. nextTrackId + added
<1>2. added \in Nat /\ nextTrackId \in Nat /\ nextTrackId' \in 0 .. MaxTracks
  BY <1>1, BoundAssumption DEF Owned
<1>3. issued' \in [Guilds -> SUBSET (1 .. nextTrackId')]
  BY <1>1, <1>2 DEF Owned
<1>4. \A h \in Guilds : new \intersect issued[h] = {}
  BY <1>2 DEF Owned
<1>5. \A a, b \in Guilds : a # b => issued'[a] \intersect issued'[b] = {}
  BY <1>1, <1>4 DEF Owned
<1>6. \A h \in Guilds : issued[h] \subseteq issued'[h]
  BY <1>1 DEF Owned
<1>7. ids \in Seq(issued'[g])
  <2>1. \A i \in 1 .. added : ids[i] \in issued'[g]
    BY <1>1, <1>2 DEF Owned
  <2> QED BY <1>2, <2>1
<1>8. ASSUME NEW h \in Guilds
      PROVE  /\ players'[h] \in Player(issued'[h])
             /\ histories'[h] \in Seq(issued'[h])
             /\ Len(histories'[h]) <= HistoryLimit
  <2>1. players[h] \in Player(issued'[h]) /\ histories[h] \in Seq(issued'[h])
    BY <1>6, SeqMonotonic DEF Owned, Player
  <2>2. players'[h] \in Player(issued'[h])
    <3>1. CASE h = g
      <4>1. players'[g] = [players[g] EXCEPT !.queue = @ \o ids]
        BY <1>1 DEF Owned
      <4>2. players[g].queue \o ids \in Seq(issued'[g])
        BY <1>7, <2>1, <3>1, ConcatProperties DEF Player
      <4> QED BY <2>1, <3>1, <4>1, <4>2 DEF Player
    <3>2. CASE h # g
      BY <1>1, <2>1, <3>2 DEF Owned
    <3> QED BY <3>1, <3>2
  <2> QED BY <1>1, <2>1, <2>2 DEF Owned
<1>9. /\ players' = [h \in Guilds |-> players'[h]]
      /\ histories' = [h \in Guilds |-> histories'[h]]
  BY <1>1 DEF Owned
<1> QED BY <1>2, <1>3, <1>5, <1>8, <1>9 DEF Owned

(* Owned holds in every state: the initial state has it, every critical    *)
(* section of every caller keeps it.                                       *)
THEOREM OwnedCorrect == Spec => []Owned
<1>1. Init => Owned
  BY BoundAssumption, LimitAssumption, EmptySeq
  DEF Init, Owned, DefaultPlayer, Player, LoopModes
<1>2. Owned /\ [Next]_vars => Owned'
  <2> SUFFICES ASSUME Owned, [Next]_vars PROVE Owned'
    OBVIOUS
  <2>1. CASE UNCHANGED vars
    BY <2>1 DEF vars, Owned
  <2>2. ASSUME NEW g \in Guilds, EnqueueResolved(g) \/ EnqueuePlaylist(g) PROVE Owned'
    BY <2>2, EnqueueKeepsOwned, PlaylistKeepsOwned
  <2>3. ASSUME NEW g \in Guilds,
               \/ RemoveOne(g) \/ Move(g) \/ Shuffle(g) \/ SetLoop(g)
               \/ Start(g) \/ Finish(g) \/ Complete(g) \/ Previous(g)
               \/ Clear(g)
        PROVE  Owned'
    <3> DEFINE T == issued[g]
    <3>1. players[g] \in Player(T)
      BY DEF Owned
    <3>2. CASE RemoveOne(g)
      BY <3>1, <3>2, RemoveQueuedType, UpdateKeepsOwned DEF RemoveOne
    <3>3. CASE Move(g)
      BY <3>1, <3>3, MoveQueuedType, UpdateKeepsOwned DEF Move
    <3>4. CASE Shuffle(g)
      BY <3>1, <3>4, ShuffledType, UpdateKeepsOwned DEF Shuffle
    <3>5. CASE SetLoop(g)
      <4>1. \A mode \in LoopModes : SetLoopMode(players[g], mode) \in Player(T)
        BY <3>1 DEF SetLoopMode, Player
      <4> QED BY <3>5, <4>1, UpdateKeepsOwned DEF SetLoop
    <3>6. CASE Start(g)
      <4>1. StartNext(players[g]) \in Player(T)
        BY <3>1, HeadTailProperties DEF StartNext, Player
      <4> QED BY <3>6, <4>1, UpdateKeepsOwned DEF Start
    <3>7. CASE Finish(g)
      BY <3>1, <3>7, QueueOpsType, UpdateKeepsOwned DEF Finish
    <3>8. CASE Complete(g)
      BY <3>1, <3>8, QueueOpsType, UpdateKeepsOwned DEF Complete
    <3>9. CASE Previous(g)
      BY <3>1, <3>9, RewindType, UpdateKeepsOwned DEF Previous
    <3>10. CASE Clear(g)
      <4>1. DefaultPlayer \in Player(T)
        BY EmptySeq DEF DefaultPlayer, Player, LoopModes
      <4> QED BY <3>10, <4>1, UpdateKeepsOwned DEF Clear
    <3> QED BY <2>3, <3>2, <3>3, <3>4, <3>5, <3>6, <3>7, <3>8, <3>9, <3>10
  <2>4. ASSUME NEW g \in Guilds, HistoryPush(g) \/ HistoryPop(g)
        PROVE  Owned'
    <3>1. histories[g] \in Seq(issued[g]) /\ Len(histories[g]) <= HistoryLimit
      BY DEF Owned
    <3>2. CASE HistoryPush(g)
      BY <3>1, <3>2, LimitAssumption, RememberType, RecordKeepsOwned
      DEF HistoryPush
    <3>3. CASE HistoryPop(g)
      <4>1. /\ Forget(histories[g]) \in Seq(issued[g])
            /\ Len(Forget(histories[g])) <= HistoryLimit
        BY <3>1, LimitAssumption, ForgetType
      <4> QED BY <3>3, <4>1, RecordKeepsOwned DEF HistoryPop
    <3> QED BY <2>4, <3>2, <3>3
  <2> QED BY <2>1, <2>2, <2>3, <2>4 DEF Next
<1> QED BY <1>1, <1>2, PTL DEF Spec

------------------------------------------------------------------------------
(* Part 2: what follows from Owned. *)

(* Type correctness: ids never leave the range of the counter. *)
THEOREM TypeCorrect == Spec => []TypeOK
<1>1. Owned => TypeOK
  <2> SUFFICES ASSUME Owned PROVE TypeOK
    OBVIOUS
  <2>1. \A g \in Guilds : issued[g] \subseteq 1 .. MaxTracks
    BY BoundAssumption DEF Owned
  <2>2. \A g \in Guilds : /\ players[g] \in Player(1 .. MaxTracks)
                          /\ histories[g] \in Seq(1 .. MaxTracks)
    BY <2>1, SeqMonotonic DEF Owned, Player
  <2> QED BY <2>1, <2>2 DEF Owned, TypeOK
<1> QED BY <1>1, OwnedCorrect, PTL

(* No guild ever shows another guild's track, in its player or history. *)
THEOREM Isolation == Spec => []GuildsIsolated
<1>1. Owned => GuildsIsolated
  <2>1. ASSUME Owned, NEW g \in Guilds PROVE InUse(g) \subseteq issued[g]
    BY <2>1, ElementOfSeq DEF Owned, InUse, Player, ToSet
  <2> QED BY <2>1 DEF Owned, GuildsIsolated
<1> QED BY <1>1, OwnedCorrect, PTL

(* No history outgrows its limit. *)
THEOREM HistoryBound == Spec => []HistoryBounded
<1>1. Owned => HistoryBounded
  BY DEF Owned, HistoryBounded
<1> QED BY <1>1, OwnedCorrect, PTL

(* An id that is allocated was never allocated before and is shown nowhere. *)
THEOREM Freshness == Spec => FreshTrackIds
<1>1. Owned /\ [Next]_vars => [NewIdsUnused]_vars
  <2> SUFFICES ASSUME Owned, Next PROVE NewIdsUnused
    BY DEF NewIdsUnused
  <2>1. \A h \in Guilds : InUse(h) \subseteq issued[h]
    BY ElementOfSeq DEF Owned, InUse, Player, ToSet
  <2>2. ASSUME NEW g \in Guilds, EnqueueResolved(g)
        PROVE  NewIdsUnused
    <3>1. issued' = [issued EXCEPT ![g] = @ \union {nextTrackId + 1}]
      BY <2>2, NextTrackIdFresh DEF EnqueueResolved, Owned
    <3>2. \A h \in Guilds : nextTrackId + 1 \notin issued[h]
      BY DEF Owned
    <3> QED BY <2>1, <3>1, <3>2 DEF NewIdsUnused, Owned
  <2>3. CASE UNCHANGED issued
    BY <2>3 DEF NewIdsUnused
  <2>4. ASSUME NEW g \in Guilds, EnqueuePlaylist(g)
        PROVE  NewIdsUnused
    <3>1. PICK added \in 2 .. MaxQueue :
            issued' = [issued EXCEPT ![g] =
                        @ \union (nextTrackId + 1 .. nextTrackId + added)]
      BY <2>4 DEF EnqueuePlaylist
    <3>2. \A h \in Guilds :
            (nextTrackId + 1 .. nextTrackId + added) \intersect issued[h] = {}
      BY BoundAssumption DEF Owned
    <3> QED BY <2>1, <3>1, <3>2 DEF NewIdsUnused, Owned
  <2>5. CASE \A g \in Guilds : ~ EnqueueResolved(g) /\ ~ EnqueuePlaylist(g)
    BY <2>3, <2>5 DEF Next, RemoveOne, Move, Shuffle, SetLoop, Start, Finish,
      Complete, Previous, Clear, Update, HistoryPush, HistoryPop, Record
  <2> QED BY <2>2, <2>4, <2>5
<1> QED BY <1>1, OwnedCorrect, PTL DEF Spec, FreshTrackIds

------------------------------------------------------------------------------
(* Part 3: no track is lost or doubled. *)

LEMMA CopiesAre ==
  ASSUME NEW p, NEW t
  PROVE  Copies(p, t) = Count(p.queue, t) + (IF p.now = t THEN 1 ELSE 0)
BY DEF Copies, Count

LEMMA CopiesType ==
  ASSUME NEW T, NEW p \in Player(T), NEW t
  PROVE  Copies(p, t) \in Nat
<1>1. Count(p.queue, t) \in Nat
  BY CountType DEF Player
<1> QED BY <1>1, CopiesAre

LEMMA SizeIs ==
  ASSUME NEW T, NEW p \in Player(T)
  PROVE  /\ Len(p.queue) \in Nat
         /\ p.now = NoTrack => Size(p) = Len(p.queue)
         /\ p.now # NoTrack => Size(p) = Len(p.queue) + 1
<1>1. Len(p.queue) \in Nat
  BY LenProperties DEF Player
<1>2. CASE p.now = NoTrack
  <2>1. Size(p) = Len(p.queue) + 0
    BY <1>2, Zenon DEF Size
  <2> QED BY <1>1, <1>2, <2>1
<1>3. CASE p.now # NoTrack
  <2>1. Size(p) = Len(p.queue) + 1
    BY <1>3, Zenon DEF Size
  <2> QED BY <1>1, <1>3, <2>1
<1> QED BY <1>2, <1>3, <1>1

LEMMA FirstNumbers ==
  ASSUME NEW n \in Nat
  PROVE  IsFiniteSet(1 .. n) /\ Cardinality(1 .. n) = n
BY FS_Interval

(* A queue as long as before that permutes the tracks keeps every one.     *)
LEMMA ShuffleKeeps ==
  ASSUME NEW T, NEW p \in Player(T), NEW q \in Shuffled(p), NEW t
  PROVE  Copies(q, t) = Copies(p, t)
<1>1. q \in Player(T) /\ Rearranged(p, q)
  BY ShuffledType, ShuffledRearranges
<1>2. q.now = p.now
  BY <1>1 DEF Rearranged, Player
<1>3. DOMAIN q.queue = DOMAIN p.queue
  <2>1. PICK f \in Bijection(DOMAIN p.queue, DOMAIN p.queue) :
          q = [p EXCEPT !.queue = [i \in DOMAIN @ |-> @[f[i]]]]
    BY DEF Shuffled
  <2>2. q.queue = [i \in DOMAIN p.queue |-> p.queue[f[i]]]
    BY <2>1 DEF Player
  <2> QED BY <2>2
<1>4. Len(q.queue) = Len(p.queue)
  <2>1. /\ DOMAIN q.queue = 1 .. Len(q.queue) /\ Len(q.queue) \in Nat
        /\ DOMAIN p.queue = 1 .. Len(p.queue) /\ Len(p.queue) \in Nat
    BY <1>1, LenProperties DEF Player
  <2>2. /\ Cardinality(DOMAIN q.queue) = Len(q.queue)
        /\ Cardinality(DOMAIN p.queue) = Len(p.queue)
    BY <2>1, FirstNumbers
  <2> QED BY <1>3, <2>2
<1>5. Count(q.queue, t) = Count(p.queue, t)
  BY <1>1, <1>4, CountRearranged
<1> QED BY <1>2, <1>5, CopiesAre

(* A removal takes the track at its index, if there is one. *)
LEMMA RemoveTakes ==
  ASSUME NEW T, NEW p \in Player(T), NEW i \in Nat, NEW t
  PROVE  /\ Holds(p, i) =>
              Copies(p, t) = Copies(RemoveQueued(p, i), t)
                               + (IF p.queue[i + 1] = t THEN 1 ELSE 0)
         /\ ~ Holds(p, i) => RemoveQueued(p, i) = p
<1> SUFFICES ASSUME Holds(p, i)
             PROVE  Copies(p, t) = Copies(RemoveQueued(p, i), t)
                               + (IF p.queue[i + 1] = t THEN 1 ELSE 0)
  BY DEF RemoveQueued
<1> DEFINE s == p.queue
           n == i + 1
           r == RemoveAt(s, n)
           one == IF s[n] = t THEN 1 ELSE 0
           current == IF p.now = t THEN 1 ELSE 0
<1>1. s \in Seq(T) /\ Len(s) \in Nat /\ n \in 1 .. Len(s)
  BY LenProperties DEF Player, Holds
<1>2. RemoveQueued(p, i).queue = r /\ RemoveQueued(p, i).now = p.now
  BY DEF RemoveQueued, Player
<1>3. Count(s, t) = Count(r, t) + one
  BY <1>1, CountRemove
<1>4. Copies(p, t) = Count(s, t) + current
  BY CopiesAre
<1>5. Copies(RemoveQueued(p, i), t) = Count(r, t) + current
  BY <1>2, CopiesAre, Zenon
<1>6. Count(r, t) \in Nat
  BY <1>1, RemoveAtType, CountType
<1>7. one \in Nat /\ current \in Nat
  OBVIOUS
<1> HIDE DEF s, r, one, current
<1>8. Copies(p, t) = Copies(RemoveQueued(p, i), t) + one
  BY <1>3, <1>4, <1>5, <1>6, <1>7
<1> QED BY <1>8 DEF one, s

(* A move takes a track out and puts the same one in. *)
LEMMA MoveKeeps ==
  ASSUME NEW T, NEW p \in Player(T), NEW from \in Nat, NEW to \in Nat, NEW t
  PROVE  Copies(MoveQueued(p, from, to), t) = Copies(p, t)
<1>1. CASE Holds(p, from) /\ Holds(p, to) /\ from # to
  <2> DEFINE s == p.queue
             n == from + 1
             r == RemoveAt(s, n)
             e == s[n]
             m == to + 1
             moved == InsertAt(r, m, e)
  <2>1. /\ s \in Seq(T) /\ Len(s) \in Nat
        /\ n \in 1 .. Len(s) /\ m \in 1 .. Len(s)
    BY <1>1, LenProperties DEF Player, Holds
  <2>2. e \in T /\ r \in Seq(T) /\ Len(r) = Len(s) - 1
    BY <2>1, ElementOfSeq, RemoveAtType
  <2>3. m \in 1 .. Len(r) + 1
    BY <2>1, <2>2
  <2>4. MoveQueued(p, from, to).queue = moved
        /\ MoveQueued(p, from, to).now = p.now
    BY <1>1 DEF MoveQueued, Player
  <2>5. Count(s, t) = Count(r, t) + (IF e = t THEN 1 ELSE 0)
    BY <2>1, CountRemove
  <2> HIDE DEF r, e
  <2>6. Count(moved, t) = Count(r, t) + (IF e = t THEN 1 ELSE 0)
    BY <2>2, <2>3, CountInsert
  <2> HIDE DEF moved
  <2>7. Count(moved, t) = Count(s, t)
    BY <2>5, <2>6
  <2> QED BY <2>4, <2>7, CopiesAre, Zenon
<1>2. CASE ~ (Holds(p, from) /\ Holds(p, to) /\ from # to)
  BY <1>2 DEF MoveQueued
<1> QED BY <1>1, <1>2

(* The next track moves from the front of the queue to the current one. *)
LEMMA StartKeeps ==
  ASSUME NEW T, NoTrack \notin T, NEW p \in Player(T), NEW t \in T
  PROVE  Copies(StartNext(p), t) = Copies(p, t)
<1>1. CASE p.now = NoTrack /\ p.queue # << >>
  <2> DEFINE first == Head(p.queue)
             rest == Tail(p.queue)
  <2>1. StartNext(p) = [p EXCEPT !.now = first, !.queue = rest]
    BY <1>1 DEF StartNext
  <2>2. first \in T /\ rest \in Seq(T) /\ p.queue \in Seq(T)
    BY <1>1, HeadTailProperties DEF Player
  <2>3. Count(p.queue, t) = Count(rest, t) + Count(<< first >>, t)
    BY <1>1, <2>2, CountTail
  <2> HIDE DEF first, rest
  <2>4. StartNext(p).now = first /\ StartNext(p).queue = rest
    BY <2>1 DEF Player
  <2>5. Count(<< first >>, t) = IF first = t THEN 1 ELSE 0
    BY CountOne
  <2>6. p.now # t
    BY <1>1
  <2>7. Count(rest, t) \in Nat /\ Count(p.queue, t) \in Nat
    BY <2>2, CountType
  <2> QED BY <2>3, <2>4, <2>5, <2>6, <2>7, CopiesAre
<1>2. CASE ~ (p.now = NoTrack /\ p.queue # << >>)
  BY <1>2 DEF StartNext
<1> QED BY <1>1, <1>2

(* The ids that the store may issue. *)
Issuable == 1 .. MaxTracks

LEMMA NoneIssuable == NoTrack \notin Issuable
BY BoundAssumption DEF NoTrack, Issuable

(* The end of a track takes that track. *)
LEMMA FinishTakes ==
  ASSUME NEW p \in Player(Issuable), NEW id \in Issuable, NEW t \in Issuable
  PROVE  Copies(p, t) = Copies(FinishCurrent(p, id), t)
           + (IF t \in {id} \intersect {p.now} THEN 1 ELSE 0)
<1> DEFINE q == FinishCurrent(p, id)
           n == Count(p.queue, t)
<1>1. n \in Nat
  BY CountType, NoneIssuable DEF Player
<1>2. q.queue = p.queue /\ q.now = IF p.now = id THEN NoTrack ELSE p.now
  BY DEF FinishCurrent, Player
<1> HIDE DEF q, n
<1>3. Copies(p, t) = n + (IF p.now = t THEN 1 ELSE 0)
  BY CopiesAre DEF n
<1>4. Copies(q, t) = n + (IF q.now = t THEN 1 ELSE 0)
  BY <1>2, CopiesAre, Zenon DEF n
<1>5. CASE p.now = id
  <2>1. Copies(q, t) = n
    BY <1>1, <1>2, <1>4, <1>5, NoneIssuable
  <2>2. t \in {id} \intersect {p.now} <=> p.now = t
    BY <1>5
  <2> QED BY <1>1, <1>3, <2>1, <2>2 DEF q
<1>6. CASE p.now # id
  <2>1. Copies(q, t) = Copies(p, t)
    BY <1>2, <1>3, <1>4, <1>6
  <2>2. t \notin {id} \intersect {p.now}
    BY <1>6
  <2>3. Copies(p, t) \in Nat
    BY <1>1, <1>3
  <2> QED BY <2>1, <2>2, <2>3 DEF q
<1> QED BY <1>5, <1>6

(* Completed in a loop mode the track moves from the current one back into *)
(* the queue; without one it is gone.                                      *)
LEMMA CompleteTakes ==
  ASSUME NEW p \in Player(Issuable), NEW id \in Issuable, NEW t \in Issuable
  PROVE  /\ p.loop = "Off" =>
              Copies(p, t) = Copies(CompleteCurrent(p, id), t)
                + (IF t \in {id} \intersect {p.now} THEN 1 ELSE 0)
         /\ p.loop # "Off" => Copies(CompleteCurrent(p, id), t) = Copies(p, t)
<1>1. CASE p.now = id
  <2> DEFINE q == CompleteCurrent(p, id)
             r == Requeued(p)
             e == p.now
             s == p.queue
             one == IF e = t THEN 1 ELSE 0
  <2>1. e \in Issuable /\ s \in Seq(Issuable) /\ p.loop \in LoopModes /\ id # NoTrack
    BY <1>1, NoneIssuable DEF Player
  <2>2. q.now = NoTrack /\ q.queue = r
    BY <1>1, <2>1 DEF CompleteCurrent, Player
  <2>3. /\ p.loop = "Off" => r = s
        /\ p.loop # "Off" => r = << e >> \o s \/ r = Append(s, e)
    BY <2>1 DEF Requeued, LoopModes
  <2>4. Copies(p, t) = Count(s, t) + one
    BY CopiesAre
  <2> HIDE DEF q, r, e, s
  <2>5. Count(s, t) \in Nat /\ one \in Nat
    BY <2>1, CountType
  <2>6. /\ Count(<< e >> \o s, t) = Count(s, t) + Count(<< e >>, t)
        /\ Count(Append(s, e), t) = Count(s, t) + Count(<< e >>, t)
        /\ Count(<< e >>, t) = one
    BY <2>1, CountPut
  <2> HIDE DEF one
  <2>7. Count(r, t) = IF p.loop = "Off" THEN Count(s, t) ELSE Count(s, t) + one
    BY <2>3, <2>6
  <2>8. Copies(q, t) = Count(r, t)
    <3>1. Copies(q, t) = Count(r, t) + (IF q.now = t THEN 1 ELSE 0)
      BY <2>2, CopiesAre, Zenon
    <3>2. q.now # t /\ Count(r, t) \in Nat
      BY <2>2, <2>5, <2>7, NoneIssuable
    <3> QED BY <3>1, <3>2
  <2>9. t \in {id} \intersect {p.now} <=> e = t
    BY <1>1 DEF e
  <2> QED BY <2>4, <2>5, <2>7, <2>8, <2>9 DEF q, one
<1>2. CASE p.now # id
  <2>1. CompleteCurrent(p, id) = p /\ t \notin {id} \intersect {p.now}
    BY <1>2 DEF CompleteCurrent
  <2>2. Copies(p, t) \in Nat
    <3>1. Count(p.queue, t) \in Nat
      BY CountType, NoneIssuable DEF Player
    <3> QED BY <3>1, CopiesAre
  <2> QED BY <2>1, <2>2
<1> QED BY <1>1, <1>2

(* What is put in front of a queue is there once more, *)
LEMMA EnqueueFirstAdds ==
  ASSUME NEW T, NEW p \in Player(T), NEW e \in T, NEW t \in T
  PROVE  /\ EnqueueFirst(p, e) \in Player(T)
         /\ Copies(EnqueueFirst(p, e), t) = Copies(p, t) + (IF t = e THEN 1 ELSE 0)
<1> DEFINE s == p.queue
           r == << e >> \o s
           q == EnqueueFirst(p, e)
           one == IF t = e THEN 1 ELSE 0
           current == IF p.now = t THEN 1 ELSE 0
<1>1. s \in Seq(T) /\ r \in Seq(T)
  BY ConcatProperties DEF Player
<1>2. q = [p EXCEPT !.queue = r]
  BY EnqueueFirstIs
<1>3. q \in Player(T) /\ q.queue = r /\ q.now = p.now
  BY <1>1, <1>2 DEF Player
<1>4. Copies(p, t) = Count(s, t) + current
  BY CopiesAre
<1> HIDE DEF q
<1>5. Copies(q, t) = Count(r, t) + current
  BY <1>3, CopiesAre, Zenon
<1> HIDE DEF s
<1>6. Count(r, t) = Count(s, t) + Count(<< e >>, t) /\ Count(<< e >>, t) = one
  BY <1>1, CountPut
<1>7. Count(s, t) \in Nat /\ one \in Nat /\ current \in Nat
  BY <1>1, CountType
<1> HIDE DEF r, one, current
<1>8. Copies(q, t) = Copies(p, t) + one
  BY <1>4, <1>5, <1>6, <1>7
<1> QED BY <1>3, <1>8 DEF q, one

(* and so is what is put at its back. *)
LEMMA EnqueueAdds ==
  ASSUME NEW T, NEW p \in Player(T), NEW e \in T, NEW t \in T
  PROVE  Copies(Enqueue(p, e), t) = Copies(p, t) + (IF t = e THEN 1 ELSE 0)
<1> DEFINE s == p.queue
           r == Append(s, e)
           q == Enqueue(p, e)
           one == IF t = e THEN 1 ELSE 0
           current == IF p.now = t THEN 1 ELSE 0
<1>1. s \in Seq(T)
  BY DEF Player
<1>2. q.queue = r /\ q.now = p.now
  BY DEF Enqueue, Player
<1>3. Copies(p, t) = Count(s, t) + current
  BY CopiesAre
<1> HIDE DEF q
<1>4. Copies(q, t) = Count(r, t) + current
  BY <1>2, CopiesAre, Zenon
<1> HIDE DEF s
<1>5. Count(r, t) = Count(s, t) + Count(<< e >>, t) /\ Count(<< e >>, t) = one
  BY <1>1, CountPut
<1>6. Count(s, t) \in Nat /\ one \in Nat /\ current \in Nat
  BY <1>1, CountType
<1> HIDE DEF r, one, current
<1>7. Copies(q, t) = Copies(p, t) + one
  BY <1>3, <1>4, <1>5, <1>6
<1> QED BY <1>7 DEF q, one

(* What adds or takes tracks changes their number. *)
LEMMA SizesOf ==
  ASSUME NEW T, NoTrack \notin T, NEW p \in Player(T)
  PROVE  /\ Size(p) \in Nat
         /\ \A t \in T : Size(Enqueue(p, t)) = Size(p) + 1
         /\ \A id : FinishCurrent(p, id) = p \/ Size(FinishCurrent(p, id)) = Size(p) - 1
         /\ \A current \in T \union {NoTrack}, previous \in T :
              Size(Rewind(p, current, previous)) = Size(p) + 1
<1>1. Len(p.queue) \in Nat /\ p.queue \in Seq(T)
  BY LenProperties DEF Player
<1>2. ASSUME NEW q \in Player(T), NEW t \in T
      PROVE  /\ Size(EnqueueFirst(q, t)) = Size(q) + 1
             /\ EnqueueFirst(q, t).now = q.now
             /\ EnqueueFirst(q, t) \in Player(T)
  <2>1. q.queue \in Seq(T) /\ << t >> \in Seq(T) /\ Len(<< t >>) = 1
        /\ Len(q.queue) \in Nat
    BY LenProperties DEF Player
  <2> DEFINE r == << t >> \o q.queue
  <2>2. r \in Seq(T) /\ Len(r) = 1 + Len(q.queue)
    BY <2>1, ConcatProperties
  <2>3. EnqueueFirst(q, t) = [q EXCEPT !.queue = r]
    BY EnqueueFirstIs
  <2> HIDE DEF r
  <2>4. /\ EnqueueFirst(q, t).queue = r
        /\ EnqueueFirst(q, t).now = q.now
        /\ EnqueueFirst(q, t) \in Player(T)
    BY <2>2, <2>3 DEF Player
  <2> QED BY <2>1, <2>2, <2>4, SizeIs
<1>3. ASSUME NEW t \in T PROVE Size(Enqueue(p, t)) = Size(p) + 1
  <2>1. Enqueue(p, t).now = p.now /\ Enqueue(p, t).queue = Append(p.queue, t)
    BY DEF Enqueue, Player
  <2>2. Len(Append(p.queue, t)) = Len(p.queue) + 1
    BY <1>1, AppendProperties
  <2>3. Enqueue(p, t) \in Player(T)
    BY QueueOpsType
  <2> QED BY <2>1, <2>2, <2>3, SizeIs
<1>4. ASSUME NEW id
      PROVE  \/ FinishCurrent(p, id) = p
             \/ Size(FinishCurrent(p, id)) = Size(p) - 1
  <2>1. CASE p.now = id /\ p.now # NoTrack
    <3>1. FinishCurrent(p, id).now = NoTrack /\ FinishCurrent(p, id).queue = p.queue
      BY <2>1 DEF FinishCurrent, Player
    <3>2. FinishCurrent(p, id) \in Player(T)
      BY <2>1, <3>1 DEF FinishCurrent, Player
    <3> QED BY <2>1, <3>1, <3>2, SizeIs
  <2>2. CASE p.now = id /\ p.now = NoTrack
    <3>1. FinishCurrent(p, id) = [p EXCEPT !.now = NoTrack]
      BY <2>2 DEF FinishCurrent
    <3> QED BY <2>2, <3>1 DEF Player
  <2>3. CASE p.now # id
    BY <2>3 DEF FinishCurrent
  <2> QED BY <2>1, <2>2, <2>3
<1>5. ASSUME NEW current \in T \union {NoTrack}, NEW previous \in T
      PROVE  Size(Rewind(p, current, previous)) = Size(p) + 1
  <2> DEFINE q == FinishCurrent(p, current)
  <2>1. CASE current # NoTrack /\ p.now = current
    <3>1. current \in T /\ q \in Player(T)
      BY <2>1, QueueOpsType
    <3>2. Size(q) = Size(p) - 1
      <4>1. q.now = NoTrack /\ q.queue = p.queue
        BY <2>1 DEF FinishCurrent, Player
      <4> HIDE DEF q
      <4> QED BY <2>1, <3>1, <4>1, SizeIs
    <3>3. Rewind(p, current, previous) = EnqueueFirst(EnqueueFirst(q, current), previous)
      BY <2>1 DEF Rewind
    <3> HIDE DEF q
    <3>4. /\ Size(EnqueueFirst(q, current)) = Size(q) + 1
          /\ EnqueueFirst(q, current) \in Player(T)
      BY <1>2, <3>1
    <3>5. Size(EnqueueFirst(EnqueueFirst(q, current), previous)) = Size(q) + 1 + 1
      BY <1>2, <3>4
    <3>6. Size(p) \in Int
      BY SizeIs
    <3> QED BY <3>2, <3>3, <3>5, <3>6
  <2>2. CASE ~ (current # NoTrack /\ p.now = current)
    BY <1>2, <2>2 DEF Rewind
  <2> QED BY <2>1, <2>2
<1>6. Size(p) \in Nat
  BY SizeIs
<1> QED BY <1>3, <1>4, <1>5, <1>6

(* /previous adds the previous track; the one it interrupts goes back into *)
(* the queue.                                                              *)
LEMMA RewindAdds ==
  ASSUME NEW p \in Player(Issuable), NEW current \in Issuable \union {NoTrack},
         NEW previous \in Issuable, NEW t \in Issuable
  PROVE  Copies(Rewind(p, current, previous), t)
           = Copies(p, t) + (IF t = previous THEN 1 ELSE 0)
<1>1. CASE current # NoTrack /\ p.now = current
  <2> DEFINE q == FinishCurrent(p, current)
             r == EnqueueFirst(q, current)
             one == IF t = current THEN 1 ELSE 0
  <2>1. current \in Issuable /\ q \in Player(Issuable)
    BY <1>1, QueueOpsType
  <2>2. Copies(p, t) = Copies(q, t) + one
    <3>1. t \in {current} \intersect {p.now} <=> t = current
      BY <1>1
    <3>2. Copies(p, t) = Copies(q, t)
            + (IF t \in {current} \intersect {p.now} THEN 1 ELSE 0)
      BY <2>1, FinishTakes
    <3> QED BY <3>1, <3>2
  <2> HIDE DEF q
  <2>3. r \in Player(Issuable) /\ Copies(r, t) = Copies(q, t) + one
    BY <2>1, EnqueueFirstAdds
  <2>4. Rewind(p, current, previous) = EnqueueFirst(r, previous)
    BY <1>1 DEF Rewind, q
  <2> HIDE DEF r, one
  <2>5. Copies(EnqueueFirst(r, previous), t)
          = Copies(r, t) + (IF t = previous THEN 1 ELSE 0)
    BY <2>3, EnqueueFirstAdds
  <2> QED BY <2>2, <2>3, <2>4, <2>5
<1>2. CASE ~ (current # NoTrack /\ p.now = current)
  <2>1. Rewind(p, current, previous) = EnqueueFirst(p, previous)
    BY <1>2 DEF Rewind
  <2> QED BY <2>1, EnqueueFirstAdds
<1> QED BY <1>1, <1>2

(* Consecutive ids: each is there once. *)
LEMMA CountIds ==
  ASSUME NEW n \in Nat, NEW added \in Nat, NEW t \in Nat
  PROVE  Count([i \in 1 .. added |-> n + i], t)
           = IF t \in n + 1 .. n + added THEN 1 ELSE 0
<1> DEFINE ids == [i \in 1 .. added |-> n + i]
           at == {i \in DOMAIN ids : ids[i] = t}
<1>1. CASE t \in n + 1 .. n + added
  <2>1. at = {t - n}
    BY <1>1
  <2> HIDE DEF at
  <2>2. Cardinality(at) = 1
    BY <2>1, FS_Singleton
  <2> QED BY <1>1, <2>2 DEF Count, at
<1>2. CASE t \notin n + 1 .. n + added
  <2>1. at = {}
    BY <1>2
  <2> HIDE DEF at
  <2>2. Cardinality(at) = 0
    BY <2>1, FS_EmptySet
  <2> QED BY <1>2, <2>2 DEF Count, at
<1> QED BY <1>1, <1>2

LEMMA MoreTracks ==
  ASSUME NEW S, NEW T, S \subseteq T, NEW p \in Player(S)
  PROVE  p \in Player(T)
<1>1. p.queue \in Seq(T)
  BY SeqMonotonic DEF Player
<1> QED BY <1>1 DEF Player

LEMMA OwnedPlayer ==
  ASSUME Owned, NEW g \in Guilds
  PROVE  /\ players[g] \in Player(1 .. MaxTracks)
         /\ NoTrack \notin 1 .. MaxTracks
         /\ issued[g] \subseteq 1 .. MaxTracks
<1>1. issued[g] \subseteq 1 .. MaxTracks
  BY BoundAssumption DEF Owned
<1>2. players[g] \in Player(issued[g])
  BY DEF Owned
<1>3. players[g] \in Player(1 .. MaxTracks)
  BY <1>1, <1>2, MoreTracks
<1> QED BY <1>1, <1>3 DEF NoTrack

(* What is enqueued is there once more, and nothing else. *)
LEMMA EnqueuesAdd ==
  ASSUME Owned, NEW g \in Guilds, EnqueueResolved(g) \/ EnqueuePlaylist(g)
  PROVE  Gained(g, nextTrackId + 1 .. nextTrackId')
<1> DEFINE T == 1 .. MaxTracks
           p == players[g]
<1>1. p \in Player(T) /\ NoTrack \notin T /\ nextTrackId \in Nat
  BY OwnedPlayer, BoundAssumption DEF Owned
<1>2. CASE EnqueueResolved(g)
  <2> DEFINE e == nextTrackId + 1
  <2>1. /\ players' = [players EXCEPT ![g] = Enqueue(@, e)]
        /\ e \in T /\ nextTrackId' = e
    BY <1>2, NextTrackIdFresh, BoundAssumption DEF EnqueueResolved, Owned
  <2>2. players'[g] = Enqueue(p, e)
    BY <2>1 DEF Owned
  <2>3. ASSUME NEW t \in T
        PROVE  t \in nextTrackId + 1 .. nextTrackId' <=> t = e
    BY <1>1, <2>1, <2>3
  <2>4. e \in T
    BY <2>1
  <2> HIDE DEF p, e, T
  <2>5. ASSUME NEW t \in T
        PROVE  Copies(Enqueue(p, e), t) = Copies(p, t) + (IF t = e THEN 1 ELSE 0)
    BY <1>1, <2>4, EnqueueAdds
  <2> QED BY <2>2, <2>3, <2>5 DEF Gained, p, T
<1>3. CASE EnqueuePlaylist(g)
  <2>1. PICK added \in 2 .. MaxQueue :
          /\ nextTrackId + added <= MaxTracks
          /\ nextTrackId' = nextTrackId + added
          /\ players' = [players EXCEPT ![g].queue =
                           @ \o [i \in 1 .. added |-> nextTrackId + i]]
    BY <1>3 DEF EnqueuePlaylist
  <2> DEFINE ids == [i \in 1 .. added |-> nextTrackId + i]
             s == p.queue
             r == s \o ids
             q == [p EXCEPT !.queue = r]
  <2>2. added \in Nat
    BY <2>1, BoundAssumption
  <2>3. ids \in Seq(T) /\ s \in Seq(T)
    <3>1. s \in Seq(T)
      BY <1>1 DEF Player
    <3>2. \A i \in 1 .. added : nextTrackId + i \in T
      BY <1>1, <2>1, <2>2, BoundAssumption
    <3>3. ids \in [1 .. added -> T]
      BY <3>2
    <3> QED BY <2>2, <3>1, <3>3
  <2>4. players'[g] = q
    BY <2>1 DEF Owned
  <2>5. q.queue = r /\ q.now = p.now
    BY <1>1 DEF Player
  <2> SUFFICES ASSUME NEW t \in T
               PROVE  Copies(q, t) = Copies(p, t)
                 + (IF t \in nextTrackId + 1 .. nextTrackId' THEN 1 ELSE 0)
    BY <2>4 DEF Gained
  <2> DEFINE one == IF t \in nextTrackId + 1 .. nextTrackId + added THEN 1 ELSE 0
             current == IF p.now = t THEN 1 ELSE 0
  <2>6. Count(ids, t) = one
    <3>1. t \in Nat
      BY BoundAssumption
    <3> QED BY <1>1, <2>2, <3>1, CountIds
  <2>7. Copies(p, t) = Count(s, t) + current
    BY CopiesAre
  <2> HIDE DEF q, ids
  <2>8. Copies(q, t) = Count(r, t) + current
    BY <2>5, CopiesAre, Zenon
  <2> HIDE DEF s
  <2>9. Count(r, t) = Count(s, t) + Count(ids, t)
    BY <2>3, CountConcat
  <2>10. Count(s, t) \in Nat /\ one \in Nat /\ current \in Nat
    BY <2>3, CountType
  <2> HIDE DEF r, current, one
  <2>11. Copies(q, t) = Copies(p, t) + one
    BY <2>6, <2>7, <2>8, <2>9, <2>10
  <2> QED BY <2>1, <2>11 DEF one
<1> QED BY <1>2, <1>3

(* Each operation does to the tracks what it is there for. *)
LEMMA Accounted ==
  ASSUME Owned, Next, NEW g \in Guilds
  PROVE  TracksAccounted(g)
<1> DEFINE T == Issuable
           p == players[g]
<1>1. /\ T = Issuable /\ T = 1 .. MaxTracks /\ p \in Player(T) /\ NoTrack \notin T
      /\ issued[g] \subseteq T /\ MaxQueue \in Nat
  BY OwnedPlayer, BoundAssumption DEF Issuable
<1>2. \A q : Update(g, q) => players'[g] = q
  BY DEF Update, Owned
<1>3. ASSUME NEW h \in Guilds, NEW q, Update(h, q), h # g PROVE players'[g] = p
  BY <1>3 DEF Update, Owned
<1>4. ASSUME players'[g] = p PROVE Kept(g)
  BY <1>4 DEF Kept
<1> HIDE DEF T, p
<1>5. ASSUME NEW q, Update(g, q), \A t \in T : Copies(q, t) = Copies(p, t)
      PROVE  Kept(g)
  BY <1>1, <1>2, <1>5 DEF Kept, p
<1>6. Move(g) \/ Shuffle(g) \/ Start(g) \/ SetLoop(g) => Kept(g)
  <2>1. ASSUME Move(g) PROVE Kept(g)
    <3>1. PICK from \in 0 .. MaxQueue, to \in 0 .. MaxQueue :
            Update(g, MoveQueued(p, from, to))
      BY <2>1 DEF Move, p
    <3>2. from \in Nat /\ to \in Nat
      BY <1>1, <3>1
    <3>3. \A t \in T : Copies(MoveQueued(p, from, to), t) = Copies(p, t)
      BY <1>1, <3>2, MoveKeeps
    <3> QED BY <1>5, <3>1, <3>3
  <2>2. ASSUME Shuffle(g) PROVE Kept(g)
    <3>1. PICK q \in Shuffled(p) : Update(g, q)
      BY <2>2 DEF Shuffle, p
    <3>2. \A t \in T : Copies(q, t) = Copies(p, t)
      BY <1>1, <3>1, ShuffleKeeps
    <3> QED BY <1>5, <3>1, <3>2
  <2>3. ASSUME Start(g) PROVE Kept(g)
    <3>1. Update(g, StartNext(p))
      BY <2>3 DEF Start, p
    <3>2. \A t \in T : Copies(StartNext(p), t) = Copies(p, t)
      BY <1>1, StartKeeps
    <3> QED BY <1>5, <3>1, <3>2
  <2>4. ASSUME SetLoop(g) PROVE Kept(g)
    <3>1. PICK mode \in LoopModes : Update(g, SetLoopMode(p, mode))
      BY <2>4 DEF SetLoop, p
    <3>2. /\ SetLoopMode(p, mode).now = p.now
          /\ SetLoopMode(p, mode).queue = p.queue
      BY <1>1 DEF SetLoopMode, Player
    <3>3. \A t \in T : Copies(SetLoopMode(p, mode), t) = Copies(p, t)
      BY <3>2, CopiesAre, Zenon
    <3> QED BY <1>5, <3>1, <3>3
  <2> QED BY <2>1, <2>2, <2>3, <2>4
<1>7. ASSUME NEW i \in 0 .. MaxQueue, Update(g, RemoveQueued(p, i))
      PROVE  Lost(g, IF Holds(p, i) THEN {p.queue[i + 1]} ELSE {})
  <2>1. i \in Nat /\ players'[g] = RemoveQueued(p, i)
    BY <1>1, <1>2, <1>7
  <2>2. CASE Holds(p, i)
    <3> DEFINE e == p.queue[i + 1]
    <3>1. \A t \in T : Copies(p, t) = Copies(RemoveQueued(p, i), t)
                                        + (IF e = t THEN 1 ELSE 0)
      BY <1>1, <2>1, <2>2, RemoveTakes
    <3> HIDE DEF e
    <3>2. \A t \in T : t \in {e} <=> e = t
      OBVIOUS
    <3>3. Lost(g, {e})
      BY <1>1, <2>1, <3>1, <3>2 DEF Lost, p
    <3> QED BY <2>2, <3>3 DEF e
  <2>3. CASE ~ Holds(p, i)
    <3>1. players'[g] = p
      BY <2>1, <2>3 DEF RemoveQueued
    <3>2. \A t \in T : Copies(p, t) \in Nat
      BY <1>1, CopiesType
    <3>3. Lost(g, {})
      BY <1>1, <3>1, <3>2 DEF Lost, p
    <3> QED BY <2>3, <3>3
  <2> QED BY <2>2, <2>3
<1>8. EnqueueResolved(g) \/ EnqueuePlaylist(g)
        => Gained(g, nextTrackId + 1 .. nextTrackId')
  BY EnqueuesAdd
<1>9. ASSUME NEW id \in issued[g], Update(g, FinishCurrent(p, id))
      PROVE  Lost(g, {id} \intersect {p.now})
  <2>1. ASSUME NEW x \in T, NEW t \in T
        PROVE  Copies(p, t) = Copies(FinishCurrent(p, x), t)
                 + (IF t \in {x} \intersect {p.now} THEN 1 ELSE 0)
    BY <1>1, FinishTakes DEF T
  <2>2. id \in T /\ players'[g] = FinishCurrent(p, id)
    BY <1>1, <1>2, <1>9
  <2> QED BY <1>1, <2>1, <2>2 DEF Lost, p
<1>10. ASSUME NEW id \in issued[g], Update(g, CompleteCurrent(p, id))
       PROVE  IF p.loop = "Off" THEN Lost(g, {id} \intersect {p.now}) ELSE Kept(g)
  <2>1. ASSUME NEW x \in T, NEW t \in T
        PROVE  /\ p.loop = "Off" =>
                    Copies(p, t) = Copies(CompleteCurrent(p, x), t)
                      + (IF t \in {x} \intersect {p.now} THEN 1 ELSE 0)
               /\ p.loop # "Off" => Copies(CompleteCurrent(p, x), t) = Copies(p, t)
    BY <1>1, CompleteTakes DEF T
  <2>2. id \in T /\ players'[g] = CompleteCurrent(p, id)
    BY <1>1, <1>2, <1>10
  <2>3. CASE p.loop = "Off"
    BY <1>1, <2>1, <2>2, <2>3 DEF Lost, p
  <2>4. CASE p.loop # "Off"
    <3>1. \A t \in T : Copies(CompleteCurrent(p, id), t) = Copies(p, t)
      BY <2>1, <2>2, <2>4
    <3> QED BY <1>5, <1>10, <2>4, <3>1
  <2> QED BY <2>3, <2>4
<1>11. ASSUME NEW previous \in issued[g], NEW current \in issued[g] \union {NoTrack},
              Update(g, Rewind(p, current, previous))
       PROVE  Gained(g, {previous})
  <2>1. PICK x \in Issuable : x = previous
    BY <1>1
  <2>2. PICK c \in Issuable \union {NoTrack} : c = current
    BY <1>1
  <2>3. p \in Player(Issuable)
    BY <1>1
  <2>4. ASSUME NEW t \in Issuable
        PROVE  Copies(Rewind(p, c, x), t) = Copies(p, t) + (IF t = x THEN 1 ELSE 0)
    BY <2>3, RewindAdds
  <2>5. players'[g] = Rewind(p, c, x)
    BY <1>2, <1>11, <2>1, <2>2
  <2>6. \A t \in T : t \in {x} <=> t = x
    OBVIOUS
  <2>7. Gained(g, {x})
    BY <1>1, <2>4, <2>5, <2>6 DEF Gained, p
  <2> QED BY <2>1, <2>7
<1>12. ASSUME Clear(g) PROVE \A t \in T : Copies(players'[g], t) = 0
  <2>1. players'[g] = DefaultPlayer
    BY <1>2, <1>12 DEF Clear
  <2>2. ASSUME NEW t \in T PROVE Copies(DefaultPlayer, t) = 0
    <3>1. DefaultPlayer.now # t /\ DefaultPlayer.queue = << >>
      BY <1>1 DEF DefaultPlayer
    <3>2. Count(<< >>, t) = 0
      <4>1. {i \in DOMAIN << >> : << >>[i] = t} = {}
        OBVIOUS
      <4> QED BY <4>1, FS_EmptySet DEF Count
    <3>3. Copies(DefaultPlayer, t) = Count(<< >>, t) + 0
      BY <3>1, CopiesAre, Zenon
    <3> QED BY <3>2, <3>3
  <2> QED BY <2>1, <2>2
<1>13. HistoryPush(g) \/ HistoryPop(g) => Kept(g)
  BY <1>4 DEF HistoryPush, HistoryPop, Record, p
<1>14. ASSUME NEW h \in Guilds \ {g}, players'[h] # players[h] PROVE Kept(g)
  <2>1. ASSUME NEW k \in Guilds, EnqueueResolved(k) \/ EnqueuePlaylist(k)
        PROVE  \A j \in Guilds \ {k} : players'[j] = players[j]
    BY <2>1 DEF EnqueueResolved, EnqueuePlaylist, Owned
  <2>2. ASSUME NEW k \in Guilds, NEW q, Update(k, q)
        PROVE  \A j \in Guilds \ {k} : players'[j] = players[j]
    BY <2>2 DEF Update, Owned
  <2>3. ASSUME NEW k \in Guilds,
               \/ RemoveOne(k) \/ Move(k) \/ Shuffle(k) \/ SetLoop(k)
               \/ Start(k) \/ Finish(k) \/ Complete(k) \/ Previous(k)
               \/ Clear(k)
        PROVE  \E q : Update(k, q)
    BY <2>3 DEF RemoveOne, Move, Shuffle, SetLoop, Start, Finish, Complete,
                Previous, Clear
  <2>4. ASSUME NEW k \in Guilds, HistoryPush(k) \/ HistoryPop(k)
        PROVE  players' = players
    BY <2>4 DEF HistoryPush, HistoryPop, Record
  <2>5. \E k \in Guilds : \A j \in Guilds \ {k} : players'[j] = players[j]
    BY <2>1, <2>2, <2>3, <2>4 DEF Next
  <2>6. players'[g] = p
    BY <1>14, <2>5 DEF p
  <2> QED BY <1>4, <2>6
<1> QED
  BY <1>1, <1>6, <1>7, <1>8, <1>9, <1>10, <1>11, <1>12, <1>13, <1>14
  DEF TracksAccounted, p

(* Nothing is lost or doubled, whatever the operation. *)
THEOREM NothingLost == Spec => TracksKept
<1>1. Owned /\ [Next]_vars => [\A g \in Guilds : TracksAccounted(g)]_vars
  BY Accounted
<1> QED BY <1>1, OwnedCorrect, PTL DEF Spec, TracksKept

------------------------------------------------------------------------------
(* Part 4: the numbers in the views. *)

(* A queue is at most one longer than the bound, where a track in a loop   *)
(* went back into it: every page number there is, is one that users enter. *)
Short == \A g \in Guilds : Size(players[g]) <= MaxQueue + 1

LEMMA SizeType ==
  ASSUME NEW T, NEW p \in Player(T)
  PROVE  Size(p) \in Nat
<1>1. CASE p.now = NoTrack
  BY <1>1, SizeIs
<1>2. CASE p.now # NoTrack
  BY <1>2, SizeIs
<1> QED BY <1>1, <1>2

LEMMA RearrangedNoLonger ==
  ASSUME NEW T, NEW p \in Player(T), NEW q \in Player(T), Rearranged(p, q)
  PROVE  Size(q) <= Size(p)
<1>1. PICK f : f \in Injection(DOMAIN q.queue, DOMAIN p.queue)
  BY DEF Rearranged
<1>2. /\ DOMAIN q.queue = 1 .. Len(q.queue) /\ Len(q.queue) \in Nat
      /\ DOMAIN p.queue = 1 .. Len(p.queue) /\ Len(p.queue) \in Nat
  BY LenProperties DEF Player
<1>3. /\ IsFiniteSet(DOMAIN p.queue)
      /\ Cardinality(DOMAIN p.queue) = Len(p.queue)
      /\ Cardinality(DOMAIN q.queue) = Len(q.queue)
  BY <1>2, FirstNumbers
<1>4. Cardinality(DOMAIN q.queue) <= Cardinality(DOMAIN p.queue)
  BY <1>1, <1>3, FS_Injection
<1>5. q.now = p.now
  BY DEF Rearranged, Player
<1>6. Len(q.queue) <= Len(p.queue)
  BY <1>3, <1>4
<1> QED BY <1>2, <1>5, <1>6, SizeIs

LEMMA StartSize ==
  ASSUME NEW T, NoTrack \notin T, NEW p \in Player(T)
  PROVE  Size(StartNext(p)) <= Size(p)
<1>1. CASE p.now = NoTrack /\ p.queue # << >>
  <2>1. /\ StartNext(p).now = Head(p.queue) /\ StartNext(p).queue = Tail(p.queue)
        /\ StartNext(p) = [p EXCEPT !.now = Head(p.queue), !.queue = Tail(p.queue)]
    BY <1>1 DEF StartNext, Player
  <2>2. /\ Head(p.queue) \in T /\ Tail(p.queue) \in Seq(T)
        /\ Len(Tail(p.queue)) = Len(p.queue) - 1
    BY <1>1, HeadTailProperties DEF Player
  <2> DEFINE q == StartNext(p)
  <2>3. q \in Player(T)
    BY <2>1, <2>2 DEF Player
  <2> HIDE DEF q
  <2>4. q.now # NoTrack /\ Len(q.queue) = Len(p.queue) - 1
    BY <2>1, <2>2 DEF q
  <2>5. Size(q) = Len(p.queue) - 1 + 1 /\ Size(p) = Len(p.queue)
        /\ Len(p.queue) \in Nat
    BY <1>1, <2>3, <2>4, SizeIs
  <2>6. Size(q) <= Size(p)
    BY <2>5
  <2> QED BY <2>6 DEF q
<1>2. CASE ~ (p.now = NoTrack /\ p.queue # << >>)
  BY <1>2, SizesOf DEF StartNext
<1> QED BY <1>1, <1>2

LEMMA CompleteSize ==
  ASSUME NEW T, NoTrack \notin T, NEW p \in Player(T), NEW id
  PROVE  Size(CompleteCurrent(p, id)) <= Size(p)
<1>1. CASE p.now = id /\ id # NoTrack
  <2> DEFINE q == CompleteCurrent(p, id)
             r == Requeued(p)
  <2>1. /\ p.now \in T /\ p.queue \in Seq(T) /\ p.loop \in LoopModes
        /\ << p.now >> \in Seq(T) /\ Len(<< p.now >>) = 1 /\ Len(p.queue) \in Nat
    BY <1>1, LenProperties DEF Player
  <2>2. q.now = NoTrack /\ q.queue = r
    BY <1>1 DEF CompleteCurrent, Player
  <2>3. q \in Player(T)
    BY <2>1, QueueOpsType
  <2>4. Len(<< p.now >> \o p.queue) = Len(<< p.now >>) + Len(p.queue)
    BY <2>1, ConcatProperties
  <2>5. Len(Append(p.queue, p.now)) = Len(p.queue) + 1
    BY <2>1, AppendProperties
  <2>6. r \in {p.queue, << p.now >> \o p.queue, Append(p.queue, p.now)}
    BY <2>1 DEF Requeued, LoopModes
  <2>7. Len(r) <= Len(p.queue) + 1
    BY <2>1, <2>4, <2>5, <2>6
  <2> HIDE DEF q, r
  <2>8. Size(q) <= Size(p)
    BY <1>1, <2>2, <2>3, <2>7, SizeIs
  <2> QED BY <2>8 DEF q
<1>2. CASE ~ (p.now = id /\ id # NoTrack)
  BY <1>2, SizesOf DEF CompleteCurrent
<1> QED BY <1>1, <1>2

LEMMA UpdatesShort ==
  ASSUME Owned, NEW g \in Guilds, Size(players[g]) <= MaxQueue + 1,
         \/ RemoveOne(g) \/ Move(g) \/ Shuffle(g) \/ SetLoop(g)
         \/ Start(g) \/ Finish(g) \/ Complete(g) \/ Previous(g)
         \/ Clear(g)
  PROVE  \E q : Update(g, q) /\ Size(q) <= MaxQueue + 1
<1> DEFINE T == 1 .. MaxTracks
           p == players[g]
           Fits(q) == Size(q) <= MaxQueue + 1
<1>1. /\ T = 1 .. MaxTracks /\ p \in Player(T) /\ NoTrack \notin T
      /\ issued[g] \subseteq T
  BY OwnedPlayer
<1>2. Fits(p) /\ Len(p.queue) \in Nat /\ Size(p) \in Nat /\ MaxQueue \in Nat
  BY <1>1, SizeIs, SizesOf, BoundAssumption
<1> HIDE DEF T, p
<1>3. ASSUME NEW q, Size(q) <= Size(p), Size(q) \in Int PROVE Fits(q)
  BY <1>2, <1>3
<1>4. ASSUME NEW q \in Player(T) PROVE Size(q) \in Int
  BY SizeType
<1>5. ASSUME NEW q \in Player(T), Rearranged(p, q) PROVE Fits(q)
  BY <1>1, <1>3, <1>4, <1>5, RearrangedNoLonger
<1> HIDE DEF Fits
<1>6. ASSUME NEW i \in 0 .. MaxQueue PROVE Fits(RemoveQueued(p, i))
  <2>1. CASE Holds(p, i)
    <3>1. i + 1 \in 1 .. Len(p.queue) /\ (i + 1) - 1 = i /\ i \in Nat
      BY <1>2, <2>1 DEF Holds
    <3>2. Rearranged(p, RemoveQueued(p, (i + 1) - 1))
      BY <1>1, <3>1, RemoveQueuedRearranges
    <3>3. RemoveQueued(p, i) \in Player(T)
      BY <1>1, <3>1, RemoveQueuedType
    <3> QED BY <1>5, <3>1, <3>2, <3>3
  <2>2. CASE ~ Holds(p, i)
    BY <1>2, <2>2 DEF RemoveQueued
  <2> QED BY <2>1, <2>2
<1>7. ASSUME NEW from \in 0 .. MaxQueue, NEW to \in 0 .. MaxQueue
      PROVE  Fits(MoveQueued(p, from, to))
  <2>1. CASE Holds(p, from) /\ Holds(p, to)
    <3>1. /\ from + 1 \in 1 .. Len(p.queue) /\ (from + 1) - 1 = from /\ from \in Int
          /\ to + 1 \in 1 .. Len(p.queue) /\ (to + 1) - 1 = to /\ to \in Int
      BY <1>2, <2>1 DEF Holds
    <3>2. \/ MoveQueued(p, (from + 1) - 1, (to + 1) - 1) = p
          \/ Rearranged(p, MoveQueued(p, (from + 1) - 1, (to + 1) - 1))
      BY <1>1, <3>1, MoveQueuedRearranges
    <3>3. MoveQueued(p, from, to) \in Player(T)
      BY <1>1, <3>1, MoveQueuedType
    <3>4. MoveQueued(p, from, to) = p \/ Rearranged(p, MoveQueued(p, from, to))
      BY <3>1, <3>2
    <3> QED BY <1>2, <1>5, <3>3, <3>4
  <2>2. CASE ~ (Holds(p, from) /\ Holds(p, to))
    BY <1>2, <2>2 DEF MoveQueued
  <2> QED BY <2>1, <2>2
<1>8. ASSUME NEW q \in Shuffled(p) PROVE Fits(q)
  BY <1>1, <1>5, ShuffledType, ShuffledRearranges
<1>9. ASSUME NEW mode PROVE Fits(SetLoopMode(p, mode))
  <2>1. /\ SetLoopMode(p, mode).now = p.now
        /\ SetLoopMode(p, mode).queue = p.queue
    BY <1>1 DEF SetLoopMode, Player
  <2>2. Size(SetLoopMode(p, mode)) = Size(p)
    BY <2>1, Zenon DEF Size
  <2> QED BY <1>2, <1>3, <2>2
<1>10. Fits(StartNext(p))
  <2>1. StartNext(p) = p \/ StartNext(p) \in Player(T)
    BY <1>1, HeadTailProperties DEF StartNext, Player
  <2> QED BY <1>1, <1>2, <1>3, <1>4, <2>1, StartSize
<1>11. ASSUME NEW id \in issued[g]
       PROVE  Fits(CompleteCurrent(p, id)) /\ Fits(FinishCurrent(p, id))
  <2>1. id \in T
    BY <1>1
  <2>2. CompleteCurrent(p, id) \in Player(T) /\ FinishCurrent(p, id) \in Player(T)
    BY <1>1, <2>1, QueueOpsType
  <2>3. Size(CompleteCurrent(p, id)) <= Size(p)
    BY <1>1, CompleteSize
  <2>4. Fits(CompleteCurrent(p, id))
    BY <1>3, <1>4, <2>2, <2>3
  <2>5. \/ FinishCurrent(p, id) = p
        \/ Size(FinishCurrent(p, id)) = Size(p) - 1
    BY <1>1, SizesOf
  <2>6. Size(FinishCurrent(p, id)) <= Size(p)
    BY <1>2, <2>5
  <2> QED BY <1>3, <1>4, <2>2, <2>4, <2>6
<1>12. ASSUME NEW current \in T \union {NoTrack}, NEW previous \in T,
              Len(p.queue) < MaxQueue
       PROVE  Fits(Rewind(p, current, previous))
  <2>1. Size(Rewind(p, current, previous)) = Size(p) + 1
    BY <1>1, SizesOf
  <2>2. Size(p) <= MaxQueue
    BY <1>1, <1>2, <1>12, SizeIs
  <2> QED BY <1>2, <2>1, <2>2 DEF Fits
<1>13. Fits(DefaultPlayer)
  <2>1. DefaultPlayer \in Player(T) /\ DefaultPlayer.now = NoTrack
        /\ DefaultPlayer.queue = << >> /\ Len(<< >>) = 0
    BY EmptySeq DEF DefaultPlayer, Player, LoopModes
  <2>2. Size(DefaultPlayer) = 0
    BY <2>1, SizeIs
  <2> QED BY <1>2, <2>2 DEF Fits
<1>14. CASE RemoveOne(g)
  BY <1>6, <1>14 DEF RemoveOne, p, Fits
<1>15. CASE Move(g)
  BY <1>7, <1>15 DEF Move, p, Fits
<1>16. CASE Shuffle(g)
  BY <1>8, <1>16 DEF Shuffle, p, Fits
<1>17. CASE SetLoop(g)
  BY <1>9, <1>17 DEF SetLoop, p, Fits
<1>18. CASE Start(g)
  BY <1>10, <1>18 DEF Start, p, Fits
<1>19. CASE Finish(g)
  BY <1>11, <1>19 DEF Finish, p, Fits
<1>20. CASE Complete(g)
  BY <1>11, <1>20 DEF Complete, p, Fits
<1>21. CASE Previous(g)
  BY <1>1, <1>12, <1>21 DEF Previous, p, Fits
<1>22. CASE Clear(g)
  BY <1>13, <1>22 DEF Clear, p, Fits
<1> QED
  BY <1>14, <1>15, <1>16, <1>17, <1>18, <1>19, <1>20, <1>21, <1>22

LEMMA EnqueuesShort ==
  ASSUME Owned, Short, NEW g \in Guilds, EnqueueResolved(g) \/ EnqueuePlaylist(g)
  PROVE  Short'
<1> DEFINE T == 1 .. MaxTracks
           p == players[g]
<1>1. /\ p \in Player(T) /\ NoTrack \notin T /\ Len(p.queue) \in Nat
      /\ MaxQueue \in Nat
  BY OwnedPlayer, SizeIs, BoundAssumption
<1>2. \A h \in Guilds \ {g} : players'[h] = players[h]
  BY DEF EnqueueResolved, EnqueuePlaylist, Owned
<1>3. Size(players'[g]) <= MaxQueue + 1
  <2>1. CASE EnqueueResolved(g)
    <3>1. /\ players' = [players EXCEPT ![g] = Enqueue(@, nextTrackId + 1)]
          /\ nextTrackId + 1 \in T /\ Len(p.queue) < MaxQueue
      BY <2>1, NextTrackIdFresh, BoundAssumption DEF EnqueueResolved, Owned
    <3>2. players'[g] = Enqueue(p, nextTrackId + 1)
      BY <3>1 DEF Owned
    <3> HIDE DEF T, p
    <3>3. Size(Enqueue(p, nextTrackId + 1)) = Size(p) + 1
      BY <1>1, <3>1, SizesOf
    <3>4. Size(p) <= MaxQueue /\ Size(p) \in Nat
      BY <1>1, <3>1, SizeIs
    <3> QED BY <1>1, <3>2, <3>3, <3>4
  <2>2. CASE EnqueuePlaylist(g)
    <3>1. PICK added \in 2 .. MaxQueue :
            /\ nextTrackId + added <= MaxTracks
            /\ Len(p.queue) + added <= MaxQueue
            /\ players' = [players EXCEPT ![g].queue =
                             @ \o [i \in 1 .. added |-> nextTrackId + i]]
      BY <2>2 DEF EnqueuePlaylist
    <3> DEFINE ids == [i \in 1 .. added |-> nextTrackId + i]
               r == p.queue \o ids
    <3>2. added \in Nat /\ nextTrackId \in Nat
      BY <3>1, BoundAssumption DEF Owned
    <3>3. ids \in Seq(T) /\ Len(ids) = added
      BY <3>1, <3>2, BoundAssumption
    <3>4. players'[g] = [p EXCEPT !.queue = r]
      BY <3>1 DEF Owned
    <3> HIDE DEF ids
    <3>5. r \in Seq(T) /\ Len(r) = Len(p.queue) + added
      BY <1>1, <3>3, ConcatProperties DEF Player
    <3> DEFINE q == [p EXCEPT !.queue = r]
    <3> HIDE DEF r, T, p
    <3>6. q \in Player(T) /\ q.queue = r
      BY <1>1, <3>5 DEF Player
    <3> HIDE DEF q
    <3>7. Size(q) <= MaxQueue + 1
      BY <1>1, <3>1, <3>2, <3>5, <3>6, SizeIs
    <3> QED BY <3>4, <3>7 DEF q
  <2> QED BY <2>1, <2>2
<1> QED BY <1>2, <1>3 DEF Short

(* Short holds in every state. *)
THEOREM ShortCorrect == Spec => [](Owned /\ Short)
<1>1. Init => Short
  <2> SUFFICES ASSUME Init PROVE Short
    OBVIOUS
  <2>1. DefaultPlayer \in Player({}) /\ DefaultPlayer.now = NoTrack
        /\ DefaultPlayer.queue = << >> /\ Len(<< >>) = 0
    BY EmptySeq DEF DefaultPlayer, Player, LoopModes
  <2>2. Size(DefaultPlayer) = 0
    BY <2>1, SizeIs
  <2> QED BY <2>2, BoundAssumption DEF Init, Short
<1>2. Owned /\ Short /\ [Next]_vars => Short'
  <2> SUFFICES ASSUME Owned, Short, [Next]_vars PROVE Short'
    OBVIOUS
  <2>1. CASE UNCHANGED players
    BY <2>1 DEF Short
  <2>2. ASSUME NEW g \in Guilds, EnqueueResolved(g) \/ EnqueuePlaylist(g) PROVE Short'
    BY <2>2, EnqueuesShort
  <2>3. ASSUME NEW g \in Guilds,
               \/ RemoveOne(g) \/ Move(g) \/ Shuffle(g) \/ SetLoop(g)
               \/ Start(g) \/ Finish(g) \/ Complete(g) \/ Previous(g)
               \/ Clear(g)
        PROVE  Short'
    <3>1. PICK q : Update(g, q) /\ Size(q) <= MaxQueue + 1
      BY <2>3, UpdatesShort DEF Short
    <3>2. players'[g] = q /\ \A h \in Guilds \ {g} : players'[h] = players[h]
      BY <3>1 DEF Update, Owned
    <3> QED BY <3>1, <3>2 DEF Short
  <2>4. ASSUME NEW g \in Guilds, HistoryPush(g) \/ HistoryPop(g)
        PROVE  Short'
    BY <2>1, <2>4 DEF HistoryPush, HistoryPop, Record
  <2> QED BY <2>1, <2>2, <2>3, <2>4 DEF Next, vars
<1> QED BY <1>1, <1>2, OwnedCorrect, PTL DEF Spec

(* The line that a view should show for position n. *)
Line(p, n) == [number |-> n, track |-> p.queue[n]]

(* A stretch of the queue, numbered from where it starts. *)
LEMMA StretchLines ==
  ASSUME NEW T, NEW p \in Player(T), NEW a \in Nat, NEW b \in Nat,
         b <= Len(p.queue)
  PROVE  ToSet(Numbered(SubSeq(p.queue, a + 1, b), a + 1))
           = {Line(p, n) : n \in a + 1 .. b}
<1> DEFINE s == p.queue
           cut == SubSeq(s, a + 1, b)
           lines == Numbered(cut, a + 1)
           l == IF a + 1 <= b THEN b - a ELSE 0
<1>1. s \in Seq(T) /\ Len(s) \in Nat
  BY LenProperties DEF Player
<1>2. \A i \in a + 1 .. b : s[i] \in T
  BY <1>1, ElementOfSeq
<1>3. /\ DOMAIN cut = 1 .. l
      /\ \A i \in 1 .. l : cut[i] = s[a + 1 + i - 1]
  <2>1. /\ cut \in Seq(T)
        /\ Len(cut) = IF a + 1 <= b THEN b - (a + 1) + 1 ELSE 0
        /\ \A i \in 1 .. b - (a + 1) + 1 : cut[i] = s[a + 1 + i - 1]
    <3> HIDE DEF s
    <3>1. a + 1 \in Int /\ b \in Int
      OBVIOUS
    <3> QED BY <1>2, <3>1, SubSeqProperties
  <2>2. DOMAIN cut = 1 .. Len(cut)
    BY <2>1, LenProperties
  <2>3. Len(cut) = l
    BY <2>1
  <2>4. \A i \in 1 .. l : i \in 1 .. b - (a + 1) + 1
    OBVIOUS
  <2> HIDE DEF l, cut
  <2> QED BY <2>1, <2>2, <2>3, <2>4
<1>4. /\ DOMAIN lines = 1 .. l
      /\ \A i \in 1 .. l : lines[i] = [number |-> a + 1 + i - 1, track |-> s[a + 1 + i - 1]]
  <2> HIDE DEF l, cut
  <2> QED BY <1>3 DEF Numbered
<1>5. \A i \in 1 .. l : lines[i] = Line(p, a + i) /\ a + i \in a + 1 .. b
  <2>1. \A i \in 1 .. l : a + 1 + i - 1 = a + i /\ a + i \in a + 1 .. b
    OBVIOUS
  <2> HIDE DEF l, lines
  <2> QED BY <1>4, <2>1 DEF Line
<1>6. \A n \in a + 1 .. b : n - a \in 1 .. l /\ a + (n - a) = n
  OBVIOUS
<1> HIDE DEF l, lines
<1>7. ToSet(lines) = {lines[i] : i \in 1 .. l}
  BY <1>4 DEF ToSet
<1>8. {lines[i] : i \in 1 .. l} = {Line(p, n) : n \in a + 1 .. b}
  <2> DEFINE L(n) == Line(p, n)
  <2>1. \A i \in 1 .. l : lines[i] = L(a + i) /\ a + i \in a + 1 .. b
    BY <1>5
  <2> HIDE DEF L
  <2>2. \A i \in 1 .. l : lines[i] \in {L(n) : n \in a + 1 .. b}
    BY <2>1
  <2>3. ASSUME NEW n \in a + 1 .. b PROVE L(n) \in {lines[i] : i \in 1 .. l}
    <3>1. lines[n - a] = L(n) /\ n - a \in 1 .. l
      BY <1>6, <2>1
    <3> QED BY <3>1
  <2>4. {lines[i] : i \in 1 .. l} = {L(n) : n \in a + 1 .. b}
    BY <2>2, <2>3
  <2> QED BY <2>4 DEF L
<1> QED BY <1>7, <1>8 DEF lines, cut, s

(* What dividing in whole numbers yields. *)
LEMMA DivMod ==
  ASSUME NEW a \in Nat, NEW b \in Nat \ {0}
  PROVE  /\ a \div b \in Nat
         /\ b * (a \div b) <= a
         /\ a < b * (a \div b) + b
OBVIOUS

(* Between them the pages there are show every position, *)
LEMMA PageOf ==
  ASSUME NEW T, NEW p \in Player(T), NEW n \in 1 .. Len(p.queue),
         Len(p.queue) <= MaxQueue + 1
  PROVE  \E page \in Positions :
           /\ PageExists(p, page)
           /\ QueueIndex(page) * PageSize \in Nat
           /\ n \in QueueIndex(page) * PageSize + 1 ..
                      Least(QueueIndex(page) * PageSize + PageSize, Len(p.queue))
<1> DEFINE m == Len(p.queue)
           k == (n - 1) \div PageSize
           start == k * PageSize
<1>1. m \in Nat /\ n \in Nat /\ 1 <= n /\ n <= m /\ n - 1 \in Nat
  BY LenProperties DEF Player
<1>2. PageSize \in Nat \ {0} /\ MaxQueue \in Nat
  BY ViewAssumption, BoundAssumption
<1>3. k \in Nat /\ PageSize * k <= n - 1 /\ n - 1 < PageSize * k + PageSize
  BY <1>1, <1>2, DivMod
<1> HIDE DEF k, m
<1>4. start \in Nat /\ start <= n - 1 /\ n - 1 < start + PageSize /\ k <= start
  BY <1>2, <1>3
<1>5. k + 1 \in Positions /\ QueueIndex(k + 1) = k
  BY <1>1, <1>2, <1>3, <1>4 DEF Positions, QueueIndex, m
<1>6. k < PageCount(p)
  <2> DEFINE c == PageCount(p)
  <2>1. Largest(m, 1) = m
    BY <1>1 DEF Largest
  <2>2. c = (m + PageSize - 1) \div PageSize
    BY <2>1 DEF PageCount, DivCeil, m
  <2>3. m + PageSize - 1 \in Nat
    BY <1>1, <1>2
  <2>4. c \in Nat /\ m + PageSize - 1 < PageSize * c + PageSize
    BY <1>2, <2>2, <2>3, DivMod
  <2> HIDE DEF c
  <2>5. SUFFICES ASSUME c <= k PROVE FALSE
    BY <1>3, <2>4 DEF c
  <2>6. PageSize * c <= PageSize * k
    BY <1>2, <1>3, <2>4, <2>5
  <2>7. PageSize * c \in Nat /\ PageSize * k \in Nat
    BY <1>2, <1>3, <2>4
  <2> QED BY <1>1, <1>2, <1>3, <2>4, <2>6, <2>7
<1>7. PageCount(p) \in Int
  <2>1. Largest(m, 1) = m
    BY <1>1 DEF Largest
  <2>2. PageCount(p) = (m + PageSize - 1) \div PageSize
    BY <2>1 DEF PageCount, DivCeil, m
  <2>3. m + PageSize - 1 \in Nat
    BY <1>1, <1>2
  <2> QED BY <1>2, <2>2, <2>3, DivMod
<1>8. PageExists(p, k + 1)
  BY <1>3, <1>5, <1>6, <1>7 DEF PageExists
<1>9. n \in start + 1 .. Least(start + PageSize, m)
  BY <1>1, <1>2, <1>4 DEF Least
<1> QED BY <1>4, <1>5, <1>8, <1>9 DEF m

(* and nothing else: the views show every position, under its number. *)
LEMMA ShownAre ==
  ASSUME NEW T, NEW p \in Player(T), Len(p.queue) <= MaxQueue + 1
  PROVE  ShownLines(p) = {Line(p, n) : n \in 1 .. Len(p.queue)}
<1> DEFINE m == Len(p.queue)
           all == {Line(p, n) : n \in 1 .. m}
           pages == {page \in Positions : PageExists(p, page)}
           start(page) == QueueIndex(page) * PageSize
           end(page) == Least(start(page) + PageSize, m)
<1>1. m \in Nat /\ PageSize \in Nat \ {0} /\ PreviewLimit \in Nat /\ MaxQueue \in Nat
  BY LenProperties, ViewAssumption, BoundAssumption DEF Player
<1>2. ToSet(RenderQueue(p)) \subseteq all
  <2> DEFINE b == Least(PreviewLimit, m)
  <2>1. b \in Nat /\ b <= m /\ 0 + 1 = 1
    BY <1>1 DEF Least
  <2>2. RenderQueue(p) = Numbered(SubSeq(p.queue, 0 + 1, b), 0 + 1)
    BY <2>1 DEF RenderQueue
  <2> HIDE DEF b
  <2>3. ToSet(RenderQueue(p)) = {Line(p, n) : n \in 0 + 1 .. b}
    BY <2>1, <2>2, StretchLines
  <2>4. \A n \in 0 + 1 .. b : n \in 1 .. m
    BY <1>1, <2>1
  <2> QED BY <2>3, <2>4
<1>3. ASSUME NEW page \in pages
      PROVE  /\ start(page) \in Nat /\ end(page) \in Nat /\ end(page) <= m
             /\ ToSet(PageLines(p, page)) = {Line(p, n) : n \in start(page) + 1 .. end(page)}
  <2>1. QueueIndex(page) \in Nat
    BY DEF PageExists
  <2>2. start(page) \in Nat
    BY <1>1, <2>1
  <2>3. PageLines(p, page)
          = Numbered(SubSeq(p.queue, start(page) + 1, end(page)), start(page) + 1)
    BY DEF PageLines
  <2> HIDE DEF start
  <2>4. end(page) \in Nat /\ end(page) <= m
    BY <1>1, <2>2 DEF Least
  <2> HIDE DEF end
  <2>5. ToSet(PageLines(p, page)) = {Line(p, n) : n \in start(page) + 1 .. end(page)}
    BY <2>2, <2>3, <2>4, StretchLines
  <2> QED BY <2>2, <2>4, <2>5
<1>4. ASSUME NEW page \in pages PROVE ToSet(PageLines(p, page)) \subseteq all
  <2> HIDE DEF start, end
  <2>1. \A n \in start(page) + 1 .. end(page) : n \in 1 .. m
    BY <1>1, <1>3, <1>4
  <2> QED BY <1>3, <2>1
<1>5. ASSUME NEW n \in 1 .. m
      PROVE  \E page \in pages : Line(p, n) \in ToSet(PageLines(p, page))
  <2>1. PICK page \in pages : n \in start(page) + 1 .. end(page)
    BY PageOf
  <2> HIDE DEF start, end, pages
  <2> QED BY <1>3, <2>1
<1>6. ShownLines(p) = ToSet(RenderQueue(p)) \union UNION {ToSet(PageLines(p, page)) : page \in pages}
  BY DEF ShownLines
<1> HIDE DEF all, pages, m
<1>7. ShownLines(p) \subseteq all
  BY <1>2, <1>4, <1>6
<1>8. all \subseteq ShownLines(p)
  BY <1>5, <1>6 DEF all
<1> QED BY <1>7, <1>8 DEF all, m

(* /move puts the track at the place asked for. *)
LEMMA MovePuts ==
  ASSUME NEW T, NEW p \in Player(T),
         NEW n \in 1 .. Len(p.queue), NEW m \in 1 .. Len(p.queue)
  PROVE  LET q == MoveQueued(p, n - 1, m - 1)
         IN  /\ q \in Player(T)
             /\ Len(q.queue) = Len(p.queue)
             /\ q.queue[m] = p.queue[n]
<1> DEFINE s == p.queue
           r == RemoveAt(s, n)
           q == MoveQueued(p, n - 1, m - 1)
<1>1. s \in Seq(T) /\ Len(s) \in Nat /\ s[n] \in T
  BY LenProperties, ElementOfSeq DEF Player
<1>2. /\ Holds(p, n - 1) /\ Holds(p, m - 1) /\ n - 1 \in Int /\ m - 1 \in Int
      /\ (n - 1) + 1 = n /\ (m - 1) + 1 = m
  BY <1>1 DEF Holds
<1>3. q \in Player(T)
  BY <1>2, MoveQueuedType
<1>4. CASE n = m
  <2>1. q = p
    BY <1>4 DEF MoveQueued
  <2> QED BY <1>3, <1>4, <2>1
<1>5. CASE n # m
  <2> DEFINE e == s[n]
             t == InsertAt(r, m, e)
  <2>1. n - 1 # m - 1
    BY <1>2, <1>5
  <2>2. q = [p EXCEPT !.queue = t]
    BY <1>2, <2>1, Zenon DEF MoveQueued
  <2>3. q.queue = t
    BY <2>2 DEF Player
  <2>4. r \in Seq(T) /\ Len(r) = Len(s) - 1 /\ e \in T
    BY <1>1, RemoveAtType
  <2>5. m \in 1 .. Len(r) + 1 /\ Len(r) + 1 = Len(s)
    BY <1>1, <2>4
  <2> HIDE DEF r, e
  <2>6. /\ Len(t) = Len(r) + 1
        /\ \A k \in 1 .. Len(r) + 1 :
             t[k] = IF k < m THEN r[k] ELSE IF k = m THEN e ELSE r[k - 1]
    BY <2>4, <2>5, InsertAtElements
  <2> HIDE DEF t
  <2>7. Len(t) = Len(s) /\ t[m] = e
    BY <2>5, <2>6
  <2> QED BY <1>3, <2>3, <2>7 DEF e
<1> QED BY <1>4, <1>5

(* Every number beside a track names it, and no other number names one. *)
LEMMA NumbersName ==
  ASSUME NEW T, NEW p \in Player(T), Len(p.queue) <= MaxQueue + 1
  PROVE  LET shown == ShownLines(p)
         IN  /\ \A line \in shown :
                  /\ RemovePosition(p, line.number).queue
                       = SubSeq(p.queue, 1, line.number - 1)
                           \o SubSeq(p.queue, line.number + 1, Len(p.queue))
                  /\ p.queue[line.number] = line.track
                  /\ \A other \in shown :
                       line.track \in
                         {moved.track : moved \in
                            {l \in ShownLines(MovePosition(p, line.number, other.number)) :
                               l.number = other.number}}
             /\ \A n \in Positions \ {line.number : line \in shown} :
                  /\ RemovePosition(p, n) = p
                  /\ \A m \in Positions :
                       MovePosition(p, n, m) = p /\ MovePosition(p, m, n) = p
<1> DEFINE len == Len(p.queue)
           shown == ShownLines(p)
<1>1. len \in Nat /\ MaxQueue \in Nat
  BY LenProperties, BoundAssumption DEF Player
<1>2. shown = {Line(p, n) : n \in 1 .. len}
  BY ShownAre
<1> HIDE DEF shown
<1>3. \A n : Line(p, n).number = n /\ Line(p, n).track = p.queue[n]
  BY DEF Line
<1>4. ASSUME NEW n \in 1 .. len PROVE QueueIndex(n) = n - 1
  BY <1>1 DEF QueueIndex
<1>5. ASSUME NEW n \in 1 .. len
      PROVE  RemovePosition(p, n).queue
               = SubSeq(p.queue, 1, n - 1) \o SubSeq(p.queue, n + 1, len)
  <2>1. Holds(p, n - 1) /\ (n - 1) + 1 = n
    BY <1>1 DEF Holds
  <2>2. RemovePosition(p, n) = [p EXCEPT !.queue = RemoveAt(p.queue, n)]
    BY <1>4, <2>1, Zenon DEF RemovePosition, RemoveQueued
  <2>3. RemovePosition(p, n).queue = RemoveAt(p.queue, n)
    BY <2>2 DEF Player
  <2> QED BY <2>3, Zenon DEF RemoveAt
<1>6. ASSUME NEW n \in 1 .. len, NEW m \in 1 .. len
      PROVE  p.queue[n] \in {moved.track : moved \in
                {l \in ShownLines(MovePosition(p, n, m)) : l.number = m}}
  <2> DEFINE q == MovePosition(p, n, m)
  <2>1. q = MoveQueued(p, n - 1, m - 1)
    BY <1>4, Zenon DEF MovePosition
  <2>2. q \in Player(T) /\ Len(q.queue) = len /\ q.queue[m] = p.queue[n]
    BY <2>1, MovePuts
  <2> HIDE DEF q
  <2>3. ShownLines(q) = {Line(q, k) : k \in 1 .. len}
    BY <2>2, ShownAre
  <2>4. Line(q, m) \in ShownLines(q)
    BY <2>3
  <2>5. Line(q, m).number = m /\ Line(q, m).track = p.queue[n]
    BY <2>2 DEF Line
  <2>6. p.queue[n] \in {moved.track : moved \in {l \in ShownLines(q) : l.number = m}}
    BY <2>4, <2>5
  <2> QED BY <2>6 DEF q
<1>7. \A line \in shown : \E n \in 1 .. len :
        line.number = n /\ line.track = p.queue[n]
  BY <1>2, <1>3
<1>8. ASSUME NEW n \in Positions \ {line.number : line \in shown}
      PROVE  /\ RemovePosition(p, n) = p
             /\ \A m \in Positions :
                  MovePosition(p, n, m) = p /\ MovePosition(p, m, n) = p
  <2>1. n \in Int
    BY <1>1 DEF Positions
  <2>2. n \notin 1 .. len
    BY <1>2, <1>3
  <2>3. ~ Holds(p, QueueIndex(n))
    BY <1>1, <2>1, <2>2 DEF Holds, QueueIndex
  <2> QED BY <2>3 DEF RemovePosition, MovePosition, RemoveQueued, MoveQueued
<1>9. ASSUME NEW line \in shown
      PROVE  /\ RemovePosition(p, line.number).queue
                  = SubSeq(p.queue, 1, line.number - 1)
                      \o SubSeq(p.queue, line.number + 1, Len(p.queue))
             /\ p.queue[line.number] = line.track
             /\ \A other \in shown :
                  line.track \in
                    {moved.track : moved \in
                       {l \in ShownLines(MovePosition(p, line.number, other.number)) :
                          l.number = other.number}}
  <2>1. PICK n \in 1 .. len : line.number = n /\ line.track = p.queue[n]
    BY <1>7
  <2>2. ASSUME NEW other \in shown
        PROVE  line.track \in
                 {moved.track : moved \in
                    {l \in ShownLines(MovePosition(p, line.number, other.number)) :
                       l.number = other.number}}
    <3>1. PICK m \in 1 .. len : other.number = m
      BY <1>7
    <3> QED BY <1>6, <2>1, <3>1
  <2> QED BY <1>5, <2>1, <2>2
<1> QED BY <1>8, <1>9 DEF shown

(* In every state the numbers that the views show are those that name the  *)
(* tracks beside them.                                                     *)
THEOREM NumbersAreNames == Spec => []NumbersNameTracks
<1>1. Owned /\ Short => NumbersNameTracks
  <2> SUFFICES ASSUME Owned, Short PROVE NumbersNameTracks
    OBVIOUS
  <2>1. ASSUME NEW g \in Guilds
        PROVE  /\ players[g] \in Player(1 .. MaxTracks)
               /\ Len(players[g].queue) <= MaxQueue + 1
    <3>1. players[g] \in Player(1 .. MaxTracks) /\ Size(players[g]) <= MaxQueue + 1
      BY OwnedPlayer DEF Short
    <3> QED BY <3>1, SizeIs, BoundAssumption
  <2> QED BY <2>1, NumbersName DEF NumbersNameTracks
<1> QED BY <1>1, ShortCorrect, PTL
==============================================================================
