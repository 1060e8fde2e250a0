----------------------------- MODULE GuildPlayer -----------------------------
(***************************************************************************)
(* One guild's player and one guild's history, as values.                  *)
(*                                                                         *)
(* Every operation of the source on them is a function from the old value  *)
(* to the new one: GuildPlayer and PlayerManager (src/src/player.rs) and   *)
(* HistoryManager (src/src/history.rs).  A track is its TrackId.  A guild  *)
(* without an entry in the source's map is the default player: no          *)
(* operation can tell the two apart.                                       *)
(***************************************************************************)
EXTENDS Integers, SequencesExt

(* allocate_track_id never returns 0, so 0 stands for Option::None. *)
NoTrack == 0

LoopModes == {"Off", "Track", "Queue"}

DefaultPlayer == [now |-> NoTrack, queue |-> << >>, loop |-> "Off"]

Player(T) == [now : T \union {NoTrack}, queue : Seq(T), loop : LoopModes]

IsIdle(p) == p.now = NoTrack /\ p.queue = << >>

(* Queue positions are zero-based, as in the source. *)
Holds(p, index) == index \in 0 .. Len(p.queue) - 1

SetLoopMode(p, mode) == [p EXCEPT !.loop = mode]

Enqueue(p, track) == [p EXCEPT !.queue = Append(@, track)]

RemoveQueued(p, index) ==
  IF Holds(p, index) THEN [p EXCEPT !.queue = RemoveAt(@, index + 1)] ELSE p

(* Mutant: the destination is checked again in the shortened queue. *)
MoveLosesLast(p, from, to) ==
  IF Holds(p, from) /\ Holds(p, to) /\ from # to
  THEN LET rest == RemoveQueued(p, from)
       IN  IF Holds(rest, to)
           THEN [rest EXCEPT !.queue = InsertAt(@, to + 1, p.queue[from + 1])]
           ELSE rest
  ELSE p

MoveQueued(p, from, to) ==
  IF Holds(p, from) /\ Holds(p, to) /\ from # to
  THEN [p EXCEPT !.queue =
          InsertAt(RemoveAt(@, from + 1), to + 1, @[from + 1])]
  ELSE p

(* The players that one shuffle may produce. *)
Shuffled(p) ==
  {[p EXCEPT !.queue = [i \in DOMAIN @ |-> @[f[i]]]] :
     f \in Bijection(DOMAIN p.queue, DOMAIN p.queue)}

StartNext(p) ==
  IF p.now = NoTrack /\ p.queue # << >>
  THEN [p EXCEPT !.now = Head(p.queue), !.queue = Tail(@)]
  ELSE p

(* Mutant: whatever is current is finished. *)
FinishAny(p, id) == [p EXCEPT !.now = NoTrack]

FinishCurrent(p, id) == IF p.now = id THEN [p EXCEPT !.now = NoTrack] ELSE p

(* What natural completion does to the queue, by loop mode. *)
Requeued(p) ==
  CASE p.loop = "Off"   -> p.queue
    [] p.loop = "Track" -> << p.now >> \o p.queue
    [] p.loop = "Queue" -> Append(p.queue, p.now)

(* Mutant: the loop mode is applied after the track was taken. *)
CompleteTakenFirst(p, id) ==
  LET taken == FinishCurrent(p, id)
  IN  IF p.now = id /\ id # NoTrack
      THEN [taken EXCEPT !.queue = Requeued(taken)] ELSE p

(* Mutant: whatever is current is completed. *)
CompleteAny(p, id) ==
  IF p.now # NoTrack
  THEN [p EXCEPT !.now = NoTrack, !.queue = Requeued(p)]
  ELSE p

CompleteCurrent(p, id) ==
  IF p.now = id /\ id # NoTrack
  THEN [p EXCEPT !.now = NoTrack, !.queue = Requeued(p)]
  ELSE p

(* Enqueue at the back, then move to the front. *)
EnqueueFirst(p, track) == MoveQueued(Enqueue(p, track), Len(p.queue), 0)

(* The one critical section of /previous: the interrupted track, if it is  *)
(* still the current one, goes back to the front, behind the previous one. *)
Rewind(p, current, previous) ==
  EnqueueFirst(IF current # NoTrack /\ p.now = current
               THEN EnqueueFirst(FinishCurrent(p, current), current)
               ELSE p,
               previous)

(* Mutant: a counter that is too narrow for the ids in use. *)
NextTrackIdNarrow(id, modulus) == (id % 2) + 1

(* next_track_id after one allocation in a counter of the given modulus. *)
NextTrackId(id, modulus) ==
  LET next == (id + 1) % modulus IN IF next = 0 THEN 1 ELSE next

------------------------------------------------------------------------------
(* A guild's history: oldest first, at most `limit' entries. *)

(* Mutant: evict one push too late. *)
RememberLate(h, track, limit) ==
  Append(IF Len(h) > limit THEN Tail(h) ELSE h, track)

Remember(h, track, limit) ==
  Append(IF Len(h) = limit THEN Tail(h) ELSE h, track)

Forget(h) == IF h = << >> THEN h ELSE Front(h)

Latest(h) == IF h = << >> THEN NoTrack ELSE Last(h)
==============================================================================
