---------------------------- MODULE PlaybackStore ----------------------------
(***************************************************************************)
(* The two stores that AppState shares between every command task and      *)
(* every voice worker: Arc<RwLock<PlayerManager>> and                      *)
(* Arc<RwLock<HistoryManager>>.                                            *)
(*                                                                         *)
(* One action is one critical section of some caller, so an interleaving   *)
(* of actions is an interleaving of the callers.  Arguments a caller       *)
(* carries from an earlier critical section (the id of a decoder task, a   *)
(* track read from a snapshot) may be stale by now: they range over every  *)
(* id ever issued for the guild the caller works for.                      *)
(***************************************************************************)
EXTENDS GuildPlayer, FiniteSets

CONSTANTS
  Guilds,        \* guilds that use the bot
  IdModulus,     \* ids live in 0 .. IdModulus - 1 (2^64 in the source)
  MaxTracks,     \* bound: tracks ever enqueued
  MaxQueue,      \* bound: longest queue
  HistoryLimit   \* HISTORY_LIMIT

ASSUME BoundAssumption ==
  /\ IdModulus \in Nat /\ MaxTracks \in Nat /\ MaxQueue \in Nat
  /\ MaxTracks < IdModulus

ASSUME LimitAssumption == HistoryLimit \in Nat \ {0}

VARIABLES
  players,       \* PlayerManager.players
  nextTrackId,   \* PlayerManager.next_track_id
  histories,     \* HistoryManager.histories
  issued         \* auxiliary: the ids allocated on behalf of each guild

vars == << players, nextTrackId, histories, issued >>

Init ==
  /\ players = [g \in Guilds |-> DefaultPlayer]
  /\ nextTrackId = 0
  /\ histories = [g \in Guilds |-> << >>]
  /\ issued = [g \in Guilds |-> {}]

------------------------------------------------------------------------------
(* A step that changes nothing but the player of g. *)
Update(g, player) ==
  /\ players' = [players EXCEPT ![g] = player]
  /\ UNCHANGED << nextTrackId, histories, issued >>

EnqueueResolved(g) ==
  /\ nextTrackId < MaxTracks
  /\ Len(players[g].queue) < MaxQueue
  /\ nextTrackId' = NextTrackId(nextTrackId, IdModulus)
  /\ players' = [players EXCEPT ![g] = Enqueue(@, nextTrackId')]
  /\ issued' = [issued EXCEPT ![g] = @ \union {nextTrackId'}]
  /\ UNCHANGED histories

(* /playlist enqueues all of its tracks in one critical section; within the *)
(* bound no id wraps around.                                                *)
EnqueuePlaylist(g) ==
  \E added \in 2 .. MaxQueue :
    LET ids == [i \in 1 .. added |-> nextTrackId + i]
    IN  /\ nextTrackId + added <= MaxTracks
        /\ Len(players[g].queue) + added <= MaxQueue
        /\ nextTrackId' = nextTrackId + added
        /\ players' = [players EXCEPT ![g].queue = @ \o ids]
        /\ issued' = [issued EXCEPT ![g] = @ \union (nextTrackId + 1 .. nextTrackId + added)]
        /\ UNCHANGED histories

RemoveOne(g) == \E i \in 0 .. MaxQueue : Update(g, RemoveQueued(players[g], i))

Move(g) ==
  \E from, to \in 0 .. MaxQueue : Update(g, MoveQueued(players[g], from, to))

Shuffle(g) == \E p \in Shuffled(players[g]) : Update(g, p)

SetLoop(g) == \E mode \in LoopModes : Update(g, SetLoopMode(players[g], mode))

Start(g) == Update(g, StartNext(players[g]))

Finish(g) == \E id \in issued[g] : Update(g, FinishCurrent(players[g], id))

(* Looping a track puts it back in the queue, over the bound by one. *)
Complete(g) == \E id \in issued[g] : Update(g, CompleteCurrent(players[g], id))

Previous(g) ==
  \E previous \in issued[g], current \in issued[g] \union {NoTrack} :
    /\ Len(players[g].queue) < MaxQueue
    /\ Update(g, Rewind(players[g], current, previous))

Clear(g) == Update(g, DefaultPlayer)

(* A step that changes nothing but the history of g. *)
Record(g, history) ==
  /\ histories' = [histories EXCEPT ![g] = history]
  /\ UNCHANGED << players, nextTrackId, issued >>

HistoryPush(g) ==
  \E track \in issued[g] :
    Record(g, Remember(histories[g], track, HistoryLimit))

HistoryPop(g) == Record(g, Forget(histories[g]))

Next ==
  \E g \in Guilds :
    \/ EnqueueResolved(g) \/ EnqueuePlaylist(g)
    \/ RemoveOne(g) \/ Move(g) \/ Shuffle(g) \/ SetLoop(g)
    \/ Start(g) \/ Finish(g) \/ Complete(g) \/ Previous(g) \/ Clear(g)
    \/ HistoryPush(g) \/ HistoryPop(g)

Spec == Init /\ [][Next]_vars

------------------------------------------------------------------------------
(* The ids a guild's player or history still shows. *)
InUse(g) ==
  ToSet(players[g].queue) \union ToSet(histories[g])
    \union ({players[g].now} \ {NoTrack})

(* The types of the variables; ids never leave the counter's range. *)
TypeOK ==
  /\ nextTrackId \in 0 .. MaxTracks
  /\ players \in [Guilds -> Player(1 .. MaxTracks)]
  /\ histories \in [Guilds -> Seq(1 .. MaxTracks)]
  /\ issued \in [Guilds -> SUBSET (1 .. MaxTracks)]

(* The inductive invariant: a guild's player and history only show ids     *)
(* issued for that guild, and no id was issued for two guilds.             *)
Owned ==
  /\ nextTrackId \in 0 .. MaxTracks
  /\ issued \in [Guilds -> SUBSET (1 .. nextTrackId)]
  /\ \A g, h \in Guilds : g # h => issued[g] \intersect issued[h] = {}
  /\ players = [g \in Guilds |-> players[g]]
  /\ histories = [g \in Guilds |-> histories[g]]
  /\ \A g \in Guilds :
       /\ players[g] \in Player(issued[g])
       /\ histories[g] \in Seq(issued[g])
       /\ Len(histories[g]) <= HistoryLimit

(* Playback state is isolated per guild ("owns isolated playback state for *)
(* every guild"): no track shown by one guild's player or history is shown *)
(* by another's, whichever stale arguments the callers come back with.     *)
GuildsIsolated ==
  \A g, h \in Guilds : g # h => InUse(g) \intersect InUse(h) = {}

(* A history never outgrows HISTORY_LIMIT. *)
HistoryBounded == \A g \in Guilds : Len(histories[g]) <= HistoryLimit

(* Track ids are "unique for the lifetime of this manager, including       *)
(* across guilds": an id that is handed out was never handed out before,   *)
(* and so is in no player and no history.                                  *)
NewIdsUnused ==
  \A g, h \in Guilds : \A id \in issued'[g] \ issued[g] :
    id \notin issued[h] \union InUse(h)

FreshTrackIds == [][NewIdsUnused]_vars

(* How often a guild's player shows track t. *)
Copies(p, t) ==
  Cardinality({i \in DOMAIN p.queue : p.queue[i] = t})
    + (IF p.now = t THEN 1 ELSE 0)

Size(p) == Len(p.queue) + (IF p.now = NoTrack THEN 0 ELSE 1)

(* What a step did to the tracks of guild g: each is there as often as     *)
(* before, or those in T are there once more, or once less.                *)
Kept(g) ==
  \A t \in 1 .. MaxTracks : Copies(players'[g], t) = Copies(players[g], t)

Gained(g, T) ==
  \A t \in 1 .. MaxTracks : Copies(players'[g], t) =
    Copies(players[g], t) + (IF t \in T THEN 1 ELSE 0)

Lost(g, T) ==
  \A t \in 1 .. MaxTracks : Copies(players[g], t) =
    Copies(players'[g], t) + (IF t \in T THEN 1 ELSE 0)

(* What each operation is there to add or to take, and no more.            *)
TracksAccounted(g) ==
  LET p == players[g]
  IN  /\ ~ Kept(g) => ~ (Move(g) \/ Shuffle(g) \/ Start(g) \/ SetLoop(g))
      /\ \A i \in 0 .. MaxQueue : Update(g, RemoveQueued(p, i))
           => Lost(g, IF Holds(p, i) THEN {p.queue[i + 1]} ELSE {})
      /\ EnqueueResolved(g) \/ EnqueuePlaylist(g)
           => Gained(g, nextTrackId + 1 .. nextTrackId')
      /\ \A id \in issued[g] :
           /\ Update(g, FinishCurrent(p, id)) => Lost(g, {id} \intersect {p.now})
           /\ Update(g, CompleteCurrent(p, id))
                => IF p.loop = "Off" THEN Lost(g, {id} \intersect {p.now})
                                     ELSE Kept(g)
      /\ \A previous \in issued[g], current \in issued[g] \union {NoTrack} :
           Update(g, Rewind(p, current, previous)) => Gained(g, {previous})
      /\ Clear(g) => \A t \in 1 .. MaxTracks : Copies(players'[g], t) = 0
      /\ HistoryPush(g) \/ HistoryPop(g) => Kept(g)
      /\ (\E h \in Guilds \ {g} : players'[h] # players[h]) => Kept(g)

(* Nothing is lost or doubled: how often a player shows each track after   *)
(* an operation is how often it did before, but for what the operation is  *)
(* there to add or to take.  A move, a shuffle, a promotion and a change   *)
(* of the loop mode keep every track; a removal takes the one track at its *)
(* index; a /play or a /playlist adds its new tracks, once each; the end   *)
(* of a track takes that track, and completion does so only with the loop  *)
(* off; /previous adds the previous track and keeps the one it interrupts; *)
(* a clear takes them all; and a step for one guild, or one on a history,  *)
(* leaves the tracks of the others alone.                                  *)
TracksKept == [][\A g \in Guilds : TracksAccounted(g)]_vars
==============================================================================
