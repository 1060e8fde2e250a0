--------------------------- MODULE VoiceWorkerProofs ---------------------------
(***************************************************************************)
(* What the worker's playback loop promises for every number of tracks,    *)
(* every length of a track, every channel capacity and every sequence of   *)
(* commands.                                                               *)
(*                                                                         *)
(* Part 1: the inductive invariant.  The properties of VoiceWorker are not *)
(* inductive by themselves: that the frames in the channel carry on where  *)
(* the playback is needs that a channel holds frames first and at most one *)
(* last event after them, and that the player and the worker agree on the  *)
(* current track needs what the worker keeps in its locals between the two *)
(* halves of a handler.  Part 2: the invariants and the action property.   *)
(* Part 3: VoiceWorker implements Jukebox.                                 *)
(***************************************************************************)
EXTENDS VoiceWorker, GuildPlayerProofs, FiniteSetTheorems

------------------------------------------------------------------------------
(* Part 1: the invariant *)

Issued == 1 .. nextTrackId

PlaybackOf(T) ==
  [track : T \union {NoTrack}, position : Positions, paused : BOOLEAN,
   speaking : BOOLEAN, task : {"resolving", "streaming", "over"},
   next : Positions, events : Seq(Events), gain : Volumes]

(* TypeOK, for the tracks that were issued so far. *)
Stored == player \in Player(Issued) /\ history \in Seq(Issued)

Counted ==
  /\ nextTrackId \in 0 .. MaxTracks /\ owed \in Nat
  /\ listed \in BOOLEAN /\ rewinds \in 0 .. MaxRewinds /\ sessions \in Nat

Local ==
  /\ at \in {"select", "rewind", "finish", "complete", "advance", "closing",
             "ended"}
  /\ job \in [id : Issued \union {NoTrack}, track : Issued \union {NoTrack},
              record : BOOLEAN]
  /\ active \in PlaybackOf(Issued)
  /\ speaking \in BOOLEAN /\ volume \in Volumes /\ armed \in BOOLEAN
  /\ reason \in {"none", "Requested", "IdleTimedOut", "VoiceFailed"}

HistoryBounded == Len(history) <= HistoryLimit

(* What the first half of a handler leaves for the second. *)
JobKept ==
  /\ at = "rewind" => history # << >> /\ job.track = Latest(history)
  /\ at \in {"finish", "complete"} =>
       job.id # NoTrack /\ (job.record => job.track = job.id \/ Cleared)

(* Nothing is left of a session that has ended. *)
EndedQuiet == at = "ended" => player.now = NoTrack /\ ~ speaking

(* The channel holds the frames from the position up to where the decoder  *)
(* is, and after them at most one other event, the decoder's last.         *)
Channel(playback, gain) ==
  LET ahead == playback.next - playback.position
  IN  /\ ahead \in Nat
      /\ Len(playback.events) \in {ahead, ahead + 1}
      /\ \A i \in 1 .. ahead :
           playback.events[i] = [kind |-> "Frame", at |-> playback.position + i - 1]
      /\ Len(playback.events) = ahead + 1 =>
           /\ playback.task = "over"
           /\ playback.events[ahead + 1].kind # "Frame"
           /\ playback.events[ahead + 1].kind = "Finished" =>
                playback.next = TrackFrames
      /\ playback.gain = gain

Buffered == Running /\ Playing => Channel(active, volume)

Shape == Stored /\ HistoryBounded /\ Counted /\ Local

IInv ==
  /\ Shape /\ JobKept /\ EndedQuiet /\ Buffered
  /\ SlotAgrees /\ SpeakingMirrored /\ IdleArmed

------------------------------------------------------------------------------
(* Values of a playback *)

LEMMA NoPlaybackType ==
  ASSUME NEW T
  PROVE  NoPlayback \in PlaybackOf(T)
<1>1. 0 \in Positions /\ FullVolume \in Volumes
  BY BoundAssumption DEF Positions
<1>2. << >> \in Seq(Events)
  OBVIOUS
<1> QED BY <1>1, <1>2 DEF NoPlayback, PlaybackOf

(* A decoder that has just been spawned has sent nothing. *)
LEMMA SpawnFits ==
  ASSUME NEW t, NEW start \in Positions, NEW paused, NEW gain
  PROVE  Channel(Spawn(t, start, paused, gain), gain)
<1>1. start \in Int /\ start - start = 0
  BY BoundAssumption DEF Positions
<1>2. Len(<< >>) = 0
  OBVIOUS
<1> QED BY <1>1, <1>2 DEF Spawn, Channel

(* One more event at the end of the channel. *)
LEMMA EmitFits ==
  ASSUME NEW T, NEW p \in PlaybackOf(T), NEW kind \in {"Frame", "Finished", "Failed"}
  PROVE  /\ Emit(p, kind) \in PlaybackOf(T)
         /\ Emit(p, kind) = [p EXCEPT !.events = Append(@, [kind |-> kind, at |-> p.next])]
         /\ Len(Emit(p, kind).events) = Len(p.events) + 1
         /\ \A i \in 1 .. Len(p.events) : Emit(p, kind).events[i] = p.events[i]
         /\ Emit(p, kind).events[Len(p.events) + 1] = [kind |-> kind, at |-> p.next]
<1>1. [kind |-> kind, at |-> p.next] \in Events
  BY DEF PlaybackOf, Events
<1>2. p.events \in Seq(Events)
  BY DEF PlaybackOf
<1>3. Emit(p, kind).events = Append(p.events, [kind |-> kind, at |-> p.next])
  BY DEF Emit, PlaybackOf
<1>4. Append(p.events, [kind |-> kind, at |-> p.next]) \in Seq(Events)
  BY <1>1, <1>2, AppendProperties
<1>5. Emit(p, kind) \in PlaybackOf(T)
  BY <1>4 DEF Emit, PlaybackOf
<1> QED BY <1>1, <1>2, <1>3, <1>5, AppendProperties DEF Emit

(* The decoder's next frame extends the channel; *)
LEMMA DecodeFits ==
  ASSUME NEW T, NEW p \in PlaybackOf(T), NEW gain, Channel(p, gain),
         p.task # "over", p.next < TrackFrames
  PROVE  /\ [Emit(p, "Frame") EXCEPT !.next = @ + 1] \in PlaybackOf(T)
         /\ Channel([Emit(p, "Frame") EXCEPT !.next = @ + 1], gain)
<1> DEFINE e == Emit(p, "Frame")
<1>0. /\ e \in PlaybackOf(T)
      /\ e = [p EXCEPT !.events = Append(@, [kind |-> "Frame", at |-> p.next])]
      /\ Len(e.events) = Len(p.events) + 1
      /\ \A i \in 1 .. Len(p.events) : e.events[i] = p.events[i]
      /\ e.events[Len(p.events) + 1] = [kind |-> "Frame", at |-> p.next]
  BY EmitFits
<1> HIDE DEF e
<1> DEFINE q == [e EXCEPT !.next = @ + 1]
<1>1. p.next \in 0 .. TrackFrames /\ p.position \in 0 .. TrackFrames
      /\ TrackFrames \in Nat
  BY BoundAssumption DEF PlaybackOf, Positions
<1>2. p.next + 1 \in Positions
  BY <1>1 DEF Positions
<1>3. /\ e \in PlaybackOf(T) /\ e.next = p.next /\ e.position = p.position
      /\ e.gain = p.gain /\ e.task = p.task
  BY <1>0 DEF PlaybackOf
<1>4. q \in PlaybackOf(T)
  BY <1>2, <1>3 DEF PlaybackOf
<1>5. /\ q.events = e.events /\ q.next = p.next + 1 /\ q.position = p.position
      /\ q.gain = p.gain /\ q.task = p.task
  BY <1>3 DEF PlaybackOf
<1>6. Len(p.events) = p.next - p.position /\ p.next - p.position \in Nat
  BY DEF Channel
<1>7. Len(q.events) = p.next - p.position + 1
  BY <1>0, <1>5, <1>6
<1>8. \A i \in 1 .. p.next - p.position :
        q.events[i] = [kind |-> "Frame", at |-> p.position + i - 1]
  BY <1>0, <1>5, <1>6 DEF Channel
<1>9. q.events[p.next - p.position + 1] = [kind |-> "Frame", at |-> p.next]
  BY <1>0, <1>5, <1>6
<1>10. q.next - q.position = p.next - p.position + 1
  BY <1>1, <1>5
<1>11. ASSUME NEW i \in 1 .. q.next - q.position
       PROVE  q.events[i] = [kind |-> "Frame", at |-> q.position + i - 1]
  <2>1. CASE i \in 1 .. p.next - p.position
    BY <1>5, <1>8, <2>1
  <2>2. CASE i = p.next - p.position + 1
    <3>1. q.position + i - 1 = p.next
      BY <1>1, <1>5, <2>2
    <3> QED BY <1>9, <2>2, <3>1
  <2> QED BY <1>1, <1>6, <1>10, <2>1, <2>2
<1>12. q.gain = gain
  BY <1>5 DEF Channel
<1> HIDE DEF q
<1>13. Channel(q, gain)
  BY <1>6, <1>7, <1>10, <1>11, <1>12 DEF Channel
<1> QED BY <1>4, <1>13 DEF q, e

(* so does its last event. *)
LEMMA LastEventFits ==
  ASSUME NEW T, NEW p \in PlaybackOf(T), NEW gain, Channel(p, gain),
         p.task # "over", NEW kind \in {"Finished", "Failed"},
         kind = "Finished" => p.next = TrackFrames
  PROVE  /\ [Emit(p, kind) EXCEPT !.task = "over"] \in PlaybackOf(T)
         /\ Channel([Emit(p, kind) EXCEPT !.task = "over"], gain)
<1> DEFINE e == Emit(p, kind)
<1>0. /\ e \in PlaybackOf(T)
      /\ e = [p EXCEPT !.events = Append(@, [kind |-> kind, at |-> p.next])]
      /\ Len(e.events) = Len(p.events) + 1
      /\ \A i \in 1 .. Len(p.events) : e.events[i] = p.events[i]
      /\ e.events[Len(p.events) + 1] = [kind |-> kind, at |-> p.next]
  <2>1. kind \in {"Frame", "Finished", "Failed"}
    OBVIOUS
  <2> QED BY <2>1, EmitFits
<1> HIDE DEF e
<1> DEFINE q == [e EXCEPT !.task = "over"]
<1>1. /\ q.events = e.events /\ q.next = p.next /\ q.position = p.position
      /\ q.gain = p.gain /\ q.task = "over"
  BY <1>0 DEF PlaybackOf
<1>2. Len(p.events) = p.next - p.position /\ p.next - p.position \in Nat
  BY DEF Channel
<1>3. Len(q.events) = p.next - p.position + 1
  BY <1>0, <1>1, <1>2
<1>4. \A i \in 1 .. p.next - p.position :
        q.events[i] = [kind |-> "Frame", at |-> p.position + i - 1]
  BY <1>0, <1>1, <1>2 DEF Channel
<1>5. q.events[p.next - p.position + 1] = [kind |-> kind, at |-> p.next]
  BY <1>0, <1>1, <1>2
<1>6. p.gain = gain
  BY DEF Channel
<1> HIDE DEF q
<1>7. Channel(q, gain)
  BY <1>1, <1>2, <1>3, <1>4, <1>5, <1>6 DEF Channel
<1>8. q \in PlaybackOf(T)
  BY <1>0 DEF PlaybackOf, q
<1> QED BY <1>7, <1>8 DEF q, e

(* A frame that is sent on leaves the channel, and the position counts it. *)
LEMMA SendFits ==
  ASSUME NEW T, NEW p \in PlaybackOf(T), NEW gain, Channel(p, gain),
         p.events # << >>, Head(p.events).kind = "Frame"
  PROVE  LET q == [p EXCEPT !.speaking = TRUE, !.position = @ + 1,
                            !.events = Tail(@)]
         IN  q \in PlaybackOf(T) /\ Channel(q, gain)
<1> DEFINE q == [p EXCEPT !.speaking = TRUE, !.position = @ + 1,
                          !.events = Tail(@)]
<1> DEFINE ahead == p.next - p.position
<1>1. p.next \in 0 .. TrackFrames /\ p.position \in 0 .. TrackFrames
      /\ TrackFrames \in Nat
  BY BoundAssumption DEF PlaybackOf, Positions
<1>2. p.events \in Seq(Events)
  BY DEF PlaybackOf
<1>3. Tail(p.events) \in Seq(Events) /\ Len(Tail(p.events)) = Len(p.events) - 1
      /\ \A i \in 1 .. Len(p.events) - 1 : Tail(p.events)[i] = p.events[i + 1]
  BY <1>2, HeadTailProperties
<1>4. Head(p.events) = p.events[1] /\ Len(p.events) >= 1
  BY <1>2, EmptySeq
<1>5. ahead \in Nat /\ Len(p.events) \in {ahead, ahead + 1}
  BY DEF Channel
<1>6. ahead >= 1
  <2>1. CASE ahead = 0
    <3>1. p.events[ahead + 1].kind # "Frame"
      BY <1>4, <1>5, <2>1 DEF Channel
    <3> QED BY <1>4, <2>1, <3>1
  <2> QED BY <1>5, <2>1
<1>7. p.position + 1 \in Positions
  BY <1>1, <1>6 DEF Positions
<1>8. q \in PlaybackOf(T)
  BY <1>3, <1>7 DEF PlaybackOf
<1>9. /\ q.events = Tail(p.events) /\ q.next = p.next
      /\ q.position = p.position + 1 /\ q.gain = p.gain /\ q.task = p.task
  BY DEF PlaybackOf
<1>10. q.next - q.position = ahead - 1
  BY <1>1, <1>9
<1>11. ASSUME NEW i \in 1 .. ahead - 1
       PROVE  q.events[i] = [kind |-> "Frame", at |-> q.position + i - 1]
  <2>1. i + 1 \in 1 .. ahead /\ i \in 1 .. Len(p.events) - 1
    <3> DEFINE length == Len(p.events)
    <3>1. ahead \in Nat /\ (length = ahead \/ length = ahead + 1)
      BY <1>5
    <3> HIDE DEF ahead, length
    <3>2. i \in Nat /\ 1 <= i /\ i <= ahead - 1
      BY <3>1
    <3>3. i + 1 \in 1 .. ahead
      BY <3>1, <3>2
    <3>4. i \in 1 .. length - 1
      BY <3>1, <3>2
    <3> QED BY <3>3, <3>4 DEF length
  <2>2. p.events[i + 1] = [kind |-> "Frame", at |-> p.position + (i + 1) - 1]
    BY <2>1 DEF Channel
  <2>3. q.position + i - 1 = p.position + (i + 1) - 1
    BY <1>1, <1>9
  <2> QED BY <1>3, <1>9, <2>1, <2>2, <2>3
<1>12. Len(q.events) \in {ahead - 1, ahead}
  BY <1>3, <1>5, <1>6, <1>9
<1>13. ASSUME Len(q.events) = ahead
       PROVE  /\ Len(p.events) = ahead + 1
              /\ q.events[ahead] = p.events[ahead + 1]
  <2>1. Len(p.events) = ahead + 1
    BY <1>3, <1>5, <1>6, <1>9, <1>13
  <2> QED BY <1>3, <1>5, <1>6, <1>9, <2>1
<1>14. p.gain = gain
  BY DEF Channel
<1>15. Len(q.events) = ahead =>
        /\ q.task = "over" /\ q.events[ahead].kind # "Frame"
        /\ q.events[ahead].kind = "Finished" => q.next = TrackFrames
  BY <1>9, <1>13 DEF Channel
<1> HIDE DEF q
<1>16. Channel(q, gain)
  <2> DEFINE n == ahead - 1
  <2>1. n \in Nat /\ n + 1 = ahead /\ q.next - q.position = n
    BY <1>5, <1>6, <1>10
  <2>2. Len(q.events) \in {n, n + 1}
    BY <1>12, <2>1
  <2>3. \A i \in 1 .. n :
          q.events[i] = [kind |-> "Frame", at |-> q.position + i - 1]
    BY <1>11
  <2> HIDE DEF n, ahead
  <2> QED BY <1>9, <1>14, <1>15, <2>1, <2>2, <2>3 DEF Channel
<1> QED BY <1>8, <1>16 DEF q

------------------------------------------------------------------------------
(* Steps that several actions share *)

LEMMA InitIInv == Init => IInv
<1> SUFFICES ASSUME Init PROVE IInv
  OBVIOUS
<1>1. Issued = 1 .. 0 /\ 0 \in 0 .. MaxTracks /\ 0 \in 0 .. MaxRewinds
  BY BoundAssumption DEF Init, Issued
<1>2. DefaultPlayer \in Player(Issued) /\ << >> \in Seq(Issued)
  BY DEF DefaultPlayer, Player, LoopModes
<1>3. Stored /\ Counted
  BY <1>1, <1>2 DEF Init, Stored, Counted
<1>4. HistoryBounded
  BY BoundAssumption DEF Init, HistoryBounded
<1>5. Local
  BY NoPlaybackType, BoundAssumption DEF Init, Local, NoJob
<1>6. JobKept /\ EndedQuiet
  BY DEF Init, JobKept, EndedQuiet
<1>7. ~ Playing /\ player.now = NoTrack /\ active.track = NoTrack
      /\ ~ active.speaking /\ ~ active.paused
  BY DEF Init, Playing, NoPlayback, DefaultPlayer
<1>8. Buffered /\ SlotAgrees /\ SpeakingMirrored /\ IdleArmed
  BY <1>7 DEF Init, Buffered, SlotAgrees, SpeakingMirrored, IdleArmed
<1> QED BY <1>3, <1>4, <1>5, <1>6, <1>8 DEF IInv, Shape

(* Nothing else of the state is involved in how the queue changes. *)
LEMMA EditKeeps ==
  ASSUME IInv, NEW p \in Player(Issued), Edit(p),
         p.now = player.now \/ (~ listed /\ p.now = NoTrack)
  PROVE  IInv'
<1>1. Shape'
  BY DEF IInv, Shape, Stored, HistoryBounded, Counted, Local, Edit, commands,
         bounds, Issued
<1>2. JobKept' /\ EndedQuiet'
  BY DEF IInv, JobKept, EndedQuiet, Cleared, Edit, bounds
<1>3. Buffered'
  BY DEF IInv, Buffered, Running, Playing, Edit
<1>4. SlotAgrees' /\ SpeakingMirrored' /\ IdleArmed'
  BY DEF IInv, SlotAgrees, Cleared, SpeakingMirrored, IdleArmed, Running, Playing,
         Edit, bounds
<1> QED BY <1>1, <1>2, <1>3, <1>4 DEF IInv

(* A step of the decoder changes the playback's channel and task only. *)
LEMMA DecoderStepKeeps ==
  ASSUME IInv, Playing, NEW q \in PlaybackOf(Issued), DecoderStep(q),
         q.track = active.track, q.paused = active.paused,
         q.speaking = active.speaking,
         Running => Channel(q, volume)
  PROVE  IInv'
<1>1. Shape'
  BY DEF IInv, Shape, Stored, HistoryBounded, Counted, Local, DecoderStep, stores,
         commands, bounds, Issued
<1>2. JobKept' /\ EndedQuiet'
  BY DEF IInv, JobKept, EndedQuiet, Cleared, DecoderStep, stores, bounds
<1>3. Buffered'
  BY DEF Buffered, Running, DecoderStep
<1>4. SlotAgrees' /\ SpeakingMirrored' /\ IdleArmed'
  BY DEF IInv, SlotAgrees, Cleared, SpeakingMirrored, IdleArmed, Running, Playing,
         DecoderStep, stores, bounds
<1> QED BY <1>1, <1>2, <1>3, <1>4 DEF IInv

(* The active playback is dropped, with or without the session being told. *)
LEMMA CancelledKeeps ==
  ASSUME IInv, at = "select", NEW next \in {"rewind", "finish", "complete"},
         Cancelled(next),
         UNCHANGED << stores, commands, volume, listed, sessions >>,
         rewinds' \in 0 .. MaxRewinds,
         job' \in [id : Issued \union {NoTrack}, track : Issued \union {NoTrack},
                   record : BOOLEAN],
         job'.id = player.now \/ Cleared,
         next = "rewind" => history # << >> /\ job'.track = Latest(history),
         next \in {"finish", "complete"} =>
           job'.id # NoTrack /\ (job'.record => job'.track = job'.id \/ Cleared)
  PROVE  IInv'
<1>1. active' \in PlaybackOf(Issued) /\ ~ Playing' /\ ~ active'.paused
      /\ ~ active'.speaking
  BY NoPlaybackType DEF Cancelled, Playing, NoPlayback
<1>2. at' \in {next, "closing"}
      /\ (at' = next => UNCHANGED << armed, reason >>
                        /\ speaking' = (speaking /\ ~ active.speaking))
      /\ (at' = "closing" => UNCHANGED << armed, speaking >> /\ reason' = "VoiceFailed")
  BY DEF Cancelled, Break
<1>3. Shape'
  BY <1>1, <1>2 DEF IInv, Shape, Stored, HistoryBounded, Counted, Local, stores,
         commands, Issued
<1>4. JobKept' /\ EndedQuiet'
  BY <1>2 DEF IInv, JobKept, EndedQuiet, Cleared, stores
<1>5. Buffered'
  BY <1>1 DEF Buffered
<1>6. SlotAgrees'
  BY <1>1, <1>2 DEF IInv, SlotAgrees, Cleared, stores
<1>7. SpeakingMirrored'
  BY <1>1, <1>2 DEF IInv, SpeakingMirrored, Running, Playing
<1>8. IdleArmed'
  BY <1>2 DEF IdleArmed
<1> QED BY <1>3, <1>4, <1>5, <1>6, <1>7, <1>8 DEF IInv

(* The active playback is replaced by one of the same track, or dropped. *)
LEMMA RespawnedKeeps ==
  ASSUME IInv, at = "select", Playing, NEW start \in Positions,
         volume' \in Volumes, Respawned(start, volume'),
         UNCHANGED << stores, commands, job, bounds >>
  PROVE  IInv'
<1> DEFINE q == Spawn(active.track, start, active.paused, volume')
<1>1. /\ active.track \in Issued \union {NoTrack} /\ active.paused \in BOOLEAN
      /\ speaking = active.speaking /\ (player.now = active.track \/ Cleared)
  BY DEF IInv, Shape, Local, PlaybackOf, SpeakingMirrored, SlotAgrees, Running
<1>2. /\ q \in PlaybackOf(Issued) /\ q.track = active.track
      /\ q.paused = active.paused /\ q.speaking = FALSE
  BY <1>1 DEF Spawn, PlaybackOf
<1>11. Channel(q, volume')
  BY SpawnFits
<1>3. \/ /\ active' = q /\ speaking' = FALSE /\ at' = "select"
         /\ armed' = (active'.track = NoTrack) /\ UNCHANGED reason
      \/ /\ active' = NoPlayback /\ UNCHANGED << speaking, armed >>
         /\ at' = "closing" /\ reason' = "VoiceFailed"
  BY <1>1 DEF Respawned, EndTurn, Break
<1> HIDE DEF q
<1>4. active' \in PlaybackOf(Issued)
  BY <1>2, <1>3, NoPlaybackType
<1>5. Shape'
  BY <1>3, <1>4 DEF IInv, Shape, Stored, HistoryBounded, Counted, Local, stores,
         commands, bounds, Issued
<1>6. JobKept' /\ EndedQuiet'
  BY <1>3 DEF JobKept, EndedQuiet
<1>7. Buffered'
  BY <1>3, <1>11 DEF Buffered, Running
<1>8. SlotAgrees'
  BY <1>1, <1>2, <1>3 DEF SlotAgrees, Cleared, stores, bounds
<1>9. SpeakingMirrored'
  BY <1>2, <1>3 DEF SpeakingMirrored, Running, Playing
<1>10. IdleArmed'
  BY <1>3 DEF IdleArmed, Playing
<1> QED BY <1>5, <1>6, <1>7, <1>8, <1>9, <1>10 DEF IInv

(* start_next_playback, at the end of a turn: the head of the queue is the *)
(* current track of the player and of the worker, or nothing is.           *)
LEMMA StartNextKeeps ==
  ASSUME IInv, at \in {"select", "advance"}, ~ Playing, StartNextPlayback,
         EndTurn, owed' \in Nat,
         UNCHANGED << history, nextTrackId, job, speaking, volume, bounds >>
  PROVE  IInv'
<1>1. /\ player \in Player(Issued) /\ player.now = NoTrack /\ volume \in Volumes
      /\ speaking = FALSE
  BY DEF IInv, Shape, Stored, Local, SlotAgrees, Cleared, Playing, SpeakingMirrored,
         Running
<1>2. player' \in Player(Issued)
  BY <1>1, HeadTailProperties DEF StartNextPlayback, StartNext, Player
<1>3. /\ active' \in PlaybackOf(Issued) /\ player'.now = active'.track
      /\ ~ active'.speaking /\ ~ active'.paused
      /\ active'.track # NoTrack => Channel(active', volume)
  <2>1. CASE player.queue # << >>
    <3>1. Head(player.queue) \in Issued
      BY <1>1, <2>1, HeadTailProperties DEF Player
    <3>2. 0 \in Positions
      BY BoundAssumption DEF Positions
    <3>3. active' = Spawn(Head(player.queue), 0, FALSE, volume)
      BY <1>1, <2>1 DEF StartNextPlayback
    <3>4. player'.now = Head(player.queue)
      BY <1>1, <2>1 DEF StartNextPlayback, StartNext, Player
    <3>5. /\ active' \in PlaybackOf(Issued)
          /\ active'.track = Head(player.queue)
          /\ active'.paused = FALSE /\ active'.speaking = FALSE
      BY <1>1, <3>1, <3>2, <3>3 DEF Spawn, PlaybackOf
    <3>6. Channel(active', volume)
      BY <3>2, <3>3, SpawnFits
    <3> QED BY <3>4, <3>5, <3>6
  <2>2. CASE player.queue = << >>
    <3>1. active' = NoPlayback /\ player' = player
      BY <2>2 DEF StartNextPlayback, StartNext
    <3> QED BY <1>1, <3>1, NoPlaybackType DEF NoPlayback
  <2> QED BY <2>1, <2>2
<1>4. Shape'
  BY <1>2, <1>3 DEF IInv, Shape, Stored, HistoryBounded, Counted, Local, bounds,
         Issued, EndTurn
<1>5. JobKept' /\ EndedQuiet'
  BY DEF JobKept, EndedQuiet, EndTurn
<1>6. Buffered'
  BY <1>3 DEF Buffered, Playing
<1>7. SlotAgrees'
  BY <1>3 DEF SlotAgrees, EndTurn
<1>9. IdleArmed'
  BY DEF IdleArmed, EndTurn, Playing
<1>8. SpeakingMirrored'
  BY <1>1, <1>3 DEF SpeakingMirrored
<1> QED BY <1>4, <1>5, <1>6, <1>7, <1>8, <1>9 DEF IInv

------------------------------------------------------------------------------
(* One lemma per action, or per group of actions of one actor *)

LEMMA EnqueueTrackKeeps == ASSUME IInv, EnqueueTrack PROVE IInv'
<1> DEFINE id == nextTrackId + 1
<1>1. /\ nextTrackId' = id /\ id \in 1 .. MaxTracks /\ nextTrackId \in Nat
      /\ owed' \in Nat
  BY BoundAssumption DEF EnqueueTrack, IInv, Shape, Counted
<1>2. Issued \subseteq Issued' /\ id \in Issued'
  BY <1>1 DEF Issued
<1>3. player \in Player(Issued') /\ history \in Seq(Issued')
  BY <1>2, SeqMonotonic DEF IInv, Shape, Stored, Player
<1>4. player' \in Player(Issued') /\ player'.now = player.now
  <2>1. player' = Enqueue(player, id)
    BY <1>1 DEF EnqueueTrack
  <2> HIDE DEF id
  <2> QED BY <1>2, <1>3, <2>1, QueueOpsType, NowUntouched
<1>5. Stored' /\ HistoryBounded'
  BY <1>3, <1>4 DEF IInv, Shape, HistoryBounded, Stored, EnqueueTrack
<1>6. Counted'
  BY <1>1 DEF IInv, Shape, Counted, EnqueueTrack, bounds
<1>7. Local'
  BY <1>2 DEF IInv, Shape, Local, PlaybackOf, EnqueueTrack
<1>8. JobKept' /\ EndedQuiet' /\ Buffered'
  BY <1>4 DEF IInv, JobKept, EndedQuiet, Cleared, Buffered, Running, Playing,
              EnqueueTrack, bounds
<1>9. SlotAgrees' /\ SpeakingMirrored' /\ IdleArmed'
  BY <1>4 DEF IInv, SlotAgrees, Cleared, SpeakingMirrored, IdleArmed, Running,
              Playing, EnqueueTrack, bounds
<1> QED BY <1>5, <1>6, <1>7, <1>8, <1>9 DEF IInv, Shape

LEMMA LoseWakeKeeps == ASSUME IInv, LoseWake PROVE IInv'
<1>1. Shape'
  BY DEF IInv, Shape, Stored, HistoryBounded, Counted, Local, LoseWake, stores,
         bounds, Issued
<1>2. JobKept' /\ EndedQuiet' /\ Buffered'
  BY DEF IInv, JobKept, EndedQuiet, Cleared, Buffered, Running, Playing, LoseWake,
         stores, bounds
<1>3. SlotAgrees' /\ SpeakingMirrored' /\ IdleArmed'
  BY DEF IInv, SlotAgrees, Cleared, SpeakingMirrored, IdleArmed, Running, Playing,
         LoseWake, stores, bounds
<1> QED BY <1>1, <1>2, <1>3 DEF IInv

(* A worker that is let go of may find less in the player, not more. *)
LEMMA UnlistKeeps == ASSUME IInv, Unlist PROVE IInv'
<1>1. Shape'
  BY DEF IInv, Shape, Stored, HistoryBounded, Counted, Local, Unlist, stores,
         commands, Issued
<1>2. JobKept' /\ EndedQuiet' /\ Buffered'
  BY DEF IInv, JobKept, EndedQuiet, Cleared, Buffered, Running, Playing, Unlist,
         stores
<1>3. SlotAgrees' /\ SpeakingMirrored' /\ IdleArmed'
  BY DEF IInv, SlotAgrees, Cleared, SpeakingMirrored, IdleArmed, Running, Playing,
         Unlist, stores
<1> QED BY <1>1, <1>2, <1>3 DEF IInv

LEMMA EditQueueKeeps == ASSUME IInv, EditQueue \/ ClearUnlisted PROVE IInv'
<1>1. player \in Player(Issued)
  BY DEF IInv, Shape, Stored
<1>2. ASSUME NEW i \in DOMAIN player.queue
      PROVE  i \in 1 .. Len(player.queue) /\ i - 1 \in Nat /\ i - 1 \in Int
  <2>1. DOMAIN player.queue = 1 .. Len(player.queue) /\ Len(player.queue) \in Nat
    BY <1>1, LenProperties DEF Player
  <2> QED BY <2>1
<1>3. ASSUME NEW i \in DOMAIN player.queue, Edit(RemoveQueued(player, i - 1))
      PROVE  IInv'
  BY <1>1, <1>2, <1>3, RemoveQueuedType, NowUntouched, EditKeeps
<1>4. ASSUME NEW i \in DOMAIN player.queue, NEW j \in DOMAIN player.queue,
             Edit(MoveQueued(player, i - 1, j - 1))
      PROVE  IInv'
  BY <1>1, <1>2, <1>4, MoveQueuedType, NowUntouched, EditKeeps
<1>5. ASSUME NEW p \in Shuffled(player), Edit(p)
      PROVE  IInv'
  BY <1>1, <1>5, ShuffledType, NowUntouched, EditKeeps
<1>6. ASSUME NEW mode \in LoopModes, Edit(SetLoopMode(player, mode))
      PROVE  IInv'
  <2>1. SetLoopMode(player, mode) \in Player(Issued)
    BY <1>1 DEF SetLoopMode, Player
  <2> QED BY <1>1, <1>6, <2>1, NowUntouched, EditKeeps
<1>7. CASE ClearUnlisted
  <2>1. DefaultPlayer \in Player(Issued) /\ DefaultPlayer.now = NoTrack
    BY DEF DefaultPlayer, Player, LoopModes
  <2> QED BY <1>7, <2>1, EditKeeps DEF ClearUnlisted
<1> QED BY <1>3, <1>4, <1>5, <1>6, <1>7 DEF EditQueue

LEMMA DecoderKeeps ==
  ASSUME IInv, Resolve \/ Decode \/ DecoderDies PROVE IInv'
<1>1. Playing /\ active \in PlaybackOf(Issued) /\ active.task # "over"
  BY DEF IInv, Shape, Local, Resolve, Decode, DecoderDies
<1>2. Running => Channel(active, volume)
  BY <1>1 DEF IInv, Buffered
<1>3. ASSUME NEW how \in {"streaming", "over"},
             DecoderStep([active EXCEPT !.task = how])
      PROVE  IInv'
  <2> DEFINE q == [active EXCEPT !.task = how]
  <2>1. q \in PlaybackOf(Issued)
    BY <1>1 DEF PlaybackOf
  <2>2. /\ q.track = active.track /\ q.paused = active.paused
        /\ q.speaking = active.speaking /\ q.next = active.next
        /\ q.position = active.position /\ q.events = active.events
        /\ q.gain = active.gain /\ q.task = how
    BY <1>1 DEF PlaybackOf
  <2> HIDE DEF q
  <2>3. Running => Channel(q, volume)
    BY <1>1, <1>2, <2>2 DEF Channel
  <2> QED BY <1>1, <1>3, <2>1, <2>2, <2>3, DecoderStepKeeps DEF q
<1>4. ASSUME NEW kind \in {"Finished", "Failed"},
             kind = "Finished" => active.next = TrackFrames,
             DecoderStep([Emit(active, kind) EXCEPT !.task = "over"])
      PROVE  IInv'
  <2> DEFINE e == Emit(active, kind)
  <2> DEFINE q == [e EXCEPT !.task = "over"]
  <2>0. e \in PlaybackOf(Issued) /\ e.next = active.next
    <3>1. kind \in {"Frame", "Finished", "Failed"}
      OBVIOUS
    <3> QED BY <1>1, <3>1, EmitFits DEF Emit, PlaybackOf
  <2>1. q \in PlaybackOf(Issued)
    <3> HIDE DEF e
    <3> QED BY <2>0 DEF PlaybackOf
  <2>2. Running => Channel(q, volume)
    BY <1>1, <1>2, <1>4, LastEventFits
  <2>3. /\ q.track = active.track /\ q.paused = active.paused
        /\ q.speaking = active.speaking
    BY <1>1 DEF Emit, PlaybackOf
  <2> HIDE DEF q
  <2> QED BY <1>1, <1>4, <2>1, <2>2, <2>3, DecoderStepKeeps DEF q
<1>5. ASSUME active.next < TrackFrames,
             DecoderStep([Emit(active, "Frame") EXCEPT !.next = @ + 1])
      PROVE  IInv'
  <2> DEFINE e == Emit(active, "Frame")
  <2> DEFINE q == [e EXCEPT !.next = @ + 1]
  <2>0. e \in PlaybackOf(Issued) /\ e.next = active.next
    <3>1. "Frame" \in {"Frame", "Finished", "Failed"}
      OBVIOUS
    <3> QED BY <1>1, <3>1, EmitFits DEF Emit, PlaybackOf
  <2>1. active.next + 1 \in Positions
    BY <1>1, <1>5, BoundAssumption DEF PlaybackOf, Positions
  <2>2. q \in PlaybackOf(Issued)
    <3> HIDE DEF e
    <3> QED BY <2>1, <2>0 DEF PlaybackOf
  <2>3. Running => Channel(q, volume)
    BY <1>1, <1>2, <1>5, DecodeFits
  <2>4. /\ q.track = active.track /\ q.paused = active.paused
        /\ q.speaking = active.speaking
    BY <1>1 DEF Emit, PlaybackOf
  <2> HIDE DEF q
  <2> QED BY <1>1, <1>5, <2>2, <2>3, <2>4, DecoderStepKeeps DEF q
<1>6. active.next >= TrackFrames => active.next = TrackFrames
  BY <1>1, BoundAssumption DEF PlaybackOf, Positions
<1>7. CASE Resolve
  BY <1>3, <1>4, <1>7 DEF Resolve
<1>8. CASE Decode
  BY <1>4, <1>5, <1>6, <1>8 DEF Decode
<1>9. CASE DecoderDies
  BY <1>3, <1>9 DEF DecoderDies
<1> QED BY <1>7, <1>8, <1>9

LEMMA WakeKeeps == ASSUME IInv, Wake PROVE IInv'
<1>1. owed' \in Nat
  BY DEF IInv, Shape, Counted, Wake
<1>2. CASE Playing
  <2>1. /\ UNCHANGED << player, active, history, nextTrackId, job, speaking,
                        volume, bounds, reason >>
        /\ at = "select" /\ at' = "select" /\ armed' = FALSE
    BY <1>2 DEF Wake, EndTurn, Playing
  <2>2. Shape'
    BY <1>1, <2>1 DEF IInv, Shape, Stored, HistoryBounded, Counted, Local, bounds,
                      Issued
  <2>3. JobKept' /\ EndedQuiet' /\ Buffered'
    BY <2>1 DEF IInv, JobKept, EndedQuiet, Cleared, Buffered, Running, Playing,
                bounds
  <2>4. SlotAgrees' /\ SpeakingMirrored' /\ IdleArmed'
    BY <1>2, <2>1 DEF IInv, SlotAgrees, Cleared, SpeakingMirrored, IdleArmed, Running,
                      Playing, bounds
  <2> QED BY <2>2, <2>3, <2>4 DEF IInv
<1>3. CASE ~ Playing
  BY <1>1, <1>3, StartNextKeeps DEF Wake
<1> QED BY <1>2, <1>3

LEMMA PreviousKeeps == ASSUME IInv, Previous PROVE IInv'
<1>1. /\ player.now \in Issued \union {NoTrack} /\ history \in Seq(Issued)
      /\ rewinds \in Nat /\ MaxRewinds \in Nat
  BY BoundAssumption DEF IInv, Shape, Stored, Counted, Player
<1>2. Latest(history) \in Issued \union {NoTrack}
  BY <1>1, LatestType
<1>3. /\ job' = [id |-> player.now, track |-> Latest(history), record |-> FALSE]
      /\ rewinds' \in 0 .. MaxRewinds /\ history # << >>
      /\ at = "select" /\ Cancelled("rewind")
      /\ UNCHANGED << stores, commands, volume, listed, sessions >>
  BY <1>1 DEF Previous
<1>4. job' \in [id : Issued \union {NoTrack}, track : Issued \union {NoTrack},
                record : BOOLEAN]
  BY <1>1, <1>2, <1>3
<1>5. job'.id = player.now /\ job'.track = Latest(history)
  BY <1>3
<1> QED BY <1>3, <1>4, <1>5, CancelledKeeps

(* A skip, and the two ways a track ends by itself. *)
LEMMA GivingUpKeeps ==
  ASSUME IInv, Skip \/ TrackEnds \/ TrackFails PROVE IInv'
<1>1. /\ at = "select" /\ Playing /\ (player.now = active.track \/ Cleared)
      /\ active.track \in Issued /\ player.now \in Issued \union {NoTrack}
  BY DEF IInv, Shape, Stored, Local, Player, PlaybackOf, SlotAgrees, Skip, TrackEnds,
         TrackFails, Receives, Receiving, Playing
<1>2. rewinds' \in 0 .. MaxRewinds
      /\ UNCHANGED << stores, commands, volume, listed, sessions >>
  BY DEF IInv, Shape, Counted, Skip, TrackEnds, TrackFails, bounds
<1>3. PICK record \in BOOLEAN, track \in {player.now, NoTrack} :
        /\ job' = [id |-> active.track, track |-> track, record |-> record]
        /\ record => track = player.now
        /\ Cancelled("finish") \/ Cancelled("complete")
  <2>1. CASE Skip
    BY <1>1, <2>1 DEF Skip
  <2>2. CASE TrackEnds
    BY <1>1, <2>2 DEF TrackEnds
  <2>3. CASE TrackFails
    BY <1>1, <2>3 DEF TrackFails
  <2> QED BY <2>1, <2>2, <2>3
<1>4. job' \in [id : Issued \union {NoTrack}, track : Issued \union {NoTrack},
                record : BOOLEAN]
  BY <1>1, <1>3
<1>5. (job'.id = player.now \/ Cleared) /\ job'.id # NoTrack
      /\ (job'.record => job'.track = job'.id \/ Cleared)
  BY <1>1, <1>3 DEF Playing
<1> QED BY <1>1, <1>2, <1>3, <1>4, <1>5, CancelledKeeps

LEMMA SeekKeeps == ASSUME IInv, Seek PROVE IInv'
<1>1. PICK start \in Positions : Respawned(start, volume')
  BY DEF Seek
<1>2. volume' \in Volumes
  BY DEF IInv, Shape, Local, Seek
<1> QED BY <1>1, <1>2, RespawnedKeeps DEF Seek

LEMMA VolumeKeeps == ASSUME IInv, Volume PROVE IInv'
<1>1. CASE Playing
  <2>1. active.position \in Positions
    BY DEF IInv, Shape, Local, PlaybackOf
  <2> QED BY <1>1, <2>1, RespawnedKeeps DEF Volume
<1>2. CASE ~ Playing
  <2>1. /\ UNCHANGED << stores, commands, job, bounds, active, speaking, reason >>
        /\ at = "select" /\ at' = "select" /\ armed' = TRUE /\ volume' \in Volumes
    BY <1>2 DEF Volume, EndTurn, Playing
  <2>2. Shape'
    BY <2>1 DEF IInv, Shape, Stored, HistoryBounded, Counted, Local, bounds, stores,
                commands, Issued
  <2>3. JobKept' /\ EndedQuiet' /\ Buffered'
    BY <1>2, <2>1 DEF JobKept, EndedQuiet, Buffered, Playing
  <2>4. SlotAgrees' /\ SpeakingMirrored' /\ IdleArmed'
    BY <1>2, <2>1 DEF IInv, SlotAgrees, Cleared, SpeakingMirrored, IdleArmed, Running,
                      Playing, stores, bounds
  <2> QED BY <2>2, <2>3, <2>4 DEF IInv
<1> QED BY <1>1, <1>2

(* A pause or a resumption leaves the channel alone. *)
LEMMA PauseResumeKeeps == ASSUME IInv, Pause \/ Resume PROVE IInv'
<1>1. /\ active \in PlaybackOf(Issued) /\ Playing /\ Channel(active, volume)
      /\ speaking = active.speaking /\ (active.paused => speaking = FALSE)
      /\ (player.now = active.track \/ Cleared) /\ at = "select" /\ armed = FALSE
  BY DEF IInv, Shape, Local, PlaybackOf, Buffered, SlotAgrees, SpeakingMirrored,
         IdleArmed, Running, Pause, Resume
<1>2. UNCHANGED << stores, commands, job, volume, bounds >>
  BY DEF Pause, Resume
<1>3. /\ active' \in PlaybackOf(Issued) /\ active'.track = active.track
      /\ active'.events = active.events /\ active'.next = active.next
      /\ active'.position = active.position /\ active'.gain = active.gain
      /\ active'.task = active.task
  BY <1>1 DEF Pause, Resume, PlaybackOf
<1>4. \/ /\ at' = "select" /\ speaking' = FALSE /\ active'.speaking = FALSE
         /\ armed' = (active'.track = NoTrack) /\ UNCHANGED reason
      \/ /\ at' = "select" /\ speaking' = active'.speaking /\ ~ active'.paused
         /\ armed' = (active'.track = NoTrack) /\ UNCHANGED reason
         /\ UNCHANGED speaking
      \/ /\ at' = "closing" /\ UNCHANGED << speaking, armed >>
         /\ reason' = "VoiceFailed"
  <2>1. CASE Pause
    BY <1>1, <2>1 DEF Pause, PlaybackOf, EndTurn, Break
  <2>2. CASE Resume
    BY <1>1, <2>2 DEF Resume, PlaybackOf, EndTurn
  <2> QED BY <2>1, <2>2
<1>5. Shape'
  BY <1>2, <1>3, <1>4 DEF IInv, Shape, Stored, HistoryBounded, Counted, Local,
                          bounds, stores, commands, Issued
<1>6. JobKept' /\ EndedQuiet'
  BY <1>4 DEF JobKept, EndedQuiet
<1>7. Channel(active', volume')
  BY <1>1, <1>2, <1>3 DEF Channel
<1>8. Buffered'
  BY <1>7 DEF Buffered
<1>9. SlotAgrees'
  BY <1>1, <1>2, <1>3, <1>4 DEF SlotAgrees, Cleared, stores, bounds
<1>10. SpeakingMirrored'
  <2>1. Playing' /\ active'.speaking \in BOOLEAN
    BY <1>1, <1>3 DEF Playing, PlaybackOf
  <2>2. Running' => /\ speaking' = active'.speaking
                    /\ speaking' = FALSE \/ ~ active'.paused
    BY <1>4 DEF Running
  <2>3. Running' => speaking' = (Playing' /\ active'.speaking)
    BY <2>1, <2>2
  <2> QED BY <2>2, <2>3 DEF SpeakingMirrored
<1>11. IdleArmed'
  BY <1>4 DEF IdleArmed, Playing
<1> QED BY <1>5, <1>6, <1>8, <1>9, <1>10, <1>11 DEF IInv

LEMMA StopKeeps == ASSUME IInv, StopPlayback \/ ShutDown PROVE IInv'
<1>1. /\ player' = DefaultPlayer /\ DefaultPlayer.now = NoTrack
      /\ active' = NoPlayback
      /\ UNCHANGED << history, commands, job, volume, bounds >>
  <2>1. DefaultPlayer.now = NoTrack
    BY DEF DefaultPlayer
  <2> QED BY <2>1, Zenon DEF StopPlayback, ShutDown
<1>2. /\ active'.track = NoTrack /\ ~ active'.speaking /\ ~ active'.paused
      /\ active' \in PlaybackOf(Issued)
  BY <1>1, NoPlaybackType DEF NoPlayback
<1>3. player' \in Player(Issued)
  BY <1>1 DEF DefaultPlayer, Player, LoopModes
<1>4. /\ speaking \in BOOLEAN
      /\ speaking = (Playing /\ active.speaking)
  BY DEF IInv, Shape, Local, SpeakingMirrored, Running, StopPlayback, ShutDown
<1>5. \/ /\ at' = "select" /\ armed' = (active'.track = NoTrack)
         /\ UNCHANGED reason /\ speaking' = FALSE
      \/ /\ at' = "closing" /\ UNCHANGED armed /\ speaking' \in BOOLEAN
         /\ reason' \in {"VoiceFailed", "Requested"}
  BY <1>4 DEF StopPlayback, ShutDown, EndTurn, Break
<1>6. Shape'
  BY <1>1, <1>2, <1>3, <1>5 DEF IInv, Shape, Stored, HistoryBounded, Counted, Local,
                                bounds, commands, Issued
<1>7. JobKept' /\ EndedQuiet' /\ Buffered'
  BY <1>2, <1>5 DEF JobKept, EndedQuiet, Buffered, Playing
<1>8. SlotAgrees' /\ IdleArmed'
  BY <1>1, <1>2, <1>5 DEF SlotAgrees, IdleArmed, Playing
<1>9. SpeakingMirrored'
  BY <1>2, <1>5 DEF SpeakingMirrored, Running, Playing
<1> QED BY <1>6, <1>7, <1>8, <1>9 DEF IInv

LEMMA VoiceFailsKeeps == ASSUME IInv, VoiceFails PROVE IInv'
<1>1. /\ UNCHANGED << stores, commands, job, active, speaking, volume, bounds, armed >>
      /\ at' = "closing" /\ reason' = "VoiceFailed"
  BY DEF VoiceFails, Break
<1>2. Shape'
  BY <1>1 DEF IInv, Shape, Stored, HistoryBounded, Counted, Local, bounds, stores,
              commands, Issued
<1>3. JobKept' /\ EndedQuiet' /\ Buffered'
  BY <1>1 DEF JobKept, EndedQuiet, Buffered, Running
<1>4. SlotAgrees' /\ SpeakingMirrored' /\ IdleArmed'
  BY <1>1 DEF SlotAgrees, SpeakingMirrored, IdleArmed, Running
<1> QED BY <1>2, <1>3, <1>4 DEF IInv

LEMMA SendFrameKeeps == ASSUME IInv, SendFrame PROVE IInv'
<1>1. /\ active \in PlaybackOf(Issued) /\ Playing /\ Channel(active, volume)
      /\ (player.now = active.track \/ Cleared) /\ at = "select" /\ ~ active.paused
      /\ active.events # << >> /\ Head(active.events).kind = "Frame"
  BY DEF IInv, Shape, Local, Buffered, SlotAgrees, Running, SendFrame, Receives,
         Receiving
<1>2. UNCHANGED << stores, commands, job, volume, bounds >>
  BY DEF SendFrame
<1>3. Tail(active.events) \in Seq(Events)
  BY <1>1, HeadTailProperties DEF PlaybackOf
<1>4. ASSUME active' = [active EXCEPT !.speaking = TRUE, !.position = @ + 1,
                                      !.events = Tail(@)],
             speaking' = TRUE, EndTurn
      PROVE  IInv'
  <2>1. active' \in PlaybackOf(Issued) /\ Channel(active', volume)
    BY <1>1, <1>4, SendFits
  <2>2. /\ active'.track = active.track /\ active'.speaking = TRUE
        /\ ~ active'.paused
    BY <1>1, <1>4 DEF PlaybackOf
  <2>3. /\ at' = "select" /\ armed' = (active'.track = NoTrack) /\ UNCHANGED reason
    BY <1>4 DEF EndTurn
  <2>4. Shape'
    BY <1>2, <1>4, <2>1, <2>3 DEF IInv, Shape, Stored, HistoryBounded, Counted, Local,
                                  bounds, stores, commands, Issued
  <2>5. JobKept' /\ EndedQuiet' /\ Buffered'
    BY <1>2, <2>1, <2>3 DEF JobKept, EndedQuiet, Buffered
  <2>6. SlotAgrees' /\ IdleArmed'
    BY <1>1, <1>2, <2>2, <2>3
       DEF SlotAgrees, Cleared, IdleArmed, Playing, stores, bounds
  <2>7. Playing'
    BY <1>1, <2>2 DEF Playing
  <2>8. SpeakingMirrored'
    BY <1>4, <2>2, <2>7 DEF SpeakingMirrored
  <2> QED BY <2>4, <2>5, <2>6, <2>8 DEF IInv
<1>5. ASSUME Break("VoiceFailed"), speaking' \in BOOLEAN,
             \/ active' = [active EXCEPT !.events = Tail(@)]
             \/ active' = [active EXCEPT !.speaking = TRUE, !.events = Tail(@)]
      PROVE  IInv'
  <2>1. active' \in PlaybackOf(Issued)
    BY <1>1, <1>3, <1>5 DEF PlaybackOf
  <2>2. at' = "closing" /\ reason' = "VoiceFailed" /\ UNCHANGED armed
    BY <1>5 DEF Break
  <2>3. Shape'
    BY <1>2, <1>5, <2>1, <2>2 DEF IInv, Shape, Stored, HistoryBounded, Counted, Local,
                                  bounds, stores, commands, Issued
  <2>4. JobKept' /\ EndedQuiet' /\ Buffered'
    BY <2>2 DEF JobKept, EndedQuiet, Buffered, Running
  <2>5. SlotAgrees' /\ SpeakingMirrored' /\ IdleArmed'
    BY <2>2 DEF SlotAgrees, SpeakingMirrored, IdleArmed, Running
  <2> QED BY <2>3, <2>4, <2>5 DEF IInv
<1>6. speaking \in BOOLEAN
  BY DEF IInv, Shape, Local
<1> QED BY <1>4, <1>5, <1>6 DEF SendFrame

(* The second halves of the handlers find the track of their job, and the  *)
(* player gives it up.                                                     *)
LEMMA TransitionKeeps ==
  ASSUME IInv, at \in {"rewind", "finish", "complete"}, at' = "advance",
         player' \in Player(Issued), player'.now = NoTrack,
         history' \in Seq(Issued), Len(history') <= HistoryLimit,
         job' = NoJob,
         UNCHANGED << commands, active, speaking, volume, armed, reason, bounds >>
  PROVE  IInv'
<1>1. Shape'
  BY DEF IInv, Shape, Stored, HistoryBounded, Counted, Local, bounds, commands, Issued,
         NoJob
<1>2. JobKept' /\ EndedQuiet'
  BY DEF JobKept, EndedQuiet
<1>3. ~ Playing /\ ~ Playing'
  BY DEF IInv, SlotAgrees, Playing
<1>4. Buffered' /\ IdleArmed'
  BY <1>3 DEF Buffered, IdleArmed
<1>5. SlotAgrees' /\ SpeakingMirrored'
  BY <1>3 DEF IInv, SlotAgrees, SpeakingMirrored, Running
<1> QED BY <1>1, <1>2, <1>4, <1>5 DEF IInv

LEMMA RewindQueueKeeps == ASSUME IInv, RewindQueue PROVE IInv'
<1>1. /\ player \in Player(Issued) /\ history \in Seq(Issued)
      /\ Len(history) <= HistoryLimit /\ HistoryLimit \in Nat
      /\ job.id \in Issued \union {NoTrack}
      /\ player.now = job.id \/ player.now = NoTrack
      /\ history # << >> /\ job.track = Latest(history)
  BY BoundAssumption
     DEF IInv, Shape, Stored, HistoryBounded, Local, JobKept, SlotAgrees, Cleared,
         RewindQueue
<1>2. job.track \in Issued
  BY <1>1, LatestInside
<1>3. player' = Rewind(player, job.id, job.track)
  BY DEF RewindQueue
<1>5. player' \in Player(Issued)
  BY <1>1, <1>2, <1>3, RewindType
<1>6. player'.now = NoTrack
  <2>1. CASE player.now = job.id
    BY <1>1, <1>2, <1>3, <2>1, RewindFrees
  <2>2. CASE player.now = NoTrack
    <3>1. player'.now = IF job.id # NoTrack /\ player.now = job.id
                        THEN NoTrack ELSE player.now
      BY <1>1, <1>2, <1>3, RewindNow
    <3> QED BY <2>2, <3>1
  <2> QED BY <1>1, <2>1, <2>2
<1>4. history' \in Seq(Issued) /\ Len(history') <= HistoryLimit
  BY <1>1, ForgetType DEF RewindQueue
<1> QED BY <1>4, <1>5, <1>6, TransitionKeeps DEF RewindQueue

LEMMA GiveUpKeeps == ASSUME IInv, Finish \/ Complete PROVE IInv'
<1>1. /\ player \in Player(Issued) /\ history \in Seq(Issued)
      /\ Len(history) <= HistoryLimit /\ HistoryLimit \in Nat \ {0}
      /\ job.id \in Issued \union {NoTrack} /\ job.id # NoTrack
      /\ player.now = job.id \/ player.now = NoTrack
      /\ player.now = job.id /\ job.record => job.track = job.id
  BY BoundAssumption
     DEF IInv, Shape, Stored, HistoryBounded, Local, JobKept, SlotAgrees, Cleared,
         Finish, Complete, GiveUp
<1>2. /\ at \in {"finish", "complete"} /\ at' = "advance" /\ job' = NoJob
      /\ UNCHANGED << commands, active, speaking, volume, armed, reason, bounds >>
      /\ player' \in {FinishCurrent(player, job.id), CompleteCurrent(player, job.id)}
      /\ history' = IF player.now = job.id /\ job.record
                    THEN Remember(history, job.track, HistoryLimit) ELSE history
  BY DEF Finish, Complete, GiveUp
<1>3. CASE player.now = job.id
  <2>1. player.now \in Issued
    BY <1>1, <1>3
  <2>2. /\ FinishCurrent(player, job.id) \in Player(Issued)
        /\ CompleteCurrent(player, job.id) \in Player(Issued)
    BY <1>1, <2>1, QueueOpsType
  <2>3. /\ FinishCurrent(player, job.id).now = NoTrack
        /\ CompleteCurrent(player, job.id).now = NoTrack
    BY <1>1, <1>3 DEF FinishCurrent, CompleteCurrent, Player
  <2>4. \/ history' = history
        \/ job.track = job.id /\ history' = Remember(history, job.track, HistoryLimit)
    BY <1>1, <1>2, <1>3
  <2>5. history' \in Seq(Issued) /\ Len(history') <= HistoryLimit
    BY <1>1, <1>3, <2>1, <2>4, RememberType
  <2> QED BY <1>2, <2>2, <2>3, <2>5, TransitionKeeps
<1>4. CASE player.now # job.id
  <2>1. player' = player /\ history' = history /\ player'.now = NoTrack
    BY <1>1, <1>2, <1>4 DEF FinishCurrent, CompleteCurrent
  <2> QED BY <1>1, <1>2, <2>1, TransitionKeeps
<1> QED BY <1>3, <1>4

LEMMA AdvanceKeeps == ASSUME IInv, Advance PROVE IInv'
<1>1. ~ Playing /\ owed' \in Nat
  BY DEF IInv, Shape, Counted, SlotAgrees, Advance, commands
<1>2. UNCHANGED << history, nextTrackId, job, speaking, volume, bounds >>
  BY DEF Advance, commands
<1> QED BY <1>1, <1>2, StartNextKeeps DEF Advance

LEMMA IdleTimeoutKeeps == ASSUME IInv, IdleTimeout PROVE IInv'
<1>1. /\ UNCHANGED << stores, commands, job, active, speaking, volume, bounds >>
      /\ at = "select" /\ ~ Playing /\ armed' = FALSE
      /\ \/ at' = "closing" /\ reason' = "IdleTimedOut"
         \/ at' = "advance" /\ UNCHANGED reason
  BY DEF IdleTimeout
<1>2. Shape'
  BY <1>1 DEF IInv, Shape, Stored, HistoryBounded, Counted, Local, bounds, stores,
              commands, Issued
<1>3. JobKept' /\ EndedQuiet' /\ Buffered'
  BY <1>1 DEF JobKept, EndedQuiet, Buffered, Playing
<1>4. SlotAgrees' /\ SpeakingMirrored' /\ IdleArmed'
  BY <1>1 DEF IInv, SlotAgrees, Cleared, SpeakingMirrored, IdleArmed, Running, Playing,
              stores, bounds
<1> QED BY <1>2, <1>3, <1>4 DEF IInv

LEMMA CloseKeeps == ASSUME IInv, Close PROVE IInv'
<1>1. /\ UNCHANGED << history, commands, volume, armed, reason, bounds >>
      /\ at' = "ended" /\ speaking' = FALSE /\ player' = DefaultPlayer
      /\ active' = NoPlayback /\ job' = NoJob
  BY DEF Close
<1>2. /\ player' \in Player(Issued) /\ player'.now = NoTrack
      /\ active' \in PlaybackOf(Issued) /\ active'.track = NoTrack
  <2>1. DefaultPlayer \in Player(Issued) /\ DefaultPlayer.now = NoTrack
    BY DEF DefaultPlayer, Player, LoopModes
  <2>2. NoPlayback.track = NoTrack
    BY DEF NoPlayback
  <2> QED BY <1>1, <2>1, <2>2, NoPlaybackType
<1>3. Shape'
  BY <1>1, <1>2 DEF IInv, Shape, Stored, HistoryBounded, Counted, Local, bounds,
                    commands, Issued, NoJob
<1>4. JobKept' /\ EndedQuiet' /\ Buffered'
  BY <1>1, <1>2 DEF JobKept, EndedQuiet, Buffered, Running
<1>5. SlotAgrees' /\ SpeakingMirrored' /\ IdleArmed'
  BY <1>1, <1>2 DEF SlotAgrees, SpeakingMirrored, IdleArmed, Running, Playing
<1> QED BY <1>3, <1>4, <1>5 DEF IInv

LEMMA RejoinKeeps == ASSUME IInv, Rejoin PROVE IInv'
<1>1. /\ UNCHANGED << stores, commands, job, active, speaking, rewinds >>
      /\ at' = "select" /\ sessions' = sessions + 1 /\ listed' = TRUE
      /\ volume' = FullVolume /\ armed' = TRUE /\ reason' = "none"
  BY DEF Rejoin
<1>2. /\ ~ Playing /\ player.now = NoTrack /\ active.track = NoTrack
      /\ speaking = FALSE
  BY DEF IInv, Shape, Local, SlotAgrees, EndedQuiet, Playing, Rejoin
<1>3. Shape'
  BY <1>1, BoundAssumption
     DEF IInv, Shape, Stored, HistoryBounded, Counted, Local, stores, commands, Issued
<1>4. JobKept' /\ EndedQuiet' /\ Buffered'
  BY <1>1, <1>2 DEF JobKept, EndedQuiet, Buffered, Playing
<1>5. SlotAgrees' /\ IdleArmed'
  BY <1>1, <1>2 DEF SlotAgrees, IdleArmed, Playing, stores
<1>6. SpeakingMirrored'
  BY <1>1, <1>2 DEF SpeakingMirrored, Playing
<1> QED BY <1>3, <1>4, <1>5, <1>6 DEF IInv

LEMMA StutterKeeps == ASSUME IInv, UNCHANGED vars PROVE IInv'
<1>1. Shape'
  BY DEF IInv, Shape, Stored, HistoryBounded, Counted, Local, Issued, vars
<1>2. JobKept' /\ EndedQuiet' /\ Buffered'
  BY DEF IInv, JobKept, EndedQuiet, Cleared, Buffered, Running, Playing, vars
<1>3. SlotAgrees' /\ SpeakingMirrored' /\ IdleArmed'
  BY DEF IInv, SlotAgrees, Cleared, SpeakingMirrored, IdleArmed, Running, Playing, vars
<1> QED BY <1>1, <1>2, <1>3 DEF IInv

(* Every step of the worker, its decoder and the command tasks. *)
LEMMA StepKeeps == ASSUME IInv, [Next]_vars PROVE IInv'
<1>1. CASE EnqueueTrack \/ LoseWake \/ Unlist \/ ClearUnlisted \/ EditQueue
  BY <1>1, EnqueueTrackKeeps, LoseWakeKeeps, UnlistKeeps, EditQueueKeeps
<1>2. CASE Resolve \/ Decode \/ DecoderDies
  BY <1>2, DecoderKeeps
<1>3. CASE Wake \/ Previous \/ Skip \/ Seek \/ Volume \/ Pause \/ Resume
  BY <1>3, WakeKeeps, PreviousKeeps, GivingUpKeeps, SeekKeeps, VolumeKeeps,
     PauseResumeKeeps
<1>4. CASE StopPlayback \/ ShutDown \/ VoiceFails
  BY <1>4, StopKeeps, VoiceFailsKeeps
<1>5. CASE SendFrame \/ TrackEnds \/ TrackFails
  BY <1>5, SendFrameKeeps, GivingUpKeeps
<1>6. CASE SecondHalf
  BY <1>6, RewindQueueKeeps, GiveUpKeeps, AdvanceKeeps, CloseKeeps DEF SecondHalf
<1>7. CASE IdleTimeout \/ Rejoin
  BY <1>7, IdleTimeoutKeeps, RejoinKeeps
<1>8. CASE Refused \/ UNCHANGED vars
  BY <1>8, StutterKeeps DEF Refused
<1> QED BY <1>1, <1>2, <1>3, <1>4, <1>5, <1>6, <1>7, <1>8 DEF Next

LEMMA Inductive == Spec => []IInv
<1>1. IInv /\ [Next]_vars => IInv'
  BY StepKeeps
<1> QED BY InitIInv, <1>1, PTL DEF Spec

------------------------------------------------------------------------------
(* Part 2: what the invariant is for *)

(* Every variable keeps its type: the tracks in the player, the history    *)
(* and the worker are ones that were enqueued, and a playback's position   *)
(* never passes the end of its track.                                      *)
THEOREM TypeCorrect == Spec => []TypeOK
<1>1. IInv => TypeOK
  <2> SUFFICES ASSUME IInv PROVE TypeOK
    OBVIOUS
  <2>1. Issued \subseteq Tracks /\ nextTrackId \in 0 .. MaxTracks
    BY BoundAssumption DEF IInv, Shape, Counted, Issued, Tracks
  <2>2. player \in Player(Tracks) /\ history \in Seq(Tracks)
    BY <2>1, SeqMonotonic DEF IInv, Shape, Stored, Player
  <2>3. active \in Playback
    BY <2>1 DEF IInv, Shape, Local, PlaybackOf, Playback
  <2>4. job \in [id : Tracks \union {NoTrack}, track : Tracks \union {NoTrack},
                 record : BOOLEAN]
    BY <2>1 DEF IInv, Shape, Local
  <2> QED BY <2>1, <2>2, <2>3, <2>4 DEF IInv, Shape, Counted, Local, TypeOK
<1> QED BY Inductive, <1>1, PTL

(* The worker and the player agree about the current track, and a          *)
(* transition finds the track it set out to finish, until the manager has  *)
(* let go of the worker: after that the player may have none, but never    *)
(* another one.                                                            *)
THEOREM SlotsAgree == Spec => []SlotAgrees
<1>1. IInv => SlotAgrees
  BY DEF IInv
<1> QED BY Inductive, <1>1, PTL

(* The bot is shown as speaking exactly while something is heard. *)
THEOREM SpeakingIsMirrored == Spec => []SpeakingMirrored
<1>1. IInv => SpeakingMirrored
  BY DEF IInv
<1> QED BY Inductive, <1>1, PTL

(* The idle deadline runs exactly while nothing plays. *)
THEOREM IdleIsArmed == Spec => []IdleArmed
<1>1. IInv => IdleArmed
  BY DEF IInv
<1> QED BY Inductive, <1>1, PTL

(* What waits in the channel is the frames from the playback's position on, *)
(* without a gap, at the volume last asked for.                             *)
THEOREM DecoderCarriesOn == Spec => []DecoderMatches
<1>1. IInv => DecoderMatches
  <2> SUFFICES ASSUME IInv, Running, Playing
               PROVE  LET frames == {i \in DOMAIN active.events :
                                       active.events[i].kind = "Frame"}
                      IN  /\ \A i \in frames :
                               active.events[i].at = active.position + i - 1
                          /\ active.next = active.position + Cardinality(frames)
                          /\ active.gain = volume
    BY DEF DecoderMatches
  <2> DEFINE frames == {i \in DOMAIN active.events :
                          active.events[i].kind = "Frame"}
             ahead == active.next - active.position
  <2>1. Channel(active, volume) /\ active \in PlaybackOf(Issued)
    BY DEF IInv, Buffered, Shape, Local
  <2>2. /\ DOMAIN active.events = 1 .. Len(active.events)
        /\ Len(active.events) \in {ahead, ahead + 1} /\ ahead \in Nat
    BY <2>1, LenProperties DEF PlaybackOf, Channel
  <2>3. \A i \in 1 .. ahead :
          active.events[i] = [kind |-> "Frame", at |-> active.position + i - 1]
    BY <2>1 DEF Channel
  <2>4. Len(active.events) = ahead + 1 => active.events[ahead + 1].kind # "Frame"
    BY <2>1 DEF Channel
  <2>5. active.next \in Int /\ active.position \in Int
    BY <2>1 DEF PlaybackOf, Positions
  <2>6. \A i \in 1 .. ahead : /\ active.events[i].kind = "Frame"
                              /\ active.events[i].at = active.position + i - 1
    <3> TAKE i \in 1 .. ahead
    <3>1. active.events[i] = [kind |-> "Frame", at |-> active.position + i - 1]
      BY <2>3
    <3> QED BY <2>2, <2>5, <3>1
  <2> HIDE DEF ahead
  <2>7. \A i : i \in frames <=> i \in 1 .. ahead
    <3>1. ASSUME NEW i \in 1 .. Len(active.events), i \notin 1 .. ahead
          PROVE  active.events[i].kind # "Frame"
      <4>1. i = ahead + 1 /\ Len(active.events) = ahead + 1
        BY <2>2, <3>1
      <4> QED BY <2>4, <4>1
    <3>2. \A i \in 1 .. ahead : i \in 1 .. Len(active.events)
      BY <2>2
    <3> QED BY <2>2, <2>6, <3>1, <3>2
  <2> HIDE DEF frames
  <2>8. frames = 1 .. ahead
    BY <2>7
  <2>9. Cardinality(1 .. ahead) = ahead
    <3>1. 1 \in Int /\ ahead \in Int /\ 1 <= ahead + 1
      BY <2>2
    <3> QED BY <2>2, <3>1, FS_Interval
  <2>10. active.next = active.position + Cardinality(frames)
    BY <2>5, <2>8, <2>9 DEF ahead
  <2>11. \A i \in frames : active.events[i].at = active.position + i - 1
    BY <2>6, <2>8
  <2> QED BY <2>1, <2>10, <2>11 DEF Channel, frames
<1> QED BY Inductive, <1>1, PTL

(* Only a seek moves a playback to another place. *)
THEOREM SeekAloneJumps == Spec => OnlySeekJumps
<1> DEFINE Moved == Playing /\ active'.track = active.track =>
             active'.position \in {active.position, active.position + 1} \/ Seek
<1>1. IInv /\ [Next]_vars => [Moved]_vars
  <2> SUFFICES ASSUME IInv, Next, Playing, active'.track = active.track, ~ Seek
               PROVE  active'.position \in {active.position, active.position + 1}
    OBVIOUS
  <2>1. active \in PlaybackOf(Issued) /\ active.track # NoTrack
        /\ active' # NoPlayback
    BY DEF IInv, Shape, Local, Playing, NoPlayback
  <2>2. at \in {"select", "closing"}
    BY DEF IInv, SlotAgrees, Shape, Local
  <2>3. CASE EnqueueTrack \/ LoseWake \/ Unlist \/ ClearUnlisted \/ EditQueue
    BY <2>3 DEF EnqueueTrack, LoseWake, Unlist, ClearUnlisted, EditQueue, Edit
  <2>4. CASE Resolve \/ Decode \/ DecoderDies
    BY <2>1, <2>4 DEF Resolve, Decode, DecoderDies, DecoderStep, Emit, PlaybackOf
  <2>5. CASE Wake \/ Refused \/ VoiceFails
    BY <2>5 DEF Wake, Refused, VoiceFails, vars
  <2>6. CASE Previous \/ Skip \/ TrackEnds \/ TrackFails
    BY <2>1, <2>6 DEF Previous, Skip, TrackEnds, TrackFails, Cancelled
  <2>7. CASE Volume
    <3>1. Respawned(active.position, volume')
      BY <2>7 DEF Volume
    <3> QED BY <2>1, <3>1 DEF Respawned, Spawn
  <2>8. CASE Pause \/ Resume
    BY <2>1, <2>8 DEF Pause, Resume, PlaybackOf
  <2>9. CASE StopPlayback \/ ShutDown \/ Close
    BY <2>1, <2>9 DEF StopPlayback, ShutDown, Close
  <2>10. CASE SendFrame
    BY <2>1, <2>10 DEF SendFrame, PlaybackOf
  <2>11. CASE RewindQueue \/ Finish \/ Complete \/ Advance \/ IdleTimeout \/ Rejoin
    BY <2>2, <2>11 DEF RewindQueue, Finish, Complete, GiveUp, Advance, IdleTimeout,
                       Rejoin
  <2> QED BY <2>3, <2>4, <2>5, <2>6, <2>7, <2>8, <2>9, <2>10, <2>11
          DEF Next, SecondHalf
<1> QED BY Inductive, <1>1, PTL DEF Spec, OnlySeekJumps

------------------------------------------------------------------------------
(* Part 3: the worker implements Jukebox *)

(* What the listeners notice of the playback. *)
Position == IF Playing THEN active.position ELSE 0
Hushed == Playing /\ active.paused

Audible == << player, history, Sound, Position, Hushed, listed >>

(* Jukebox has its own copy of the operators that it shares. *)
LEMMA SameWords ==
  /\ Heard!NoTrack = NoTrack
  /\ Heard!DefaultPlayer = DefaultPlayer
  /\ Heard!LoopModes = LoopModes
  /\ \A p, m : Heard!SetLoopMode(p, m) = SetLoopMode(p, m)
  /\ \A p : Heard!Requeued(p) = Requeued(p)
  /\ \A h, t, n : Heard!Remember(h, t, n) = Remember(h, t, n)
  /\ \A s : Heard!Last(s) = Last(s) /\ Heard!Front(s) = Front(s)
  /\ \A s : Heard!ToSet(s) = ToSet(s)
  /\ \A S, T : Heard!Injection(S, T) = Injection(S, T)
<1>1. Heard!NoTrack = NoTrack /\ Heard!DefaultPlayer = DefaultPlayer
      /\ Heard!LoopModes = LoopModes
  BY DEF Heard!NoTrack, NoTrack, Heard!DefaultPlayer, DefaultPlayer,
         Heard!LoopModes, LoopModes
<1>2. \A p, m : Heard!SetLoopMode(p, m) = SetLoopMode(p, m)
  BY DEF Heard!SetLoopMode, SetLoopMode
<1>3. \A p : Heard!Requeued(p) = Requeued(p)
  BY DEF Heard!Requeued, Requeued
<1>4. \A h, t, n : Heard!Remember(h, t, n) = Remember(h, t, n)
  BY DEF Heard!Remember, Remember
<1>5. \A s : Heard!Last(s) = Last(s) /\ Heard!Front(s) = Front(s)
  BY DEF Heard!Last, Last, Heard!Front, Front
<1>6. \A s : Heard!ToSet(s) = ToSet(s)
  BY DEF Heard!ToSet, ToSet
<1>7. \A S, T : Heard!Injection(S, T) = Injection(S, T)
  BY DEF Heard!Injection, Injection, Heard!IsInjective, IsInjective
<1> QED BY <1>1, <1>2, <1>3, <1>4, <1>5, <1>6, <1>7

LEMMA InitHeard == Init => Heard!Init
<1> SUFFICES ASSUME Init PROVE Heard!Init
  OBVIOUS
<1>1. ~ Playing /\ Sound = "silent" /\ Position = 0 /\ ~ Hushed
  BY DEF Init, Playing, NoPlayback, Sound, Position, Hushed
<1> QED BY <1>1, SameWords DEF Init, Heard!Init, Position, Hushed

(* A step that changes nothing of what is heard. *)
LEMMA UnheardIs ==
  ASSUME UNCHANGED Audible
  PROVE  UNCHANGED Heard!vars
BY DEF Audible, Position, Hushed, Heard!vars

(* Without a playback it is quiet, and at 0. *)
LEMMA QuietIs ==
  ASSUME active' = NoPlayback
  PROVE  /\ ~ Playing' /\ Position' = 0 /\ Hushed' = FALSE
         /\ Sound' = IF at' = "complete" THEN "ended" ELSE "silent"
BY DEF NoPlayback, Playing, Position, Hushed, Sound

LEMMA ClearIs ==
  ASSUME player' = DefaultPlayer, active' = NoPlayback, at' # "complete",
         UNCHANGED << history, listed >>
  PROVE  Heard!Clear
BY QuietIs, SameWords DEF Heard!Clear, Heard!Quiet, Position, Hushed

LEMMA BreakOffIs ==
  ASSUME Playing, active' = NoPlayback, at' # "complete",
         UNCHANGED << player, history, listed >>
  PROVE  Heard!BreakOff
BY QuietIs DEF Heard!BreakOff, Heard!Quiet, Position, Hushed, Sound

(* A replaced playback goes on from where the new one starts. *)
LEMMA RespawnedIs ==
  ASSUME NEW start \in Positions, NEW gain, Playing, Respawned(start, gain),
         UNCHANGED << player, history, listed >>
  PROVE  \/ Heard!BreakOff
         \/ /\ Playing' /\ Position' = start /\ Hushed' = Hushed
            /\ Sound' = "playing" /\ UNCHANGED << player, history, listed >>
<1>1. CASE active' = Spawn(active.track, start, active.paused, gain)
  <2>1. /\ active'.track = active.track /\ active'.position = start
        /\ active'.paused = active.paused
    BY <1>1 DEF Spawn
  <2> QED BY <2>1 DEF Playing, Position, Hushed, Sound
<1>2. CASE active' = NoPlayback /\ at' = "closing"
  BY <1>2, BreakOffIs
<1> QED BY <1>1, <1>2 DEF Respawned, Break

(* The head of the queue becomes the current track, if there is one. *)
LEMMA StartIs ==
  ASSUME StartNextPlayback, ~ Playing, Sound = "silent",
         player.now = NoTrack, player \in Player(Issued),
         UNCHANGED << history, listed >>, at' = "select"
  PROVE  Heard!Start \/ UNCHANGED Heard!vars
<1>1. CASE player.queue = << >>
  <2>1. player' = player /\ active' = NoPlayback
    BY <1>1 DEF StartNextPlayback, StartNext
  <2>2. Position = 0 /\ Hushed = FALSE
    BY DEF Position, Hushed
  <2> QED BY <2>1, <2>2, QuietIs, UnheardIs DEF Audible
<1>2. CASE player.queue # << >>
  <2>1. /\ player' = [player EXCEPT !.now = Head(player.queue), !.queue = Tail(@)]
        /\ active' = Spawn(Head(player.queue), 0, FALSE, volume)
    BY <1>2 DEF StartNextPlayback, StartNext
  <2>2. Head(player.queue) # NoTrack
    <3>1. player.queue \in Seq(Issued) /\ 1 \in 1 .. Len(player.queue)
          /\ Head(player.queue) = player.queue[1]
      BY <1>2, EmptySeq, LenProperties DEF Player
    <3>2. player.queue[1] \in Issued
      BY <3>1, ElementOfSeq
    <3> QED BY <3>1, <3>2 DEF Issued, NoTrack
  <2>3. Playing' /\ Position' = 0 /\ Hushed' = FALSE /\ Sound' = "playing"
    BY <2>1, <2>2 DEF Spawn, Playing, Position, Hushed, Sound
  <2> QED BY <1>2, <2>1, <2>3, SameWords DEF Heard!Start, Position, Hushed
<1> QED BY <1>1, <1>2

(* Users edit the queue. *)
LEMMA EditIs ==
  ASSUME IInv, EnqueueTrack \/ EditQueue
  PROVE  Heard!Edit \/ UNCHANGED Heard!vars
<1>1. player \in Player(Issued) /\ history \in Seq(Issued)
      /\ nextTrackId \in Nat /\ player.now \in Issued \union {NoTrack}
  BY BoundAssumption DEF IInv, Shape, Stored, Counted, Player
<1>2. UNCHANGED << history, Sound, Position, Hushed, listed >>
  BY DEF EnqueueTrack, EditQueue, Edit, Sound, Position, Hushed, Playing, bounds
<1>3. CASE EnqueueTrack
  <2> DEFINE t == nextTrackId + 1
  <2>1. player.queue \in Seq(Nat) /\ t \in Nat
        /\ player' = [player EXCEPT !.queue = Append(@, t)]
    BY <1>1, <1>3, SeqMonotonic DEF EnqueueTrack, Enqueue, Player, Issued
  <2>2. player'.queue = Append(player.queue, t)
    BY <1>1, <2>1 DEF Player
  <2>3. Len(player'.queue) = Len(player.queue) + 1 /\ Last(player'.queue) = t
    BY <2>1, <2>2, AppendProperties DEF Last
  <2>4. t \notin ToSet(player.queue) \union ToSet(history) \union {player.now}
    <3>1. t \notin Issued \union {NoTrack}
      BY <1>1 DEF Issued, NoTrack
    <3>2. ToSet(player.queue) \subseteq Issued /\ ToSet(history) \subseteq Issued
      BY <1>1, ElementOfSeq DEF ToSet, Player
    <3> QED BY <1>1, <3>1, <3>2
  <2>5. Heard!Add
    BY <2>1, <2>3, <2>4, SameWords DEF Heard!Add
  <2> QED BY <1>2, <2>5 DEF Heard!Edit, Position, Hushed
<1>4. ASSUME Rearranged(player, player')
      PROVE  Heard!Rearrange
  BY <1>4, SameWords DEF Rearranged, Heard!Rearrange
<1>5. ASSUME NEW i \in DOMAIN player.queue, player' = RemoveQueued(player, i - 1)
      PROVE  Heard!Rearrange
  BY <1>1, <1>4, <1>5, RemoveQueuedRearranges DEF Player
<1>6. ASSUME NEW i \in DOMAIN player.queue, NEW j \in DOMAIN player.queue,
             player' = MoveQueued(player, i - 1, j - 1)
      PROVE  Heard!Rearrange \/ player' = player
  BY <1>1, <1>4, <1>6, MoveQueuedRearranges DEF Player
<1>7. ASSUME player' \in Shuffled(player)
      PROVE  Heard!Rearrange
  BY <1>1, <1>4, <1>7, ShuffledRearranges
<1>8. ASSUME NEW mode \in LoopModes, player' = SetLoopMode(player, mode)
      PROVE  Heard!SetLoop
  BY <1>8, SameWords DEF Heard!SetLoop
<1>9. ASSUME EditQueue
      PROVE  Heard!Rearrange \/ Heard!SetLoop \/ player' = player
  BY <1>5, <1>6, <1>7, <1>8, <1>9 DEF EditQueue, Edit
<1>10. CASE EditQueue
  <2>1. CASE player' = player
    BY <1>2, <2>1, UnheardIs DEF Audible
  <2>2. CASE Heard!Rearrange \/ Heard!SetLoop
    BY <1>2, <2>2 DEF Heard!Edit, Position, Hushed
  <2> QED BY <1>9, <1>10, <2>1, <2>2
<1> QED BY <1>3, <1>10

(* Outside of a turn nothing plays, and what was cancelled is silent unless *)
(* it is about to complete.                                                 *)
LEMMA SilentIs ==
  ASSUME IInv
  PROVE  /\ at \notin {"select", "closing"} => ~ Playing
         /\ ~ Playing /\ at # "complete" => Sound = "silent"
         /\ at = "complete" => Sound = "ended"
         /\ Playing => Sound = "playing" /\ Position = active.position
         /\ Playing => Hushed = active.paused
         /\ ~ Playing => Position = 0 /\ Hushed = FALSE
<1>1. at \notin {"select", "closing"} => ~ Playing
  BY DEF IInv, SlotAgrees
<1>2. active.paused \in BOOLEAN
  BY DEF IInv, Shape, Local, PlaybackOf
<1> QED BY <1>1, <1>2 DEF Sound, Position, Hushed

(* The decoder, the failures of the session and what the idle timeout finds *)
(* are not heard.                                                           *)
LEMMA SilentStepIs ==
  ASSUME IInv,
         \/ LoseWake \/ Resolve \/ Decode \/ DecoderDies \/ VoiceFails
         \/ IdleTimeout \/ UNCHANGED vars
  PROVE  UNCHANGED Heard!vars
<1>1. CASE LoseWake \/ UNCHANGED vars
  <2>1. UNCHANGED << player, history, at, active, listed >>
    BY <1>1 DEF LoseWake, stores, vars, bounds
  <2> QED BY <2>1, UnheardIs DEF Audible, Sound, Position, Hushed, Playing
<1>2. CASE Resolve \/ Decode \/ DecoderDies
  <2>1. active \in PlaybackOf(Issued)
    BY DEF IInv, Shape, Local
  <2>2. /\ UNCHANGED << player, history, at, listed >>
        /\ active'.track = active.track /\ active'.position = active.position
        /\ active'.paused = active.paused
    BY <1>2, <2>1 DEF Resolve, Decode, DecoderDies, DecoderStep, stores, Emit,
                      PlaybackOf, bounds
  <2> QED BY <2>2, UnheardIs DEF Audible, Sound, Position, Hushed, Playing
<1>3. CASE VoiceFails \/ IdleTimeout
  <2>1. /\ UNCHANGED << player, history, active, listed >>
        /\ at # "complete" /\ at' # "complete"
    BY <1>3 DEF VoiceFails, IdleTimeout, Break, stores, bounds
  <2> QED BY <2>1, UnheardIs DEF Audible, Sound, Position, Hushed, Playing
<1> QED BY <1>1, <1>2, <1>3

(* /stop and the end of a session. *)
LEMMA ClearingIs ==
  ASSUME IInv, StopPlayback \/ ShutDown \/ Close
  PROVE  Heard!Clear
<1>1. /\ player' = DefaultPlayer /\ active' = NoPlayback /\ at' # "complete"
      /\ UNCHANGED << history, listed >>
  BY DEF StopPlayback, ShutDown, Close, EndTurn, Break, bounds
<1> QED BY <1>1, ClearIs

(* The manager lets go of the worker, and may then clear the player. *)
LEMMA UnlistedIs ==
  ASSUME IInv, Unlist \/ ClearUnlisted
  PROVE  Heard!Leave \/ Heard!ClearLate
<1>1. CASE Unlist
  <2>1. /\ listed /\ listed' = FALSE
        /\ UNCHANGED << player, history, Sound, Position, Hushed >>
    BY <1>1 DEF Unlist, stores, Sound, Position, Hushed, Playing
  <2> QED BY <2>1 DEF Heard!Leave, Position, Hushed
<1>2. CASE ClearUnlisted
  <2>1. /\ ~ listed /\ player' = DefaultPlayer
        /\ UNCHANGED << history, Sound, Position, Hushed, listed >>
    BY <1>2 DEF ClearUnlisted, Edit, Sound, Position, Hushed, Playing, bounds
  <2> QED BY <2>1, SameWords DEF Heard!ClearLate, Position, Hushed
<1> QED BY <1>1, <1>2

(* A new session. *)
LEMMA RejoinIs ==
  ASSUME IInv, Rejoin
  PROVE  Heard!Join
<1>1. /\ at = "ended" /\ at' = "select" /\ ~ listed /\ listed' = TRUE
      /\ UNCHANGED << player, history, active >> /\ player.now = NoTrack
  BY DEF Rejoin, stores, IInv, EndedQuiet
<1>2. ~ Playing /\ Sound = "silent"
  BY <1>1, SilentIs
<1>3. UNCHANGED << Sound, Position, Hushed >>
  BY <1>1, <1>2 DEF Sound, Position, Hushed, Playing
<1> QED BY <1>1, <1>2, <1>3, SameWords DEF Heard!Join, Position, Hushed

(* A turn that starts the next track. *)
LEMMA StartingIs ==
  ASSUME IInv, Wake \/ Advance
  PROVE  Heard!Start \/ UNCHANGED Heard!vars
<1>1. player \in Player(Issued)
  BY DEF IInv, Shape, Stored
<1>2. CASE Wake /\ Playing
  <2>1. UNCHANGED << player, history, active, listed >>
    BY <1>2 DEF Wake, bounds
  <2> QED BY <1>2, <2>1, UnheardIs DEF Audible, Sound, Position, Hushed, Playing
<1>3. CASE Wake /\ ~ Playing
  <2>1. /\ StartNextPlayback /\ UNCHANGED << history, listed >>
        /\ at = "select" /\ at' = "select"
    BY <1>3 DEF Wake, EndTurn, bounds
  <2>2. player.now = NoTrack
    BY <1>3, <2>1 DEF IInv, SlotAgrees, Cleared, Playing
  <2> QED BY <1>1, <1>3, <2>1, <2>2, SilentIs, StartIs
<1>4. CASE Advance
  <2>1. /\ StartNextPlayback /\ UNCHANGED << history, listed >>
        /\ at = "advance" /\ at' = "select"
    BY <1>4 DEF Advance, EndTurn, bounds
  <2>2. player.now = NoTrack
    BY <2>1 DEF IInv, SlotAgrees
  <2> QED BY <1>1, <2>1, <2>2, SilentIs, StartIs
<1> QED BY <1>2, <1>3, <1>4

(* /previous, /skip and a failure break the current track off. *)
LEMMA BreakingOffIs ==
  ASSUME IInv, Previous \/ Skip \/ TrackFails
  PROVE  Heard!BreakOff \/ UNCHANGED Heard!vars
<1>1. /\ UNCHANGED << player, history, listed >> /\ active' = NoPlayback
      /\ at = "select" /\ at' \in {"rewind", "finish", "closing"}
  BY DEF Previous, Skip, TrackFails, Receives, Receiving, Cancelled, Break, stores,
         bounds
<1>2. CASE Playing
  BY <1>1, <1>2, BreakOffIs
<1>3. CASE ~ Playing
  BY <1>1, <1>3, SilentIs, QuietIs, UnheardIs DEF Audible
<1> QED BY <1>2, <1>3

(* The last event of a decoder that finished comes after all its frames. *)
LEMMA TrackEndsIs ==
  ASSUME IInv, TrackEnds
  PROVE  Heard!PlayedOut \/ Heard!BreakOff
<1>1. /\ UNCHANGED << player, history, listed >> /\ active' = NoPlayback
      /\ at = "select" /\ Playing /\ ~ active.paused
      /\ at' \in {"complete", "closing"}
  BY DEF TrackEnds, Receives, Receiving, Cancelled, Break, stores, bounds
<1>2. active.events # << >> /\ Head(active.events).kind = "Finished"
  BY DEF TrackEnds, Receives
<1>3. active.position = TrackFrames
  <2> DEFINE ahead == active.next - active.position
  <2>1. Channel(active, volume) /\ active \in PlaybackOf(Issued)
    BY <1>1 DEF IInv, Buffered, Running, Shape, Local
  <2>2. active.events \in Seq(Events) /\ active.next \in Int
        /\ active.position \in Int
    BY <2>1 DEF PlaybackOf, Positions
  <2>3. Head(active.events) = active.events[1] /\ Len(active.events) >= 1
    BY <1>2, <2>2, EmptySeq
  <2>4. ahead = 0
    <3>1. ahead \in Nat
      BY <2>1 DEF Channel
    <3>2. ASSUME 1 \in 1 .. ahead PROVE FALSE
      <4>1. active.events[1] = [kind |-> "Frame", at |-> active.position + 1 - 1]
        BY <2>1, <3>2 DEF Channel
      <4> QED BY <1>2, <2>3, <4>1
    <3> QED BY <3>1, <3>2
  <2>5. Len(active.events) = ahead + 1 /\ active.events[ahead + 1].kind = "Finished"
    BY <1>2, <2>1, <2>3, <2>4 DEF Channel
  <2>6. active.next = TrackFrames
    BY <2>1, <2>5 DEF Channel
  <2> QED BY <2>2, <2>4, <2>6
<1>4. CASE at' = "closing"
  BY <1>1, <1>4, BreakOffIs
<1>5. CASE at' = "complete"
  <2>1. TrackFrames \in Nat /\ Sound = "playing" /\ Position >= TrackFrames
        /\ Hushed = FALSE
    BY <1>1, <1>3, SilentIs, BoundAssumption
  <2>2. Sound' = "ended" /\ Position' = 0 /\ Hushed' = FALSE
    BY <1>1, <1>5, QuietIs
  <2>3. Heard!PlayedOut
    BY <1>1, <2>1, <2>2 DEF Heard!PlayedOut, Heard!Quiet, Position, Hushed
  <2> QED BY <2>3
<1> QED BY <1>1, <1>4, <1>5

(* A seek goes where it was asked to; a new volume goes on where it was. *)
LEMMA SeekIs ==
  ASSUME IInv, Seek
  PROVE  Heard!Seek \/ Heard!BreakOff
<1>1. PICK start \in Positions : Respawned(start, volume)
  BY DEF Seek
<1>2. Playing /\ UNCHANGED << player, history, listed >>
  BY DEF Seek, stores, bounds
<1>3. CASE Heard!BreakOff
  BY <1>3
<1>4. CASE /\ Playing' /\ Position' = start /\ Hushed' = Hushed
           /\ Sound' = "playing" /\ UNCHANGED << player, history, listed >>
  <2>1. Sound = "playing"
    BY <1>2, SilentIs
  <2>2. Position' \in 0 .. TrackFrames
    BY <1>4 DEF Positions
  <2> QED BY <1>4, <2>1, <2>2 DEF Heard!Seek, Position, Hushed
<1> QED BY <1>1, <1>2, <1>3, <1>4, RespawnedIs

LEMMA VolumeIs ==
  ASSUME IInv, Volume
  PROVE  Heard!BreakOff \/ UNCHANGED Heard!vars
<1>1. UNCHANGED << player, history, listed >> /\ at = "select"
  BY DEF Volume, stores, bounds
<1>2. CASE ~ Playing
  <2>1. UNCHANGED active /\ at' = "select"
    BY <1>2 DEF Volume, EndTurn
  <2> QED BY <1>1, <2>1, UnheardIs DEF Audible, Sound, Position, Hushed, Playing
<1>3. CASE Playing
  <2>1. active.position \in Positions
    BY DEF IInv, Shape, Local, PlaybackOf
  <2>2. Respawned(active.position, volume')
    BY <1>3 DEF Volume
  <2>3. Sound = "playing" /\ Position = active.position
    BY <1>3, SilentIs
  <2>4. CASE /\ Playing' /\ Position' = active.position /\ Hushed' = Hushed
             /\ Sound' = "playing" /\ UNCHANGED << player, history, listed >>
    BY <2>3, <2>4, UnheardIs DEF Audible
  <2> QED BY <1>1, <1>3, <2>1, <2>2, <2>4, RespawnedIs
<1> QED BY <1>2, <1>3

LEMMA PauseOrResumeIs ==
  ASSUME IInv, Pause \/ Resume
  PROVE  Heard!PauseOrResume
<1>1. active \in PlaybackOf(Issued)
  BY DEF IInv, Shape, Local
<1>2. Playing /\ UNCHANGED << player, history, listed >>
  BY DEF Pause, Resume, stores, bounds
<1>3. /\ active'.track = active.track /\ active'.position = active.position
      /\ active'.paused = ~ active.paused
  BY <1>1 DEF Pause, Resume, PlaybackOf
<1>4. Sound = "playing" /\ Sound' = "playing" /\ Position' = Position
      /\ Hushed' = ~ Hushed
  BY <1>2, <1>3 DEF Sound, Position, Hushed, Playing
<1> QED BY <1>2, <1>4 DEF Heard!PauseOrResume, Position, Hushed

(* A frame that is sent is heard, unless the session fails it. *)
LEMMA SendFrameIs ==
  ASSUME IInv, SendFrame
  PROVE  Heard!Hear \/ UNCHANGED Heard!vars
<1>1. active \in PlaybackOf(Issued)
  BY DEF IInv, Shape, Local
<1>2. /\ Playing /\ ~ active.paused /\ UNCHANGED << player, history, listed >>
      /\ at = "select" /\ at' # "complete"
  BY DEF SendFrame, Receives, Receiving, EndTurn, Break, stores, bounds
<1>3. /\ active'.track = active.track /\ active'.paused = active.paused
      /\ active'.position \in {active.position, active.position + 1}
  BY <1>1 DEF SendFrame, PlaybackOf
<1>4. /\ Sound = "playing" /\ Sound' = "playing" /\ ~ Hushed /\ Hushed' = Hushed
      /\ Position' \in {Position, Position + 1}
  BY <1>2, <1>3 DEF Sound, Position, Hushed, Playing
<1>5. CASE Position' = Position
  BY <1>2, <1>4, <1>5, UnheardIs DEF Audible
<1>6. CASE Position' = Position + 1
  BY <1>2, <1>4, <1>6 DEF Heard!Hear, Position, Hushed
<1> QED BY <1>4, <1>5, <1>6

(* /previous takes the latest track of the history. *)
LEMMA RewindQueueIs ==
  ASSUME IInv, RewindQueue
  PROVE  Heard!TakeBack
<1>1. player \in Player(Issued) /\ history \in Seq(Issued)
  BY DEF IInv, Shape, Stored
<1>2. /\ at = "rewind" /\ at' = "advance" /\ UNCHANGED << active, listed >>
      /\ player' = Rewind(player, job.id, job.track)
      /\ history' = Forget(history)
  BY DEF RewindQueue, bounds
<1>3. /\ player.now = job.id \/ player.now = NoTrack
      /\ history # << >> /\ job.track = Latest(history)
  BY <1>2 DEF IInv, SlotAgrees, Cleared, JobKept
<1>4. Latest(history) \in Issued /\ Latest(history) = Last(history)
  BY <1>1, <1>3, LatestInside
<1>5. player' = [player EXCEPT
        !.now = NoTrack,
        !.queue = << Last(history) >>
                    \o (IF player.now = NoTrack THEN << >> ELSE << player.now >>) \o @]
  <2>1. Rewind(player, player.now, Latest(history)) =
          [player EXCEPT
             !.now = NoTrack,
             !.queue = << Latest(history) >>
                         \o (IF player.now = NoTrack THEN << >> ELSE << player.now >>)
                         \o @]
    BY <1>1, <1>4, RewindIs
  <2>2. Rewind(player, job.id, job.track) = Rewind(player, player.now, Latest(history))
    BY <1>3 DEF Rewind
  <2> QED BY <1>2, <1>4, <2>1, <2>2
<1>6. history' = Front(history)
  BY <1>2, <1>3 DEF Forget
<1>7. /\ Sound = "silent" /\ Sound' = "silent"
      /\ UNCHANGED Position /\ UNCHANGED Hushed /\ UNCHANGED listed
  BY <1>2, SilentIs DEF Sound, Position, Hushed, Playing
<1> QED BY <1>3, <1>5, <1>6, <1>7, SameWords DEF Heard!TakeBack, Position, Hushed

(* The second half of /skip, of a failure and of a completion; after a      *)
(* clear there is nothing to give up.                                       *)
LEMMA GivingUpIs ==
  ASSUME IInv, Finish \/ Complete
  PROVE  Heard!GiveUp \/ Heard!Fade \/ UNCHANGED Heard!vars
<1>1. player \in Player(Issued)
  BY DEF IInv, Shape, Stored
<1>2. /\ at \in {"finish", "complete"} /\ at' = "advance"
      /\ UNCHANGED << active, listed >>
      /\ history' = IF player.now = job.id /\ job.record
                    THEN Remember(history, job.track, HistoryLimit) ELSE history
      /\ player' = IF at = "finish" THEN FinishCurrent(player, job.id)
                                    ELSE CompleteCurrent(player, job.id)
  BY DEF Finish, Complete, GiveUp, bounds
<1>3. /\ player.now = job.id \/ Cleared
      /\ job.id # NoTrack
      /\ job.record => job.track = job.id \/ Cleared
  BY <1>2 DEF IInv, SlotAgrees, JobKept
<1>4. /\ Sound = IF at = "complete" THEN "ended" ELSE "silent"
      /\ Sound' = "silent" /\ Position' = 0 /\ Hushed' = FALSE
      /\ Position = 0 /\ Hushed = FALSE
  BY <1>2, SilentIs DEF Sound, Position, Hushed, Playing
<1>5. CASE player.now = job.id
  <2>1. history' \in {history, Remember(history, player.now, HistoryLimit)}
    BY <1>2, <1>3, <1>5 DEF Cleared
  <2>2. player' = [player EXCEPT
          !.now = NoTrack,
          !.queue = IF Sound = "ended" THEN Requeued(player) ELSE @]
    <3>1. CASE at = "finish"
      <4>1. player' = [player EXCEPT !.now = NoTrack] /\ Sound # "ended"
        BY <1>2, <1>4, <1>5, <3>1 DEF FinishCurrent
      <4> QED BY <1>1, <4>1 DEF Player
    <3>2. CASE at = "complete"
      <4>1. player' = [player EXCEPT !.now = NoTrack, !.queue = Requeued(player)]
            /\ Sound = "ended"
        BY <1>2, <1>3, <1>4, <1>5, <3>2 DEF CompleteCurrent
      <4> QED BY <4>1
    <3> QED BY <1>2, <3>1, <3>2
  <2>3. Sound # "playing" /\ player.now # NoTrack
    BY <1>3, <1>4, <1>5
  <2>4. Heard!GiveUp
    BY <1>2, <1>4, <2>1, <2>2, <2>3, SameWords
       DEF Heard!GiveUp, Heard!Quiet, Position, Hushed
  <2> QED BY <2>4
<1>6. CASE player.now # job.id
  <2>1. player' = player /\ history' = history
    BY <1>2, <1>6 DEF FinishCurrent, CompleteCurrent
  <2>2. ~ listed /\ player.now = NoTrack
    BY <1>3, <1>6 DEF Cleared
  <2>3. CASE at = "finish"
    BY <1>2, <1>4, <2>1, <2>3, UnheardIs DEF Audible
  <2>4. CASE at = "complete"
    <3>1. Heard!Fade
      BY <1>2, <1>4, <2>1, <2>2, <2>4, SameWords
         DEF Heard!Fade, Heard!Quiet, Position, Hushed
    <3> QED BY <3>1
  <2> QED BY <1>2, <2>3, <2>4
<1> QED BY <1>5, <1>6

LEMMA StepHeard == ASSUME IInv, [Next]_vars PROVE [Heard!Next]_(Heard!vars)
<1>1. CASE EnqueueTrack \/ EditQueue
  BY <1>1, EditIs DEF Heard!Next
<1>2. CASE \/ LoseWake \/ Resolve \/ Decode \/ DecoderDies \/ VoiceFails
           \/ IdleTimeout \/ UNCHANGED vars
  BY <1>2, SilentStepIs
<1>3. CASE StopPlayback \/ ShutDown \/ Close
  BY <1>3, ClearingIs DEF Heard!Next
<1>4. CASE Wake \/ Advance
  BY <1>4, StartingIs DEF Heard!Next
<1>5. CASE Previous \/ Skip \/ TrackFails
  BY <1>5, BreakingOffIs DEF Heard!Next
<1>6. CASE TrackEnds
  BY <1>6, TrackEndsIs DEF Heard!Next
<1>7. CASE Seek
  BY <1>7, SeekIs DEF Heard!Next
<1>8. CASE Volume
  BY <1>8, VolumeIs DEF Heard!Next
<1>9. CASE Pause \/ Resume
  BY <1>9, PauseOrResumeIs DEF Heard!Next
<1>10. CASE SendFrame
  BY <1>10, SendFrameIs DEF Heard!Next
<1>11. CASE RewindQueue
  BY <1>11, RewindQueueIs DEF Heard!Next
<1>12. CASE Finish \/ Complete
  BY <1>12, GivingUpIs DEF Heard!Next
<1>13. CASE Unlist \/ ClearUnlisted \/ Rejoin
  BY <1>13, UnlistedIs, RejoinIs DEF Heard!Next
<1> QED BY <1>1, <1>2, <1>3, <1>4, <1>5, <1>6, <1>7, <1>8, <1>9, <1>10, <1>11,
           <1>12, <1>13 DEF Next, SecondHalf, Refused

(* Every step of the worker, of its decoder and of the command tasks beside *)
(* it is one that the listeners were promised, or is not heard at all: one  *)
(* track at a time, each from its beginning, frame after frame, looped only *)
(* when it was heard to its end, none lost by /previous, and none taken     *)
(* from under a session that is not on its way out.                         *)
THEOREM Refines == Spec => JukeboxSpec
<1>1. IInv /\ [Next]_vars => [Heard!Next]_(Heard!vars)
  BY StepHeard
<1> QED BY InitHeard, Inductive, <1>1, PTL DEF Spec, JukeboxSpec, Heard!Spec
==============================================================================
