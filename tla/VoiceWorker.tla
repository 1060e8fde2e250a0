----------------------------- MODULE VoiceWorker -----------------------------
(***************************************************************************)
(* The playback loop of one guild's voice worker (run_voice_worker in      *)
(* src/src/voice_manager.rs) next to everything that runs beside it: the   *)
(* decoder task it spawned, and command tasks that change the guild's      *)
(* player under the shared lock.                                           *)
(*                                                                         *)
(* The worker's handlers are cut where they take or release that lock, so  *)
(* a command may act between any two of their accesses.  Only the worker   *)
(* changes the history, and only it makes a track the current one, so      *)
(* reads of those join the step they belong to.  A clear by another task   *)
(* may take the current track away at any time once the manager has the    *)
(* worker no longer in its map: `listed` says whether it has.  Time is     *)
(* abstract: the idle deadline may pass whenever the worker waits for it.  *)
(* Sessions follow one another here; how they start, end and overlap is    *)
(* the subject of VoiceManager and PlaySession.                            *)
(***************************************************************************)
EXTENDS GuildPlayer, FiniteSets

CONSTANTS
  MaxTracks,     \* bound: tracks ever enqueued
  MaxRewinds,    \* bound: /previous requests that are carried out
  MaxSessions,   \* bound: voice sessions, one after the other
  HistoryLimit,  \* HISTORY_LIMIT
  DecoderCap,    \* DECODER_FRAME_CAPACITY
  TrackFrames,   \* bound: Opus frames in a track
  Timed,         \* tracks whose metadata has a duration
  Volumes,       \* volume levels in use
  FullVolume     \* 100

ASSUME BoundAssumption ==
  /\ MaxTracks \in Nat /\ MaxRewinds \in Nat /\ MaxSessions \in Nat
  /\ TrackFrames \in Nat \ {0} /\ DecoderCap \in Nat \ {0}
  /\ HistoryLimit \in Nat \ {0}
  /\ FullVolume \in Volumes

VARIABLES
  player,       \* the guild's entry of PlayerManager
  history,      \* the guild's entry of HistoryManager
  nextTrackId,  \* PlayerManager.next_track_id
  owed,         \* tracks enqueued whose Wake is still on its way
  at,           \* where the worker is in its loop
  job,          \* its locals between two accesses of the player
  active,       \* Option<ActivePlayback>, with the decoder task it owns
  speaking,     \* what the voice session was last told to show
  volume,       \* volume_percent
  armed,        \* idle_deadline.is_some()
  reason,       \* why the loop was left
  listed,       \* the manager's map of workers names this one
  rewinds,      \* counts against MaxRewinds
  sessions      \* counts against MaxSessions

vars == << player, history, nextTrackId, owed, at, job, active, speaking,
           volume, armed, reason, listed, rewinds, sessions >>

------------------------------------------------------------------------------
Tracks == 1 .. MaxTracks
Positions == 0 .. TrackFrames

NoJob == [id |-> NoTrack, track |-> NoTrack, record |-> FALSE]

NoPlayback == [track |-> NoTrack, position |-> 0, paused |-> FALSE,
               speaking |-> FALSE, task |-> "over", next |-> 0,
               events |-> << >>, gain |-> FullVolume]

(* Mutant: with_start_at is forgotten. *)
SpawnFromStart(track, start, paused, gain) ==
  [track |-> track, position |-> start, paused |-> paused, speaking |-> FALSE,
   task |-> "resolving", next |-> 0, events |-> << >>, gain |-> gain]

(* ActivePlayback::spawn: the task starts to decode at the given position. *)
Spawn(track, start, paused, gain) ==
  [track |-> track, position |-> start, paused |-> paused, speaking |-> FALSE,
   task |-> "resolving", next |-> start, events |-> << >>, gain |-> gain]

Playing == active.track # NoTrack
Running == at \in {"select", "rewind", "finish", "complete", "advance"}

Init ==
  /\ player = DefaultPlayer /\ history = << >> /\ nextTrackId = 0 /\ owed = 0
  /\ at = "select" /\ job = NoJob /\ active = NoPlayback
  /\ speaking = FALSE /\ volume = FullVolume /\ armed = TRUE
  /\ reason = "none" /\ listed = TRUE /\ rewinds = 0 /\ sessions = 1

bounds == << listed, rewinds, sessions >>
stores == << player, history >>
commands == << nextTrackId, owed >>

------------------------------------------------------------------------------
(* Command tasks, holding the player lock *)

Edit(p) ==
  /\ player' = p
  /\ UNCHANGED << history, commands, at, job, active, speaking, volume, armed,
                  reason, bounds >>

(* /play and /playlist: enqueue, then send Wake. *)
EnqueueTrack ==
  /\ nextTrackId < MaxTracks
  /\ nextTrackId' = nextTrackId + 1
  /\ owed' = owed + 1
  /\ player' = Enqueue(player, nextTrackId')
  /\ UNCHANGED << history, at, job, active, speaking, volume, armed, reason,
                  bounds >>

(* Wake finds no worker, *)
LoseWake ==
  /\ (~ listed \/ at = "ended") /\ owed > 0
  /\ owed' = owed - 1
  /\ UNCHANGED << stores, nextTrackId, at, job, active, speaking, volume,
                  armed, reason, bounds >>

(* which the manager takes out of its map for a /leave, at the shutdown, or *)
(* when it hears that it has stopped.                                       *)
Unlist ==
  /\ listed /\ listed' = FALSE
  /\ UNCHANGED << stores, commands, at, job, active, speaking, volume, armed,
                  reason, rewinds, sessions >>

(* Mutant: a /leave clears before it looks for a worker. *)
ClearAnyTime ==
  /\ player # DefaultPlayer
  /\ Edit(DefaultPlayer)

(* From then on a /leave that finds no worker clears the player, whether    *)
(* the one that was told to stop has ended or not, and so does the next     *)
(* session's worker when it is told to stop before it is connected.         *)
ClearUnlisted ==
  /\ ~ listed /\ player # DefaultPlayer
  /\ Edit(DefaultPlayer)

(* /remove, /move, /shuffle and /loop. *)
EditQueue ==
  \/ \E i \in DOMAIN player.queue : Edit(RemoveQueued(player, i - 1))
  \/ \E i, j \in DOMAIN player.queue : Edit(MoveQueued(player, i - 1, j - 1))
  \/ \E p \in Shuffled(player) : Edit(p)
  \/ \E mode \in LoopModes : Edit(SetLoopMode(player, mode))

------------------------------------------------------------------------------
(* The decoder task of the active playback *)

DecoderStep(playback) ==
  /\ active' = playback
  /\ UNCHANGED << stores, commands, at, job, speaking, volume, armed, reason,
                  bounds >>

Emit(playback, kind) ==
  [playback EXCEPT !.events = Append(@, [kind |-> kind, at |-> playback.next])]

HasRoom == Len(active.events) < DecoderCap

(* resolve_media and open_with_options *)
Resolve ==
  /\ Playing /\ active.task = "resolving"
  /\ \/ DecoderStep([active EXCEPT !.task = "streaming"])
     \/ /\ HasRoom
        /\ DecoderStep([Emit(active, "Failed") EXCEPT !.task = "over"])

(* One turn of the frame loop; send waits for room. *)
Decode ==
  /\ Playing /\ active.task = "streaming" /\ HasRoom
  /\ \/ /\ active.next < TrackFrames
        /\ DecoderStep([Emit(active, "Frame") EXCEPT !.next = @ + 1])
     \/ /\ active.next >= TrackFrames
        /\ DecoderStep([Emit(active, "Finished") EXCEPT !.task = "over"])
     \/ DecoderStep([Emit(active, "Failed") EXCEPT !.task = "over"])

(* The task ends without a terminal event. *)
DecoderDies ==
  /\ Playing /\ active.task # "over"
  /\ DecoderStep([active EXCEPT !.task = "over"])

------------------------------------------------------------------------------
(* The worker: shared parts of the handlers *)

(* The end of a turn: the idle deadline runs exactly while nothing plays. *)
EndTurn ==
  /\ at' = "select"
  /\ armed' = (active'.track = NoTrack)
  /\ UNCHANGED reason

Break(why) == at' = "closing" /\ reason' = why /\ UNCHANGED armed

(* Cancel the active playback; telling the session that the bot no longer  *)
(* speaks may fail, and then the loop is left.                             *)
Cancelled(next) ==
  /\ active' = NoPlayback
  /\ \/ /\ speaking' = (speaking /\ ~ active.speaking)
        /\ at' = next /\ UNCHANGED << armed, reason >>
     \/ active.speaking /\ UNCHANGED speaking /\ Break("VoiceFailed")

(* The same for a playback that is replaced at once. *)
Respawned(start, gain) ==
  \/ /\ active' = Spawn(active.track, start, active.paused, gain)
     /\ speaking' = (speaking /\ ~ active.speaking)
     /\ EndTurn
  \/ /\ active.speaking /\ active' = NoPlayback
     /\ UNCHANGED speaking /\ Break("VoiceFailed")

(* start_next_playback *)
StartNextPlayback ==
  /\ player' = StartNext(player)
  /\ active' = IF player.now = NoTrack /\ player.queue # << >>
               THEN Spawn(Head(player.queue), 0, FALSE, volume)
               ELSE NoPlayback

------------------------------------------------------------------------------
(* The worker: commands *)

Wake ==
  /\ at = "select" /\ owed > 0
  /\ owed' = owed - 1
  /\ IF Playing THEN UNCHANGED << player, active >> ELSE StartNextPlayback
  /\ EndTurn
  /\ UNCHANGED << history, nextTrackId, job, speaking, volume, bounds >>

(* A command that is answered without any effect: CheckContext, and the    *)
(* others when nothing plays, nothing is in the history, or the player is  *)
(* in the state they ask for.  Most go to the next turn directly.          *)
Refused == at = "select" /\ UNCHANGED vars

(* Mutant: an empty history is not noticed. *)
PreviousUnchecked ==
  /\ at = "select"
  /\ rewinds < MaxRewinds /\ rewinds' = rewinds + 1
  /\ job' = [id |-> player.now, track |-> Latest(history), record |-> FALSE]
  /\ Cancelled("rewind")
  /\ UNCHANGED << stores, commands, volume, listed, sessions >>

Previous ==
  /\ at = "select" /\ history # << >>
  /\ rewinds < MaxRewinds /\ rewinds' = rewinds + 1
  /\ job' = [id |-> player.now, track |-> Latest(history), record |-> FALSE]
  /\ Cancelled("rewind")
  /\ UNCHANGED << stores, commands, volume, listed, sessions >>

RewindQueue ==
  /\ at = "rewind"
  /\ player' = Rewind(player, job.id, job.track)
  /\ history' = Forget(history)
  /\ at' = "advance" /\ job' = NoJob
  /\ UNCHANGED << commands, active, speaking, volume, armed, reason, bounds >>

Skip ==
  /\ at = "select" /\ Playing
  /\ job' = [id |-> active.track, track |-> player.now, record |-> TRUE]
  /\ Cancelled("finish")
  /\ UNCHANGED << stores, commands, volume, bounds >>

Seek ==
  /\ at = "select" /\ Playing
  /\ \E start \in Positions :
       /\ active.track \in Timed => start < TrackFrames
       /\ Respawned(start, volume)
  /\ UNCHANGED << stores, commands, job, volume, bounds >>

(* Mutant: the new decoder starts where the old one had got to. *)
VolumeFromDecoder ==
  /\ at = "select"
  /\ volume' \in Volumes
  /\ IF Playing THEN Respawned(active.next, volume')
                ELSE UNCHANGED << active, speaking >> /\ EndTurn
  /\ UNCHANGED << stores, commands, job, bounds >>

Volume ==
  /\ at = "select"
  /\ volume' \in Volumes
  /\ IF Playing THEN Respawned(active.position, volume')
                ELSE UNCHANGED << active, speaking >> /\ EndTurn
  /\ UNCHANGED << stores, commands, job, bounds >>

(* Mutant: the playback still counts as speaking. *)
PauseStillSpeaking ==
  /\ at = "select" /\ Playing /\ ~ active.paused
  /\ active' = [active EXCEPT !.paused = TRUE]
  /\ speaking' = (speaking /\ ~ active.speaking)
  /\ EndTurn
  /\ UNCHANGED << stores, commands, job, volume, bounds >>

Pause ==
  /\ at = "select" /\ Playing /\ ~ active.paused
  /\ \/ /\ active' = [active EXCEPT !.paused = TRUE, !.speaking = FALSE]
        /\ speaking' = (speaking /\ ~ active.speaking)
        /\ EndTurn
     \/ /\ active.speaking /\ active' = [active EXCEPT !.paused = TRUE]
        /\ UNCHANGED speaking /\ Break("VoiceFailed")
  /\ UNCHANGED << stores, commands, job, volume, bounds >>

Resume ==
  /\ at = "select" /\ Playing /\ active.paused
  /\ active' = [active EXCEPT !.paused = FALSE]
  /\ EndTurn
  /\ UNCHANGED << stores, commands, job, speaking, volume, bounds >>

StopPlayback ==
  /\ at = "select"
  /\ player' = DefaultPlayer
  /\ active' = NoPlayback
  /\ \/ speaking' = (speaking /\ ~ active.speaking) /\ EndTurn
     \/ active.speaking /\ UNCHANGED speaking /\ Break("VoiceFailed")
  /\ UNCHANGED << history, commands, job, volume, bounds >>

(* Shutdown, which the manager sends to a worker it has taken out of its    *)
(* map; a failure to stop speaking is only logged.                          *)
ShutDown ==
  /\ at = "select" /\ ~ listed
  /\ player' = DefaultPlayer
  /\ active' = NoPlayback
  /\ speaking' \in {FALSE, speaking}
  /\ Break("Requested")
  /\ UNCHANGED << history, commands, job, volume, bounds >>

------------------------------------------------------------------------------
(* The worker: the voice session *)

VoiceFails ==
  /\ at = "select"
  /\ Break("VoiceFailed")
  /\ UNCHANGED << stores, commands, job, active, speaking, volume, bounds >>

------------------------------------------------------------------------------
(* The worker: the decoder channel, polled unless paused *)

Receiving == at = "select" /\ Playing /\ ~ active.paused

Receives(kind) ==
  Receiving /\ active.events # << >> /\ Head(active.events).kind = kind

(* Speak first, then send the frame; either may fail. *)
SendFrame ==
  /\ Receives("Frame")
  /\ \/ /\ active' = [active EXCEPT !.speaking = TRUE, !.position = @ + 1,
                                    !.events = Tail(@)]
        /\ speaking' = TRUE
        /\ EndTurn
     \/ /\ active' = [active EXCEPT !.events = Tail(@)]
        /\ UNCHANGED speaking /\ Break("VoiceFailed")
     \/ /\ active' = [active EXCEPT !.speaking = TRUE, !.events = Tail(@)]
        /\ speaking' = TRUE /\ Break("VoiceFailed")
  /\ UNCHANGED << stores, commands, job, volume, bounds >>

(* The loop mode is read here, before the player applies it. *)
TrackEnds ==
  /\ Receives("Finished")
  /\ job' = [id |-> active.track, track |-> player.now,
             record |-> player.loop # "Track"]
  /\ Cancelled("complete")
  /\ UNCHANGED << stores, commands, volume, bounds >>

(* Mutant: the player is not told that its track is over. *)
TrackFailsUnfinished ==
  /\ \/ Receives("Failed")
     \/ Receiving /\ active.events = << >> /\ active.task = "over"
  /\ job' = NoJob
  /\ Cancelled("advance")
  /\ UNCHANGED << stores, commands, volume, bounds >>

(* Mutant: a failed track is completed, and looped, like any other. *)
TrackFailsCompleted ==
  /\ \/ Receives("Failed")
     \/ Receiving /\ active.events = << >> /\ active.task = "over"
  /\ job' = [id |-> active.track, track |-> NoTrack, record |-> FALSE]
  /\ Cancelled("complete")
  /\ UNCHANGED << stores, commands, volume, bounds >>

(* DecoderEvent::Failed, or a channel closed without a terminal event. *)
TrackFails ==
  /\ \/ Receives("Failed")
     \/ Receiving /\ active.events = << >> /\ active.task = "over"
  /\ job' = [id |-> active.track, track |-> NoTrack, record |-> FALSE]
  /\ Cancelled("finish")
  /\ UNCHANGED << stores, commands, volume, bounds >>

------------------------------------------------------------------------------
(* The worker: second halves *)

(* The player gives up the track of the job, which may enter the history. *)
GiveUp(from, p) ==
  /\ at = from /\ at' = "advance" /\ job' = NoJob
  /\ player' = p
  /\ history' = IF player.now = job.id /\ job.record
                THEN Remember(history, job.track, HistoryLimit) ELSE history
  /\ UNCHANGED << commands, active, speaking, volume, armed, reason, bounds >>

Finish == GiveUp("finish", FinishCurrent(player, job.id))
Complete == GiveUp("complete", CompleteCurrent(player, job.id))

(* Mutant: the turn ends with a continue. *)
AdvanceContinues ==
  /\ at = "advance" /\ at' = "select"
  /\ StartNextPlayback
  /\ UNCHANGED << history, commands, job, speaking, volume, armed, reason,
                  bounds >>

Advance ==
  /\ at = "advance"
  /\ StartNextPlayback
  /\ EndTurn
  /\ UNCHANGED << history, commands, job, speaking, volume, bounds >>

------------------------------------------------------------------------------
(* The worker: the idle timeout and the end of the session *)

IdleTimeout ==
  /\ at = "select" /\ ~ Playing
  /\ armed' = FALSE
  /\ IF IsIdle(player) THEN at' = "closing" /\ reason' = "IdleTimedOut"
                       ELSE at' = "advance" /\ UNCHANGED reason
  /\ UNCHANGED << stores, commands, job, active, speaking, volume, bounds >>

(* clear() comes after the loop, in a critical section of its own. *)
Close ==
  /\ at = "closing" /\ at' = "ended"
  /\ player' = DefaultPlayer
  /\ active' = NoPlayback
  /\ speaking' = FALSE /\ job' = NoJob
  /\ UNCHANGED << history, commands, volume, armed, reason, bounds >>

(* A later join: a new worker with fresh locals over the same stores. *)
Rejoin ==
  /\ at = "ended" /\ at' = "select"
  /\ ~ listed /\ listed' = TRUE
  /\ sessions < MaxSessions /\ sessions' = sessions + 1
  /\ volume' = FullVolume /\ armed' = TRUE /\ reason' = "none"
  /\ UNCHANGED << stores, commands, job, active, speaking, rewinds >>

------------------------------------------------------------------------------
SecondHalf == RewindQueue \/ Finish \/ Complete \/ Advance \/ Close

Next ==
  \/ EnqueueTrack \/ LoseWake \/ Unlist \/ ClearUnlisted \/ EditQueue
  \/ Resolve \/ Decode \/ DecoderDies
  \/ Wake \/ Refused \/ Previous \/ Skip \/ Seek \/ Volume \/ Pause \/ Resume
  \/ StopPlayback \/ ShutDown \/ VoiceFails
  \/ SendFrame \/ TrackEnds \/ TrackFails
  \/ SecondHalf \/ IdleTimeout \/ Rejoin

Spec == Init /\ [][Next]_vars

(* Tokio runs every task that can run, a sleep ends, and what is on its way *)
(* arrives: a Wake that waits in the mailbox is received however often the  *)
(* select takes another branch.  Nothing is assumed of users or of Discord. *)
Fairness ==
  /\ WF_vars(SecondHalf) /\ WF_vars(IdleTimeout)
  /\ SF_vars(Wake) /\ WF_vars(LoseWake)

FairSpec == Spec /\ Fairness

------------------------------------------------------------------------------
Events == [kind : {"Frame", "Finished", "Failed"}, at : Positions]

Playback == [track : Tracks \union {NoTrack}, position : Positions,
             paused : BOOLEAN, speaking : BOOLEAN,
             task : {"resolving", "streaming", "over"}, next : Positions,
             events : Seq(Events), gain : Volumes]

(* The types of the variables. *)
TypeOK ==
  /\ player \in Player(Tracks) /\ history \in Seq(Tracks)
  /\ nextTrackId \in 0 .. MaxTracks /\ owed \in Nat
  /\ at \in {"select", "rewind", "finish", "complete", "advance", "closing",
             "ended"}
  /\ job \in [id : Tracks \union {NoTrack}, track : Tracks \union {NoTrack},
              record : BOOLEAN]
  /\ active \in Playback
  /\ speaking \in BOOLEAN /\ volume \in Volumes /\ armed \in BOOLEAN
  /\ reason \in {"none", "Requested", "IdleTimedOut", "VoiceFailed"}
  /\ listed \in BOOLEAN /\ rewinds \in 0 .. MaxRewinds /\ sessions \in Nat

Cleared == ~ listed /\ player.now = NoTrack

(* The worker and the shared player agree on the current track: what is    *)
(* being decoded is now_playing, and a transition finds the track it set   *)
(* out to finish, or no track at all, and that only if the manager had let *)
(* go of the worker and the player was cleared behind its back.  Without   *)
(* this a stale now_playing would keep start_next from ever starting       *)
(* another track.                                                          *)
SlotAgrees ==
  /\ at = "select" => player.now = active.track \/ Cleared
  /\ at \in {"rewind", "finish", "complete"} => player.now = job.id \/ Cleared
  /\ at = "advance" => player.now = NoTrack
  /\ at \notin {"select", "closing"} => ~ Playing

(* The voice session shows the bot as speaking exactly while a playback    *)
(* that is not paused has sent frames, across pauses, seeks, volume        *)
(* changes and track changes.                                              *)
SpeakingMirrored ==
  Running => /\ speaking = (Playing /\ active.speaking)
             /\ active.paused => ~ speaking

(* The decoder's frames carry on where the playback is, at the volume last *)
(* asked for: what is buffered starts at its position and has no gap, also *)
(* after seeks and volume changes, in any order, replaced the decoder.     *)
DecoderMatches ==
  Running /\ Playing =>
    LET frames == {i \in DOMAIN active.events : active.events[i].kind = "Frame"}
    IN  /\ \A i \in frames : active.events[i].at = active.position + i - 1
        /\ active.next = active.position + Cardinality(frames)
        /\ active.gain = volume

(* Only a seek moves a playback to another place: every other step leaves  *)
(* its position alone or counts the one frame it sent, so a volume change  *)
(* neither skips nor repeats audio.                                        *)
OnlySeekJumps ==
  [][Playing /\ active'.track = active.track =>
       active'.position \in {active.position, active.position + 1} \/ Seek]_vars

(* A track that the worker has cancelled has been heard to its end exactly  *)
(* if it is about to complete.                                              *)
Sound == IF Playing THEN "playing" ELSE IF at = "complete" THEN "ended" ELSE "silent"

Heard == INSTANCE Jukebox
           WITH sound <- Sound,
                position <- IF Playing THEN active.position ELSE 0,
                paused <- Playing /\ active.paused,
                serving <- listed

(* VoiceWorker implements Jukebox: whichever commands act between the steps *)
(* of a handler, and however the decoder ends, the listeners get the head   *)
(* of the queue from its beginning and frame after frame, no second track   *)
(* before the first is given up, a track is looped only if it was heard to  *)
(* its end, and a current track that plays is taken away only by a session  *)
(* that is on its way out.                                                  *)
JukeboxSpec == Heard!Spec

(* While the worker waits, the idle deadline runs exactly if nothing       *)
(* plays; "paused playback remains active".                                *)
IdleArmed == at = "select" => (armed <=> ~ Playing)

(* "New queued work arriving at the timeout boundary is rechecked before   *)
(* the disconnect is allowed to proceed": an idle disconnect discards no   *)
(* track.                                                                  *)
IdleDisconnectKeepsQueue ==
  [][at = "closing" /\ at' = "ended" /\ reason = "IdleTimedOut" =>
       IsIdle(player)]_vars

(* A connected guild's queue does not get stuck: where tracks wait, in the *)
(* end one plays, unless the queue is cleared or the session ends.         *)
QueueAdvances ==
  (player.queue # << >> /\ at # "ended")
    ~> (Playing \/ player.queue = << >> \/ at = "ended")
==============================================================================
