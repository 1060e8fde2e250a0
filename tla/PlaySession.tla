------------------------------ MODULE PlaySession ------------------------------
(***************************************************************************)
(* The commands of one guild, step by step, over everything they go        *)
(* through: /play resolves, joins, enqueues and wakes the worker, a queue  *)
(* edit asks for its context and then edits, /leave ends the session       *)
(* (src/src/commands).  The voice manager and the workers are those of     *)
(* VoiceManager and VoiceWorker without channels' capacities, timers and   *)
(* decoders; what is added is that several generations of workers, one     *)
(* perhaps still ending, share one player (src/src/voice_manager.rs).      *)
(*                                                                         *)
(* A command appears where it first touches something shared.  Before that *)
(* it reads the caller's voice channel, which may be any, for a user may   *)
(* move at any time; a /play resolves; and either may end it in a reply.   *)
(* Requests reach the manager in any order: a command may take any time    *)
(* between reading the channel and sending.  A request that only draws a   *)
(* reply changes nothing and is left out.                                  *)
(***************************************************************************)
EXTENDS GuildPlayer, FiniteSets

CONSTANTS
  Commands,    \* command tasks that may run at a time
  Channels,    \* voice channels of the guild
  NoCommand, NoChannel,
  Shutdown,    \* VoiceWorkerCommand::Shutdown
  HistoryLimit,  \* HISTORY_LIMIT
  MaxWorkers,  \* bound: voice sessions
  MaxTracks,   \* bound: tracks ever enqueued
  MaxPrevious  \* bound: /previous commands

ASSUME BoundAssumption ==
  /\ MaxWorkers \in Nat \ {0} /\ MaxTracks \in Nat
  /\ MaxPrevious \in Nat /\ HistoryLimit \in Nat \ {0}

(* Finitely many commands wait at a time: each is a task of the process. *)
ASSUME FiniteAssumption == IsFiniteSet(Commands)

ASSUME DistinctAssumption ==
  NoCommand \notin Commands /\ Shutdown \notin Commands /\ NoChannel \notin Channels

VARIABLES
  command,      \* the command tasks
  player,       \* the guild's entry of PlayerManager
  nextTrackId,  \* PlayerManager.next_track_id
  history,      \* the guild's entry of HistoryManager
  previouses,   \* bound: the /previous commands so far
  pending,      \* the command whose join is in VoiceManager.pending
  entry,        \* the generation in VoiceManager.workers, 0 for none
  worker        \* every worker ever started, by generation

requests == << command, pending >>
past == << history, previouses >>
store == << player, nextTrackId, past >>
vars == << command, store, pending, entry, worker >>

------------------------------------------------------------------------------
Tracks == 1 .. MaxTracks
Workers == 1 .. MaxWorkers

(* A play is a /play or a /playlist; an edit is /remove, /move, /shuffle or *)
(* /loop.  The other playback commands change nothing here.                 *)
Kinds == {"play", "join", "edit", "skip", "previous", "stop"}

(* What a handler has read: the current track, as far as it may go into    *)
(* the history or back into the queue, and the one before.                 *)
NoJob == [current |-> NoTrack, previous |-> NoTrack]

NoWorker == [phase |-> "unused", channel |-> NoChannel, by |-> NoCommand,
             mailbox |-> << >>, track |-> NoTrack, job |-> NoJob]

(* No command: another may be started in its place. *)
Idle == [kind |-> "none", at |-> "done", channel |-> NoChannel]

Init ==
  /\ command = [c \in Commands |-> Idle]
  /\ player = DefaultPlayer /\ nextTrackId = 0
  /\ history = << >> /\ previouses = 0
  /\ pending = NoCommand /\ entry = 0
  /\ worker = [w \in Workers |-> NoWorker]

At(c, where) == command[c].at = where

(* The commands after those of a set were answered and go on as `where'. *)
Moved(answered, where) ==
  [c \in Commands |-> IF c \notin answered THEN command[c]
                      ELSE IF where = "done" THEN Idle
                      ELSE [command[c] EXCEPT !.at = where]]

(* What a command does that was told it is connected. *)
AfterJoin(c) == IF command[c].kind = "play" THEN "enqueue" ELSE "done"

------------------------------------------------------------------------------
(* Command tasks *)

(* Tracks enqueued, or still to be by a command under way. *)
TracksDue ==
  nextTrackId
    + Cardinality({c \in Commands : /\ command[c].kind = "play"
                                    /\ command[c].at \notin {"action", "sent"}})

(* The command in place of c asks from this channel. *)
Asks(c, kind, channel, at) ==
  command' = [command EXCEPT ![c] = [kind |-> kind, at |-> at, channel |-> channel]]

(* /play and /playlist have resolved, and read the channel once more. *)
Plays(c, channel, at) == TracksDue < MaxTracks /\ Asks(c, "play", channel, at)

Joins(c, channel, at) == Asks(c, "join", channel, at)

(* /leave asks whoever its caller is and wherever. *)
Leaves(c) == At(c, "done")

Controls(c, channel, at) ==
  \E kind \in {"edit", "skip", "previous", "stop"} :
    /\ previouses' = previouses + (IF kind = "previous" THEN 1 ELSE 0)
    /\ previouses' <= MaxPrevious
    /\ Asks(c, kind, channel, at)

(* One track, or those of a playlist at once. *)
EnqueueTracks(c) ==
  /\ At(c, "enqueue")
  /\ \E added \in 1 .. MaxTracks - TracksDue + 1 :
       /\ nextTrackId' = nextTrackId + added
       /\ player' = [player EXCEPT !.queue = @ \o [i \in 1 .. added |-> nextTrackId + i]]
  /\ command' = Moved({c}, "action")
  /\ UNCHANGED << past, pending, entry, worker >>

EditQueue(c) ==
  /\ At(c, "edit")
  /\ \/ \E i \in DOMAIN player.queue : player' = RemoveQueued(player, i - 1)
     \/ \E i, j \in DOMAIN player.queue : player' = MoveQueued(player, i - 1, j - 1)
     \/ player' \in Shuffled(player)
     \/ \E mode \in LoopModes : player' = SetLoopMode(player, mode)
  /\ command' = Moved({c}, "done")
  /\ UNCHANGED << nextTrackId, past, pending, entry, worker >>

------------------------------------------------------------------------------
(* The voice manager *)

ControlledFrom(channel) == entry # 0 /\ worker[entry].channel = channel

InSession(c) == ControlledFrom(command[c].channel)

(* The voice channel is joined already, or nobody else is joining. *)
JoinVoice(c) ==
  /\ At(c, "done")
  /\ \E channel \in Channels :
       \/ ControlledFrom(channel) /\ Plays(c, channel, "enqueue") /\ UNCHANGED pending
       \/ /\ entry = 0 /\ pending = NoCommand /\ pending' = c
          /\ Plays(c, channel, "joining") \/ Joins(c, channel, "joining")
  /\ UNCHANGED << store, entry, worker >>

(* Discord's answer, or none, or the end of the timer. *)
RendezvousReady ==
  /\ pending # NoCommand
  /\ \E w \in Workers :
       /\ worker[w].phase = "unused" /\ \A v \in 1 .. w - 1 : worker[v].phase # "unused"
       /\ worker' = [worker EXCEPT ![w] =
            [NoWorker EXCEPT !.phase = "connecting", !.by = pending,
                             !.channel = command[pending].channel]]
       /\ entry' = w
  /\ pending' = NoCommand
  /\ UNCHANGED << command, store >>

RendezvousFails ==
  /\ pending # NoCommand
  /\ command' = Moved({pending}, "done") /\ pending' = NoCommand
  /\ UNCHANGED << store, entry, worker >>

Gone(w) == worker[w].phase \in {"ended", "stopped"}

(* Mutant: the worker keeps its entry until it has stopped. *)
LeaveVoiceKeepsEntry(c) ==
  /\ Leaves(c)
  /\ command' = Moved({pending}, "done") /\ pending' = NoCommand
  /\ IF entry = 0 THEN player' = DefaultPlayer /\ UNCHANGED worker
     ELSE /\ worker' = [worker EXCEPT ![entry].mailbox = Append(@, Shutdown)]
          /\ UNCHANGED player
  /\ UNCHANGED << nextTrackId, past, entry >>

LeaveVoice(c) ==
  /\ Leaves(c)
  /\ \/ /\ pending # NoCommand
        /\ player' = DefaultPlayer
        /\ command' = Moved({pending}, "done") /\ pending' = NoCommand
        /\ UNCHANGED << entry, worker >>
     \/ /\ pending = NoCommand /\ entry = 0
        /\ player' = DefaultPlayer
        /\ UNCHANGED << requests, entry, worker >>
     \/ /\ pending = NoCommand /\ entry # 0
        /\ entry' = 0
        /\ worker' = IF Gone(entry) THEN worker
                     ELSE [worker EXCEPT ![entry].mailbox = Append(@, Shutdown)]
        /\ UNCHANGED << requests, player >>
  /\ UNCHANGED << nextTrackId, past >>

Post(c) == worker' = [worker EXCEPT ![entry].mailbox = Append(@, c)]

(* A control command: a play's wake is one. *)
RoutePlayback(c) ==
  /\ \/ /\ At(c, "action")
        /\ IF InSession(c) /\ ~ Gone(entry)
           THEN Post(c) /\ command' = Moved({c}, "sent")
           ELSE command' = Moved({c}, "done") /\ UNCHANGED worker
        /\ UNCHANGED previouses
     \/ /\ At(c, "done") /\ entry # 0 /\ ~ Gone(entry) /\ Post(c)
        /\ Controls(c, worker[entry].channel, "sent")
  /\ UNCHANGED << player, nextTrackId, history, pending, entry >>

Stopped(w) ==
  /\ worker[w].phase = "ended"
  /\ worker' = [worker EXCEPT ![w] = [NoWorker EXCEPT !.phase = "stopped"]]
  /\ entry' = IF entry = w THEN 0 ELSE entry
  /\ UNCHANGED << requests, store >>

------------------------------------------------------------------------------
(* A worker that connects *)

Waiting(w) == ToSet(worker[w].mailbox) \intersect Commands

(* It ends, and with its mailbox the responses that still wait there. *)
EndWorker(w, answered) ==
  /\ worker' = [worker EXCEPT ![w] = [NoWorker EXCEPT !.phase = "ended",
                                                     !.channel = worker[w].channel]]
  /\ command' = Moved(answered \union Waiting(w), "done")

Connect(w) ==
  /\ worker[w].phase = "connecting"
  /\ worker' = [worker EXCEPT ![w].phase = "running", ![w].by = NoCommand]
  /\ command' = Moved({worker[w].by}, AfterJoin(worker[w].by))
  /\ UNCHANGED << store, pending, entry >>

ConnectFails(w) ==
  /\ worker[w].phase = "connecting"
  /\ EndWorker(w, {worker[w].by})
  /\ UNCHANGED << store, pending, entry >>

(* Any command makes it give up. *)
ConnectAborted(w) ==
  /\ worker[w].phase = "connecting" /\ worker[w].mailbox # << >>
  /\ player' = DefaultPlayer
  /\ EndWorker(w, {worker[w].by})
  /\ UNCHANGED << nextTrackId, past, pending, entry >>

------------------------------------------------------------------------------
(* A worker that is connected *)

Running(w) == worker[w].phase = "running"

(* start_next_playback; `rest' is the worker apart from what it plays. *)
StartNextPlayback(w, rest) ==
  /\ player' = StartNext(player)
  /\ worker' = [worker EXCEPT ![w] = [rest EXCEPT !.track =
       IF player.now = NoTrack /\ player.queue # << >> THEN Head(player.queue)
       ELSE NoTrack]]

Taken(w) == [worker[w] EXCEPT !.mailbox = Tail(@)]

Becomes(w, next) == worker' = [worker EXCEPT ![w] = next]

(* The command at the head of the mailbox, and what it asks for. *)
Receives(w, kind) ==
  /\ Running(w) /\ worker[w].mailbox # << >>
  /\ Head(worker[w].mailbox) # Shutdown
  /\ command[Head(worker[w].mailbox)].kind = kind

Answer(w, where) == command' = Moved({Head(worker[w].mailbox)}, where)

Wake(w) ==
  /\ Receives(w, "play") /\ Answer(w, "done")
  /\ IF worker[w].track = NoTrack THEN StartNextPlayback(w, Taken(w))
     ELSE Becomes(w, Taken(w)) /\ UNCHANGED player
  /\ UNCHANGED << nextTrackId, past, pending, entry >>

CheckContext(w) ==
  /\ Receives(w, "edit") /\ Answer(w, "edit")
  /\ Becomes(w, Taken(w))
  /\ UNCHANGED << store, pending, entry >>

(* The worker's next phase, in which it works on a job. *)
Turns(task, phase, job) == [task EXCEPT !.phase = phase, !.job = job]

Skip(w) ==
  /\ Receives(w, "skip") /\ Answer(w, "done")
  /\ Becomes(w, IF worker[w].track = NoTrack THEN Taken(w)
                ELSE Turns(Taken(w), "finish", [NoJob EXCEPT !.current = player.now]))
  /\ UNCHANGED << store, pending, entry >>

(* /previous reads the history, *)
Previous(w) ==
  /\ Receives(w, "previous") /\ Answer(w, "done")
  /\ Becomes(w, IF history = << >> THEN Taken(w)
                ELSE Turns(Taken(w), "previous",
                           [NoJob EXCEPT !.previous = Latest(history)]))
  /\ UNCHANGED << store, pending, entry >>

(* then the player, *)
ReadCurrent(w) ==
  /\ worker[w].phase = "previous"
  /\ Becomes(w, Turns(worker[w], "rewind",
                      [worker[w].job EXCEPT !.current = player.now]))
  /\ UNCHANGED << requests, store, entry >>

(* puts the current track and the previous one in front of the queue, *)
RewindQueue(w) ==
  /\ worker[w].phase = "rewind"
  /\ LET job == worker[w].job
     IN  player' = Rewind(player, job.current, job.previous)
  /\ Becomes(w, [Turns(worker[w], "forget", NoJob) EXCEPT !.track = NoTrack])
  /\ UNCHANGED << requests, nextTrackId, past, entry >>

(* and takes whatever is now the latest out of the history. *)
ForgetLatest(w) ==
  /\ worker[w].phase = "forget"
  /\ history' = Forget(history)
  /\ Becomes(w, Turns(worker[w], "advance", NoJob))
  /\ UNCHANGED << requests, player, nextTrackId, previouses, entry >>

Stop(w) ==
  /\ Receives(w, "stop") /\ Answer(w, "done")
  /\ player' = DefaultPlayer
  /\ Becomes(w, [Taken(w) EXCEPT !.track = NoTrack])
  /\ UNCHANGED << nextTrackId, past, pending, entry >>

ShutDown(w) ==
  /\ Running(w) /\ worker[w].mailbox # << >> /\ Head(worker[w].mailbox) = Shutdown
  /\ player' = DefaultPlayer
  /\ Becomes(w, [Taken(w) EXCEPT !.track = NoTrack, !.phase = "closing"])
  /\ UNCHANGED << command, nextTrackId, past, pending, entry >>

(* The decoder is through, or failed.  A track in a loop is not over. *)
TrackEnds(w) ==
  /\ Running(w) /\ worker[w].track # NoTrack
  /\ \/ Becomes(w, Turns(worker[w], "complete",
             [NoJob EXCEPT !.current = IF player.loop = "Track" THEN NoTrack
                                       ELSE player.now]))
     \/ Becomes(w, Turns(worker[w], "finish", NoJob))
  /\ UNCHANGED << requests, store, entry >>

(* The player is told in a critical section of its own; what was given up  *)
(* is remembered in another, *)
GiveUp(w, phase, p) ==
  /\ worker[w].phase = phase
  /\ player' = p
  /\ LET job == worker[w].job
         remembers == worker[w].track = player.now /\ job.current # NoTrack
     IN  Becomes(w, [Turns(worker[w], IF remembers THEN "record" ELSE "advance",
                           IF remembers THEN job ELSE NoJob) EXCEPT !.track = NoTrack])
  /\ UNCHANGED << requests, nextTrackId, past, entry >>

Finish(w) == GiveUp(w, "finish", FinishCurrent(player, worker[w].track))
Complete(w) == GiveUp(w, "complete", CompleteCurrent(player, worker[w].track))

Record(w) ==
  /\ worker[w].phase = "record"
  /\ history' = Remember(history, worker[w].job.current, HistoryLimit)
  /\ Becomes(w, Turns(worker[w], "advance", NoJob))
  /\ UNCHANGED << requests, player, nextTrackId, previouses, entry >>

(* and the next track is taken in a third. *)
Advance(w) ==
  /\ worker[w].phase = "advance"
  /\ StartNextPlayback(w, [worker[w] EXCEPT !.phase = "running"])
  /\ UNCHANGED << requests, nextTrackId, past, entry >>

IdleTimeout(w) ==
  /\ Running(w) /\ worker[w].track = NoTrack
  /\ worker' = [worker EXCEPT ![w].phase = IF IsIdle(player) THEN "closing" ELSE "advance"]
  /\ UNCHANGED << requests, store, entry >>

VoiceFails(w) ==
  /\ Running(w)
  /\ worker' = [worker EXCEPT ![w].phase = "closing"]
  /\ UNCHANGED << requests, store, entry >>

(* Mutant: the player is only cleared when the worker is told to leave. *)
CloseUncleared(w) ==
  /\ worker[w].phase = "closing"
  /\ EndWorker(w, {})
  /\ UNCHANGED << store, pending, entry >>

(* The clear after the loop. *)
Close(w) ==
  /\ worker[w].phase = "closing"
  /\ player' = DefaultPlayer
  /\ EndWorker(w, {})
  /\ UNCHANGED << nextTrackId, past, pending, entry >>
------------------------------------------------------------------------------
Command ==
  \E c \in Commands :
    \/ JoinVoice(c) \/ EnqueueTracks(c) \/ EditQueue(c)
    \/ LeaveVoice(c) \/ RoutePlayback(c)

Worker ==
  \E w \in Workers :
    \/ Connect(w) \/ ConnectFails(w) \/ ConnectAborted(w)
    \/ Wake(w) \/ CheckContext(w) \/ Skip(w) \/ Stop(w) \/ ShutDown(w)
    \/ Previous(w) \/ ReadCurrent(w) \/ RewindQueue(w) \/ ForgetLatest(w)
    \/ TrackEnds(w) \/ Finish(w) \/ Complete(w) \/ Record(w) \/ Advance(w)
    \/ IdleTimeout(w) \/ VoiceFails(w) \/ Close(w) \/ Stopped(w)

Next == Command \/ RendezvousReady \/ RendezvousFails \/ Worker

Spec == Init /\ [][Next]_vars

------------------------------------------------------------------------------
Steps == {"done", "joining", "enqueue", "action", "sent", "edit"}

Phases == {"unused", "connecting", "running", "finish", "complete", "record",
           "previous", "rewind", "forget", "advance", "closing", "ended", "stopped"}

Job == [current : Nat, previous : Nat]

CommandTask == [kind : Kinds \union {"none"}, at : Steps,
                channel : Channels \union {NoChannel}]

WorkerTask == [phase : Phases, channel : Channels \union {NoChannel},
               by : Commands \union {NoCommand}, track : Nat,
               mailbox : Seq(Commands \union {Shutdown}), job : Job]

Types ==
  /\ command \in [Commands -> CommandTask]
  /\ player \in Player(Nat) /\ nextTrackId \in Nat
  /\ history \in Seq(Nat) /\ Len(history) <= HistoryLimit /\ previouses \in Nat
  /\ pending \in Commands \union {NoCommand} /\ entry \in {0} \union Workers
  /\ worker \in [Workers -> WorkerTask]

(* The types of the variables; a mailbox holds at most the requests of all *)
(* commands and one Shutdown.                                              *)
TypeOK ==
  /\ Types
  /\ nextTrackId <= MaxTracks
  /\ \A w \in Workers : Len(worker[w].mailbox) <= Cardinality(Commands) + 1

(* What the player calls current is always in the hands of a worker, even  *)
(* while an old session ends in the middle of a new one: a current track   *)
(* that nobody will finish would keep start_next from taking another, in   *)
(* this session and in those to come.                                      *)
NowHasPlayer ==
  player.now # NoTrack => \E w \in Workers : worker[w].track = player.now

Places(t) ==
  Cardinality({i \in DOMAIN player.queue : player.queue[i] = t})
    + Cardinality({w \in Workers : worker[w].track = t})

(* A track is in one place only, queued or played by one worker: it gets   *)
(* its place when it is enqueued, and no step adds another, be it a worker *)
(* that puts back what it played while a new one plays something else (the *)
(* comparison of ids in complete_current).  Only /previous may double a    *)
(* track, for it enqueues what it has read under another lock.             *)
TrackOnce ==
  [][\A t \in Tracks :
       Places(t)' > Places(t)
         => \/ t > nextTrackId /\ Places(t)' = 1
            \/ \E w \in Workers : /\ worker[w].phase = "rewind"
                                 /\ worker'[w].phase = "forget"
                                 /\ t \in {worker[w].job.current, worker[w].job.previous}]_vars

(* Only the worker that plays the current track declares it finished, and  *)
(* only a /previous takes it back: no skip, no failure and no end of a     *)
(* decoder in an old session ends a track of its successor.                *)
OnlyOwnerFinishes ==
  [][player.now # NoTrack /\ player'.now # player.now /\ player' # DefaultPlayer
       => \E w \in Workers :
            \/ /\ worker[w].track = player.now
               /\ worker'[w].phase \in {"record", "advance"}
            \/ worker[w].phase = "rewind" /\ worker[w].job.current = player.now]_vars

(* "Every actively controlled guild gets a single task that serializes     *)
(* playback mutations": the end of one session leaves the queue of the     *)
(* next alone.                                                             *)
SessionsApart ==
  [][\A old, new \in Workers :
       /\ worker[old].phase = "closing" /\ worker'[old].phase = "ended"
       /\ old < new /\ Running(new)
       => IsIdle(player)]_vars

(* "Require control commands to come from an appropriate voice context": a *)
(* command changes the queue only while the session is there that accepted *)
(* its caller's channel.                                                   *)
QueueInContext ==
  [][\A c \in Commands :
       \/ At(c, "edit") /\ command'[c].at = "done"
       \/ At(c, "enqueue") /\ command'[c].at = "action"
       => InSession(c)]_vars
==============================================================================
