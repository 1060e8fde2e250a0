--------------------------- MODULE PlaySessionProofs ---------------------------
(***************************************************************************)
(* What PlaySession promises for any commands, channels and generations of *)
(* workers: the current track is always in a worker's hands, and only that *)
(* worker finishes it, though old and new sessions overlap.                *)
(*                                                                         *)
(* Part 1: the types.  Part 2: NowHasPlayer, with the fact that a worker   *)
(* holds no track where it is about to be replaced or to take one.         *)
(* Part 3: OnlyOwnerFinishes.  Part 4: TypeOK, which counts: each command  *)
(* that waits has its request in one place, so that a mailbox has room for *)
(* all of them, and who may still enqueue tracks was let in with room.     *)
(* Part 5: TrackOnce, by counting the places of a track, with the fact     *)
(* that nothing but enqueued tracks is queued, played or remembered.       *)
(***************************************************************************)
EXTENDS PlaySession, GuildPlayerProofs

------------------------------------------------------------------------------
(* Part 1: types *)

LEMMA MovedType ==
  ASSUME command \in [Commands -> CommandTask], NEW S, NEW where \in Steps
  PROVE  Moved(S, where) \in [Commands -> CommandTask]
BY DEF Moved, Idle, CommandTask, Steps

(* What a worker becomes when it starts the next track. *)
LEMMA StartType ==
  ASSUME Types, NEW w \in Workers, NEW rest \in WorkerTask,
         StartNextPlayback(w, rest)
  PROVE  player' \in Player(Nat) /\ worker' \in [Workers -> WorkerTask]
<1>1. player' \in Player(Nat)
  BY QueueOpsType, 0 \in Nat DEF Types, StartNextPlayback
<1>2. player.queue # << >> => Head(player.queue) \in Nat
  BY HeadTailProperties DEF Types, Player
<1> QED BY <1>1, <1>2 DEF Types, StartNextPlayback, WorkerTask, NoTrack

LEMMA EndType ==
  ASSUME Types, NEW w \in Workers, NEW S, EndWorker(w, S)
  PROVE  /\ worker' \in [Workers -> WorkerTask]
         /\ command' \in [Commands -> CommandTask]
<1>1. << >> \in Seq(Commands \union {Shutdown})
  OBVIOUS
<1> QED BY <1>1, MovedType DEF Types, EndWorker, WorkerTask, NoWorker, NoJob, Job, NoTrack, Phases, Steps

LEMMA DefaultType == DefaultPlayer \in Player(Nat)
BY DEF DefaultPlayer, Player, NoTrack, LoopModes

LEMMA TakenType ==
  ASSUME Types, NEW w \in Workers, worker[w].mailbox # << >>
  PROVE  Taken(w) \in WorkerTask
<1>1. Tail(worker[w].mailbox) \in Seq(Commands \union {Shutdown})
  BY HeadTailProperties DEF Types, WorkerTask
<1> QED BY <1>1 DEF Types, Taken, WorkerTask

LEMMA AppendType ==
  ASSUME Types, NEW w \in Workers, NEW m \in Commands \union {Shutdown}
  PROVE  [worker EXCEPT ![w].mailbox = Append(@, m)] \in [Workers -> WorkerTask]
<1>1. Append(worker[w].mailbox, m) \in Seq(Commands \union {Shutdown})
  BY AppendProperties DEF Types, WorkerTask
<1> QED BY <1>1 DEF Types, WorkerTask

LEMMA AsksType ==
  ASSUME Types, NEW c \in Commands, NEW kind \in Kinds,
         NEW channel \in Channels \union {NoChannel}, NEW at \in Steps,
         Asks(c, kind, channel, at)
  PROVE  command' \in [Commands -> CommandTask]
BY DEF Types, Asks, CommandTask

LEMMA PostType ==
  ASSUME Types, NEW c \in Commands, entry # 0, Post(c)
  PROVE  worker' \in [Workers -> WorkerTask]
BY AppendType DEF Types, Post

LEMMA CommandTypes ==
  ASSUME Types, NEW c \in Commands,
         \/ JoinVoice(c) \/ EnqueueTracks(c) \/ EditQueue(c)
         \/ LeaveVoice(c) \/ RoutePlayback(c)
  PROVE  Types'
<1> USE DEF Steps
<1>3. CASE EnqueueTracks(c)
  <2>1. player' \in Player(Nat) /\ nextTrackId' \in Nat
    <3>1. PICK added \in 1 .. MaxTracks - TracksDue + 1 :
            /\ nextTrackId' = nextTrackId + added
            /\ player' = [player EXCEPT !.queue =
                            @ \o [i \in 1 .. added |-> nextTrackId + i]]
      BY <1>3 DEF EnqueueTracks
    <3> DEFINE ids == [i \in 1 .. added |-> nextTrackId + i]
    <3>2. added \in Nat /\ nextTrackId \in Nat
      BY <3>1 DEF Types
    <3>3. ids \in Seq(Nat)
      BY <3>2
    <3>4. player.queue \o ids \in Seq(Nat)
      BY <3>3, ConcatProperties DEF Types, Player
    <3> HIDE DEF ids
    <3>5. player' = [player EXCEPT !.queue = @ \o ids]
      BY <3>1 DEF ids
    <3>6. player.now \in Nat \union {NoTrack} /\ player.loop \in LoopModes
      BY DEF Types, Player
    <3>7. player' = [now |-> player.now, queue |-> player.queue \o ids,
                     loop |-> player.loop]
      BY <3>5 DEF Types, Player
    <3>8. nextTrackId' \in Nat
      BY <3>1, <3>2
    <3> QED BY <3>4, <3>6, <3>7, <3>8 DEF Player
  <2>2. command' \in [Commands -> CommandTask]
    BY <1>3, MovedType DEF Types, EnqueueTracks
  <2> QED BY <1>3, <2>1, <2>2 DEF Types, EnqueueTracks, past
<1>4. CASE EditQueue(c)
  <2>1. player' \in Player(Nat)
    <3>1. \A i \in DOMAIN player.queue : i - 1 \in Nat
      BY LenProperties DEF Types, Player
    <3>2. \A i \in DOMAIN player.queue : RemoveQueued(player, i - 1) \in Player(Nat)
      BY <3>1, RemoveQueuedType DEF Types
    <3>3. \A i, j \in DOMAIN player.queue :
            MoveQueued(player, i - 1, j - 1) \in Player(Nat)
      BY <3>1, MoveQueuedType DEF Types
    <3>4. \A q \in Shuffled(player) : q \in Player(Nat)
      BY ShuffledType DEF Types
    <3>5. \A mode \in LoopModes : SetLoopMode(player, mode) \in Player(Nat)
      BY DEF Types, SetLoopMode, Player
    <3> QED BY <1>4, <3>2, <3>3, <3>4, <3>5 DEF EditQueue
  <2>2. command' \in [Commands -> CommandTask]
    BY <1>4, MovedType DEF Types, EditQueue
  <2> QED BY <1>4, <2>1, <2>2 DEF Types, EditQueue, past
<1>5. CASE JoinVoice(c)
  <2>1. PICK kind \in {"play", "join"}, channel \in Channels :
          \/ Asks(c, kind, channel, "enqueue") /\ UNCHANGED pending
          \/ Asks(c, kind, channel, "joining") /\ pending' = c
    BY <1>5 DEF JoinVoice, Plays, Joins
  <2>2. command' \in [Commands -> CommandTask]
    BY <2>1, AsksType DEF Kinds
  <2> QED BY <1>5, <2>1, <2>2 DEF Types, JoinVoice, store, past
<1>6. CASE LeaveVoice(c)
  <2>1. command' \in [Commands -> CommandTask]
    BY <1>6, MovedType DEF Types, LeaveVoice, requests
  <2>2. player' \in Player(Nat)
    BY <1>6, DefaultType DEF Types, LeaveVoice
  <2>3. worker' \in [Workers -> WorkerTask]
    BY <1>6, AppendType DEF Types, LeaveVoice
  <2> QED BY <1>6, <2>1, <2>2, <2>3 DEF Types, LeaveVoice, past, requests
<1>7. CASE RoutePlayback(c)
  <2>1. CASE At(c, "action")
    <3>1. command' \in [Commands -> CommandTask]
      BY <1>7, <2>1, MovedType DEF Types, RoutePlayback, At
    <3>2. worker' \in [Workers -> WorkerTask]
      BY <1>7, <2>1, PostType DEF Types, RoutePlayback, At, InSession, ControlledFrom
    <3> QED BY <1>7, <2>1, <3>1, <3>2 DEF Types, RoutePlayback, At
  <2>2. CASE ~ At(c, "action")
    <3>1. PICK kind \in {"edit", "skip", "previous", "stop"} :
            /\ previouses' = previouses + (IF kind = "previous" THEN 1 ELSE 0)
            /\ Asks(c, kind, worker[entry].channel, "sent")
      BY <1>7, <2>2 DEF RoutePlayback, Controls
    <3>2. entry \in Workers /\ Post(c)
      BY <1>7, <2>2 DEF RoutePlayback, Types
    <3>3. worker[entry].channel \in Channels \union {NoChannel}
      BY <3>2 DEF Types, WorkerTask
    <3>4. command' \in [Commands -> CommandTask]
      BY <3>1, <3>3, AsksType DEF Kinds
    <3>5. worker' \in [Workers -> WorkerTask]
      BY <3>2, PostType, 0 \notin Workers DEF Workers
    <3>6. previouses' \in Nat
      BY <3>1 DEF Types
    <3> QED BY <1>7, <3>4, <3>5, <3>6 DEF Types, RoutePlayback
  <2> QED BY <2>1, <2>2
<1> QED BY <1>3, <1>4, <1>5, <1>6, <1>7

LEMMA RendezvousTypes ==
  ASSUME Types, RendezvousReady \/ RendezvousFails
  PROVE  Types'
<1>1. CASE RendezvousReady
  <2>1. PICK w \in Workers :
          /\ worker' = [worker EXCEPT ![w] =
               [NoWorker EXCEPT !.phase = "connecting", !.by = pending,
                                !.channel = command[pending].channel]]
          /\ entry' = w
    BY <1>1 DEF RendezvousReady
  <2>2. pending \in Commands /\ command[pending].channel \in Channels \union {NoChannel}
    BY <1>1 DEF Types, RendezvousReady, CommandTask
  <2>3. << >> \in Seq(Commands \union {Shutdown})
    OBVIOUS
  <2>4. worker' \in [Workers -> WorkerTask]
    BY <2>1, <2>2, <2>3 DEF Types, WorkerTask, NoWorker, NoJob, Job, Phases, NoTrack
  <2> QED BY <1>1, <2>1, <2>4 DEF Types, RendezvousReady, store, past
<1>2. CASE RendezvousFails
  <2>1. command' \in [Commands -> CommandTask]
    BY <1>2, MovedType DEF Types, RendezvousFails, Steps
  <2> QED BY <1>2, <2>1 DEF Types, RendezvousFails, store, past
<1> QED BY <1>1, <1>2

WorkerStep(w) ==
  \/ Connect(w) \/ ConnectFails(w) \/ ConnectAborted(w)
  \/ Wake(w) \/ CheckContext(w) \/ Skip(w) \/ Stop(w) \/ ShutDown(w)
  \/ Previous(w) \/ ReadCurrent(w) \/ RewindQueue(w) \/ ForgetLatest(w)
  \/ TrackEnds(w) \/ Finish(w) \/ Complete(w) \/ Record(w) \/ Advance(w)
  \/ IdleTimeout(w) \/ VoiceFails(w) \/ Close(w) \/ Stopped(w)

(* Who has told the player gives up the track, and may remember it. *)
LEMMA GivenUp ==
  ASSUME NEW w, Finish(w) \/ Complete(w)
  PROVE  \E phase \in {"record", "advance"}, job \in {NoJob, worker[w].job} :
           Becomes(w, [Turns(worker[w], phase, job) EXCEPT !.track = NoTrack])
BY DEF Finish, Complete, GiveUp

LEMMA TurnsType ==
  ASSUME NEW task \in WorkerTask, NEW phase \in Phases, NEW job \in Job
  PROVE  /\ Turns(task, phase, job) \in WorkerTask
         /\ [Turns(task, phase, job) EXCEPT !.track = NoTrack] \in WorkerTask
         /\ Turns(task, phase, job).track = task.track
         /\ Turns(task, phase, job).phase = phase
         /\ Turns(task, phase, job).job = job
BY DEF Turns, WorkerTask, NoTrack

(* What a handler may have read. *)
LEMMA JobType ==
  ASSUME Types
  PROVE  /\ NoJob \in Job /\ NoTrack \in Nat
         /\ [NoJob EXCEPT !.current = player.now] \in Job
         /\ [NoJob EXCEPT !.previous = Latest(history)] \in Job
         /\ [NoJob EXCEPT !.current = IF player.loop = "Track" THEN NoTrack
                                      ELSE player.now] \in Job
<1>1. player.now \in Nat /\ NoTrack \in Nat
  BY DEF Types, Player, NoTrack
<1>2. Latest(history) \in Nat
  BY <1>1, LatestType DEF Types
<1> QED BY <1>1, <1>2 DEF NoJob, Job

LEMMA WorkerTypes ==
  ASSUME Types, NEW w \in Workers, WorkerStep(w)
  PROVE  Types'
<1> USE DEF Steps, Phases
<1>a. worker[w] \in WorkerTask /\ worker[w].job \in Job
  BY DEF Types, WorkerTask
<1>b. worker[w].mailbox # << >> => Taken(w) \in WorkerTask
  BY TakenType
<1>c. ASSUME NEW next \in WorkerTask, Becomes(w, next)
      PROVE  worker' \in [Workers -> WorkerTask]
  BY <1>c DEF Types, Becomes
<1>d. ASSUME NEW where \in Steps, Answer(w, where)
      PROVE  command' \in [Commands -> CommandTask]
  BY <1>d, MovedType DEF Types, Answer
<1>1. CASE Connect(w)
  <2>1. command' \in [Commands -> CommandTask]
    BY <1>1, MovedType DEF Types, Connect, AfterJoin
  <2>2. worker' \in [Workers -> WorkerTask]
    <3> DEFINE next == [worker[w] EXCEPT !.phase = "running", !.by = NoCommand]
    <3>1. next \in WorkerTask
      BY <1>a DEF WorkerTask
    <3>2. worker' = [worker EXCEPT ![w] = next]
      BY <1>1 DEF Types, Connect
    <3> HIDE DEF next
    <3> QED BY <3>1, <3>2 DEF Types
  <2> QED BY <1>1, <2>1, <2>2 DEF Types, Connect, store, past
<1>2. CASE ConnectFails(w)
  BY <1>2, EndType DEF Types, ConnectFails, store, past
<1>3. CASE ConnectAborted(w)
  BY <1>3, EndType, DefaultType DEF Types, ConnectAborted, past
<1>4. CASE Wake(w)
  <2>1. Taken(w) \in WorkerTask
    BY <1>4, <1>b DEF Wake, Receives
  <2>2. player' \in Player(Nat) /\ worker' \in [Workers -> WorkerTask]
    BY <1>4, <1>c, <2>1, StartType DEF Types, Wake
  <2>3. command' \in [Commands -> CommandTask]
    BY <1>4, <1>d DEF Wake
  <2> QED BY <1>4, <2>2, <2>3 DEF Types, Wake, past
<1>5. CASE CheckContext(w)
  <2>1. worker' \in [Workers -> WorkerTask]
    BY <1>5, <1>b, <1>c DEF CheckContext, Receives
  <2>2. command' \in [Commands -> CommandTask]
    BY <1>5, <1>d DEF CheckContext
  <2> QED BY <1>5, <2>1, <2>2 DEF Types, CheckContext, store, past
<1>6. CASE Skip(w)
  <2>1. Taken(w) \in WorkerTask
    BY <1>6, <1>b DEF Skip, Receives
  <2>2. Turns(Taken(w), "finish", [NoJob EXCEPT !.current = player.now]) \in WorkerTask
    BY <2>1, TurnsType, JobType
  <2>3. worker' \in [Workers -> WorkerTask]
    BY <1>6, <1>c, <2>1, <2>2 DEF Skip
  <2>4. command' \in [Commands -> CommandTask]
    BY <1>6, <1>d DEF Skip
  <2> QED BY <1>6, <2>3, <2>4 DEF Types, Skip, store, past
<1>7. CASE Previous(w)
  <2>1. Taken(w) \in WorkerTask
    BY <1>7, <1>b DEF Previous, Receives
  <2> DEFINE job == [NoJob EXCEPT !.previous = Latest(history)]
  <2>2. job \in Job
    BY JobType
  <2>3. worker' \in [Workers -> WorkerTask]
    <3>1. Becomes(w, Taken(w)) \/ Becomes(w, Turns(Taken(w), "previous", job))
      BY <1>7 DEF Previous
    <3> HIDE DEF job
    <3>2. Turns(Taken(w), "previous", job) \in WorkerTask
      BY <2>1, <2>2, TurnsType
    <3> QED BY <1>c, <2>1, <3>1, <3>2
  <2>4. command' \in [Commands -> CommandTask]
    BY <1>7, <1>d DEF Previous
  <2> QED BY <1>7, <2>3, <2>4 DEF Types, Previous, store, past
<1>8. CASE RewindQueue(w)
  <2>1. player' \in Player(Nat)
    BY <1>8, <1>a, RewindType, JobType DEF Types, Job, RewindQueue
  <2>2. [Turns(worker[w], "forget", NoJob) EXCEPT !.track = NoTrack] \in WorkerTask
    BY <1>a, TurnsType, JobType
  <2>3. worker' \in [Workers -> WorkerTask]
    BY <1>8, <1>c, <2>2 DEF RewindQueue
  <2> QED BY <1>8, <2>1, <2>3 DEF Types, RewindQueue, requests, past
<1>9. CASE ForgetLatest(w)
  <2>1. Turns(worker[w], "advance", NoJob) \in WorkerTask
    BY <1>a, TurnsType, JobType
  <2>2. worker' \in [Workers -> WorkerTask]
    BY <1>9, <1>c, <2>1 DEF ForgetLatest
  <2>3. history' \in Seq(Nat) /\ Len(history') <= HistoryLimit
    BY <1>9, ForgetType, BoundAssumption DEF Types, ForgetLatest
  <2> QED BY <1>9, <2>2, <2>3 DEF Types, ForgetLatest, requests
<1>10. CASE Stop(w)
  <2>1. Taken(w) \in WorkerTask
    BY <1>10, <1>b DEF Stop, Receives
  <2>2. [Taken(w) EXCEPT !.track = NoTrack] \in WorkerTask
    BY <2>1 DEF WorkerTask, NoTrack
  <2>3. worker' \in [Workers -> WorkerTask]
    BY <1>10, <1>c, <2>2 DEF Stop
  <2>4. command' \in [Commands -> CommandTask]
    BY <1>10, <1>d DEF Stop
  <2> QED BY <1>10, <2>3, <2>4, DefaultType DEF Types, Stop, past
<1>11. CASE ShutDown(w)
  <2>1. Taken(w) \in WorkerTask
    BY <1>11, <1>b DEF ShutDown
  <2>2. [Taken(w) EXCEPT !.track = NoTrack, !.phase = "closing"] \in WorkerTask
    BY <2>1 DEF WorkerTask, NoTrack
  <2>3. worker' \in [Workers -> WorkerTask]
    BY <1>11, <1>c, <2>2 DEF ShutDown
  <2> QED BY <1>11, <2>3, DefaultType DEF Types, ShutDown, past
<1>12. CASE TrackEnds(w)
  <2>1. PICK phase \in {"complete", "finish"}, job \in Job :
          Becomes(w, Turns(worker[w], phase, job))
    BY <1>12, JobType DEF TrackEnds
  <2>2. Turns(worker[w], phase, job) \in WorkerTask
    BY <1>a, <2>1, TurnsType
  <2>3. worker' \in [Workers -> WorkerTask]
    BY <1>c, <2>1, <2>2
  <2> QED BY <1>12, <2>3 DEF Types, TrackEnds, requests, store, past
<1>13. CASE IdleTimeout(w) \/ VoiceFails(w)
  <2>1. PICK phase \in Phases : worker' = [worker EXCEPT ![w].phase = phase]
    BY <1>13 DEF IdleTimeout, VoiceFails
  <2>2. worker' \in [Workers -> WorkerTask]
    BY <2>1 DEF Types, WorkerTask
  <2> QED BY <1>13, <2>2 DEF Types, IdleTimeout, VoiceFails, requests, store, past
<1>14. CASE Finish(w) \/ Complete(w)
  <2>1. player' \in Player(Nat)
    <3>1. ASSUME NEW id
          PROVE  /\ FinishCurrent(player, id) \in Player(Nat)
                 /\ CompleteCurrent(player, id) \in Player(Nat)
      BY QueueOpsType, 0 \in Nat DEF Types
    <3>2. player' \in {FinishCurrent(player, worker[w].track),
                       CompleteCurrent(player, worker[w].track)}
      BY <1>14 DEF Finish, Complete, GiveUp
    <3> QED BY <3>1, <3>2
  <2>2. PICK phase \in Phases, job \in Job :
          Becomes(w, [Turns(worker[w], phase, job) EXCEPT !.track = NoTrack])
    BY <1>14, <1>a, JobType, GivenUp
  <2>3. worker' \in [Workers -> WorkerTask]
    BY <1>a, <1>c, <2>2, TurnsType
  <2> QED BY <1>14, <2>1, <2>3 DEF Types, Finish, Complete, GiveUp, requests, past
<1>15. CASE Record(w)
  <2>1. Turns(worker[w], "advance", NoJob) \in WorkerTask
    BY <1>a, TurnsType, JobType
  <2>2. worker' \in [Workers -> WorkerTask]
    BY <1>15, <1>c, <2>1 DEF Record
  <2>3. history' \in Seq(Nat) /\ Len(history') <= HistoryLimit
    BY <1>15, <1>a, RememberType, BoundAssumption DEF Types, Job, Record
  <2> QED BY <1>15, <2>2, <2>3 DEF Types, Record, requests
<1>16. CASE Advance(w)
  <2>1. [worker[w] EXCEPT !.phase = "running"] \in WorkerTask
    BY <1>a DEF WorkerTask
  <2>2. player' \in Player(Nat) /\ worker' \in [Workers -> WorkerTask]
    BY <1>16, <2>1, StartType DEF Advance
  <2> QED BY <1>16, <2>2 DEF Types, Advance, requests, past
<1>17. CASE Close(w)
  BY <1>17, EndType, DefaultType DEF Types, Close, past
<1>18. CASE Stopped(w)
  <2>1. << >> \in Seq(Commands \union {Shutdown})
    OBVIOUS
  <2>2. worker' \in [Workers -> WorkerTask]
    BY <1>18, <2>1 DEF Types, Stopped, WorkerTask, NoWorker, NoJob, Job, NoTrack
  <2> QED BY <1>18, <2>2 DEF Types, Stopped, store, requests, past
<1>19. CASE ReadCurrent(w)
  <2> DEFINE job == [worker[w].job EXCEPT !.current = player.now]
  <2>1. job \in Job
    BY <1>a, JobType DEF Types, Player, Job
  <2>2. Becomes(w, Turns(worker[w], "rewind", job))
    BY <1>19 DEF ReadCurrent
  <2> HIDE DEF job
  <2>3. Turns(worker[w], "rewind", job) \in WorkerTask
    BY <1>a, <2>1, TurnsType
  <2>4. worker' \in [Workers -> WorkerTask]
    BY <1>c, <2>2, <2>3
  <2> QED BY <1>19, <2>4 DEF Types, ReadCurrent, requests, store, past
<1> QED
  BY <1>1, <1>2, <1>3, <1>4, <1>5, <1>6, <1>7, <1>8, <1>9, <1>10, <1>11,
     <1>12, <1>13, <1>14, <1>15, <1>16, <1>17, <1>18, <1>19 DEF WorkerStep

LEMMA InitTypes ==
  ASSUME Init
  PROVE  Types
<1>1. << >> \in Seq(Commands \union {Shutdown})
  OBVIOUS
<1>2. worker \in [Workers -> WorkerTask]
  BY <1>1 DEF Init, WorkerTask, NoWorker, NoJob, Job, NoTrack, Phases
<1>3. command \in [Commands -> CommandTask]
  BY DEF Init, Idle, CommandTask, Steps
<1>4. history \in Seq(Nat) /\ Len(history) <= HistoryLimit
  BY EmptySeq, BoundAssumption DEF Init
<1> QED BY <1>2, <1>3, <1>4, DefaultType DEF Init, Types

(* The types of the variables; the bounds that TypeOK adds count messages. *)
THEOREM TypesCorrect == Spec => []Types
<1>1. Init => Types
  BY InitTypes
<1>2. Types /\ [Next]_vars => Types'
  <2> SUFFICES ASSUME Types, [Next]_vars PROVE Types'
    OBVIOUS
  <2>1. CASE Command
    BY <2>1, CommandTypes DEF Command
  <2>2. CASE RendezvousReady \/ RendezvousFails
    BY <2>2, RendezvousTypes
  <2>3. CASE Worker
    BY <2>3, WorkerTypes DEF Worker, WorkerStep
  <2>4. CASE UNCHANGED vars
    BY <2>4 DEF Types, vars, store, past
  <2> QED BY <2>1, <2>2, <2>3, <2>4 DEF Next
<1> QED BY <1>1, <1>2, PTL DEF Spec

------------------------------------------------------------------------------
(* Part 2: the current track is in a worker's hands *)

(* A worker that does not play yet, no longer, or is between two tracks    *)
(* holds no track.                                                         *)
EmptyHanded ==
  {"unused", "connecting", "record", "forget", "advance", "ended", "stopped"}

FreeHands ==
  \A w \in Workers : worker[w].phase \in EmptyHanded => worker[w].track = NoTrack

(* A worker that holds the current track and is about to put its own back, *)
(* puts back the current one: it does not drop it for another.             *)
Holder(w) ==
  /\ worker[w].track = player.now
  /\ worker[w].phase = "rewind" => worker[w].job.current = player.now

InHands == player.now # NoTrack => \E w \in Workers : Holder(w)

Held == Types /\ FreeHands /\ InHands

(* Nothing that concerns tracks changed. *)
LEMMA TracksUnchanged ==
  ASSUME Held, Types',
         player'.now = player.now,
         \A w \in Workers : /\ worker'[w].track = worker[w].track
                            /\ worker'[w].phase = worker[w].phase
                            /\ worker'[w].job = worker[w].job
  PROVE  Held'
BY DEF Held, FreeHands, InHands, Holder

(* One worker moves on to a phase in which it may hold its track, or       *)
(* without any.                                                            *)
LEMMA PhaseChanged ==
  ASSUME Held, Types', player' = player,
         NEW w \in Workers, NEW next,
         worker' = [worker EXCEPT ![w] = next],
         next.track = worker[w].track,
         next.track = NoTrack \/ next.phase \notin EmptyHanded,
         next.phase = "rewind" => next.job.current = player.now
  PROVE  Held'
<1>1. worker'[w] = next /\ \A v \in Workers \ {w} : worker'[v] = worker[v]
  BY DEF Held, Types
<1>2. FreeHands'
  BY <1>1 DEF Held, FreeHands
<1>3. InHands'
  BY <1>1 DEF Held, InHands, Holder
<1> QED BY <1>2, <1>3 DEF Held

(* The player is cleared, and a worker gives up what it holds. *)
LEMMA Cleared ==
  ASSUME Held, Types', player' = DefaultPlayer,
         NEW w \in Workers, NEW next,
         worker' = [worker EXCEPT ![w] = next], next.track = NoTrack
  PROVE  Held'
BY DEF Held, FreeHands, InHands, Types, DefaultPlayer

(* A worker gives up its track, and the current one with it if it was the  *)
(* one to answer for it.                                                   *)
LEMMA TrackDropped ==
  ASSUME Held, Types', NEW w \in Workers, NEW next,
         worker' = [worker EXCEPT ![w] = next], next.track = NoTrack,
         player'.now \in {NoTrack, player.now},
         Holder(w) => player'.now = NoTrack
  PROVE  Held'
<1>1. worker'[w] = next /\ \A v \in Workers \ {w} : worker'[v] = worker[v]
  BY DEF Held, Types
<1>2. FreeHands'
  BY <1>1 DEF Held, FreeHands
<1>3. InHands'
  <2> SUFFICES ASSUME player'.now # NoTrack PROVE \E v \in Workers : Holder(v)'
    BY DEF InHands
  <2>1. PICK v \in Workers : Holder(v)
    BY DEF Held, InHands
  <2> QED BY <1>1, <2>1 DEF Holder
<1> QED BY <1>2, <1>3 DEF Held

(* A worker with free hands takes the next track, if there is none. *)
LEMMA Started ==
  ASSUME Held, Types', NEW w \in Workers, NEW rest \in WorkerTask,
         worker[w].track = NoTrack, rest.phase = "running",
         StartNextPlayback(w, rest)
  PROVE  Held'
<1>1. worker'[w].phase = "running" /\ \A v \in Workers \ {w} : worker'[v] = worker[v]
  BY DEF Held, Types, StartNextPlayback, WorkerTask
<1>2. FreeHands'
  BY <1>1 DEF Held, FreeHands, EmptyHanded
<1>3. CASE player.now = NoTrack /\ player.queue # << >>
  <2>1. player'.now = Head(player.queue) /\ worker'[w].track = Head(player.queue)
    BY <1>3 DEF Held, Types, StartNextPlayback, StartNext, Player, WorkerTask
  <2> QED BY <1>1, <1>2, <2>1 DEF Held, InHands, Holder
<1>4. CASE ~ (player.now = NoTrack /\ player.queue # << >>)
  <2>1. player'.now = player.now
    BY <1>4 DEF StartNextPlayback, StartNext
  <2>2. player.now # NoTrack => \E v \in Workers \ {w} : Holder(v)
    BY DEF Held, InHands, Holder
  <2> QED BY <1>1, <1>2, <2>1, <2>2 DEF Held, InHands, Holder
<1> QED BY <1>3, <1>4

(* A message in a mailbox changes nothing else of a worker. *)
LEMMA SentOnly ==
  ASSUME Types, NEW m, NEW e,
         worker' = [worker EXCEPT ![e].mailbox = Append(@, m)]
  PROVE  \A w \in Workers : /\ worker'[w].track = worker[w].track
                            /\ worker'[w].phase = worker[w].phase
                            /\ worker'[w].job = worker[w].job
BY DEF Types, WorkerTask

LEMMA EditKeepsNow ==
  ASSUME Types, NEW c, EditQueue(c)
  PROVE  player'.now = player.now
<1>1. player \in Player(Nat)
  BY DEF Types
<1>2. ASSUME NEW i, NEW j, NEW mode
      PROVE  /\ RemoveQueued(player, i).now = player.now
             /\ MoveQueued(player, i, j).now = player.now
             /\ SetLoopMode(player, mode).now = player.now
             /\ \A q \in Shuffled(player) : q.now = player.now
  BY <1>1, NowUntouched
<1> QED BY <1>2 DEF EditQueue

LEMMA CommandsHeld ==
  ASSUME Held, NEW c \in Commands,
         \/ JoinVoice(c) \/ EnqueueTracks(c) \/ EditQueue(c)
         \/ LeaveVoice(c) \/ RoutePlayback(c)
  PROVE  Held'
<1> Types'
  BY CommandTypes DEF Held
<1>1. CASE JoinVoice(c)
  BY <1>1, TracksUnchanged DEF JoinVoice, store
<1>2. CASE EnqueueTracks(c)
  <2>1. player'.now = player.now /\ worker' = worker
    BY <1>2 DEF EnqueueTracks, Held, Types, Player
  <2> QED BY <2>1, TracksUnchanged
<1>3. CASE EditQueue(c)
  <2>1. player'.now = player.now
    BY <1>3, EditKeepsNow DEF Held
  <2>2. worker' = worker
    BY <1>3 DEF EditQueue
  <2> QED BY <2>1, <2>2, TracksUnchanged
<1>4. CASE LeaveVoice(c)
  <2>1. \A w \in Workers : /\ worker'[w].track = worker[w].track
                           /\ worker'[w].phase = worker[w].phase
                           /\ worker'[w].job = worker[w].job
    <3>1. worker' = worker
            \/ \E m : worker' = [worker EXCEPT ![entry].mailbox = Append(@, m)]
      BY <1>4 DEF LeaveVoice
    <3> QED BY <3>1, SentOnly DEF Held
  <2>2. CASE player' = player
    BY <2>1, <2>2, TracksUnchanged
  <2>3. CASE player' = DefaultPlayer
    BY <2>1, <2>3 DEF Held, FreeHands, InHands, DefaultPlayer
  <2> QED BY <1>4, <2>2, <2>3 DEF LeaveVoice
<1>5. CASE RoutePlayback(c)
  <2>1. \A w \in Workers : /\ worker'[w].track = worker[w].track
                           /\ worker'[w].phase = worker[w].phase
                           /\ worker'[w].job = worker[w].job
    <3>1. worker' = worker
            \/ \E m : worker' = [worker EXCEPT ![entry].mailbox = Append(@, m)]
      BY <1>5 DEF RoutePlayback, Post
    <3> QED BY <3>1, SentOnly DEF Held
  <2>2. player' = player
    BY <1>5 DEF RoutePlayback
  <2> QED BY <2>1, <2>2, TracksUnchanged
<1> QED BY <1>1, <1>2, <1>3, <1>4, <1>5

LEMMA RendezvousHeld ==
  ASSUME Held, RendezvousReady \/ RendezvousFails
  PROVE  Held'
<1> Types'
  BY RendezvousTypes DEF Held
<1>1. CASE RendezvousReady
  <2>1. PICK w \in Workers :
          /\ worker[w].phase = "unused"
          /\ worker' = [worker EXCEPT ![w] =
               [NoWorker EXCEPT !.phase = "connecting", !.by = pending,
                                !.channel = command[pending].channel]]
    BY <1>1 DEF RendezvousReady
  <2> DEFINE next == [NoWorker EXCEPT !.phase = "connecting", !.by = pending,
                                      !.channel = command[pending].channel]
  <2>2. /\ worker[w].track = NoTrack /\ next.track = NoTrack
        /\ next.phase = "connecting"
    BY <2>1 DEF Held, FreeHands, EmptyHanded, NoWorker
  <2>3. player' = player /\ worker' = [worker EXCEPT ![w] = next]
    BY <1>1, <2>1 DEF RendezvousReady, store
  <2> HIDE DEF next
  <2> QED BY <2>2, <2>3, PhaseChanged
<1>2. CASE RendezvousFails
  BY <1>2, TracksUnchanged DEF RendezvousFails, store
<1> QED BY <1>1, <1>2

LEMMA WorkersHeld ==
  ASSUME Held, NEW w \in Workers, WorkerStep(w)
  PROVE  Held'
<1> Types'
  BY WorkerTypes DEF Held
<1> USE DEF EmptyHanded
<1>a. worker \in [Workers -> WorkerTask] /\ worker[w] \in WorkerTask
  BY DEF Held, Types
<1>b. worker[w].mailbox # << >> =>
        /\ Taken(w) \in WorkerTask
        /\ Taken(w).track = worker[w].track
        /\ Taken(w).phase = worker[w].phase
  BY <1>a, TakenType DEF Held, Taken, WorkerTask
<1>c. ASSUME NEW task \in WorkerTask, NEW phase, NEW job
      PROVE  /\ Turns(task, phase, job).track = task.track
             /\ Turns(task, phase, job).phase = phase
             /\ Turns(task, phase, job).job = job
             /\ [Turns(task, phase, job) EXCEPT !.track = NoTrack].track = NoTrack
  BY DEF Turns, WorkerTask
<1>1. CASE Connect(w)
  <2> DEFINE next == [worker[w] EXCEPT !.phase = "running", !.by = NoCommand]
  <2>1. worker' = [worker EXCEPT ![w] = next] /\ player' = player
    BY <1>1, <1>a DEF Connect, store
  <2>2. next.track = worker[w].track /\ next.phase = "running"
    BY <1>a DEF WorkerTask
  <2> HIDE DEF next
  <2> QED BY <2>1, <2>2, PhaseChanged
<1>2. CASE ConnectFails(w) \/ ConnectAborted(w) \/ Close(w)
  <2> DEFINE next == [NoWorker EXCEPT !.phase = "ended", !.channel = worker[w].channel]
  <2>1. worker' = [worker EXCEPT ![w] = next]
    BY <1>2 DEF ConnectFails, ConnectAborted, Close, EndWorker
  <2>2. next.track = NoTrack /\ next.phase = "ended"
    BY DEF NoWorker
  <2> HIDE DEF next
  <2>3. CASE ConnectFails(w)
    <3>1. worker[w].track = NoTrack /\ player' = player
      BY <2>3 DEF ConnectFails, store, Held, FreeHands
    <3> QED BY <2>1, <2>2, <3>1, PhaseChanged
  <2>4. CASE ConnectAborted(w) \/ Close(w)
    BY <2>1, <2>2, <2>4, Cleared DEF ConnectAborted, Close
  <2> QED BY <1>2, <2>3, <2>4
<1>3. CASE Wake(w)
  <2>1. worker[w].mailbox # << >> /\ worker[w].phase = "running"
    BY <1>3 DEF Wake, Receives, Running
  <2>2. CASE worker[w].track = NoTrack
    <3>1. Taken(w) \in WorkerTask /\ Taken(w).phase = "running"
      BY <1>b, <2>1
    <3>2. StartNextPlayback(w, Taken(w))
      BY <1>3, <2>2 DEF Wake
    <3> QED BY <2>2, <3>1, <3>2, Started
  <2>3. CASE worker[w].track # NoTrack
    <3>1. worker' = [worker EXCEPT ![w] = Taken(w)] /\ player' = player
      BY <1>3, <2>3 DEF Wake, Becomes
    <3> QED BY <1>b, <2>1, <3>1, PhaseChanged
  <2> QED BY <2>2, <2>3
<1>4. CASE CheckContext(w)
  <2>1. /\ worker[w].mailbox # << >> /\ worker[w].phase = "running"
        /\ worker' = [worker EXCEPT ![w] = Taken(w)] /\ player' = player
    BY <1>4 DEF CheckContext, Receives, Running, Becomes, store
  <2> QED BY <1>b, <2>1, PhaseChanged
<1>5. CASE Skip(w) \/ Previous(w)
  <2>1. /\ worker[w].mailbox # << >> /\ worker[w].phase = "running"
        /\ player' = player
    BY <1>5 DEF Skip, Previous, Receives, Running, store
  <2> DEFINE skipped == [NoJob EXCEPT !.current = player.now]
             asked == [NoJob EXCEPT !.previous = Latest(history)]
  <2>2. \/ worker' = [worker EXCEPT ![w] = Taken(w)]
        \/ worker' = [worker EXCEPT ![w] = Turns(Taken(w), "finish", skipped)]
        \/ worker' = [worker EXCEPT ![w] = Turns(Taken(w), "previous", asked)]
    BY <1>5 DEF Skip, Previous, Becomes
  <2> HIDE DEF skipped, asked
  <2>4. CASE worker' = [worker EXCEPT ![w] = Taken(w)]
    BY <1>b, <2>1, <2>4, PhaseChanged
  <2>5. CASE worker' = [worker EXCEPT ![w] = Turns(Taken(w), "finish", skipped)]
    <3> DEFINE next == Turns(Taken(w), "finish", skipped)
    <3>1. next.track = worker[w].track /\ next.phase = "finish"
      BY <1>b, <1>c, <2>1
    <3>2. worker' = [worker EXCEPT ![w] = next]
      BY <2>5
    <3> HIDE DEF next
    <3> QED BY <2>1, <3>1, <3>2, PhaseChanged
  <2>6. CASE worker' = [worker EXCEPT ![w] = Turns(Taken(w), "previous", asked)]
    <3> DEFINE next == Turns(Taken(w), "previous", asked)
    <3>1. next.track = worker[w].track /\ next.phase = "previous"
      BY <1>b, <1>c, <2>1
    <3>2. worker' = [worker EXCEPT ![w] = next]
      BY <2>6
    <3> HIDE DEF next
    <3> QED BY <2>1, <3>1, <3>2, PhaseChanged
  <2> QED BY <2>2, <2>4, <2>5, <2>6
<1>6. CASE RewindQueue(w)
  <2> DEFINE next == [Turns(worker[w], "forget", NoJob) EXCEPT !.track = NoTrack]
  <2>1. worker' = [worker EXCEPT ![w] = next] /\ worker[w].phase = "rewind"
    BY <1>6 DEF RewindQueue, Becomes
  <2>2. next.track = NoTrack
    BY <1>a, <1>c
  <2>3. player'.now = IF worker[w].job.current # NoTrack
                           /\ player.now = worker[w].job.current
                      THEN NoTrack ELSE player.now
    <3>1. worker[w].job.current \in Nat /\ worker[w].job.previous \in Nat
      BY <1>a DEF WorkerTask, Job
    <3>2. player \in Player(Nat)
      BY DEF Held, Types
    <3>3. player' = Rewind(player, worker[w].job.current, worker[w].job.previous)
      BY <1>6 DEF RewindQueue
    <3>4. worker[w].job.current \in Nat \union {NoTrack}
      BY <3>1
    <3> QED BY <3>1, <3>2, <3>3, <3>4, RewindNow
  <2> HIDE DEF next
  <2> QED BY <2>1, <2>2, <2>3, TrackDropped DEF Holder
<1>7. CASE ForgetLatest(w) \/ Record(w)
  <2> DEFINE next == Turns(worker[w], "advance", NoJob)
  <2>1. /\ worker' = [worker EXCEPT ![w] = next] /\ player' = player
        /\ worker[w].track = NoTrack
    BY <1>7 DEF ForgetLatest, Record, Becomes, Held, FreeHands
  <2>2. next.track = worker[w].track /\ next.phase = "advance"
    BY <1>a, <1>c
  <2> HIDE DEF next
  <2> QED BY <2>1, <2>2, PhaseChanged
<1>8. CASE Stop(w)
  <2> DEFINE next == [Taken(w) EXCEPT !.track = NoTrack]
  <2>1. /\ worker[w].mailbox # << >>
        /\ worker' = [worker EXCEPT ![w] = next] /\ player' = DefaultPlayer
    BY <1>8 DEF Stop, Receives, Becomes
  <2>2. next.track = NoTrack
    BY <1>b, <2>1 DEF WorkerTask
  <2> HIDE DEF next
  <2> QED BY <2>1, <2>2, Cleared
<1>9. CASE ShutDown(w)
  <2> DEFINE next == [Taken(w) EXCEPT !.track = NoTrack, !.phase = "closing"]
  <2>1. /\ worker[w].mailbox # << >>
        /\ worker' = [worker EXCEPT ![w] = next] /\ player' = DefaultPlayer
    BY <1>9 DEF ShutDown, Becomes
  <2>2. next.track = NoTrack
    BY <1>b, <2>1 DEF WorkerTask
  <2> HIDE DEF next
  <2> QED BY <2>1, <2>2, Cleared
<1>10. CASE TrackEnds(w)
  <2>1. PICK phase \in {"complete", "finish"}, job \in Job :
          worker' = [worker EXCEPT ![w] = Turns(worker[w], phase, job)]
    BY <1>10, JobType DEF TrackEnds, Becomes, Held
  <2>2. player' = player
    BY <1>10 DEF TrackEnds, store
  <2> DEFINE next == Turns(worker[w], phase, job)
  <2>3. next.track = worker[w].track /\ next.phase = phase
    BY <1>a, <1>c
  <2>4. worker' = [worker EXCEPT ![w] = next]
    BY <2>1
  <2> HIDE DEF next
  <2> QED BY <2>1, <2>2, <2>3, <2>4, PhaseChanged
<1>11. CASE VoiceFails(w) \/ IdleTimeout(w)
  <2>1. PICK phase \in {"closing", "advance"} :
          /\ worker' = [worker EXCEPT ![w].phase = phase] /\ player' = player
          /\ phase = "advance" => worker[w].track = NoTrack
    BY <1>11 DEF VoiceFails, IdleTimeout, store
  <2> DEFINE next == [worker[w] EXCEPT !.phase = phase]
  <2>2. worker' = [worker EXCEPT ![w] = next]
    BY <1>a, <2>1
  <2>3. next.track = worker[w].track /\ next.phase = phase
    BY <1>a DEF WorkerTask
  <2> HIDE DEF next
  <2> QED BY <2>1, <2>2, <2>3, PhaseChanged
<1>12. CASE Finish(w) \/ Complete(w)
  <2>1. PICK phase \in {"record", "advance"}, job \in {NoJob, worker[w].job} :
          Becomes(w, [Turns(worker[w], phase, job) EXCEPT !.track = NoTrack])
    BY <1>12, GivenUp
  <2> DEFINE next == [Turns(worker[w], phase, job) EXCEPT !.track = NoTrack]
  <2>2. worker' = [worker EXCEPT ![w] = next] /\ next.track = NoTrack
    BY <1>a, <1>c, <2>1 DEF Becomes
  <2>3. player'.now = IF player.now = worker[w].track THEN NoTrack ELSE player.now
    <3>1. player \in Player(Nat)
      BY DEF Held, Types
    <3>2. CASE Finish(w)
      BY <3>1, <3>2 DEF Finish, GiveUp, FinishCurrent, Player
    <3>3. CASE Complete(w)
      BY <3>1, <3>3 DEF Complete, GiveUp, CompleteCurrent, Player
    <3> QED BY <1>12, <3>2, <3>3
  <2> HIDE DEF next
  <2> QED BY <2>2, <2>3, TrackDropped DEF Holder
<1>13. CASE Advance(w)
  <2> DEFINE rest == [worker[w] EXCEPT !.phase = "running"]
  <2>1. worker[w].track = NoTrack /\ StartNextPlayback(w, rest)
    BY <1>13 DEF Advance, Held, FreeHands
  <2>2. rest \in WorkerTask /\ rest.phase = "running"
    BY <1>a DEF WorkerTask, Phases
  <2> HIDE DEF rest
  <2> QED BY <2>1, <2>2, Started
<1>14. CASE Stopped(w)
  <2> DEFINE next == [NoWorker EXCEPT !.phase = "stopped"]
  <2>1. /\ worker[w].track = NoTrack /\ next.track = NoTrack
        /\ next.phase = "stopped"
        /\ worker' = [worker EXCEPT ![w] = next] /\ player' = player
    BY <1>14 DEF Stopped, Held, FreeHands, NoWorker, store
  <2> HIDE DEF next
  <2> QED BY <2>1, PhaseChanged
<1>15. CASE ReadCurrent(w)
  <2> DEFINE job == [worker[w].job EXCEPT !.current = player.now]
             next == Turns(worker[w], "rewind", job)
  <2>1. /\ worker' = [worker EXCEPT ![w] = next] /\ player' = player
        /\ worker[w].phase = "previous"
    BY <1>15 DEF ReadCurrent, Becomes, store
  <2>2. job.current = player.now
    BY <1>a DEF WorkerTask, Job
  <2> HIDE DEF job
  <2>3. next.track = worker[w].track /\ next.phase = "rewind" /\ next.job = job
    BY <1>a, <1>c
  <2> HIDE DEF next
  <2> QED BY <2>1, <2>2, <2>3, PhaseChanged
<1> QED
  BY <1>1, <1>2, <1>3, <1>4, <1>5, <1>6, <1>7, <1>8, <1>9, <1>10, <1>11,
     <1>12, <1>13, <1>14, <1>15 DEF WorkerStep

(* The inductive invariant of Part 2. *)
THEOREM HeldCorrect == Spec => []Held
<1>1. Init => Held
  <2> SUFFICES ASSUME Init PROVE Held
    OBVIOUS
  <2>1. Types
    <3>1. << >> \in Seq(Commands \union {Shutdown})
      OBVIOUS
    <3>2. worker \in [Workers -> WorkerTask]
      BY <3>1 DEF Init, WorkerTask, NoWorker, NoJob, Job, NoTrack, Phases
    <3>3. command \in [Commands -> CommandTask]
      BY DEF Init, Idle, CommandTask, Steps
    <3>4. history \in Seq(Nat) /\ Len(history) <= HistoryLimit
      BY EmptySeq, BoundAssumption DEF Init
    <3> QED BY <3>2, <3>3, <3>4, DefaultType DEF Init, Types
  <2>2. FreeHands /\ InHands
    BY DEF Init, NoWorker, FreeHands, InHands, DefaultPlayer
  <2> QED BY <2>1, <2>2 DEF Held
<1>2. Held /\ [Next]_vars => Held'
  <2> SUFFICES ASSUME Held, [Next]_vars PROVE Held'
    OBVIOUS
  <2>1. CASE Command
    BY <2>1, CommandsHeld DEF Command
  <2>2. CASE RendezvousReady \/ RendezvousFails
    BY <2>2, RendezvousHeld
  <2>3. CASE Worker
    BY <2>3, WorkersHeld DEF Worker, WorkerStep
  <2>4. CASE UNCHANGED vars
    BY <2>4 DEF Held, Types, FreeHands, InHands, Holder, vars, store, past
  <2> QED BY <2>1, <2>2, <2>3, <2>4 DEF Next
<1> QED BY <1>1, <1>2, PTL DEF Spec

(* A current track is always in the hands of a worker. *)
THEOREM CurrentIsPlayed == Spec => []NowHasPlayer
<1>1. Held => NowHasPlayer
  BY DEF Held, InHands, Holder, NowHasPlayer
<1> QED BY <1>1, HeldCorrect, PTL

------------------------------------------------------------------------------
(* Part 3: the current track is finished by the worker that plays it *)

(* A step that neither clears the player nor finishes a track keeps the    *)
(* current one.                                                            *)
LEMMA StartKeepsNow ==
  ASSUME NEW w, NEW rest, StartNextPlayback(w, rest), player.now # NoTrack
  PROVE  player' = player
BY DEF StartNextPlayback, StartNext

(* Only the worker that plays the current track finishes it, and only a    *)
(* /previous that has found it current takes it back.                      *)
THEOREM OwnersFinish == Spec => OnlyOwnerFinishes
<1> DEFINE Owns ==
      \E w \in Workers :
        \/ /\ worker[w].track = player.now
           /\ worker'[w].phase \in {"record", "advance"}
        \/ worker[w].phase = "rewind" /\ worker[w].job.current = player.now
    Step ==
      player.now # NoTrack /\ player'.now # player.now /\ player' # DefaultPlayer
        => Owns
<1>1. Types /\ [Next]_vars => [Step]_vars
  <2> SUFFICES ASSUME Types, Next, player.now # NoTrack,
                      player'.now # player.now, player' # DefaultPlayer
               PROVE  Owns
    OBVIOUS
  <2>1. ASSUME NEW c \in Commands,
               \/ JoinVoice(c) \/ EnqueueTracks(c) \/ EditQueue(c)
               \/ LeaveVoice(c) \/ RoutePlayback(c)
        PROVE  FALSE
    <3>2. ~ EditQueue(c)
      BY EditKeepsNow
    <3>3. ~ EnqueueTracks(c)
      BY DEF EnqueueTracks, Types, Player
    <3> QED BY <2>1, <3>2, <3>3 DEF JoinVoice, LeaveVoice, RoutePlayback, store
  <2>2. ~ (RendezvousReady \/ RendezvousFails)
    BY DEF RendezvousReady, RendezvousFails, store
  <2>3. ASSUME NEW w \in Workers, WorkerStep(w)
        PROVE  Owns
    <3>a. worker[w] \in WorkerTask /\ player \in Player(Nat)
      BY DEF Types
    <3>1. ~ Wake(w) /\ ~ Advance(w)
      BY StartKeepsNow DEF Wake, Advance
    <3>2. CASE Finish(w) \/ Complete(w)
      <4>1. worker[w].track = player.now
        BY <3>2, <3>a DEF Finish, Complete, GiveUp, FinishCurrent, CompleteCurrent, Player
      <4>2. PICK phase \in {"record", "advance"}, job \in {NoJob, worker[w].job} :
              Becomes(w, [Turns(worker[w], phase, job) EXCEPT !.track = NoTrack])
        BY <3>2, GivenUp
      <4>3. worker'[w].phase = phase
        BY <3>a, <4>2 DEF Becomes, Turns, Types, WorkerTask
      <4> QED BY <4>1, <4>3
    <3>3. CASE RewindQueue(w)
      <4>1. worker[w].job.current \in Nat /\ worker[w].job.previous \in Nat
        BY <3>a DEF WorkerTask, Job
      <4>2. /\ player' = Rewind(player, worker[w].job.current, worker[w].job.previous)
            /\ worker[w].phase = "rewind"
        BY <3>3 DEF RewindQueue
      <4>3. worker[w].job.current \in Nat \union {NoTrack}
        BY <4>1
      <4>4. player'.now = IF worker[w].job.current # NoTrack
                               /\ player.now = worker[w].job.current
                          THEN NoTrack ELSE player.now
        BY <3>a, <4>1, <4>2, <4>3, RewindNow
      <4> QED BY <4>2, <4>4
    <3>4. CASE ~ (Finish(w) \/ Complete(w) \/ RewindQueue(w))
      BY <2>3, <3>1, <3>4 DEF WorkerStep, Connect, ConnectFails, ConnectAborted,
         CheckContext, Skip, Previous, ReadCurrent, ForgetLatest, Stop, ShutDown, TrackEnds,
         Record, IdleTimeout, VoiceFails, Close, Stopped, store
    <3> QED BY <3>2, <3>3, <3>4
  <2> QED BY <2>1, <2>2, <2>3 DEF Next, Command, Worker, WorkerStep
<1> QED BY <1>1, TypesCorrect, PTL DEF Spec, OnlyOwnerFinishes

------------------------------------------------------------------------------
(* Part 4: the bounds that count *)

(* The commands that may still enqueue. *)
Due == {c \in Commands : /\ command[c].kind = "play"
                         /\ command[c].at \notin {"action", "sent"}}

DueBounded ==
  /\ TracksDue <= MaxTracks
  /\ \A c \in Commands : At(c, "enqueue") => command[c].kind = "play"

(* A worker that connects does so for one command, which waits for that,   *)
(* and for nobody else.                                                    *)
Joining ==
  /\ pending \in Commands => At(pending, "joining")
  /\ \A w \in Workers : worker[w].by \in Commands =>
       /\ At(worker[w].by, "joining")
       /\ worker[w].by # pending
       /\ \A v \in Workers : worker[v].by = worker[w].by => v = w

Box(w) == worker[w].mailbox

(* A command whose request is in a mailbox waits for the answer; it is     *)
(* there once, and in no other.                                            *)
Posted ==
  /\ \A w \in Workers : \A i \in DOMAIN Box(w) :
       Box(w)[i] \in Commands => At(Box(w)[i], "sent")
  /\ \A w \in Workers : \A i, j \in DOMAIN Box(w) :
       Box(w)[i] = Box(w)[j] => i = j
  /\ \A w, v \in Workers : \A i \in DOMAIN Box(w), j \in DOMAIN Box(v) :
       Box(w)[i] = Box(v)[j] /\ Box(w)[i] \in Commands => w = v

(* The worker that the manager still lists was not told to leave. *)
Untold == entry # 0 => \A i \in DOMAIN Box(entry) : Box(entry)[i] # Shutdown

Counted == Types /\ DueBounded /\ Joining /\ Posted /\ Untold

LEMMA DueFinite ==
  /\ IsFiniteSet(Due) /\ Cardinality(Due) \in Nat
  /\ TracksDue = nextTrackId + Cardinality(Due)
<1>1. IsFiniteSet(Due)
  BY FiniteAssumption, FS_Subset DEF Due
<1> QED BY <1>1, FS_CardinalityType DEF TracksDue, Due

(* No command came to be due, and no track was enqueued. *)
LEMMA NoneDue ==
  ASSUME Types, DueBounded, nextTrackId' = nextTrackId, Due' \subseteq Due
  PROVE  TracksDue' <= MaxTracks
<1>1. PICK d : d = Due'
  OBVIOUS
<1>2. Cardinality(d) <= Cardinality(Due) /\ Cardinality(d) \in Nat
  BY <1>1, DueFinite, FS_Subset, FS_CardinalityType
<1>3. TracksDue' = nextTrackId' + Cardinality(Due')
  BY DEF TracksDue, Due
<1> QED BY <1>1, <1>2, <1>3, DueFinite, BoundAssumption DEF Types, DueBounded

(* Some commands were answered, or failed, and are over. *)
LEMMA MovedDone ==
  ASSUME Types, NEW S, command' = Moved(S, "done")
  PROVE  /\ \A c \in Commands \ S : command'[c] = command[c]
         /\ \A c \in Commands : c \in S => command'[c] = Idle
         /\ Due' \subseteq Due
<1>1. /\ \A c \in Commands \ S : command'[c] = command[c]
      /\ \A c \in Commands : c \in S => command'[c] = Idle
  BY DEF Moved
<1>2. Idle.kind # "play"
  BY DEF Idle
<1> QED BY <1>1, <1>2 DEF Due

(* One command goes on. *)
LEMMA MovedOn ==
  ASSUME Types, NEW c, NEW where \in Steps \ {"done"}, command' = Moved({c}, where)
  PROVE  /\ \A d \in Commands \ {c} : command'[d] = command[d]
         /\ c \in Commands => /\ command'[c].at = where
                              /\ command'[c].kind = command[c].kind
<1>1. \A d \in Commands : command'[d] = IF d \notin {c} THEN command[d]
                                        ELSE [command[d] EXCEPT !.at = where]
  BY DEF Moved
<1>2. c \in Commands => command[c] \in CommandTask
  BY DEF Types
<1> QED BY <1>1, <1>2 DEF CommandTask

(* What is left in a mailbox when its first message, all or none were      *)
(* taken out.                                                              *)
Fewer(w) ==
  \E k \in {0, 1} : \A i \in DOMAIN Box(w)' :
    i + k \in DOMAIN Box(w) /\ Box(w)'[i] = Box(w)[i + k]

LEMMA FewerIs ==
  ASSUME Types, NEW w \in Workers,
         \/ worker'[w].mailbox = worker[w].mailbox
         \/ worker'[w].mailbox = << >>
         \/ worker[w].mailbox # << >> /\ worker'[w].mailbox = Tail(worker[w].mailbox)
  PROVE  Fewer(w)
<1> DEFINE s == worker[w].mailbox
<1>1. s \in Seq(Commands \union {Shutdown}) /\ DOMAIN s = 1 .. Len(s) /\ Len(s) \in Nat
  BY LenProperties DEF Types, WorkerTask
<1>2. CASE worker'[w].mailbox = s
  <2>1. \A i \in DOMAIN s : i + 0 = i
    BY <1>1
  <2> QED BY <1>2, <2>1 DEF Fewer, Box
<1>3. CASE worker'[w].mailbox = << >>
  BY <1>3 DEF Fewer, Box
<1>4. CASE s # << >> /\ worker'[w].mailbox = Tail(s)
  <2> DEFINE t == Tail(s)
  <2>1. /\ t \in Seq(Commands \union {Shutdown}) /\ Len(t) = Len(s) - 1
        /\ \A i \in 1 .. Len(t) : t[i] = s[i + 1]
    BY <1>1, <1>4, HeadTailProperties
  <2>2. DOMAIN t = 1 .. Len(t)
    BY <2>1, LenProperties
  <2> HIDE DEF t
  <2>3. \A i \in DOMAIN t : i + 1 \in DOMAIN s /\ t[i] = s[i + 1]
    BY <1>1, <2>1, <2>2
  <2> QED BY <1>4, <2>3 DEF Fewer, Box, t
<1> QED BY <1>2, <1>3, <1>4

(* Somebody still owes command c an answer. *)
Owed(c) ==
  \/ c = pending
  \/ \E w \in Workers : c = worker[w].by \/ \E i \in DOMAIN Box(w) : Box(w)[i] = c

(* Answers are given, requests dropped, and whoever still waits stays      *)
(* where it was.                                                           *)
LEMMA Answered ==
  ASSUME Counted, Types',
         \A w \in Workers : Fewer(w),
         \A w \in Workers : worker'[w].by \in {worker[w].by, NoCommand},
         pending' \in {pending, NoCommand},
         entry' \in {entry, 0},
         \A c \in Commands : Owed(c)' => command'[c].at = command[c].at
  PROVE  Joining' /\ Posted' /\ Untold'
<1>1. NoCommand \notin Commands /\ Shutdown \notin Commands
  BY DistinctAssumption
<1>2. Joining'
  <2>1. pending' \in Commands => At(pending, "joining")'
    BY <1>1 DEF Counted, Joining, At, Owed
  <2>2. ASSUME NEW w \in Workers, worker'[w].by \in Commands
        PROVE  /\ At(worker[w].by, "joining")'
               /\ worker'[w].by # pending'
               /\ \A v \in Workers : worker'[v].by = worker'[w].by => v = w
    <3>1. worker'[w].by = worker[w].by
      BY <1>1, <2>2
    <3>2. /\ At(worker[w].by, "joining") /\ worker[w].by # pending
          /\ \A v \in Workers : worker[v].by = worker[w].by => v = w
      BY <2>2, <3>1 DEF Counted, Joining
    <3>3. PICK c \in Commands : c = worker'[w].by
      BY <2>2
    <3>4. Owed(c)'
      BY <3>3 DEF Owed
    <3>5. At(worker[w].by, "joining")'
      BY <3>1, <3>2, <3>3, <3>4 DEF At
    <3>6. worker'[w].by # pending'
      BY <1>1, <2>2, <3>1, <3>2
    <3>7. ASSUME NEW v \in Workers, worker'[v].by = worker'[w].by PROVE v = w
      <4>1. worker'[v].by = worker[v].by
        BY <1>1, <2>2, <3>7
      <4> QED BY <3>1, <3>2, <3>7, <4>1
    <3> QED BY <3>5, <3>6, <3>7
  <2> QED BY <2>1, <2>2 DEF Joining
<1>3. ASSUME NEW w \in Workers, NEW i \in DOMAIN Box(w)', Box(w)'[i] \in Commands
      PROVE  At(Box(w)[i], "sent")'
  <2>1. PICK k \in {0, 1} : i + k \in DOMAIN Box(w) /\ Box(w)'[i] = Box(w)[i + k]
    BY DEF Fewer
  <2>2. PICK c \in Commands : c = Box(w)'[i]
    BY <1>3
  <2>3. command[c].at = "sent"
    BY <2>1, <2>2 DEF Counted, Posted, At
  <2>4. Owed(c)'
    BY <2>2 DEF Owed
  <2> QED BY <2>2, <2>3, <2>4 DEF At
<1>4. ASSUME NEW w \in Workers, NEW i \in DOMAIN Box(w)', NEW j \in DOMAIN Box(w)',
             Box(w)'[i] = Box(w)'[j]
      PROVE  i = j
  <2>1. PICK k \in {0, 1} : \A n \in DOMAIN Box(w)' :
          n + k \in DOMAIN Box(w) /\ Box(w)'[n] = Box(w)[n + k]
    BY DEF Fewer
  <2>2. i + k = j + k
    BY <1>4, <2>1 DEF Counted, Posted
  <2>3. i \in Nat /\ j \in Nat
    <3>1. Box(w)' \in Seq(Commands \union {Shutdown})
      BY DEF Types, WorkerTask, Box
    <3>2. DOMAIN Box(w)' = 1 .. Len(Box(w)') /\ Len(Box(w)') \in Nat
      BY <3>1, LenProperties
    <3> QED BY <3>2
  <2> QED BY <2>2, <2>3
<1>5. ASSUME NEW w \in Workers, NEW v \in Workers,
             NEW i \in DOMAIN Box(w)', NEW j \in DOMAIN Box(v)',
             Box(w)'[i] = Box(v)'[j], Box(w)'[i] \in Commands
      PROVE  w = v
  <2>1. PICK k \in {0, 1} : i + k \in DOMAIN Box(w) /\ Box(w)'[i] = Box(w)[i + k]
    BY DEF Fewer
  <2>2. PICK l \in {0, 1} : j + l \in DOMAIN Box(v) /\ Box(v)'[j] = Box(v)[j + l]
    BY DEF Fewer
  <2> QED BY <1>5, <2>1, <2>2 DEF Counted, Posted
<1>6. Posted'
  BY <1>3, <1>4, <1>5 DEF Posted
<1>7. Untold'
  <2>1. CASE entry' = 0
    BY <2>1 DEF Untold
  <2>2. CASE entry' # 0
    <3>1. PICK e \in Workers : e = entry /\ e = entry'
      BY <2>2 DEF Counted, Types
    <3>2. PICK k \in {0, 1} : \A i \in DOMAIN Box(e)' :
            i + k \in DOMAIN Box(e) /\ Box(e)'[i] = Box(e)[i + k]
      BY DEF Fewer
    <3>3. \A i \in DOMAIN Box(e) : Box(e)[i] # Shutdown
      BY <2>2, <3>1 DEF Counted, Untold
    <3>4. \A i \in DOMAIN worker'[e].mailbox : worker'[e].mailbox[i] # Shutdown
      BY <3>2, <3>3 DEF Box
    <3> QED BY <3>1, <3>4 DEF Untold, Box
  <2> QED BY <2>1, <2>2
<1> QED BY <1>2, <1>6, <1>7

(* A worker takes a message or ends. *)
LEMMA WorkerCounted ==
  ASSUME Counted, Types', NEW w \in Workers, NEW next,
         worker' = [worker EXCEPT ![w] = next],
         next.by \in {worker[w].by, NoCommand},
         \/ next.mailbox = worker[w].mailbox
         \/ next.mailbox = << >>
         \/ worker[w].mailbox # << >> /\ next.mailbox = Tail(worker[w].mailbox),
         nextTrackId' = nextTrackId, pending' = pending, entry' \in {entry, 0},
         \A c \in Commands : Owed(c)' => command'[c].at = command[c].at,
         Due' \subseteq Due,
         \A c \in Commands : At(c, "enqueue")' => command'[c].kind = "play"
  PROVE  Counted'
<1>1. worker'[w] = next /\ \A v \in Workers \ {w} : worker'[v] = worker[v]
  BY DEF Counted, Types
<1>2. ASSUME NEW v \in Workers PROVE Fewer(v)
  <2>1. \/ worker'[v].mailbox = worker[v].mailbox
        \/ worker'[v].mailbox = << >>
        \/ worker[v].mailbox # << >> /\ worker'[v].mailbox = Tail(worker[v].mailbox)
    BY <1>1
  <2> QED BY <2>1, FewerIs DEF Counted
<1>3. \A v \in Workers : worker'[v].by \in {worker[v].by, NoCommand}
  BY <1>1
<1>4. Joining' /\ Posted' /\ Untold'
  BY <1>2, <1>3, Answered
<1>5. TracksDue' <= MaxTracks
  BY NoneDue DEF Counted
<1> QED BY <1>4, <1>5 DEF Counted, DueBounded

(* The same, where the commands are left alone, *)
LEMMA QuietCounted ==
  ASSUME Counted, Types', NEW w \in Workers, NEW next,
         worker' = [worker EXCEPT ![w] = next],
         next.by \in {worker[w].by, NoCommand},
         \/ next.mailbox = worker[w].mailbox
         \/ next.mailbox = << >>
         \/ worker[w].mailbox # << >> /\ next.mailbox = Tail(worker[w].mailbox),
         nextTrackId' = nextTrackId, pending' = pending, entry' \in {entry, 0},
         command' = command
  PROVE  Counted'
<1>1. \A c \in Commands : Owed(c)' => command'[c].at = command[c].at
  OBVIOUS
<1>2. Due' \subseteq Due
  BY DEF Due
<1>3. \A c \in Commands : At(c, "enqueue")' => command'[c].kind = "play"
  BY DEF Counted, DueBounded, At
<1> QED BY <1>1, <1>2, <1>3, WorkerCounted

(* and where commands that nobody owes an answer any more are over. *)
LEMMA DoneCounted ==
  ASSUME Counted, Types', NEW w \in Workers, NEW next,
         worker' = [worker EXCEPT ![w] = next],
         next.by \in {worker[w].by, NoCommand},
         \/ next.mailbox = worker[w].mailbox
         \/ next.mailbox = << >>
         \/ worker[w].mailbox # << >> /\ next.mailbox = Tail(worker[w].mailbox),
         nextTrackId' = nextTrackId, pending' = pending, entry' \in {entry, 0},
         NEW S, command' = Moved(S, "done"),
         \A c \in Commands : c \in S => ~ Owed(c)'
  PROVE  Counted'
<1>0. Types
  BY DEF Counted
<1>1. \A c \in Commands : Owed(c)' => command'[c].at = command[c].at
  BY <1>0, MovedDone
<1>2. Due' \subseteq Due
  BY <1>0, MovedDone
<1>3. \A c \in Commands : At(c, "enqueue")' => command'[c].kind = "play"
  <2>1. Idle.at # "enqueue"
    BY DEF Idle
  <2> QED BY <1>0, <2>1, MovedDone DEF Counted, DueBounded, At
<1> QED BY <1>1, <1>2, <1>3, WorkerCounted

(* Once its message was taken, nobody owes the command another answer. *)
LEMMA HeadAnswered ==
  ASSUME Counted, NEW w \in Workers, NEW next,
         worker' = [worker EXCEPT ![w] = next],
         next.by = worker[w].by, pending' = pending,
         worker[w].mailbox # << >>, next.mailbox = Tail(worker[w].mailbox),
         NEW c \in Commands, c = Head(worker[w].mailbox)
  PROVE  ~ Owed(c)'
<1>1. worker'[w] = next /\ \A v \in Workers \ {w} : worker'[v] = worker[v]
  BY DEF Counted, Types
<1> DEFINE s == worker[w].mailbox
           t == Tail(s)
<1>2. /\ s \in Seq(Commands \union {Shutdown}) /\ DOMAIN s = 1 .. Len(s)
      /\ Len(s) \in Nat
  BY LenProperties DEF Counted, Types, WorkerTask
<1>3. /\ t \in Seq(Commands \union {Shutdown}) /\ Len(t) = Len(s) - 1
      /\ \A i \in 1 .. Len(t) : t[i] = s[i + 1]
  BY <1>2, HeadTailProperties
<1>4. DOMAIN t = 1 .. Len(t) /\ Len(t) \in Nat
  BY <1>3, LenProperties
<1> HIDE DEF t
<1>5. 1 \in DOMAIN s /\ s[1] = c
  BY <1>2, <1>3, <1>4
<1>6. command[c].at = "sent"
  BY <1>5 DEF Counted, Posted, Box, At
<1>7. c # pending'
  BY <1>6 DEF Counted, Joining, At
<1>8. ASSUME NEW v \in Workers PROVE c # worker'[v].by
  <2>1. worker'[v].by = worker[v].by
    BY <1>1
  <2> QED BY <1>6, <2>1 DEF Counted, Joining, At
<1>9. ASSUME NEW v \in Workers, NEW i \in DOMAIN worker'[v].mailbox
      PROVE  worker'[v].mailbox[i] # c
  <2>1. CASE v = w
    <3>1. worker'[w].mailbox = t
      BY <1>1 DEF t
    <3>2. i \in 1 .. Len(t) /\ t[i] = s[i + 1] /\ i + 1 \in DOMAIN s /\ i + 1 # 1
      BY <1>2, <1>3, <1>4, <2>1, <3>1
    <3>3. s[i + 1] # s[1]
      BY <1>5, <3>2 DEF Counted, Posted, Box
    <3> QED BY <1>5, <2>1, <3>1, <3>2, <3>3
  <2>2. CASE v # w
    <3>1. worker'[v].mailbox = worker[v].mailbox
      BY <1>1, <2>2
    <3> QED BY <1>5, <2>2, <3>1 DEF Counted, Posted, Box
  <2> QED BY <2>1, <2>2
<1> QED BY <1>7, <1>8, <1>9 DEF Owed, Box

(* Nor anybody one to the command that a worker connected for. *)
LEMMA JoinAnswered ==
  ASSUME Counted, NEW w \in Workers, NEW next,
         worker' = [worker EXCEPT ![w] = next],
         next.by = NoCommand, pending' = pending,
         next.mailbox \in {worker[w].mailbox, << >>},
         NEW c \in Commands, c = worker[w].by
  PROVE  ~ Owed(c)'
<1>1. worker'[w] = next /\ \A v \in Workers \ {w} : worker'[v] = worker[v]
  BY DEF Counted, Types
<1>2. NoCommand \notin Commands
  BY DistinctAssumption
<1>3. /\ command[c].at = "joining" /\ c # pending
      /\ \A v \in Workers \ {w} : worker[v].by # c
  BY DEF Counted, Joining, At
<1>4. \A v \in Workers : worker'[v].by # c
  BY <1>1, <1>2, <1>3
<1>5. ASSUME NEW v \in Workers, NEW i \in DOMAIN worker'[v].mailbox
      PROVE  worker'[v].mailbox[i] # c
  <2>1. CASE worker'[v].mailbox = << >>
    BY <1>5, <2>1
  <2>2. CASE worker'[v].mailbox = worker[v].mailbox
    BY <1>3, <1>5, <2>2 DEF Counted, Posted, Box, At
  <2> QED BY <1>1, <2>1, <2>2
<1> QED BY <1>3, <1>4, <1>5 DEF Owed, Box

(* Nor anybody one to those who waited for a worker that ends. *)
LEMMA EndAnswers ==
  ASSUME Counted, NEW w \in Workers, NEW next,
         worker' = [worker EXCEPT ![w] = next],
         next.by = NoCommand, pending' = pending, next.mailbox = << >>,
         NEW c \in Commands, c = worker[w].by \/ c \in Waiting(w)
  PROVE  ~ Owed(c)'
<1>1. worker'[w] = next /\ \A v \in Workers \ {w} : worker'[v] = worker[v]
  BY DEF Counted, Types
<1>2. NoCommand \notin Commands
  BY DistinctAssumption
<1>3. CASE c = worker[w].by
  BY <1>3, JoinAnswered
<1>4. CASE c \in Waiting(w)
  <2>1. PICK i \in DOMAIN worker[w].mailbox : worker[w].mailbox[i] = c
    BY <1>4 DEF Waiting, ToSet
  <2>2. command[c].at = "sent"
    BY <2>1 DEF Counted, Posted, Box, At
  <2>3. c # pending
    BY <2>2 DEF Counted, Joining, At
  <2>4. \A v \in Workers : worker[v].by # c
    BY <2>2 DEF Counted, Joining, At
  <2>5. \A v \in Workers : worker'[v].by # c
    BY <1>1, <1>2, <2>4
  <2>6. ASSUME NEW v \in Workers, NEW j \in DOMAIN worker'[v].mailbox
        PROVE  worker'[v].mailbox[j] # c
    <3>1. v # w /\ worker'[v].mailbox = worker[v].mailbox
      BY <1>1, <2>6
    <3> QED BY <2>1, <3>1 DEF Counted, Posted, Box
  <2> QED BY <2>3, <2>5, <2>6 DEF Owed, Box
<1> QED BY <1>3, <1>4

LEMMA TurnsKeep ==
  ASSUME NEW task \in WorkerTask, NEW phase, NEW job
  PROVE  /\ Turns(task, phase, job).mailbox = task.mailbox
         /\ Turns(task, phase, job).by = task.by
         /\ [Turns(task, phase, job) EXCEPT !.track = NoTrack].mailbox = task.mailbox
         /\ [Turns(task, phase, job) EXCEPT !.track = NoTrack].by = task.by
BY DEF Turns, WorkerTask

(* Steps of a worker that take no message and answer none. *)
LEMMA QuietSteps ==
  ASSUME Counted, NEW w \in Workers,
         \/ ReadCurrent(w) \/ RewindQueue(w) \/ ForgetLatest(w) \/ TrackEnds(w)
         \/ Finish(w) \/ Complete(w) \/ Record(w) \/ Advance(w)
         \/ IdleTimeout(w) \/ VoiceFails(w)
  PROVE  Counted'
<1>0. Types'
  BY WorkerTypes DEF Counted, WorkerStep
<1>1. worker[w] \in WorkerTask /\ worker \in [Workers -> WorkerTask]
  BY DEF Counted, Types
<1>2. /\ command' = command /\ pending' = pending /\ entry' = entry
      /\ nextTrackId' = nextTrackId
  BY DEF ReadCurrent, RewindQueue, ForgetLatest, TrackEnds, Finish, Complete,
    GiveUp, Record, Advance, IdleTimeout, VoiceFails, requests, store, past
<1>3. \E next : /\ worker' = [worker EXCEPT ![w] = next]
                /\ next.by = worker[w].by /\ next.mailbox = worker[w].mailbox
  <2>1. CASE Finish(w) \/ Complete(w)
    <3>1. PICK phase, job : worker' = [worker EXCEPT ![w] =
            [Turns(worker[w], phase, job) EXCEPT !.track = NoTrack]]
      BY <2>1 DEF Finish, Complete, GiveUp, Becomes
    <3> DEFINE next == [Turns(worker[w], phase, job) EXCEPT !.track = NoTrack]
    <3>2. worker' = [worker EXCEPT ![w] = next]
      BY <3>1
    <3>3. next.by = worker[w].by /\ next.mailbox = worker[w].mailbox
      BY <1>1, TurnsKeep
    <3> HIDE DEF next
    <3> QED BY <3>2, <3>3
  <2>2. CASE RewindQueue(w)
    <3> DEFINE next == [Turns(worker[w], "forget", NoJob) EXCEPT !.track = NoTrack]
    <3>2. worker' = [worker EXCEPT ![w] = next]
      BY <2>2 DEF RewindQueue, Becomes
    <3>3. next.by = worker[w].by /\ next.mailbox = worker[w].mailbox
      BY <1>1, TurnsKeep
    <3> HIDE DEF next
    <3> QED BY <3>2, <3>3
  <2>3. CASE ReadCurrent(w) \/ ForgetLatest(w) \/ TrackEnds(w) \/ Record(w)
    <3>1. PICK phase, job :
            worker' = [worker EXCEPT ![w] = Turns(worker[w], phase, job)]
      BY <2>3 DEF ReadCurrent, ForgetLatest, TrackEnds, Record, Becomes
    <3> DEFINE next == Turns(worker[w], phase, job)
    <3>2. worker' = [worker EXCEPT ![w] = next]
      BY <3>1
    <3>3. next.by = worker[w].by /\ next.mailbox = worker[w].mailbox
      BY <1>1, TurnsKeep
    <3> HIDE DEF next
    <3> QED BY <3>2, <3>3
  <2>4. CASE Advance(w)
    <3> DEFINE rest == [worker[w] EXCEPT !.phase = "running"]
    <3>1. rest \in [phase : Phases, channel : Channels \union {NoChannel},
                    by : Commands \union {NoCommand}, track : Nat,
                    mailbox : Seq(Commands \union {Shutdown}), job : Job]
          /\ rest.by = worker[w].by /\ rest.mailbox = worker[w].mailbox
      BY <1>1 DEF WorkerTask, Phases
    <3>2. PICK track : worker' = [worker EXCEPT ![w] = [rest EXCEPT !.track = track]]
      BY ONLY <2>4 DEF Advance, StartNextPlayback
    <3> DEFINE next == [rest EXCEPT !.track = track]
    <3> HIDE DEF rest
    <3>3. next.by = worker[w].by /\ next.mailbox = worker[w].mailbox
      BY <3>1
    <3>4. worker' = [worker EXCEPT ![w] = next]
      BY <3>2
    <3> HIDE DEF next
    <3> QED BY <3>3, <3>4
  <2>5. CASE IdleTimeout(w) \/ VoiceFails(w)
    <3>1. PICK phase : worker' = [worker EXCEPT ![w].phase = phase]
      BY <2>5 DEF IdleTimeout, VoiceFails
    <3> DEFINE next == [worker[w] EXCEPT !.phase = phase]
    <3>2. worker' = [worker EXCEPT ![w] = next]
      BY <1>1, <3>1
    <3>3. next.by = worker[w].by /\ next.mailbox = worker[w].mailbox
      BY <1>1 DEF WorkerTask
    <3> HIDE DEF next
    <3> QED BY <3>2, <3>3
  <2> QED BY <2>1, <2>2, <2>3, <2>4, <2>5
<1>4. PICK next : /\ worker' = [worker EXCEPT ![w] = next]
                  /\ next.by = worker[w].by /\ next.mailbox = worker[w].mailbox
  BY <1>3
<1> QED BY <1>0, <1>2, <1>4, QuietCounted

(* Steps of a worker that take a message off its mailbox. *)
LEMMA TakenIs ==
  ASSUME Types, NEW w \in Workers,
         \/ Wake(w) \/ CheckContext(w) \/ Skip(w) \/ Previous(w) \/ Stop(w) \/ ShutDown(w)
  PROVE  \E next : /\ worker' = [worker EXCEPT ![w] = next]
                   /\ next.by = worker[w].by
                   /\ next.mailbox = Tail(worker[w].mailbox)
<1>1. worker[w] \in WorkerTask /\ worker[w].mailbox # << >>
  BY DEF Types, Wake, CheckContext, Skip, Previous, Stop, ShutDown, Receives
<1>2. /\ Taken(w) \in WorkerTask /\ Taken(w).by = worker[w].by
      /\ Taken(w).mailbox = Tail(worker[w].mailbox)
  <2>1. Taken(w) \in WorkerTask
    BY <1>1, TakenType
  <2> QED BY <1>1, <2>1 DEF Taken, WorkerTask
<1>3. ASSUME NEW track, NEW phase, NEW job
      PROVE  /\ Turns(Taken(w), phase, job).by = worker[w].by
             /\ Turns(Taken(w), phase, job).mailbox = Tail(worker[w].mailbox)
             /\ [Taken(w) EXCEPT !.track = track].by = worker[w].by
             /\ [Taken(w) EXCEPT !.track = track].mailbox = Tail(worker[w].mailbox)
             /\ [Taken(w) EXCEPT !.track = track, !.phase = phase].by = worker[w].by
             /\ [Taken(w) EXCEPT !.track = track, !.phase = phase].mailbox
                  = Tail(worker[w].mailbox)
  <2> DEFINE next == Taken(w)
  <2>1. next \in WorkerTask
    BY <1>2
  <2> HIDE DEF next
  <2>2. /\ Turns(next, phase, job).by = next.by
        /\ Turns(next, phase, job).mailbox = next.mailbox
        /\ [next EXCEPT !.track = track].by = next.by
        /\ [next EXCEPT !.track = track].mailbox = next.mailbox
        /\ [next EXCEPT !.track = track, !.phase = phase].by = next.by
        /\ [next EXCEPT !.track = track, !.phase = phase].mailbox = next.mailbox
    BY <2>1 DEF Turns, WorkerTask
  <2> QED BY <1>2, <2>2 DEF next
<1>4. CASE Wake(w)
  <2>1. \/ \E track : worker' = [worker EXCEPT ![w] = [Taken(w) EXCEPT !.track = track]]
        \/ worker' = [worker EXCEPT ![w] = Taken(w)]
    BY <1>4 DEF Wake, StartNextPlayback, Becomes
  <2> QED BY <1>2, <1>3, <2>1
<1>5. CASE CheckContext(w)
  BY <1>2, <1>5 DEF CheckContext, Becomes
<1>6. CASE Skip(w) \/ Previous(w)
  <2>1. \/ \E phase, job : worker' = [worker EXCEPT ![w] = Turns(Taken(w), phase, job)]
        \/ worker' = [worker EXCEPT ![w] = Taken(w)]
    BY <1>6 DEF Skip, Previous, Becomes
  <2> QED BY <1>2, <1>3, <2>1
<1>7. CASE Stop(w)
  BY <1>3, <1>7 DEF Stop, Becomes
<1>8. CASE ShutDown(w)
  <2> DEFINE next == [Taken(w) EXCEPT !.track = NoTrack, !.phase = "closing"]
  <2>1. worker' = [worker EXCEPT ![w] = next]
    BY <1>8 DEF ShutDown, Becomes
  <2>2. next.by = worker[w].by /\ next.mailbox = Tail(worker[w].mailbox)
    BY <1>3
  <2> HIDE DEF next
  <2> QED BY <2>1, <2>2
<1> QED BY <1>4, <1>5, <1>6, <1>7, <1>8

LEMMA MessageSteps ==
  ASSUME Counted, NEW w \in Workers,
         \/ Wake(w) \/ CheckContext(w) \/ Skip(w) \/ Previous(w) \/ Stop(w) \/ ShutDown(w)
  PROVE  Counted'
<1>0. Types /\ Types'
  BY WorkerTypes DEF Counted, WorkerStep
<1>1. PICK next : /\ worker' = [worker EXCEPT ![w] = next]
                  /\ next.by = worker[w].by
                  /\ next.mailbox = Tail(worker[w].mailbox)
  BY <1>0, TakenIs
<1>2. /\ worker[w].mailbox # << >> /\ pending' = pending /\ entry' = entry
      /\ nextTrackId' = nextTrackId
  BY DEF Wake, CheckContext, Skip, Previous, Stop, ShutDown, Receives, store, past
<1>3. CASE ShutDown(w)
  <2>1. command' = command
    BY <1>3 DEF ShutDown
  <2> QED BY <1>0, <1>1, <1>2, <2>1, QuietCounted
<1>4. CASE ~ ShutDown(w)
  <2>1. PICK c \in Commands : c = Head(worker[w].mailbox)
    <3>1. Head(worker[w].mailbox) \in Commands \union {Shutdown}
      BY <1>0, <1>2, HeadTailProperties DEF Types, WorkerTask
    <3>2. Head(worker[w].mailbox) # Shutdown
      BY <1>4 DEF Wake, CheckContext, Skip, Previous, Stop, Receives
    <3> QED BY <3>1, <3>2
  <2>2. ~ Owed(c)'
    BY <1>1, <1>2, <2>1, HeadAnswered
  <2>3. CASE CheckContext(w)
    <3>1. /\ command' = Moved({c}, "edit") /\ command[c].kind = "edit"
          /\ "edit" \in Steps \ {"done"}
      BY <2>1, <2>3 DEF CheckContext, Answer, Receives, Steps
    <3>2. /\ \A d \in Commands \ {c} : command'[d] = command[d]
          /\ command'[c].at = "edit" /\ command'[c].kind = "edit"
      BY <1>0, <2>1, <3>1, MovedOn
    <3>3. Due' \subseteq Due
      BY <2>1, <3>2 DEF Due
    <3>4. \A d \in Commands : At(d, "enqueue")' => command'[d].kind = "play"
      BY <3>2 DEF Counted, DueBounded, At
    <3>5. \A d \in Commands : Owed(d)' => command'[d].at = command[d].at
      BY <2>2, <3>2
    <3> QED BY <1>0, <1>1, <1>2, <3>3, <3>4, <3>5, WorkerCounted
  <2>4. CASE ~ CheckContext(w)
    <3>1. command' = Moved({c}, "done")
      BY <1>4, <2>1, <2>4 DEF Wake, Skip, Previous, Stop, Answer
    <3>2. \A d \in Commands : d \in {c} => ~ Owed(d)'
      BY <2>2
    <3> QED BY <1>0, <1>1, <1>2, <3>1, <3>2, DoneCounted
  <2> QED BY <2>3, <2>4
<1> QED BY <1>3, <1>4

(* Steps in which a worker ends, and all it owed an answer with it. *)
LEMMA EndSteps ==
  ASSUME Counted, NEW w \in Workers,
         ConnectFails(w) \/ ConnectAborted(w) \/ Close(w)
  PROVE  Counted'
<1>0. Types'
  BY WorkerTypes DEF Counted, WorkerStep
<1>1. PICK S \in {{}, {worker[w].by}} : EndWorker(w, S)
  BY DEF ConnectFails, ConnectAborted, Close
<1>2. pending' = pending /\ entry' = entry /\ nextTrackId' = nextTrackId
  BY DEF ConnectFails, ConnectAborted, Close, store
<1> DEFINE next == [NoWorker EXCEPT !.phase = "ended", !.channel = worker[w].channel]
           answered == S \union Waiting(w)
<1>3. worker' = [worker EXCEPT ![w] = next] /\ command' = Moved(answered, "done")
  BY <1>1 DEF EndWorker
<1>4. next.by = NoCommand /\ next.mailbox = << >>
  BY DEF NoWorker
<1> HIDE DEF next
<1>5. ASSUME NEW c \in Commands, c \in answered PROVE ~ Owed(c)'
  <2>1. c = worker[w].by \/ c \in Waiting(w)
    BY <1>1, <1>5
  <2> QED BY <1>2, <1>3, <1>4, <2>1, EndAnswers
<1> HIDE DEF answered
<1> QED BY <1>0, <1>2, <1>3, <1>4, <1>5, DoneCounted

LEMMA StoppedStep ==
  ASSUME Counted, NEW w \in Workers, Stopped(w)
  PROVE  Counted'
<1>0. Types'
  BY WorkerTypes DEF Counted, WorkerStep
<1>1. /\ pending' = pending /\ entry' \in {entry, 0} /\ nextTrackId' = nextTrackId
      /\ command' = command
  BY DEF Stopped, requests, store
<1> DEFINE next == [NoWorker EXCEPT !.phase = "stopped"]
<1>2. worker' = [worker EXCEPT ![w] = next]
  BY DEF Stopped
<1>3. next.by = NoCommand /\ next.mailbox = << >>
  BY DEF NoWorker
<1> HIDE DEF next
<1> QED BY <1>0, <1>1, <1>2, <1>3, QuietCounted

(* The command that joined goes on, as it does that is told so. *)
LEMMA ConnectStep ==
  ASSUME Counted, NEW w \in Workers, Connect(w)
  PROVE  Counted'
<1>0. Types /\ Types'
  BY WorkerTypes DEF Counted, WorkerStep
<1>1. pending' = pending /\ entry' = entry /\ nextTrackId' = nextTrackId
  BY DEF Connect, store
<1>2. PICK next : /\ worker' = [worker EXCEPT ![w] = next]
                  /\ next.by = NoCommand /\ next.mailbox = worker[w].mailbox
  <2> DEFINE next == [worker[w] EXCEPT !.phase = "running", !.by = NoCommand]
  <2>1. worker' = [worker EXCEPT ![w] = next]
    BY <1>0 DEF Connect, Types
  <2>2. worker[w] \in WorkerTask
    BY <1>0 DEF Types
  <2>3. next.by = NoCommand /\ next.mailbox = worker[w].mailbox
    BY <2>2 DEF WorkerTask
  <2> HIDE DEF next
  <2> QED BY <2>1, <2>3
<1>3. CASE worker[w].by \notin Commands
  <2>1. command' = command
    BY <1>0, <1>3 DEF Connect, Moved, Types
  <2> QED BY <1>0, <1>1, <1>2, <2>1, QuietCounted
<1>4. CASE worker[w].by \in Commands
  <2>1. PICK c \in Commands : c = worker[w].by
    BY <1>4
  <2>2. ~ Owed(c)'
    BY <1>1, <1>2, <2>1, JoinAnswered
  <2>3. CASE command[c].kind = "play"
    <3>1. command' = Moved({c}, "enqueue") /\ "enqueue" \in Steps \ {"done"}
      BY <2>1, <2>3 DEF Connect, AfterJoin, Steps
    <3>2. /\ \A d \in Commands \ {c} : command'[d] = command[d]
          /\ command'[c].at = "enqueue" /\ command'[c].kind = "play"
      BY <1>0, <2>3, <3>1, MovedOn
    <3>3. Due' \subseteq Due
      BY <2>1, <2>3, <3>2 DEF Due, Counted, Joining, At
    <3>4. \A d \in Commands : At(d, "enqueue")' => command'[d].kind = "play"
      BY <3>2 DEF Counted, DueBounded, At
    <3>5. \A d \in Commands : Owed(d)' => command'[d].at = command[d].at
      BY <2>2, <3>2
    <3> QED BY <1>0, <1>1, <1>2, <3>3, <3>4, <3>5, WorkerCounted
  <2>4. CASE command[c].kind # "play"
    <3>1. command' = Moved({c}, "done")
      BY <2>1, <2>4 DEF Connect, AfterJoin
    <3>2. \A d \in Commands : d \in {c} => ~ Owed(d)'
      BY <2>2
    <3> QED BY <1>0, <1>1, <1>2, <3>1, <3>2, DoneCounted
  <2> QED BY <2>3, <2>4
<1> QED BY <1>3, <1>4

LEMMA WorkersCounted ==
  ASSUME Counted, NEW w \in Workers, WorkerStep(w)
  PROVE  Counted'
<1>1. CASE \/ ReadCurrent(w) \/ RewindQueue(w) \/ ForgetLatest(w) \/ TrackEnds(w)
           \/ Finish(w) \/ Complete(w) \/ Record(w) \/ Advance(w)
           \/ IdleTimeout(w) \/ VoiceFails(w)
  BY <1>1, QuietSteps
<1>2. CASE \/ Wake(w) \/ CheckContext(w) \/ Skip(w) \/ Previous(w)
           \/ Stop(w) \/ ShutDown(w)
  BY <1>2, MessageSteps
<1>3. CASE ConnectFails(w) \/ ConnectAborted(w) \/ Close(w)
  BY <1>3, EndSteps
<1>4. CASE Connect(w)
  BY <1>4, ConnectStep
<1>5. CASE Stopped(w)
  BY <1>5, StoppedStep
<1> QED BY <1>1, <1>2, <1>3, <1>4, <1>5 DEF WorkerStep

(* A command that waits for nobody. *)
LEMMA NotOwed ==
  ASSUME Counted, NEW c \in Commands, command[c].at \notin {"joining", "sent"}
  PROVE  ~ Owed(c)
<1>1. c # pending /\ \A w \in Workers : c # worker[w].by
  BY DEF Counted, Joining, At
<1>2. \A w \in Workers : \A i \in DOMAIN Box(w) : Box(w)[i] # c
  BY DEF Counted, Posted, At
<1> QED BY <1>1, <1>2 DEF Owed

(* Steps that leave the workers alone. *)
LEMMA CommandCounted ==
  ASSUME Counted, Types', worker' = worker, pending' \in {pending, NoCommand},
         entry' \in {entry, 0},
         \A c \in Commands : Owed(c)' => command'[c].at = command[c].at,
         TracksDue' <= MaxTracks,
         \A c \in Commands : At(c, "enqueue")' => command'[c].kind = "play"
  PROVE  Counted'
<1>1. \A w \in Workers : Fewer(w)
  BY FewerIs DEF Counted
<1>2. \A w \in Workers : worker'[w].by \in {worker[w].by, NoCommand}
  OBVIOUS
<1>3. Joining' /\ Posted' /\ Untold'
  BY <1>1, <1>2, Answered
<1> QED BY <1>3 DEF Counted, DueBounded

(* The same, where a command is over that nobody owes an answer. *)
LEMMA OverCounted ==
  ASSUME Counted, Types', worker' = worker, pending' \in {pending, NoCommand},
         entry' \in {entry, 0}, nextTrackId' = nextTrackId,
         NEW c \in Commands, command' = Moved({c}, "done"), ~ Owed(c)'
  PROVE  Counted'
<1>0. Types
  BY DEF Counted
<1>1. /\ \A d \in Commands \ {c} : command'[d] = command[d]
      /\ command'[c] = Idle /\ Due' \subseteq Due
  BY <1>0, MovedDone
<1>2. \A d \in Commands : Owed(d)' => command'[d].at = command[d].at
  BY <1>1
<1>3. TracksDue' <= MaxTracks
  BY <1>0, <1>1, NoneDue DEF Counted
<1>4. \A d \in Commands : At(d, "enqueue")' => command'[d].kind = "play"
  <2>1. Idle.at # "enqueue"
    BY DEF Idle
  <2> QED BY <1>1, <2>1 DEF Counted, DueBounded, At
<1> QED BY <1>2, <1>3, <1>4, CommandCounted

(* The join under way is given up. *)
LEMMA PendingFails ==
  ASSUME Counted, Types', worker' = worker, pending # NoCommand,
         pending' = NoCommand, entry' = entry, nextTrackId' = nextTrackId,
         command' = Moved({pending}, "done")
  PROVE  Counted'
<1>1. PICK c \in Commands : c = pending
  BY DEF Counted, Types
<1>2. command[c].at = "joining" /\ \A w \in Workers : worker[w].by # c
  BY <1>1 DEF Counted, Joining, At
<1>3. \A w \in Workers : \A i \in DOMAIN Box(w) : Box(w)[i] # c
  BY <1>2 DEF Counted, Posted, At
<1>4. ~ Owed(c)'
  BY <1>2, <1>3, DistinctAssumption DEF Owed, Box
<1> QED BY <1>1, <1>4, OverCounted

(* The worker of a new session takes over the command that asked for it. *)
LEMMA ReadyCounted ==
  ASSUME Counted, RendezvousReady
  PROVE  Counted'
<1>0. Types /\ Types'
  BY RendezvousTypes DEF Counted
<1>1. /\ command' = command /\ nextTrackId' = nextTrackId
      /\ pending \in Commands /\ pending' = NoCommand /\ NoCommand \notin Commands
  BY <1>0, DistinctAssumption DEF RendezvousReady, store, Types
<1>a. PICK w \in Workers :
        /\ worker' = [worker EXCEPT ![w] =
             [NoWorker EXCEPT !.phase = "connecting", !.by = pending,
                              !.channel = command[pending].channel]]
        /\ entry' = w
  BY DEF RendezvousReady
<1>2. PICK next : /\ worker' = [worker EXCEPT ![w] = next]
                  /\ next.by = pending /\ next.mailbox = << >>
  <2> DEFINE next == [NoWorker EXCEPT !.phase = "connecting", !.by = pending,
                                      !.channel = command[pending].channel]
  <2>1. next.by = pending /\ next.mailbox = << >>
    BY DEF NoWorker
  <2>2. worker' = [worker EXCEPT ![w] = next]
    BY <1>a
  <2> HIDE DEF next
  <2> QED BY <2>1, <2>2
<1>3. worker'[w] = next /\ \A v \in Workers \ {w} : worker'[v] = worker[v]
  BY <1>0, <1>2 DEF Types
<1>4. ASSUME NEW v \in Workers, worker'[v].by \in Commands
      PROVE  /\ command'[worker'[v].by].at = "joining"
             /\ \A u \in Workers : worker'[u].by = worker'[v].by => u = v
  <2>1. CASE v = w
    BY <1>1, <1>2, <1>3, <2>1 DEF Counted, Joining, At
  <2>2. CASE v # w
    BY <1>1, <1>2, <1>3, <1>4, <2>2 DEF Counted, Joining, At
  <2> QED BY <2>1, <2>2
<1>5. Joining'
  BY <1>1, <1>4 DEF Joining, At
<1>6. \A v \in Workers : Box(v)' = Box(v) \/ Box(v)' = << >>
  BY <1>2, <1>3 DEF Box
<1>7. Posted'
  <2>1. ASSUME NEW v \in Workers, NEW i \in DOMAIN Box(v)'
        PROVE  i \in DOMAIN Box(v) /\ Box(v)'[i] = Box(v)[i] /\ Box(v)' = Box(v)
    BY <1>6, <2>1
  <2> QED BY <1>1, <2>1 DEF Counted, Posted, At
<1>8. Untold'
  <2>1. entry' = w /\ worker'[w].mailbox = << >>
    BY <1>a, <1>2, <1>3
  <2> QED BY <2>1 DEF Untold, Box
<1>9. Due' = Due
  BY <1>1 DEF Due
<1>10. TracksDue' <= MaxTracks
  BY <1>0, <1>1, <1>9, NoneDue DEF Counted
<1>11. \A c \in Commands : At(c, "enqueue")' => command'[c].kind = "play"
  BY <1>1 DEF Counted, DueBounded, At
<1> QED BY <1>0, <1>5, <1>7, <1>8, <1>10, <1>11 DEF Counted, DueBounded

LEMMA RendezvousCounted ==
  ASSUME Counted, RendezvousReady \/ RendezvousFails
  PROVE  Counted'
<1>1. Types'
  BY RendezvousTypes DEF Counted
<1>2. CASE RendezvousFails
  BY <1>1, <1>2, PendingFails DEF RendezvousFails, store
<1> QED BY <1>2, ReadyCounted

(* A message that is nowhere yet goes into a mailbox. *)
LEMMA PostCounted ==
  ASSUME Counted, Types', NEW w \in Workers, NEW m \in Commands \union {Shutdown},
         worker' = [worker EXCEPT ![w].mailbox = Append(@, m)],
         pending' = pending,
         \A c \in Commands \ {m} : command'[c] = command[c],
         m \in Commands => ~ Owed(m) /\ command'[m].at = "sent" /\ entry' = entry,
         m = Shutdown => entry = w /\ entry' = 0
  PROVE  Joining' /\ Posted' /\ Untold'
<1> DEFINE s == worker[w].mailbox
           t == Append(s, m)
<1>1. /\ s \in Seq(Commands \union {Shutdown}) /\ DOMAIN s = 1 .. Len(s)
      /\ Len(s) \in Nat
  BY LenProperties DEF Counted, Types, WorkerTask
<1>2. /\ t \in Seq(Commands \union {Shutdown}) /\ Len(t) = Len(s) + 1
      /\ \A i \in 1 .. Len(s) : t[i] = s[i]
      /\ t[Len(s) + 1] = m
  BY <1>1, AppendProperties
<1>3. DOMAIN t = 1 .. Len(t)
  BY <1>2, LenProperties
<1>4. /\ \A v \in Workers : worker'[v].by = worker[v].by
      /\ worker'[w].mailbox = t
      /\ \A v \in Workers \ {w} : worker'[v].mailbox = worker[v].mailbox
  BY DEF Counted, Types, WorkerTask
<1> HIDE DEF t
<1>5. NoCommand \notin Commands /\ Shutdown \notin Commands
  BY DistinctAssumption
<1>6. \A i \in DOMAIN s : s[i] # m
  <2>1. CASE m \in Commands
    BY <2>1 DEF Owed, Box
  <2>2. CASE m = Shutdown
    <3>1. entry = w /\ w # 0
      BY <2>2, BoundAssumption DEF Workers
    <3> QED BY <2>2, <3>1 DEF Counted, Untold, Box
  <2> QED BY <2>1, <2>2
<1>7. ASSUME NEW v \in Workers, NEW i \in DOMAIN worker'[v].mailbox
      PROVE  \/ /\ i \in DOMAIN worker[v].mailbox
                /\ worker'[v].mailbox[i] = worker[v].mailbox[i]
                /\ m \in Commands \/ v = w => worker'[v].mailbox[i] # m
             \/ v = w /\ i = Len(s) + 1 /\ worker'[v].mailbox[i] = m
  <2>1. CASE v = w
    <3>1. i \in 1 .. Len(t) /\ worker'[v].mailbox[i] = t[i]
      BY <1>3, <1>4, <1>7, <2>1
    <3>2. CASE i = Len(s) + 1
      BY <1>2, <2>1, <3>1, <3>2
    <3>3. CASE i # Len(s) + 1
      <4>1. i \in DOMAIN s
        BY <1>1, <1>2, <3>1, <3>3
      <4> QED BY <1>1, <1>2, <1>6, <2>1, <3>1, <4>1
    <3> QED BY <3>2, <3>3
  <2>2. CASE v # w
    <3>1. worker'[v].mailbox = worker[v].mailbox
      BY <1>4, <2>2
    <3>2. m \in Commands => worker[v].mailbox[i] # m
      BY <1>7, <3>1 DEF Owed, Box
    <3> QED BY <1>7, <2>2, <3>1, <3>2
  <2> QED BY <2>1, <2>2
<1>8. \A c \in Commands : Owed(c) => c # m /\ command'[c] = command[c]
  <2>1. m \in Commands => ~ Owed(m)
    OBVIOUS
  <2> QED BY <1>5, <2>1
<1>9. Joining'
  <2>1. pending' \in Commands => At(pending, "joining")'
    <3>1. pending \in Commands => Owed(pending)
      BY DEF Owed
    <3> QED BY <1>8, <3>1 DEF Counted, Joining, At
  <2>2. ASSUME NEW v \in Workers, worker'[v].by \in Commands
        PROVE  /\ At(worker[v].by, "joining")'
               /\ worker'[v].by # pending'
               /\ \A u \in Workers : worker'[u].by = worker'[v].by => u = v
    <3>1. Owed(worker[v].by) /\ worker'[v].by = worker[v].by
      BY <1>4 DEF Owed
    <3>2. command'[worker'[v].by].at = "joining"
      BY <1>8, <2>2, <3>1 DEF Counted, Joining, At
    <3> QED BY <1>4, <2>2, <3>1, <3>2 DEF Counted, Joining, At
  <2> QED BY <2>1, <2>2 DEF Joining
<1>10. ASSUME NEW v \in Workers, NEW i \in DOMAIN worker'[v].mailbox,
              worker'[v].mailbox[i] \in Commands
       PROVE  command'[worker'[v].mailbox[i]].at = "sent"
  <2>1. CASE worker'[v].mailbox[i] = m
    BY <1>10, <2>1
  <2>2. CASE worker'[v].mailbox[i] # m
    <3>1. i \in DOMAIN worker[v].mailbox /\ worker'[v].mailbox[i] = worker[v].mailbox[i]
      BY <1>7, <2>2
    <3>2. command[worker[v].mailbox[i]].at = "sent"
      BY <1>10, <3>1 DEF Counted, Posted, Box, At
    <3> QED BY <1>10, <2>2, <3>1, <3>2
  <2> QED BY <2>1, <2>2
<1>11. ASSUME NEW v \in Workers, NEW i \in DOMAIN worker'[v].mailbox,
              NEW j \in DOMAIN worker'[v].mailbox,
              worker'[v].mailbox[i] = worker'[v].mailbox[j]
       PROVE  i = j
  <2>1. CASE i \in DOMAIN worker[v].mailbox /\ j \in DOMAIN worker[v].mailbox
             /\ worker'[v].mailbox[i] = worker[v].mailbox[i]
             /\ worker'[v].mailbox[j] = worker[v].mailbox[j]
    BY <1>11, <2>1 DEF Counted, Posted, Box
  <2> QED BY <1>7, <1>11, <2>1
<1>12. ASSUME NEW v \in Workers, NEW u \in Workers,
              NEW i \in DOMAIN worker'[v].mailbox,
              NEW j \in DOMAIN worker'[u].mailbox,
              worker'[v].mailbox[i] = worker'[u].mailbox[j],
              worker'[v].mailbox[i] \in Commands
       PROVE  v = u
  <2>1. CASE i \in DOMAIN worker[v].mailbox /\ j \in DOMAIN worker[u].mailbox
             /\ worker'[v].mailbox[i] = worker[v].mailbox[i]
             /\ worker'[u].mailbox[j] = worker[u].mailbox[j]
    BY <1>12, <2>1 DEF Counted, Posted, Box
  <2> QED BY <1>7, <1>12, <2>1
<1>13. Posted'
  BY <1>10, <1>11, <1>12 DEF Posted, Box, At
<1>14. Untold'
  <2>1. CASE m = Shutdown
    BY <2>1 DEF Untold
  <2>2. CASE m \in Commands
    <3>1. entry' = entry
      BY <2>2
    <3>2. ASSUME NEW v \in Workers, v = entry, v # 0,
                 NEW i \in DOMAIN worker'[v].mailbox
          PROVE  worker'[v].mailbox[i] # Shutdown
      <4>1. \A n \in DOMAIN worker[v].mailbox : worker[v].mailbox[n] # Shutdown
        BY <3>2 DEF Counted, Untold, Box
      <4> QED BY <1>5, <1>7, <2>2, <4>1
    <3>3. entry \in {0} \union Workers
      BY DEF Counted, Types
    <3> QED BY <3>1, <3>2, <3>3 DEF Untold, Box
  <2> QED BY <2>1, <2>2
<1> QED BY <1>9, <1>13, <1>14

(* A command asks the manager from where it stands. *)
LEMMA RouteCounted ==
  ASSUME Counted, NEW c \in Commands, RoutePlayback(c)
  PROVE  Counted'
<1>0. Types /\ Types'
  BY CommandTypes DEF Counted
<1>1. command[c].at \in {"action", "done"} /\ ~ Owed(c)
  <2>1. command[c].at \in {"action", "done"}
    BY DEF RoutePlayback, At
  <2> QED BY <2>1, NotOwed
<1>2. pending' = pending /\ entry' = entry /\ nextTrackId' = nextTrackId
  BY DEF RoutePlayback
<1>3. ASSUME entry # 0, Post(c), command'[c].at = "sent",
             \A d \in Commands \ {c} : command'[d] = command[d]
      PROVE  Counted'
  <2>1. PICK w \in Workers : w = entry
    BY <1>0, <1>3 DEF Types
  <2>2. worker' = [worker EXCEPT ![w].mailbox = Append(@, c)]
    BY <1>3, <2>1 DEF Post
  <2>3. c # Shutdown /\ c \in Commands \union {Shutdown}
    BY DistinctAssumption
  <2>4. Joining' /\ Posted' /\ Untold'
    BY <1>0, <1>1, <1>2, <1>3, <2>2, <2>3, PostCounted
  <2>5. Due' \subseteq Due
    BY <1>3 DEF Due
  <2>6. TracksDue' <= MaxTracks
    BY <1>0, <1>2, <2>5, NoneDue DEF Counted
  <2>7. \A d \in Commands : At(d, "enqueue")' => command'[d].kind = "play"
    BY <1>3 DEF Counted, DueBounded, At
  <2> QED BY <1>0, <2>4, <2>6, <2>7 DEF Counted, DueBounded
<1>4. CASE At(c, "action")
  <2>1. CASE InSession(c) /\ ~ Gone(entry)
    <3>1. Post(c) /\ command' = Moved({c}, "sent") /\ "sent" \in Steps \ {"done"}
      BY <1>4, <2>1 DEF RoutePlayback, At, Steps
    <3>2. entry # 0
      BY <2>1 DEF InSession, ControlledFrom
    <3>3. /\ \A d \in Commands \ {c} : command'[d] = command[d]
          /\ command'[c].at = "sent"
      BY <1>0, <3>1, MovedOn
    <3> QED BY <1>3, <3>1, <3>2, <3>3
  <2>2. CASE ~ (InSession(c) /\ ~ Gone(entry))
    <3>1. command' = Moved({c}, "done") /\ worker' = worker
      BY <1>4, <2>2 DEF RoutePlayback, At
    <3>2. ~ Owed(c)'
      BY <1>1, <1>2, <3>1 DEF Owed, Box
    <3> QED BY <1>0, <1>2, <3>1, <3>2, OverCounted
  <2> QED BY <2>1, <2>2
<1>5. CASE ~ At(c, "action")
  <2>1. PICK kind : Asks(c, kind, worker[entry].channel, "sent")
    BY <1>5 DEF RoutePlayback, Controls
  <2>2. /\ \A d \in Commands \ {c} : command'[d] = command[d]
        /\ command'[c].at = "sent"
    BY <1>0, <2>1 DEF Asks, Types
  <2>3. entry # 0 /\ Post(c)
    BY <1>5 DEF RoutePlayback
  <2> QED BY <1>3, <2>2, <2>3
<1> QED BY <1>4, <1>5

(* One more command that may enqueue was let in while there was room. *)
LEMMA OneMoreDue ==
  ASSUME Counted, Types', nextTrackId' = nextTrackId, NEW c \in Commands,
         TracksDue < MaxTracks, \A d \in Commands \ {c} : command'[d] = command[d]
  PROVE  TracksDue' <= MaxTracks
<1>1. PICK d : d = Due'
  OBVIOUS
<1>2. d \subseteq Due \union {c}
  BY <1>1 DEF Due
<1>3. /\ IsFiniteSet(Due \union {c}) /\ Cardinality(Due \union {c}) \in Nat
      /\ Cardinality(Due \union {c}) <= Cardinality(Due) + 1
  <2>1. IsFiniteSet(Due) /\ Cardinality(Due) \in Nat
    BY DueFinite
  <2>2. IsFiniteSet(Due \union {c})
    BY <2>1, FS_AddElement
  <2>3. Cardinality(Due \union {c}) \in Nat
    BY <2>2, FS_CardinalityType
  <2>4. Cardinality(Due \union {c})
          = IF c \in Due THEN Cardinality(Due) ELSE Cardinality(Due) + 1
    BY <2>1, FS_AddElement
  <2> QED BY <2>1, <2>2, <2>3, <2>4
<1>4. Cardinality(d) <= Cardinality(Due \union {c}) /\ Cardinality(d) \in Nat
  BY <1>2, <1>3, FS_Subset, FS_CardinalityType
<1>5. TracksDue' = nextTrackId' + Cardinality(Due')
  BY DEF TracksDue, Due
<1> QED BY <1>1, <1>3, <1>4, <1>5, DueFinite, BoundAssumption DEF Counted, Types

LEMMA JoinCounted ==
  ASSUME Counted, NEW c \in Commands, JoinVoice(c)
  PROVE  Counted'
<1>0. Types /\ Types'
  BY CommandTypes DEF Counted
<1>1. command[c].at = "done" /\ ~ Owed(c)
  <2>1. command[c].at = "done"
    BY DEF JoinVoice, At
  <2> QED BY <2>1, NotOwed
<1>2. /\ worker' = worker /\ entry' = entry /\ nextTrackId' = nextTrackId
      /\ NoCommand \notin Commands
  BY DistinctAssumption DEF JoinVoice, store
<1>3. PICK kind \in {"play", "join"}, channel \in Channels, at \in {"enqueue", "joining"} :
        /\ Asks(c, kind, channel, at)
        /\ kind = "play" => TracksDue < MaxTracks
        /\ \/ at = "enqueue" /\ kind = "play" /\ pending' = pending
           \/ at = "joining" /\ pending = NoCommand /\ pending' = c /\ entry = 0
  BY DEF JoinVoice, Plays, Joins
<1>4. /\ \A d \in Commands \ {c} : command'[d] = command[d]
      /\ command'[c].at = at /\ command'[c].kind = kind
  BY <1>0, <1>3 DEF Asks, Types
<1>5. TracksDue' <= MaxTracks
  <2>1. CASE kind = "play"
    BY <1>0, <1>2, <1>3, <1>4, <2>1, OneMoreDue
  <2>2. CASE kind # "play"
    <3>1. Due' \subseteq Due
      BY <1>4, <2>2 DEF Due
    <3> QED BY <1>0, <1>2, <3>1, NoneDue DEF Counted
  <2> QED BY <2>1, <2>2
<1>6. \A d \in Commands : At(d, "enqueue")' => command'[d].kind = "play"
  BY <1>3, <1>4 DEF Counted, DueBounded, At
<1>7. \A d \in Commands : Owed(d) => command'[d].at = command[d].at
  BY <1>1, <1>4
<1>8. CASE at = "enqueue"
  <2>1. \A d \in Commands : Owed(d)' => Owed(d)
    BY <1>2, <1>3, <1>8 DEF Owed, Box
  <2>2. pending' \in {pending, NoCommand}
    BY <1>3, <1>8
  <2> QED BY <1>0, <1>2, <1>5, <1>6, <1>7, <2>1, <2>2, CommandCounted
<1>9. CASE at = "joining"
  <2>1. pending' = c /\ pending = NoCommand /\ entry = 0
    BY <1>3, <1>9
  <2>2. \A w \in Workers : worker[w].by # c
    BY <1>1 DEF Owed
  <2>3. Joining'
    <3>1. At(pending, "joining")'
      BY <1>4, <1>9, <2>1 DEF At
    <3>2. ASSUME NEW w \in Workers, worker'[w].by \in Commands
          PROVE  /\ At(worker[w].by, "joining")'
                 /\ worker'[w].by # pending'
                 /\ \A v \in Workers : worker'[v].by = worker'[w].by => v = w
      BY <1>2, <1>4, <2>1, <2>2, <3>2 DEF Counted, Joining, At
    <3> QED BY <3>1, <3>2 DEF Joining
  <2>4. \A w \in Workers : \A i \in DOMAIN Box(w) : Box(w)[i] # c
    BY <1>1 DEF Owed
  <2>5. \A w \in Workers : Box(w)' = Box(w)
    BY <1>2 DEF Box
  <2>6. Posted'
    <3>1. ASSUME NEW w \in Workers, NEW i \in DOMAIN Box(w), Box(w)[i] \in Commands
          PROVE  command'[Box(w)[i]].at = "sent"
      BY <1>4, <2>4, <3>1 DEF Counted, Posted, At
    <3> QED BY <2>5, <3>1 DEF Counted, Posted, At
  <2>7. Untold'
    BY <1>2, <2>1 DEF Untold
  <2> QED BY <1>0, <1>5, <1>6, <2>3, <2>6, <2>7 DEF Counted, DueBounded
<1> QED BY <1>8, <1>9

(* The command was due, and its tracks take the room that was kept for it. *)
LEMMA EnqueueCounted ==
  ASSUME Counted, NEW c \in Commands, EnqueueTracks(c)
  PROVE  Counted'
<1>0. Types /\ Types'
  BY CommandTypes DEF Counted
<1>1. /\ worker' = worker /\ pending' = pending /\ entry' = entry
      /\ command[c].at = "enqueue" /\ command[c].kind = "play"
  BY DEF EnqueueTracks, Counted, DueBounded, At
<1>2. PICK added \in 1 .. MaxTracks - TracksDue + 1 : nextTrackId' = nextTrackId + added
  BY DEF EnqueueTracks
<1>3. command' = Moved({c}, "action") /\ "action" \in Steps \ {"done"}
  BY DEF EnqueueTracks, Steps
<1>4. /\ \A d \in Commands \ {c} : command'[d] = command[d]
      /\ command'[c].at = "action" /\ command'[c].kind = command[c].kind
  BY <1>0, <1>3, MovedOn
<1>5. Due' = Due \ {c} /\ c \in Due
  BY <1>1, <1>4 DEF Due
<1>6. Cardinality(Due \ {c}) = Cardinality(Due) - 1
  BY <1>5, DueFinite, FS_RemoveElement
<1>7. TracksDue' = nextTrackId' + Cardinality(Due')
  BY DEF TracksDue, Due
<1>8. TracksDue' <= MaxTracks
  BY <1>0, <1>2, <1>5, <1>6, <1>7, DueFinite, BoundAssumption DEF Types
<1>9. \A d \in Commands : At(d, "enqueue")' => command'[d].kind = "play"
  BY <1>4 DEF Counted, DueBounded, At
<1>10. ~ Owed(c)
  BY <1>1, NotOwed
<1>11. \A d \in Commands : Owed(d)' => command'[d].at = command[d].at
  BY <1>1, <1>4, <1>10 DEF Owed, Box
<1> QED BY <1>0, <1>1, <1>8, <1>9, <1>11, CommandCounted

LEMMA EditCounted ==
  ASSUME Counted, NEW c \in Commands, EditQueue(c)
  PROVE  Counted'
<1>0. Types'
  BY CommandTypes DEF Counted
<1>1. /\ worker' = worker /\ pending' = pending /\ entry' = entry
      /\ nextTrackId' = nextTrackId /\ command' = Moved({c}, "done")
  BY DEF EditQueue
<1>2. ~ Owed(c)
  BY NotOwed DEF EditQueue, At
<1>3. ~ Owed(c)'
  BY <1>1, <1>2 DEF Owed, Box
<1> QED BY <1>0, <1>1, <1>3, OverCounted

LEMMA LeaveCounted ==
  ASSUME Counted, NEW c \in Commands, LeaveVoice(c)
  PROVE  Counted'
<1>0. Types /\ Types'
  BY CommandTypes DEF Counted
<1>1. nextTrackId' = nextTrackId
  BY DEF LeaveVoice
<1>2. CASE pending # NoCommand
  BY <1>0, <1>1, <1>2, PendingFails DEF LeaveVoice
<1>3. CASE pending = NoCommand
  <2>1. command' = command /\ pending' = pending
    BY <1>3 DEF LeaveVoice, requests
  <2>2. Due' \subseteq Due
    BY <2>1 DEF Due
  <2>3. TracksDue' <= MaxTracks
    BY <1>0, <1>1, <2>2, NoneDue DEF Counted
  <2>4. \A d \in Commands : At(d, "enqueue")' => command'[d].kind = "play"
    BY <2>1 DEF Counted, DueBounded, At
  <2>5. CASE worker' = worker /\ entry' \in {entry, 0}
    BY <1>0, <2>1, <2>3, <2>4, <2>5, CommandCounted
  <2>6. CASE ~ (worker' = worker /\ entry' \in {entry, 0})
    <3>1. PICK w \in Workers :
            /\ w = entry /\ entry' = 0
            /\ worker' = [worker EXCEPT ![w].mailbox = Append(@, Shutdown)]
      BY <1>0, <1>3, <2>6 DEF LeaveVoice, Types
    <3>2. Shutdown \notin Commands
      BY DistinctAssumption
    <3>3. Joining' /\ Posted' /\ Untold'
      BY <1>0, <2>1, <3>1, <3>2, PostCounted
    <3> QED BY <1>0, <2>3, <2>4, <3>3 DEF Counted, DueBounded
  <2> QED BY <2>5, <2>6
<1> QED BY <1>2, <1>3

(* Every request is answered to the one command that waits for it, and     *)
(* tracks are enqueued only into room that was kept: the invariant that    *)
(* bounds the mailboxes of src/src/voice_manager.rs.                       *)
THEOREM CountedCorrect == Spec => []Counted
<1>1. Init => Counted
  <2> SUFFICES ASSUME Init PROVE Counted
    OBVIOUS
  <2>1. Types
    BY InitTypes
  <2>2. /\ \A c \in Commands : command[c].at = "done" /\ command[c].kind = "none"
        /\ \A w \in Workers : worker[w].by = NoCommand /\ worker[w].mailbox = << >>
        /\ pending = NoCommand /\ entry = 0 /\ NoCommand \notin Commands
    BY DistinctAssumption DEF Init, Idle, NoWorker
  <2>3. Due = {}
    BY <2>2 DEF Due
  <2>4. TracksDue <= MaxTracks
    BY <2>3, DueFinite, FS_EmptySet, BoundAssumption DEF Init
  <2> QED BY <2>1, <2>2, <2>4
       DEF Counted, DueBounded, Joining, Posted, Untold, Box, At
<1>2. Counted /\ [Next]_vars => Counted'
  <2> SUFFICES ASSUME Counted, [Next]_vars PROVE Counted'
    OBVIOUS
  <2>1. CASE Command
    <3>1. PICK c \in Commands : \/ JoinVoice(c) \/ EnqueueTracks(c) \/ EditQueue(c)
                                \/ LeaveVoice(c) \/ RoutePlayback(c)
      BY <2>1 DEF Command
    <3> QED BY <3>1, JoinCounted, EnqueueCounted, EditCounted, LeaveCounted, RouteCounted
  <2>2. CASE RendezvousReady \/ RendezvousFails
    BY <2>2, RendezvousCounted
  <2>3. CASE Worker
    <3>1. PICK w \in Workers : WorkerStep(w)
      BY <2>3 DEF Worker, WorkerStep
    <3> QED BY <3>1, WorkersCounted
  <2>4. CASE UNCHANGED vars
    <3>1. /\ UNCHANGED << command, player, nextTrackId, history >>
          /\ UNCHANGED << previouses, pending, entry, worker >>
      BY <2>4 DEF vars, store, past
    <3>2. TracksDue' = TracksDue
      BY <3>1 DEF TracksDue
    <3> QED BY <3>1, <3>2
         DEF Counted, Types, DueBounded, Joining, Posted, Untold, Box, At
  <2> QED BY <2>1, <2>2, <2>3, <2>4 DEF Next
<1> QED BY <1>1, <1>2, PTL DEF Spec

(* Nothing is twice in a mailbox, so there is room for all in it once. *)
LEMMA BoxBounded ==
  ASSUME Counted, NEW w \in Workers
  PROVE  Len(worker[w].mailbox) <= Cardinality(Commands) + 1
<1> DEFINE s == worker[w].mailbox
           T == Commands \union {Shutdown}
           S == 1 .. Len(s)
<1>1. s \in Seq(T) /\ DOMAIN s = S /\ Len(s) \in Nat
  BY LenProperties DEF Counted, Types, WorkerTask
<1>2. s \in [S -> T]
  BY <1>1, ElementOfSeq
<1>3. \A i, j \in S : s[i] = s[j] => i = j
  BY <1>1 DEF Counted, Posted, Box
<1>4. s \in Injection(S, T)
  BY <1>2, <1>3 DEF Injection, IsInjective
<1>5. IsFiniteSet(T)
  BY FiniteAssumption, FS_AddElement
<1>6. Cardinality(S) <= Cardinality(T)
  BY <1>4, <1>5, FS_Injection
<1>7. Cardinality(S) = Len(s)
  BY <1>1, FS_Interval
<1>8. Cardinality(T) = Cardinality(Commands) + 1
  BY FiniteAssumption, FS_AddElement, DistinctAssumption
<1> QED BY <1>6, <1>7, <1>8

(* The type invariant that the runs check: never more tracks than were let *)
(* in, never more in a mailbox than one request of each command and one    *)
(* Shutdown (commands of src/src/commands, VoiceWorkerCommand).            *)
THEOREM TypeCorrect == Spec => []TypeOK
<1>1. Counted => TypeOK
  <2> SUFFICES ASSUME Counted PROVE TypeOK
    OBVIOUS
  <2>1. nextTrackId <= MaxTracks
    <3>1. TracksDue <= MaxTracks /\ nextTrackId \in Nat /\ MaxTracks \in Nat
      BY BoundAssumption DEF Counted, DueBounded, Types
    <3> QED BY <3>1, DueFinite
  <2> QED BY <2>1, BoxBounded DEF TypeOK, Counted
<1> QED BY <1>1, CountedCorrect, PTL

------------------------------------------------------------------------------
(* Part 5: a track has one place *)

(* The tracks there are, and no track. *)
Ids == 0 .. nextTrackId

(* Only those are played, queued, remembered or about to be put back. *)
Numbered ==
  /\ player \in Player(Ids) /\ history \in Seq(Ids)
  /\ \A w \in Workers : /\ worker[w].track \in Ids
                        /\ worker[w].job.current \in Ids
                        /\ worker[w].job.previous \in Ids

Known == Types /\ Numbered

(* Worker w becomes `next', which read what it works on from the player    *)
(* and the history.                                                        *)
Reads(w, next) ==
  /\ worker' = [worker EXCEPT ![w] = next]
  /\ next.job.current \in {NoTrack, player.now, worker[w].job.current}
  /\ next.job.previous \in {NoTrack, Latest(history), worker[w].job.previous}

LEMMA JobsRead ==
  ASSUME Types, NEW w \in Workers
  PROVE  /\ NoJob.current = NoTrack /\ NoJob.previous = NoTrack
         /\ [NoJob EXCEPT !.current = player.now].current = player.now
         /\ [NoJob EXCEPT !.current = player.now].previous = NoTrack
         /\ [NoJob EXCEPT !.previous = Latest(history)].current = NoTrack
         /\ [NoJob EXCEPT !.previous = Latest(history)].previous = Latest(history)
         /\ [worker[w].job EXCEPT !.current = player.now].current = player.now
         /\ [worker[w].job EXCEPT !.current = player.now].previous
              = worker[w].job.previous
<1>1. worker[w].job \in Job
  BY DEF Types, WorkerTask
<1> QED BY <1>1 DEF NoJob, Job

LEMMA TurnsHolds ==
  ASSUME NEW task \in WorkerTask, NEW phase, NEW job
  PROVE  /\ Turns(task, phase, job).track = task.track
         /\ Turns(task, phase, job).job = job
         /\ [Turns(task, phase, job) EXCEPT !.track = NoTrack].track = NoTrack
         /\ [Turns(task, phase, job) EXCEPT !.track = NoTrack].job = job
BY DEF Turns, WorkerTask

LEMMA TakenHolds ==
  ASSUME Types, NEW w \in Workers, worker[w].mailbox # << >>
  PROVE  /\ Taken(w) \in WorkerTask
         /\ Taken(w).track = worker[w].track /\ Taken(w).job = worker[w].job
<1>1. Taken(w) \in WorkerTask /\ worker[w] \in WorkerTask
  BY TakenType DEF Types
<1> QED BY <1>1 DEF Taken, WorkerTask

(* It keeps its job. *)
LEMMA SameReads ==
  ASSUME NEW w \in Workers, NEW next, next.job = worker[w].job,
         worker' = [worker EXCEPT ![w] = next]
  PROVE  Reads(w, next)
BY DEF Reads

(* It ends or begins. *)
LEMMA FreshReads ==
  ASSUME NEW w \in Workers, NEW next, next.job = NoJob,
         worker' = [worker EXCEPT ![w] = next]
  PROVE  Reads(w, next)
BY DEF Reads, NoJob

(* The worker gives a track up in every step but those that start one. *)
Drops(w) == \E next : Reads(w, next) /\ next.track \in {worker[w].track, NoTrack}

LEMMA DropsIf ==
  ASSUME NEW w \in Workers, NEW next, Becomes(w, next),
         next.job.current \in {NoTrack, player.now, worker[w].job.current},
         next.job.previous \in {NoTrack, Latest(history), worker[w].job.previous},
         next.track \in {worker[w].track, NoTrack}
  PROVE  Drops(w)
BY DEF Becomes, Reads, Drops

LEMMA HandlersDrop ==
  ASSUME Types, NEW w \in Workers,
         \/ CheckContext(w) \/ Skip(w) \/ Previous(w) \/ Stop(w) \/ ShutDown(w)
  PROVE  Drops(w)
<1>1. worker[w].mailbox # << >>
  BY DEF CheckContext, Skip, Previous, Stop, ShutDown, Receives
<1>2. /\ Taken(w) \in WorkerTask
      /\ Taken(w).track = worker[w].track /\ Taken(w).job = worker[w].job
  BY <1>1, TakenHolds
<1>3. ASSUME Becomes(w, Taken(w)) PROVE Drops(w)
  BY <1>2, <1>3, SameReads DEF Becomes, Drops
<1>4. CASE CheckContext(w)
  BY <1>3, <1>4 DEF CheckContext
<1>5. CASE Skip(w)
  <2> DEFINE job == [NoJob EXCEPT !.current = player.now]
             next == Turns(Taken(w), "finish", job)
  <2>1. Becomes(w, Taken(w)) \/ Becomes(w, next)
    BY <1>5 DEF Skip
  <2>2. job.current = player.now /\ job.previous = NoTrack
    BY JobsRead
  <2> HIDE DEF job
  <2>3. next.job = job /\ next.track = worker[w].track
    BY <1>2, TurnsHolds
  <2> HIDE DEF next
  <2>4. CASE Becomes(w, next)
    BY <2>2, <2>3, <2>4, DropsIf
  <2> QED BY <1>3, <2>1, <2>4
<1>6. CASE Previous(w)
  <2> DEFINE job == [NoJob EXCEPT !.previous = Latest(history)]
             next == Turns(Taken(w), "previous", job)
  <2>1. Becomes(w, Taken(w)) \/ Becomes(w, next)
    BY <1>6 DEF Previous
  <2>2. job.current = NoTrack /\ job.previous = Latest(history)
    BY JobsRead
  <2> HIDE DEF job
  <2>3. next.job = job /\ next.track = worker[w].track
    BY <1>2, TurnsHolds
  <2> HIDE DEF next
  <2>4. CASE Becomes(w, next)
    BY <2>2, <2>3, <2>4, DropsIf
  <2> QED BY <1>3, <2>1, <2>4
<1>7. CASE Stop(w)
  <2> DEFINE next == [Taken(w) EXCEPT !.track = NoTrack]
  <2>1. worker' = [worker EXCEPT ![w] = next]
    BY <1>7 DEF Stop, Becomes
  <2>2. next.track = NoTrack /\ next.job = worker[w].job
    BY <1>2 DEF WorkerTask
  <2> HIDE DEF next
  <2> QED BY <2>1, <2>2, SameReads DEF Drops
<1>8. CASE ShutDown(w)
  <2> DEFINE next == [Taken(w) EXCEPT !.track = NoTrack, !.phase = "closing"]
  <2>1. worker' = [worker EXCEPT ![w] = next]
    BY <1>8 DEF ShutDown, Becomes
  <2>2. next.track = NoTrack /\ next.job = worker[w].job
    BY <1>2 DEF WorkerTask
  <2> HIDE DEF next
  <2> QED BY <2>1, <2>2, SameReads DEF Drops
<1> QED BY <1>4, <1>5, <1>6, <1>7, <1>8

LEMMA TurnsDrop ==
  ASSUME Types, NEW w \in Workers,
         \/ ReadCurrent(w) \/ RewindQueue(w) \/ ForgetLatest(w) \/ TrackEnds(w)
         \/ Finish(w) \/ Complete(w) \/ Record(w)
  PROVE  Drops(w)
<1>1. worker[w] \in WorkerTask
  BY DEF Types
<1>2. NoJob.current = NoTrack /\ NoJob.previous = NoTrack
  BY DEF NoJob
<1>3. CASE ReadCurrent(w)
  <2> DEFINE job == [worker[w].job EXCEPT !.current = player.now]
             next == Turns(worker[w], "rewind", job)
  <2>1. Becomes(w, next)
    BY <1>3 DEF ReadCurrent
  <2>2. job.current = player.now /\ job.previous = worker[w].job.previous
    BY JobsRead
  <2> HIDE DEF job
  <2>3. next.job = job /\ next.track = worker[w].track
    BY <1>1, TurnsHolds
  <2> HIDE DEF next
  <2> QED BY <2>1, <2>2, <2>3, DropsIf
<1>4. CASE RewindQueue(w)
  <2> DEFINE next == [Turns(worker[w], "forget", NoJob) EXCEPT !.track = NoTrack]
  <2>1. Becomes(w, next)
    BY <1>4 DEF RewindQueue
  <2>2. next.job = NoJob /\ next.track = NoTrack
    BY <1>1, TurnsHolds
  <2> HIDE DEF next
  <2> QED BY <1>2, <2>1, <2>2, DropsIf
<1>5. CASE ForgetLatest(w) \/ Record(w)
  <2> DEFINE next == Turns(worker[w], "advance", NoJob)
  <2>1. Becomes(w, next)
    BY <1>5 DEF ForgetLatest, Record
  <2>2. next.job = NoJob /\ next.track = worker[w].track
    BY <1>1, TurnsHolds
  <2> HIDE DEF next
  <2> QED BY <1>2, <2>1, <2>2, DropsIf
<1>6. CASE TrackEnds(w)
  <2>1. PICK phase, job :
          /\ Becomes(w, Turns(worker[w], phase, job))
          /\ \/ job = NoJob
             \/ \E t \in {NoTrack, player.now} : job = [NoJob EXCEPT !.current = t]
    BY <1>6 DEF TrackEnds
  <2>2. /\ job.current \in {NoTrack, player.now}
        /\ job.previous = NoTrack
    BY <1>2, <2>1 DEF NoJob
  <2> DEFINE next == Turns(worker[w], phase, job)
  <2>3. next.job = job /\ next.track = worker[w].track
    BY <1>1, TurnsHolds
  <2>4. Becomes(w, next)
    BY <2>1
  <2> HIDE DEF next
  <2> QED BY <2>2, <2>3, <2>4, DropsIf
<1>7. CASE Finish(w) \/ Complete(w)
  <2>1. PICK phase \in {"record", "advance"}, job \in {NoJob, worker[w].job} :
          Becomes(w, [Turns(worker[w], phase, job) EXCEPT !.track = NoTrack])
    BY <1>7, GivenUp
  <2> DEFINE next == [Turns(worker[w], phase, job) EXCEPT !.track = NoTrack]
  <2>2. /\ job.current \in {NoTrack, worker[w].job.current}
        /\ job.previous \in {NoTrack, worker[w].job.previous}
    BY <1>2, <2>1
  <2>3. next.job = job /\ next.track = NoTrack
    BY <1>1, TurnsHolds
  <2>4. Becomes(w, next)
    BY <2>1
  <2> HIDE DEF next
  <2> QED BY <2>2, <2>3, <2>4, DropsIf
<1> QED BY <1>3, <1>4, <1>5, <1>6, <1>7

LEMMA LifeDrops ==
  ASSUME Types, NEW w \in Workers,
         \/ Connect(w) \/ ConnectFails(w) \/ ConnectAborted(w)
         \/ IdleTimeout(w) \/ VoiceFails(w) \/ Close(w) \/ Stopped(w)
  PROVE  Drops(w)
<1>1. worker[w] \in WorkerTask /\ worker \in [Workers -> WorkerTask]
  BY DEF Types
<1>2. CASE Connect(w)
  <2> DEFINE next == [worker[w] EXCEPT !.phase = "running", !.by = NoCommand]
  <2>1. worker' = [worker EXCEPT ![w] = next]
    BY <1>1, <1>2 DEF Connect
  <2>2. next.track = worker[w].track /\ next.job = worker[w].job
    BY <1>1 DEF WorkerTask
  <2> HIDE DEF next
  <2> QED BY <2>1, <2>2, SameReads DEF Drops
<1>3. CASE ConnectFails(w) \/ ConnectAborted(w) \/ Close(w)
  <2> DEFINE next == [NoWorker EXCEPT !.phase = "ended", !.channel = worker[w].channel]
  <2>1. worker' = [worker EXCEPT ![w] = next]
    BY <1>3 DEF ConnectFails, ConnectAborted, Close, EndWorker
  <2>2. next.track = NoTrack /\ next.job = NoJob
    BY DEF NoWorker
  <2> HIDE DEF next
  <2> QED BY <2>1, <2>2, FreshReads DEF Drops
<1>4. CASE Stopped(w)
  <2> DEFINE next == [NoWorker EXCEPT !.phase = "stopped"]
  <2>1. worker' = [worker EXCEPT ![w] = next]
    BY <1>4 DEF Stopped
  <2>2. next.track = NoTrack /\ next.job = NoJob
    BY DEF NoWorker
  <2> HIDE DEF next
  <2> QED BY <2>1, <2>2, FreshReads DEF Drops
<1>5. CASE IdleTimeout(w) \/ VoiceFails(w)
  <2>1. PICK phase : worker' = [worker EXCEPT ![w].phase = phase]
    BY <1>5 DEF IdleTimeout, VoiceFails
  <2> DEFINE next == [worker[w] EXCEPT !.phase = phase]
  <2>2. worker' = [worker EXCEPT ![w] = next]
    BY <1>1, <2>1
  <2>3. next.track = worker[w].track /\ next.job = worker[w].job
    BY <1>1 DEF WorkerTask
  <2> HIDE DEF next
  <2> QED BY <2>2, <2>3, SameReads DEF Drops
<1> QED BY <1>2, <1>3, <1>4, <1>5

(* The two steps that start the next track. *)
LEMMA StartsOrDrops ==
  ASSUME Types, NEW w \in Workers, Wake(w) \/ Advance(w)
  PROVE  \/ player' = player /\ Drops(w)
         \/ /\ player.now = NoTrack /\ player.queue # << >>
            /\ player' = StartNext(player)
            /\ \E next : Reads(w, next) /\ next.track = Head(player.queue)
<1>1. ASSUME NEW rest \in WorkerTask, rest.job = worker[w].job,
             StartNextPlayback(w, rest)
      PROVE  \/ player' = player /\ Drops(w)
             \/ /\ player.now = NoTrack /\ player.queue # << >>
                /\ player' = StartNext(player)
                /\ \E next : Reads(w, next) /\ next.track = Head(player.queue)
  <2>1. PICK track :
          /\ worker' = [worker EXCEPT ![w] = [rest EXCEPT !.track = track]]
          /\ track = IF player.now = NoTrack /\ player.queue # << >>
                     THEN Head(player.queue) ELSE NoTrack
    BY <1>1 DEF StartNextPlayback
  <2> DEFINE next == [rest EXCEPT !.track = track]
  <2>2. worker' = [worker EXCEPT ![w] = next]
    BY <2>1
  <2>3. next.track = track /\ next.job = worker[w].job
    BY <1>1 DEF WorkerTask
  <2> HIDE DEF next
  <2>4. Reads(w, next)
    BY <2>2, <2>3, SameReads
  <2>5. player' = StartNext(player)
    BY <1>1 DEF StartNextPlayback
  <2>6. CASE player.now = NoTrack /\ player.queue # << >>
    BY <2>1, <2>3, <2>4, <2>5, <2>6
  <2>7. CASE ~ (player.now = NoTrack /\ player.queue # << >>)
    <3>1. player' = player
      BY <2>5, <2>7 DEF StartNext
    <3>2. next.track = NoTrack
      BY <2>1, <2>3, <2>7
    <3> QED BY <2>4, <3>1, <3>2 DEF Drops
  <2> QED BY <2>6, <2>7
<1>2. CASE Wake(w)
  <2>1. /\ Taken(w) \in WorkerTask
        /\ Taken(w).track = worker[w].track /\ Taken(w).job = worker[w].job
    BY <1>2, TakenHolds DEF Wake, Receives
  <2>2. CASE worker[w].track = NoTrack
    <3>1. StartNextPlayback(w, Taken(w))
      BY <1>2, <2>2 DEF Wake
    <3> QED BY <1>1, <2>1, <3>1
  <2>3. CASE worker[w].track # NoTrack
    <3>1. player' = player /\ worker' = [worker EXCEPT ![w] = Taken(w)]
      BY <1>2, <2>3 DEF Wake, Becomes
    <3> QED BY <2>1, <3>1, SameReads DEF Drops
  <2> QED BY <2>2, <2>3
<1>3. CASE Advance(w)
  <2> DEFINE rest == [worker[w] EXCEPT !.phase = "running"]
  <2>1. rest \in WorkerTask /\ rest.job = worker[w].job
    BY DEF Types, WorkerTask, Phases
  <2>2. StartNextPlayback(w, rest)
    BY <1>3 DEF Advance
  <2> HIDE DEF rest
  <2> QED BY <1>1, <2>1, <2>2
<1> QED BY <1>2, <1>3

LEMMA IdsAre ==
  ASSUME Known
  PROVE  /\ NoTrack \in Ids /\ player.now \in Ids /\ player.now \in Ids \union {NoTrack}
         /\ Latest(history) \in Ids /\ DefaultPlayer \in Player(Ids)
         /\ Ids \union {NoTrack} = Ids
<1>1. NoTrack \in Ids
  BY DEF Known, Types, Ids, NoTrack
<1>2. Latest(history) \in Ids \union {NoTrack}
  BY LatestType DEF Known, Numbered
<1>3. DefaultPlayer \in Player(Ids)
  BY DEF DefaultPlayer, Player, LoopModes
<1> QED BY <1>1, <1>2, <1>3 DEF Known, Numbered, Player

(* A step of a worker that does not make a track up. *)
LEMMA ReadsNumbered ==
  ASSUME Known, Types', NEW w \in Workers, NEW next, Reads(w, next),
         next.track \in Ids, nextTrackId' = nextTrackId,
         player' \in Player(Ids), history' \in Seq(Ids)
  PROVE  Numbered'
<1>1. worker'[w] = next /\ \A v \in Workers \ {w} : worker'[v] = worker[v]
  BY DEF Known, Types, Reads
<1>2. Ids' = Ids
  BY DEF Ids
<1>3. next.job.current \in Ids /\ next.job.previous \in Ids
  BY IdsAre DEF Reads, Known, Numbered
<1>4. \A v \in Workers : /\ worker'[v].track \in Ids
                         /\ worker'[v].job.current \in Ids
                         /\ worker'[v].job.previous \in Ids
  BY <1>1, <1>3 DEF Known, Numbered
<1> QED BY <1>2, <1>4 DEF Numbered

LEMMA DropsNumbered ==
  ASSUME Known, Types', NEW w \in Workers, Drops(w), nextTrackId' = nextTrackId,
         player' \in Player(Ids), history' \in Seq(Ids)
  PROVE  Numbered'
<1>1. PICK next : Reads(w, next) /\ next.track \in {worker[w].track, NoTrack}
  BY DEF Drops
<1>2. next.track \in Ids
  BY <1>1, IdsAre DEF Known, Numbered
<1> QED BY <1>1, <1>2, ReadsNumbered

LEMMA WorkersDrop ==
  ASSUME Types, NEW w \in Workers, WorkerStep(w), ~ Wake(w), ~ Advance(w)
  PROVE  Drops(w)
<1>1. CASE CheckContext(w) \/ Skip(w) \/ Previous(w) \/ Stop(w) \/ ShutDown(w)
  BY <1>1, HandlersDrop
<1>2. CASE \/ ReadCurrent(w) \/ RewindQueue(w) \/ ForgetLatest(w) \/ TrackEnds(w)
           \/ Finish(w) \/ Complete(w) \/ Record(w)
  BY <1>2, TurnsDrop
<1>3. CASE \/ Connect(w) \/ ConnectFails(w) \/ ConnectAborted(w)
           \/ IdleTimeout(w) \/ VoiceFails(w) \/ Close(w) \/ Stopped(w)
  BY <1>3, LifeDrops
<1> QED BY <1>1, <1>2, <1>3 DEF WorkerStep

(* What a worker does to the player, if it does not start a track. *)
Plain(w) ==
  \/ player' = player \/ player' = DefaultPlayer
  \/ player' = FinishCurrent(player, worker[w].track)

LEMMA WorkersPlain ==
  ASSUME NEW w \in Workers, WorkerStep(w), ~ Wake(w), ~ Advance(w),
         ~ RewindQueue(w), ~ Complete(w)
  PROVE  Plain(w)
<1>1. CASE Finish(w)
  BY <1>1 DEF Finish, GiveUp, Plain
<1>2. CASE ConnectAborted(w) \/ Stop(w) \/ ShutDown(w) \/ Close(w)
  BY <1>2 DEF ConnectAborted, Stop, ShutDown, Close, Plain
<1>3. CASE ~ Finish(w) /\ ~ ConnectAborted(w) /\ ~ Stop(w) /\ ~ ShutDown(w) /\ ~ Close(w)
  <2>1. player' = player
    BY <1>3 DEF WorkerStep, Connect, ConnectFails, CheckContext, Skip, Previous,
       ReadCurrent, ForgetLatest, TrackEnds, Record, IdleTimeout, VoiceFails,
       Stopped, store
  <2> QED BY <2>1 DEF Plain
<1> QED BY <1>1, <1>2, <1>3

LEMMA HistorySteps ==
  ASSUME Known, NEW w \in Workers, WorkerStep(w)
  PROVE  history' \in Seq(Ids) /\ nextTrackId' = nextTrackId
<1>1. history \in Seq(Ids) /\ Len(history) <= HistoryLimit /\ HistoryLimit \in Nat \ {0}
  BY BoundAssumption DEF Known, Types, Numbered
<1>2. CASE ForgetLatest(w)
  <2>1. history' = Forget(history) /\ nextTrackId' = nextTrackId
    BY <1>2 DEF ForgetLatest
  <2> QED BY <1>1, <2>1, ForgetType
<1>3. CASE Record(w)
  <2>1. /\ history' = Remember(history, worker[w].job.current, HistoryLimit)
        /\ nextTrackId' = nextTrackId
    BY <1>3 DEF Record
  <2>2. worker[w].job.current \in Ids
    BY DEF Known, Numbered
  <2> QED BY <1>1, <2>1, <2>2, RememberType
<1>4. CASE ~ ForgetLatest(w) /\ ~ Record(w)
  <2>1. history' = history /\ nextTrackId' = nextTrackId
    BY <1>4 DEF WorkerStep, Connect, ConnectFails, ConnectAborted, Wake, CheckContext,
       Skip, Stop, ShutDown, Previous, ReadCurrent, RewindQueue, TrackEnds, Finish,
       Complete, GiveUp, Advance, IdleTimeout, VoiceFails, Close, Stopped, store, past
  <2> QED BY <1>1, <2>1
<1> QED BY <1>2, <1>3, <1>4

LEMMA WorkersNumbered ==
  ASSUME Known, NEW w \in Workers, WorkerStep(w)
  PROVE  Numbered'
<1>0. Types /\ Types'
  BY WorkerTypes DEF Known
<1>1. history' \in Seq(Ids) /\ nextTrackId' = nextTrackId
  BY HistorySteps
<1>2. player \in Player(Ids) /\ NoTrack \in Ids
  BY IdsAre DEF Known, Numbered
<1>3. ASSUME NEW id
      PROVE  /\ StartNext(player) \in Player(Ids)
             /\ FinishCurrent(player, id) \in Player(Ids)
             /\ CompleteCurrent(player, id) \in Player(Ids)
  BY <1>2, QueueOpsType
<1>4. CASE Wake(w) \/ Advance(w)
  <2>1. CASE player' = player /\ Drops(w)
    BY <1>0, <1>1, <1>2, <2>1, DropsNumbered
  <2>2. CASE /\ player.now = NoTrack /\ player.queue # << >>
             /\ player' = StartNext(player)
             /\ \E next : Reads(w, next) /\ next.track = Head(player.queue)
    <3>1. PICK next : Reads(w, next) /\ next.track = Head(player.queue)
      BY <2>2
    <3>2. Head(player.queue) \in Ids
      BY <1>2, <2>2, HeadTailProperties DEF Player
    <3> QED BY <1>0, <1>1, <1>3, <2>2, <3>1, <3>2, ReadsNumbered
  <2> QED BY <1>0, <1>4, <2>1, <2>2, StartsOrDrops
<1>5. CASE ~ Wake(w) /\ ~ Advance(w)
  <2>1. Drops(w)
    BY <1>0, <1>5, WorkersDrop
  <2>2. player' \in Player(Ids)
    <3>1. CASE RewindQueue(w)
      <4>1. /\ player' = Rewind(player, worker[w].job.current, worker[w].job.previous)
            /\ worker[w].job.current \in Ids \union {NoTrack}
            /\ worker[w].job.previous \in Ids
        BY <3>1 DEF RewindQueue, Known, Numbered
      <4> QED BY <1>2, <4>1, RewindType
    <3>2. CASE Complete(w)
      BY <1>3, <3>2 DEF Complete, GiveUp
    <3>3. CASE ~ RewindQueue(w) /\ ~ Complete(w)
      <4>1. Plain(w)
        BY <1>5, <3>3, WorkersPlain
      <4> QED BY <1>2, <1>3, <4>1, IdsAre DEF Plain
    <3> QED BY <3>1, <3>2, <3>3
  <2> QED BY <1>0, <1>1, <2>1, <2>2, DropsNumbered
<1> QED BY <1>4, <1>5

(* Steps that leave what workers hold alone. *)
LEMMA SameNumbered ==
  ASSUME Known, nextTrackId' = nextTrackId, player' \in Player(Ids),
         history' = history,
         \A w \in Workers : /\ worker'[w].track = worker[w].track
                            /\ worker'[w].job = worker[w].job
  PROVE  Numbered'
<1>1. Ids' = Ids
  BY DEF Ids
<1> QED BY <1>1 DEF Known, Numbered

LEMMA EditNumbered ==
  ASSUME NEW T, player \in Player(T), NEW c \in Commands, EditQueue(c)
  PROVE  player' \in Player(T)
<1>1. \A i \in DOMAIN player.queue : i - 1 \in Nat
  BY LenProperties DEF Player
<1>2. \A i \in DOMAIN player.queue : RemoveQueued(player, i - 1) \in Player(T)
  BY <1>1, RemoveQueuedType
<1>3. \A i, j \in DOMAIN player.queue : MoveQueued(player, i - 1, j - 1) \in Player(T)
  BY <1>1, MoveQueuedType
<1>4. \A q \in Shuffled(player) : q \in Player(T)
  BY ShuffledType
<1>5. \A mode \in LoopModes : SetLoopMode(player, mode) \in Player(T)
  BY DEF SetLoopMode, Player
<1> QED BY <1>2, <1>3, <1>4, <1>5 DEF EditQueue

(* The new tracks bear the next numbers. *)
Added(n) == [i \in 1 .. n |-> nextTrackId + i]

LEMMA EnqueueIs ==
  ASSUME Known, NEW c \in Commands, EnqueueTracks(c)
  PROVE  \E n \in Nat :
           /\ nextTrackId' = nextTrackId + n
           /\ player' = [player EXCEPT !.queue = @ \o Added(n)]
           /\ Added(n) \in Seq(0 .. nextTrackId + n)
           /\ player.queue \in Seq(0 .. nextTrackId + n)
<1>1. PICK added \in 1 .. MaxTracks - TracksDue + 1 :
        /\ nextTrackId' = nextTrackId + added
        /\ player' = [player EXCEPT !.queue = @ \o [i \in 1 .. added |-> nextTrackId + i]]
  BY DEF EnqueueTracks
<1>2. added \in Nat /\ nextTrackId \in Nat
  BY <1>1 DEF Known, Types
<1>3. Added(added) \in Seq(0 .. nextTrackId + added)
  BY <1>2 DEF Added
<1>4. player.queue \in Seq(0 .. nextTrackId + added)
  <2> DEFINE T == 0 .. nextTrackId + added
  <2>1. player.queue \in Seq(Ids)
    BY DEF Known, Numbered, Player
  <2>2. Ids \subseteq T
    BY <1>2 DEF Ids
  <2> HIDE DEF T
  <2>3. player.queue \in Seq(T)
    BY <2>1, <2>2
  <2> QED BY <2>3 DEF T
<1> QED BY <1>1, <1>2, <1>3, <1>4 DEF Added

LEMMA CommandsNumbered ==
  ASSUME Known, NEW c \in Commands,
         \/ JoinVoice(c) \/ EnqueueTracks(c) \/ EditQueue(c)
         \/ LeaveVoice(c) \/ RoutePlayback(c)
  PROVE  Numbered'
<1>1. Types /\ player \in Player(Ids)
  BY DEF Known, Numbered
<1>2. CASE EnqueueTracks(c)
  <2>1. PICK n \in Nat :
          /\ nextTrackId' = nextTrackId + n
          /\ player' = [player EXCEPT !.queue = @ \o Added(n)]
          /\ Added(n) \in Seq(0 .. nextTrackId + n)
          /\ player.queue \in Seq(0 .. nextTrackId + n)
    BY <1>2, EnqueueIs
  <2> DEFINE T == 0 .. nextTrackId + n
             q == player.queue \o Added(n)
  <2>2. q \in Seq(T)
    BY <2>1, ConcatProperties
  <2>3. Ids' = T /\ Ids \subseteq T
    BY <1>1, <2>1 DEF Ids, Types
  <2>4. player'.queue = q /\ player'.now = player.now /\ player'.loop = player.loop
        /\ player' = [player EXCEPT !.queue = q]
    BY <1>1, <2>1 DEF Player
  <2> HIDE DEF q, T
  <2>5. player' \in Player(T)
    BY <1>1, <2>2, <2>3, <2>4 DEF Player
  <2>6. history' = history /\ worker' = worker
    BY <1>2 DEF EnqueueTracks, past
  <2>7. history \in Seq(T)
    BY <2>3 DEF Known, Numbered
  <2> QED BY <2>3, <2>5, <2>6, <2>7 DEF Known, Numbered
<1>3. CASE ~ EnqueueTracks(c)
  <2>1. \A w \in Workers : /\ worker'[w].track = worker[w].track
                           /\ worker'[w].job = worker[w].job
    <3>1. worker' = worker
            \/ \E m : worker' = [worker EXCEPT ![entry].mailbox = Append(@, m)]
      BY <1>3 DEF JoinVoice, EditQueue, LeaveVoice, RoutePlayback, Post
    <3> QED BY <1>1, <3>1, SentOnly
  <2>2. nextTrackId' = nextTrackId /\ history' = history
    BY <1>3 DEF JoinVoice, EditQueue, LeaveVoice, RoutePlayback, store, past
  <2>3. player' \in Player(Ids)
    <3>1. CASE EditQueue(c)
      BY <1>1, <3>1, EditNumbered
    <3>2. CASE ~ EditQueue(c)
      BY <1>1, <1>3, <3>2, IdsAre DEF JoinVoice, LeaveVoice, RoutePlayback, store
    <3> QED BY <3>1, <3>2
  <2> QED BY <2>1, <2>2, <2>3, SameNumbered
<1> QED BY <1>2, <1>3

(* A new worker holds nothing. *)
LEMMA ReadyReads ==
  ASSUME RendezvousReady
  PROVE  \E w \in Workers : Drops(w)
<1>1. PICK w \in Workers :
        worker' = [worker EXCEPT ![w] =
          [NoWorker EXCEPT !.phase = "connecting", !.by = pending,
                           !.channel = command[pending].channel]]
  BY DEF RendezvousReady
<1> DEFINE next == [NoWorker EXCEPT !.phase = "connecting", !.by = pending,
                                    !.channel = command[pending].channel]
<1>2. worker' = [worker EXCEPT ![w] = next]
  BY <1>1
<1>3. next.track = NoTrack /\ next.job = NoJob
  BY DEF NoWorker
<1> HIDE DEF next
<1> QED BY <1>2, <1>3, FreshReads DEF Drops

LEMMA RendezvousNumbered ==
  ASSUME Known, RendezvousReady \/ RendezvousFails
  PROVE  Numbered'
<1>1. Types' /\ player \in Player(Ids) /\ history \in Seq(Ids)
  BY RendezvousTypes DEF Known, Numbered
<1>2. player' = player /\ history' = history /\ nextTrackId' = nextTrackId
  BY DEF RendezvousReady, RendezvousFails, store, past
<1>3. CASE RendezvousReady
  <2>1. PICK w \in Workers : Drops(w)
    BY <1>3, ReadyReads
  <2> QED BY <1>1, <1>2, <2>1, DropsNumbered
<1>4. CASE RendezvousFails
  BY <1>1, <1>2, <1>4, SameNumbered DEF RendezvousFails
<1> QED BY <1>3, <1>4

(* A track that is played, queued, remembered or about to be put back was  *)
(* enqueued: the numbers of tracks only grow, and no step makes one up.    *)
THEOREM KnownCorrect == Spec => []Known
<1>1. Init => Known
  <2> SUFFICES ASSUME Init PROVE Known
    OBVIOUS
  <2>1. Types
    BY InitTypes
  <2>2. \A w \in Workers : worker[w] = NoWorker
    BY DEF Init
  <2>3. NoTrack \in Ids
    BY DEF Init, Ids, NoTrack
  <2>4. DefaultPlayer \in Player(Ids) /\ << >> \in Seq(Ids)
    BY DEF DefaultPlayer, Player, LoopModes
  <2> QED BY <2>1, <2>2, <2>3, <2>4 DEF Init, Known, Numbered, NoWorker, NoJob
<1>2. Known /\ [Next]_vars => Known'
  <2> SUFFICES ASSUME Known, [Next]_vars PROVE Known'
    OBVIOUS
  <2>1. CASE Command
    <3>1. PICK c \in Commands : \/ JoinVoice(c) \/ EnqueueTracks(c) \/ EditQueue(c)
                                \/ LeaveVoice(c) \/ RoutePlayback(c)
      BY <2>1 DEF Command
    <3> QED BY <3>1, CommandTypes, CommandsNumbered DEF Known
  <2>2. CASE RendezvousReady \/ RendezvousFails
    BY <2>2, RendezvousTypes, RendezvousNumbered DEF Known
  <2>3. CASE Worker
    <3>1. PICK w \in Workers : WorkerStep(w)
      BY <2>3 DEF Worker, WorkerStep
    <3> QED BY <3>1, WorkerTypes, WorkersNumbered DEF Known
  <2>4. CASE UNCHANGED vars
    BY <2>4 DEF Known, Types, Numbered, Ids, vars, store, past
  <2> QED BY <2>1, <2>2, <2>3, <2>4 DEF Next
<1> QED BY <1>1, <1>2, PTL DEF Spec

(* The workers that play track t. *)
Hands(t) == {w \in Workers : worker[w].track = t}

LEMMA PlacesAre ==
  ASSUME NEW t
  PROVE  /\ Places(t) = Count(player.queue, t) + Cardinality(Hands(t))
         /\ IsFiniteSet(Hands(t)) /\ Cardinality(Hands(t)) \in Nat
<1>1. IsFiniteSet(Workers)
  BY FS_Interval, BoundAssumption DEF Workers
<1>2. IsFiniteSet(Hands(t))
  BY <1>1, FS_Subset DEF Hands
<1> QED BY <1>2, FS_CardinalityType DEF Places, Count, Hands

(* The same of the next state. *)
LEMMA PlacesThen ==
  ASSUME NEW t, NEW h, h = Hands(t)'
  PROVE  /\ Places(t)' = Count(player'.queue, t) + Cardinality(h)
         /\ IsFiniteSet(h) /\ Cardinality(h) \in Nat
<1>1. IsFiniteSet(Workers)
  BY FS_Interval, BoundAssumption DEF Workers
<1>2. IsFiniteSet(h)
  BY <1>1, FS_Subset DEF Hands
<1>3. Places(t)' = Count(player'.queue, t) + Cardinality(h)
  BY DEF Places, Count, Hands
<1> QED BY <1>2, <1>3, FS_CardinalityType

LEMMA QueueCounts ==
  ASSUME Types, Types', NEW t
  PROVE  Count(player.queue, t) \in Nat /\ Count(player'.queue, t) \in Nat
<1>1. player.queue \in Seq(Nat) /\ player'.queue \in Seq(Nat)
  BY DEF Types, Player
<1> QED BY <1>1, CountType

(* No track gained a place, if none is longer queued, and none played.     *)
LEMMA NoMorePlaces ==
  ASSUME Types, Types', NEW t, Hands(t)' \subseteq Hands(t),
         Count(player'.queue, t) <= Count(player.queue, t)
  PROVE  Places(t)' <= Places(t)
<1>1. PICK h : h = Hands(t)'
  OBVIOUS
<1>2. Cardinality(h) <= Cardinality(Hands(t))
  BY <1>1, PlacesAre, FS_Subset
<1> QED BY <1>1, <1>2, PlacesAre, PlacesThen, QueueCounts

LEMMA HandsDrop ==
  ASSUME Types, NEW w \in Workers, Drops(w), NEW t \in Tracks
  PROVE  Hands(t)' \subseteq Hands(t)
<1>1. PICK next : Reads(w, next) /\ next.track \in {worker[w].track, NoTrack}
  BY DEF Drops
<1>2. worker'[w] = next /\ \A v \in Workers \ {w} : worker'[v] = worker[v]
  BY <1>1 DEF Types, Reads
<1>3. t # NoTrack
  BY DEF Tracks, NoTrack
<1> QED BY <1>1, <1>2, <1>3 DEF Hands

(* The track that is started leaves the queue for a worker. *)
LEMMA StartPlaces ==
  ASSUME Types, Types', NEW w \in Workers, NEW next, Reads(w, next),
         player.now = NoTrack, player.queue # << >>, player' = StartNext(player),
         next.track = Head(player.queue), NEW t
  PROVE  Places(t)' <= Places(t)
<1> DEFINE s == player.queue
           rest == Tail(s)
           first == Head(s)
<1>1. s \in Seq(Nat) /\ first \in Nat /\ rest \in Seq(Nat)
  BY HeadTailProperties DEF Types, Player
<1>2. Count(s, t) = Count(rest, t) + Count(<< first >>, t)
  BY <1>1, CountTail
<1>3. player'.queue = rest
  BY <1>1 DEF StartNext, Types, Player
<1>4. Count(<< first >>, t) = IF first = t THEN 1 ELSE 0
  BY CountOne
<1>5. PICK h : h = Hands(t)'
  OBVIOUS
<1>6. worker'[w] = next /\ \A v \in Workers \ {w} : worker'[v] = worker[v]
  BY DEF Types, Reads
<1>7. next.track = first
  OBVIOUS
<1> HIDE DEF rest, first
<1>8. IsFiniteSet(Hands(t)) /\ Cardinality(Hands(t)) \in Nat
  BY PlacesAre
<1>9. CASE first = t
  <2>1. h \subseteq Hands(t) \union {w}
    BY <1>5, <1>6 DEF Hands
  <2>2. IsFiniteSet(Hands(t) \union {w})
    BY <1>8, FS_AddElement
  <2>3. Cardinality(Hands(t) \union {w})
          = IF w \in Hands(t) THEN Cardinality(Hands(t)) ELSE Cardinality(Hands(t)) + 1
    BY <1>8, FS_AddElement
  <2>4. Cardinality(h) <= Cardinality(Hands(t) \union {w})
    BY <2>1, <2>2, FS_Subset
  <2>5. Cardinality(h) \in Nat
    BY <1>5, PlacesThen
  <2>6. Cardinality(h) <= Cardinality(Hands(t)) + 1
    BY <1>8, <2>3, <2>4, <2>5
  <2> QED BY <1>2, <1>3, <1>4, <1>5, <1>8, <1>9, <2>5, <2>6,
             PlacesAre, PlacesThen, QueueCounts
<1>10. CASE first # t
  <2>1. Hands(t)' \subseteq Hands(t)
    BY <1>6, <1>7, <1>10 DEF Hands
  <2>2. Count(player'.queue, t) <= Count(player.queue, t)
    BY <1>2, <1>3, <1>4, <1>10, QueueCounts
  <2> QED BY <2>1, <2>2, NoMorePlaces
<1> QED BY <1>9, <1>10

(* The track that is completed leaves the worker, perhaps for the queue.   *)
LEMMA CompleteQueues ==
  ASSUME NEW T, NEW p \in Player(T), NEW id, NEW t
  PROVE  /\ t # id => Count(CompleteCurrent(p, id).queue, t) = Count(p.queue, t)
         /\ Count(CompleteCurrent(p, id).queue, t) <= Count(p.queue, t) + 1
<1> DEFINE s == p.queue
<1>1. s \in Seq(T) /\ Count(s, t) \in Nat
  BY CountType DEF Player
<1>2. CASE p.now = id /\ id # NoTrack
  <2>1. p.now \in T /\ CompleteCurrent(p, id).queue = Requeued(p)
    BY <1>2 DEF CompleteCurrent, Player
  <2>2. PICK e \in T : e = p.now
    BY <2>1
  <2>3. Requeued(p) \in {s, << e >> \o s, Append(s, e)}
    BY <2>2 DEF Requeued, Player, LoopModes
  <2> HIDE DEF s
  <2>4. /\ Count(<< e >> \o s, t) = Count(s, t) + Count(<< e >>, t)
        /\ Count(Append(s, e), t) = Count(s, t) + Count(<< e >>, t)
        /\ Count(<< e >>, t) = IF e = t THEN 1 ELSE 0
    BY <1>1, CountPut
  <2>5. Count(<< e >>, t) \in {0, 1} /\ (t # id => Count(<< e >>, t) = 0)
    BY <1>2, <2>2, <2>4
  <2>6. PICK r : r = Requeued(p)
    OBVIOUS
  <2>7. Count(r, t) \in {Count(s, t), Count(s, t) + Count(<< e >>, t)}
    <3>1. CASE r = s
      BY <3>1
    <3>2. CASE r = << e >> \o s
      BY <1>1, <2>4, <2>5, <3>2
    <3>3. CASE r = Append(s, e)
      BY <2>4, <3>3
    <3> QED BY <2>3, <2>6, <3>1, <3>2, <3>3
  <2>8. CompleteCurrent(p, id).queue = r
    BY <2>1, <2>6
  <2>9. /\ t # id => Count(r, t) = Count(s, t)
        /\ Count(r, t) <= Count(s, t) + 1
    BY <1>1, <2>5, <2>7
  <2> QED BY <2>8, <2>9 DEF s
<1>3. CASE ~ (p.now = id /\ id # NoTrack)
  BY <1>1, <1>3 DEF CompleteCurrent
<1> QED BY <1>2, <1>3

LEMMA CompletePlaces ==
  ASSUME Types, Types', NEW w \in Workers, Complete(w), NEW t \in Tracks
  PROVE  Places(t)' <= Places(t)
<1>1. Drops(w) /\ player \in Player(Nat)
  BY TurnsDrop DEF Types
<1>2. player' = CompleteCurrent(player, worker[w].track)
  BY DEF Complete, GiveUp
<1>3. worker'[w].track = NoTrack
  <2>1. PICK phase, job :
          worker' = [worker EXCEPT ![w] = [Turns(worker[w], phase, job) EXCEPT !.track = NoTrack]]
    BY DEF Complete, GiveUp, Becomes
  <2> QED BY <2>1, TurnsHolds DEF Types
<1>4. Hands(t)' \subseteq Hands(t)
  BY <1>1, HandsDrop
<1>5. CASE worker[w].track # t
  <2>1. Count(player'.queue, t) <= Count(player.queue, t)
    BY <1>1, <1>2, <1>5, CompleteQueues, QueueCounts
  <2> QED BY <1>4, <2>1, NoMorePlaces
<1>6. CASE worker[w].track = t
  <2>1. PICK h : h = Hands(t)'
    OBVIOUS
  <2>2. t # NoTrack
    BY DEF Tracks, NoTrack
  <2>3. h \subseteq Hands(t) \ {w} /\ w \in Hands(t)
    BY <1>3, <1>4, <1>6, <2>1, <2>2 DEF Hands
  <2>4. IsFiniteSet(Hands(t)) /\ Cardinality(Hands(t)) \in Nat
    BY PlacesAre
  <2>5. /\ IsFiniteSet(Hands(t) \ {w})
        /\ Cardinality(Hands(t) \ {w}) = Cardinality(Hands(t)) - 1
    BY <2>3, <2>4, FS_RemoveElement
  <2>6. Cardinality(h) <= Cardinality(Hands(t) \ {w})
    BY <2>3, <2>5, FS_Subset
  <2>7. Count(player'.queue, t) <= Count(player.queue, t) + 1
    BY <1>1, <1>2, CompleteQueues
  <2> QED BY <2>1, <2>4, <2>5, <2>6, <2>7, PlacesAre, PlacesThen, QueueCounts
<1> QED BY <1>5, <1>6

(* A rewind leaves the other tracks in the queue. *)
LEMMA RewindQueues ==
  ASSUME NEW T, NEW p \in Player(T), NEW current \in T, NEW previous \in T,
         NEW t, t # current, t # previous
  PROVE  Count(Rewind(p, current, previous).queue, t) = Count(p.queue, t)
<1>1. ASSUME NEW q \in Player(T), NEW e \in T, e # t
      PROVE  EnqueueFirst(q, e) \in Player(T)
             /\ Count(EnqueueFirst(q, e).queue, t) = Count(q.queue, t)
  <2> DEFINE s == q.queue
             r == << e >> \o s
  <2>1. s \in Seq(T) /\ << e >> \in Seq(T)
    BY DEF Player
  <2>2. EnqueueFirst(q, e) = [q EXCEPT !.queue = r]
    BY EnqueueFirstIs
  <2>3. r \in Seq(T)
    BY <2>1, ConcatProperties
  <2>4. Count(r, t) = Count(s, t) + Count(<< e >>, t) /\ Count(<< e >>, t) = 0
    <3> HIDE DEF s
    <3> QED BY <1>1, <2>1, CountPut
  <2>5. Count(s, t) \in Nat
    BY <2>1, CountType
  <2> HIDE DEF r
  <2>6. EnqueueFirst(q, e).queue = r /\ EnqueueFirst(q, e) \in Player(T)
    BY <2>2, <2>3 DEF Player
  <2> QED BY <2>4, <2>5, <2>6
<1>2. FinishCurrent(p, current) \in Player(T)
      /\ FinishCurrent(p, current).queue = p.queue
  BY QueueOpsType DEF FinishCurrent, Player
<1> QED BY <1>1, <1>2 DEF Rewind

(* The other steps of workers. *)
LEMMA PlainPlaces ==
  ASSUME Types, Types', NEW w \in Workers, Drops(w), Plain(w), NEW t \in Tracks
  PROVE  Places(t)' <= Places(t)
<1>1. Hands(t)' \subseteq Hands(t)
  BY HandsDrop
<1>2. Count(player'.queue, t) <= Count(player.queue, t)
  <2>1. CASE player'.queue = player.queue
    BY <2>1, QueueCounts
  <2>2. CASE player' = DefaultPlayer
    <3>1. player'.queue = << >>
      BY <2>2 DEF DefaultPlayer
    <3>2. Count(<< >>, t) = 0
      <4>1. << >> \in Seq(Nat) /\ DOMAIN << >> = {}
        OBVIOUS
      <4> QED BY <4>1, CountType
    <3> QED BY <3>1, <3>2, QueueCounts
  <2>3. CASE player' = FinishCurrent(player, worker[w].track)
    <3>1. player'.queue = player.queue
      BY <2>3 DEF FinishCurrent, Types, Player
    <3> QED BY <2>1, <3>1
  <2> QED BY <2>1, <2>2, <2>3 DEF Plain
<1> QED BY <1>1, <1>2, NoMorePlaces

(* No number is given twice. *)
LEMMA AddedOnce ==
  ASSUME NEW n \in Nat, nextTrackId \in Nat, NEW t \in Nat
  PROVE  /\ t <= nextTrackId => Count(Added(n), t) = 0
         /\ Count(Added(n), t) \in {0, 1}
<1> DEFINE s == Added(n)
           at == {i \in DOMAIN s : s[i] = t}
<1>1. /\ s \in Seq(Nat) /\ DOMAIN s = 1 .. n
      /\ \A i \in 1 .. n : s[i] = nextTrackId + i
  BY DEF Added
<1>2. ASSUME t <= nextTrackId PROVE Count(s, t) = 0
  <2>1. \A i \in DOMAIN s : s[i] # t
    BY <1>1, <1>2
  <2> HIDE DEF s
  <2> QED BY <1>1, <2>1, CountType
<1>3. Count(s, t) \in {0, 1}
  <2>1. at \subseteq {t - nextTrackId}
    <3> HIDE DEF s
    <3>1. ASSUME NEW i \in at PROVE i = t - nextTrackId
      BY <1>1
    <3> QED BY <3>1
  <2>2. IsFiniteSet({t - nextTrackId}) /\ Cardinality({t - nextTrackId}) = 1
    BY FS_Singleton
  <2>3. Cardinality(at) <= 1
    <3> HIDE DEF at
    <3> QED BY <2>1, <2>2, FS_Subset
  <2>4. Count(s, t) \in Nat
    <3> HIDE DEF s
    <3> QED BY <1>1, CountType
  <2> QED BY <2>3, <2>4 DEF Count
<1> QED BY <1>2, <1>3

(* A track that is enqueued had no place, and has one. *)
LEMMA EnqueuePlaces ==
  ASSUME Known, Types', NEW c \in Commands, EnqueueTracks(c), NEW t \in Tracks
  PROVE  \/ Places(t)' <= Places(t)
         \/ t > nextTrackId /\ Places(t)' = 1
<1>0. Types /\ nextTrackId \in Nat /\ t \in Nat
  BY DEF Known, Types, Tracks
<1>1. PICK n \in Nat :
        /\ nextTrackId' = nextTrackId + n
        /\ player' = [player EXCEPT !.queue = @ \o Added(n)]
        /\ Added(n) \in Seq(0 .. nextTrackId + n)
        /\ player.queue \in Seq(0 .. nextTrackId + n)
  BY EnqueueIs
<1>2. Count(player.queue \o Added(n), t) = Count(player.queue, t) + Count(Added(n), t)
  BY <1>1, CountConcat
<1>3. player'.queue = player.queue \o Added(n)
  BY <1>0, <1>1 DEF Types, Player
<1>4. Hands(t)' = Hands(t)
  BY DEF EnqueueTracks, Hands
<1>5. Count(Added(n), t) \in {0, 1} /\ (t <= nextTrackId => Count(Added(n), t) = 0)
  BY <1>0, AddedOnce
<1>6. Count(player.queue, t) \in Nat
  BY <1>0, QueueCounts
<1>7. CASE t <= nextTrackId
  <2>1. Count(player'.queue, t) <= Count(player.queue, t)
    BY <1>2, <1>3, <1>5, <1>6, <1>7
  <2> QED BY <1>0, <1>4, <2>1, NoMorePlaces
<1>8. CASE t > nextTrackId
  <2>1. t \notin Ids
    BY <1>0, <1>8 DEF Ids
  <2>2. player.queue \in Seq(Ids)
    BY DEF Known, Numbered, Player
  <2>3. \A i \in DOMAIN player.queue : player.queue[i] # t
    BY <2>1, <2>2
  <2>4. Count(player.queue, t) = 0
    BY <2>2, <2>3, CountType
  <2>5. Hands(t) = {}
    BY <2>1 DEF Known, Numbered, Hands
  <2>6. PICK h : h = Hands(t)'
    OBVIOUS
  <2>7. Cardinality(h) = 0 /\ Cardinality(Hands(t)) = 0
    BY <1>4, <2>5, <2>6, FS_EmptySet
  <2>8. Places(t) = 0
    BY <2>4, <2>7, PlacesAre
  <2>9. Places(t)' \in {0, 1}
    BY <1>2, <1>3, <1>5, <2>4, <2>6, <2>7, PlacesThen
  <2> QED BY <1>8, <2>8, <2>9
<1> QED BY <1>0, <1>7, <1>8

LEMMA CommandPlaces ==
  ASSUME Known, Types', NEW c \in Commands,
         \/ JoinVoice(c) \/ EditQueue(c) \/ LeaveVoice(c) \/ RoutePlayback(c),
         NEW t \in Tracks
  PROVE  Places(t)' <= Places(t)
<1>0. Types /\ player \in Player(Nat) /\ player' \in Player(Nat)
  BY DEF Known, Types
<1>1. Hands(t)' = Hands(t)
  <2>1. worker' = worker
          \/ \E m : worker' = [worker EXCEPT ![entry].mailbox = Append(@, m)]
    BY DEF JoinVoice, EditQueue, LeaveVoice, RoutePlayback, Post
  <2> QED BY <1>0, <2>1, SentOnly DEF Hands
<1>2. CASE player' = player
  BY <1>0, <1>1, <1>2, QueueCounts, NoMorePlaces
<1>3. CASE player' = DefaultPlayer
  <2>1. player'.queue = << >> /\ << >> \in Seq(Nat) /\ DOMAIN << >> = {}
    BY <1>3 DEF DefaultPlayer
  <2>2. Count(player'.queue, t) = 0
    BY <2>1, CountType
  <2> QED BY <1>0, <1>1, <2>2, QueueCounts, NoMorePlaces
<1>4. CASE EditQueue(c)
  <2>1. \/ player' = player \/ Rearranged(player, player')
        \/ player'.queue = player.queue
    <3>1. CASE \E i \in DOMAIN player.queue : player' = RemoveQueued(player, i - 1)
      <4>1. DOMAIN player.queue = 1 .. Len(player.queue)
        BY <1>0, LenProperties DEF Player
      <4> QED BY <1>0, <3>1, <4>1, RemoveQueuedRearranges
    <3>2. CASE \E i, j \in DOMAIN player.queue : player' = MoveQueued(player, i - 1, j - 1)
      <4>1. DOMAIN player.queue = 1 .. Len(player.queue)
        BY <1>0, LenProperties DEF Player
      <4> QED BY <1>0, <3>2, <4>1, MoveQueuedRearranges
    <3>3. CASE player' \in Shuffled(player)
      BY <1>0, <3>3, ShuffledRearranges
    <3>4. CASE \E mode \in LoopModes : player' = SetLoopMode(player, mode)
      BY <1>0, <3>4 DEF SetLoopMode, Player
    <3> QED BY <1>4, <3>1, <3>2, <3>3, <3>4 DEF EditQueue
  <2>2. Count(player'.queue, t) <= Count(player.queue, t)
    <3>1. CASE Rearranged(player, player')
      BY <1>0, <3>1, CountRearranged
    <3>2. CASE player'.queue = player.queue
      BY <1>0, <3>2, QueueCounts
    <3> QED BY <2>1, <3>1, <3>2
  <2> QED BY <1>0, <1>1, <2>2, NoMorePlaces
<1> QED BY <1>2, <1>3, <1>4 DEF JoinVoice, LeaveVoice, RoutePlayback, store

(* A track gets its place when it is enqueued, and no step of commands,    *)
(* sessions and workers gives it a second one, but for the /previous that  *)
(* puts back what it has read before (play_previous of                     *)
(* src/src/voice_manager.rs, enqueue_front of src/src/player.rs).          *)
THEOREM TracksStayWhole == Spec => TrackOnce
<1> DEFINE
    Excused(t) ==
      \/ t > nextTrackId /\ Places(t)' = 1
      \/ \E w \in Workers : /\ worker[w].phase = "rewind"
                           /\ worker'[w].phase = "forget"
                           /\ t \in {worker[w].job.current, worker[w].job.previous}
    Step == \A t \in Tracks : Places(t)' > Places(t) => Excused(t)
<1>1. Known /\ Known' /\ [Next]_vars => [Step]_vars
  <2> SUFFICES ASSUME Known, Known', Next, NEW t \in Tracks
               PROVE  Places(t)' > Places(t) => Excused(t)
    OBVIOUS
  <2>0. Types /\ Types'
    BY DEF Known
  <2>a. Places(t) \in Int /\ Places(t)' \in Int
    <3>1. PICK h : h = Hands(t)'
      OBVIOUS
    <3>2. Cardinality(h) \in Nat /\ Cardinality(Hands(t)) \in Nat
      BY <3>1, PlacesAre, PlacesThen
    <3> QED BY <2>0, <3>1, <3>2, PlacesAre, PlacesThen, QueueCounts
  <2>b. Places(t)' <= Places(t) => ~ (Places(t)' > Places(t))
    BY <2>a
  <2>1. ASSUME NEW c \in Commands,
               \/ JoinVoice(c) \/ EnqueueTracks(c) \/ EditQueue(c)
               \/ LeaveVoice(c) \/ RoutePlayback(c)
        PROVE  Places(t)' > Places(t) => Excused(t)
    <3>1. CASE EnqueueTracks(c)
      BY <2>0, <2>b, <3>1, EnqueuePlaces
    <3>2. CASE ~ EnqueueTracks(c)
      BY <2>0, <2>1, <2>b, <3>2, CommandPlaces
    <3> QED BY <3>1, <3>2
  <2>2. CASE RendezvousReady \/ RendezvousFails
    <3>1. Hands(t)' \subseteq Hands(t)
      <4>1. CASE RendezvousReady
        BY <2>0, <4>1, ReadyReads, HandsDrop
      <4>2. CASE RendezvousFails
        BY <4>2 DEF RendezvousFails, Hands
      <4> QED BY <2>2, <4>1, <4>2
    <3>2. player' = player
      BY <2>2 DEF RendezvousReady, RendezvousFails, store
    <3>3. Count(player'.queue, t) <= Count(player.queue, t)
      BY <2>0, <3>2, QueueCounts
    <3> QED BY <2>0, <2>b, <3>1, <3>3, NoMorePlaces
  <2>3. ASSUME NEW w \in Workers, WorkerStep(w)
        PROVE  Places(t)' > Places(t) => Excused(t)
    <3>1. CASE Wake(w) \/ Advance(w)
      <4>1. CASE player' = player /\ Drops(w)
        <5>1. Plain(w)
          BY <4>1 DEF Plain
        <5> QED BY <2>0, <2>b, <4>1, <5>1, PlainPlaces
      <4>2. CASE /\ player.now = NoTrack /\ player.queue # << >>
                 /\ player' = StartNext(player)
                 /\ \E next : Reads(w, next) /\ next.track = Head(player.queue)
        BY <2>0, <2>b, <4>2, StartPlaces
      <4> QED BY <2>0, <3>1, <4>1, <4>2, StartsOrDrops
    <3>2. CASE Complete(w)
      BY <2>0, <2>b, <3>2, CompletePlaces
    <3>3. CASE RewindQueue(w)
      <4> DEFINE job == worker[w].job
      <4>1. /\ worker[w].phase = "rewind"
            /\ player' = Rewind(player, job.current, job.previous)
        BY <3>3 DEF RewindQueue
      <4>2. worker'[w].phase = "forget"
        <5>1. worker[w] \in WorkerTask /\ worker \in [Workers -> WorkerTask]
          BY <2>0 DEF Types
        <5> QED BY <3>3, <5>1 DEF RewindQueue, Becomes, Turns, WorkerTask
      <4>3. CASE t \in {job.current, job.previous}
        BY <4>1, <4>2, <4>3
      <4>4. CASE t \notin {job.current, job.previous}
        <5>1. /\ player \in Player(Ids)
              /\ job.current \in Ids /\ job.previous \in Ids
          BY DEF Known, Numbered
        <5>2. Count(player'.queue, t) = Count(player.queue, t)
          BY <4>1, <4>4, <5>1, RewindQueues
        <5>3. Hands(t)' \subseteq Hands(t)
          BY <2>0, <3>3, TurnsDrop, HandsDrop
        <5> QED BY <2>0, <2>b, <5>2, <5>3, QueueCounts, NoMorePlaces
      <4> QED BY <4>3, <4>4
    <3>4. CASE ~ Wake(w) /\ ~ Advance(w) /\ ~ Complete(w) /\ ~ RewindQueue(w)
      <4>1. Drops(w) /\ Plain(w)
        BY <2>0, <2>3, <3>4, WorkersDrop, WorkersPlain
      <4> QED BY <2>0, <2>b, <4>1, PlainPlaces
    <3> QED BY <3>1, <3>2, <3>3, <3>4
  <2> QED BY <2>1, <2>2, <2>3 DEF Next, Command, Worker, WorkerStep
<1> QED BY <1>1, KnownCorrect, PTL DEF Spec, TrackOnce
==============================================================================
