---------------------------- MODULE VoiceManager ----------------------------
(***************************************************************************)
(* The Gateway loop and the voice workers it supervises: the select loop   *)
(* of main (src/src/main.rs), VoiceManager and the lifecycle of            *)
(* run_voice_worker (src/src/voice_manager.rs), and the requests commands  *)
(* send them (src/src/gateway_control.rs).                                 *)
(*                                                                         *)
(* Command tasks put GatewayControl requests ("calls") on one channel and  *)
(* wait for a oneshot response.  The loop handles one input at a time:     *)
(* a call, an event a worker or a join timer put on a bounded channel, a   *)
(* Gateway dispatch, or ctrl-c.  A handler that sends to a worker waits    *)
(* while the worker's mailbox is full, and the whole loop waits with it:   *)
(* such a handler is two steps, the second being Deliver.                  *)
(*                                                                         *)
(* What a worker plays is abstracted here; module VoiceWorker has it.      *)
(***************************************************************************)
EXTENDS Integers, FiniteSets, SequencesExt

CONSTANTS
  Guilds, Channels,
  Calls,        \* requests ever issued; one command has one at a time, and
                \* max_concurrent_commands (64) fits in the control channel
  NoChannel, NoCall,
  Shutdown,     \* VoiceWorkerCommand::Shutdown
  MaxId,        \* bound: values next_id ever takes; a join needs two
  EventCap,     \* VOICE_EVENT_CAPACITY
  CommandCap,   \* VOICE_COMMAND_CAPACITY
  Updates       \* how Update Voice State may end: {TRUE} or {TRUE, FALSE}

ASSUME DistinctAssumption ==
  NoChannel \notin Channels /\ NoCall \notin Calls /\ Shutdown \notin Calls

ASSUME BoundAssumption ==
  /\ IsFiniteSet(Calls) /\ MaxId \in Nat /\ 2 * Cardinality(Calls) <= MaxId
  /\ EventCap \in Nat \ {0} /\ CommandCap \in Nat \ {0}
  /\ TRUE \in Updates /\ Updates \subseteq BOOLEAN

VARIABLES
  call,       \* the calls, with their response
  control,    \* the control channel
  gw,         \* what the Gateway loop is doing
  botReady,   \* bot_user_id.is_some()
  pending,    \* VoiceManager.pending
  workers,    \* VoiceManager.workers
  nextId,     \* VoiceManager.next_id: request ids and generations
  timers,     \* join timers still asleep or waiting to send
  events,     \* the worker_events channel
  worker,     \* the worker tasks, by generation
  requested   \* the voice channel last asked of Discord, per guild

vars == << call, control, gw, botReady, pending, workers, nextId, timers,
           events, worker, requested >>

------------------------------------------------------------------------------
Ids == 1 .. MaxId

Kinds == {"join", "leave", "playback"}

Answers == {"Joined", "AlreadyConnected", "InProgress", "Cancelled", "Failed",
            "Left", "CancelledJoin", "NotConnected", "WrongVoiceChannel",
            "Handled", "Dropped"}

(* A HashMap without an entry for a guild holds the record with id 0. *)
NoPending == [id |-> 0, channel |-> NoChannel, caller |-> NoCall]
NoHandle == [id |-> 0, channel |-> NoChannel]

Unissued == [kind |-> "none", guild |-> NoChannel, channel |-> NoChannel,
             answer |-> "none"]

NoTask == [at |-> "none", guild |-> NoChannel, channel |-> NoChannel,
           caller |-> NoCall, reason |-> "none", mailbox |-> << >>]

Selecting == [at |-> "select", to |-> 0, for |-> NoCall, left |-> {}]

Waiting(c) == call[c].kind # "none" /\ call[c].answer = "none"
Answered(c) == call[c].answer # "none"

(* The response of each call in S is sent, or dropped with its sender. *)
AnswerAll(S, answer) ==
  [c \in Calls |-> IF c \in S THEN [call[c] EXCEPT !.answer = answer]
                              ELSE call[c]]
Answer(c, answer) == call' = AnswerAll({c}, answer)

HasPending(g) == pending[g].id # 0

(* Mutant: a worker that is not connected yet does not count. *)
HasConnectedWorker(g) ==
  workers[g].id # 0 /\ worker[workers[g].id].at = "running"

HasWorker(g) == workers[g].id # 0
Live(id) == worker[id].at \in {"connecting", "running", "stopping"}

(* The loop runs until ctrl-c; from then on the control channel is closed. *)
Open == gw.at \in {"select", "route", "leave"}

Init ==
  /\ call = [c \in Calls |-> Unissued]
  /\ control = << >>
  /\ gw = Selecting
  /\ botReady = FALSE
  /\ pending = [g \in Guilds |-> NoPending]
  /\ workers = [g \in Guilds |-> NoHandle]
  /\ nextId = 0
  /\ timers = {}
  /\ events = << >>
  /\ worker = [id \in Ids |-> NoTask]
  /\ requested = [g \in Guilds |-> NoChannel]

------------------------------------------------------------------------------
(* Commands *)

(* send() fails at once when the channel is closed. *)
Issue(c) ==
  /\ call[c].kind = "none"
  /\ \E kind \in Kinds, g \in Guilds, ch \in Channels :
       call' = [call EXCEPT ![c] =
                  [kind |-> kind, guild |-> g, channel |-> ch,
                   answer |-> IF Open THEN "none" ELSE "Failed"]]
  /\ control' = IF Open THEN Append(control, c) ELSE control
  /\ UNCHANGED << gw, botReady, pending, workers, nextId, timers, events,
                  worker, requested >>

------------------------------------------------------------------------------
(* The Gateway loop: calls *)

(* Asking Discord to leave voice in g, which may fail. *)
Disconnect(g) ==
  \E ok \in Updates :
    requested' = IF ok THEN [requested EXCEPT ![g] = NoChannel] ELSE requested

(* The loop takes the next call off the channel. *)
Receive(c, kind) ==
  /\ gw.at = "select"
  /\ control # << >> /\ c = Head(control) /\ call[c].kind = kind
  /\ control' = Tail(control)

JoinRefused(c, g) ==
  /\ \/ HasWorker(g) /\ Answer(c, "AlreadyConnected")
     \/ ~ HasWorker(g) /\ HasPending(g) /\ Answer(c, "InProgress")
     \/ ~ HasWorker(g) /\ ~ HasPending(g) /\ ~ botReady /\ Answer(c, "Failed")
     \/ /\ ~ HasWorker(g) /\ ~ HasPending(g) /\ botReady /\ FALSE \in Updates
        /\ Answer(c, "Failed")
  /\ UNCHANGED << gw, pending, nextId, timers, requested >>

JoinRequested(c, g) ==
  /\ ~ HasWorker(g) /\ ~ HasPending(g) /\ botReady
  /\ nextId < MaxId
  /\ requested' = [requested EXCEPT ![g] = call[c].channel]
  /\ nextId' = nextId + 1
  /\ pending' = [pending EXCEPT ![g] =
                   [id |-> nextId', channel |-> call[c].channel, caller |-> c]]
  /\ timers' = timers \union {[guild |-> g, id |-> nextId']}
  /\ UNCHANGED << call, gw >>

JoinVoice(c) ==
  /\ Receive(c, "join")
  /\ JoinRefused(c, call[c].guild) \/ JoinRequested(c, call[c].guild)
  /\ UNCHANGED << botReady, workers, events, worker >>

(* Leaving while the join is pending: the caller of the join is told. *)
LeavePending(c, g) ==
  /\ HasPending(g)
  /\ \E ok \in Updates :
       /\ requested' = IF ok THEN [requested EXCEPT ![g] = NoChannel]
                             ELSE requested
       /\ call' = [AnswerAll({pending[g].caller}, "Cancelled")
                     EXCEPT ![c].answer =
                       IF ok THEN "CancelledJoin" ELSE "Failed"]
  /\ pending' = [pending EXCEPT ![g] = NoPending]
  /\ UNCHANGED << gw, workers >>

LeaveNothing(c, g) ==
  /\ ~ HasPending(g) /\ ~ HasWorker(g)
  /\ Answer(c, "NotConnected")
  /\ UNCHANGED << gw, pending, workers, requested >>

(* The worker leaves the map before it is told to shut down. *)
LeaveWorker(c, g) ==
  /\ ~ HasPending(g) /\ HasWorker(g)
  /\ workers' = [workers EXCEPT ![g] = NoHandle]
  /\ gw' = [gw EXCEPT !.at = "leave", !.to = workers[g].id, !.for = c]
  /\ UNCHANGED << call, pending, requested >>

LeaveVoice(c) ==
  /\ Receive(c, "leave")
  /\ \/ LeavePending(c, call[c].guild)
     \/ LeaveNothing(c, call[c].guild)
     \/ LeaveWorker(c, call[c].guild)
  /\ UNCHANGED << botReady, nextId, timers, events, worker >>

RoutePlayback(c) ==
  /\ Receive(c, "playback")
  /\ LET handle == workers[call[c].guild]
     IN  \/ handle.id = 0 /\ Answer(c, "NotConnected") /\ UNCHANGED gw
         \/ /\ handle.id # 0 /\ handle.channel # call[c].channel
            /\ Answer(c, "WrongVoiceChannel") /\ UNCHANGED gw
         \/ /\ handle.id # 0 /\ handle.channel = call[c].channel
            /\ gw' = [gw EXCEPT !.at = "route", !.to = handle.id, !.for = c]
            /\ UNCHANGED call
  /\ UNCHANGED << botReady, pending, workers, nextId, timers, events, worker,
                  requested >>

------------------------------------------------------------------------------
(* The Gateway loop: the second half of a handler that sends to a worker *)

(* Mutant: a closed mailbox is taken for a full one. *)
CanSendOpen(id) ==
  worker[id].at # "ended" /\ Len(worker[id].mailbox) < CommandCap

(* send() waits for room; it fails once the receiver is gone. *)
CanSend(id) == worker[id].at = "ended" \/ Len(worker[id].mailbox) < CommandCap

(* Mutant: try_send to a worker that is busy. *)
SendIfIdle(id, message) ==
  worker' = IF worker[id].at = "ended" \/ worker[id].mailbox # << >> THEN worker
            ELSE [worker EXCEPT ![id].mailbox = Append(@, message)]

Send(id, message) ==
  worker' = IF worker[id].at = "ended" THEN worker
            ELSE [worker EXCEPT ![id].mailbox = Append(@, message)]

DeliverPlayback ==
  /\ gw.at = "route" /\ CanSend(gw.to)
  /\ Send(gw.to, gw.for)
  /\ call' = IF worker[gw.to].at = "ended" THEN AnswerAll({gw.for}, "Failed")
                                           ELSE call
  /\ gw' = Selecting
  /\ UNCHANGED << control, botReady, pending, workers, nextId, timers, events,
                  requested >>

(* leave_voice goes on to clear the voice state and to respond. *)
DeliverLeave ==
  /\ gw.at = "leave" /\ CanSend(gw.to)
  /\ Send(gw.to, Shutdown)
  /\ \E ok \in Updates :
       /\ requested' = IF ok
                       THEN [requested EXCEPT ![call[gw.for].guild] = NoChannel]
                       ELSE requested
       /\ Answer(gw.for, IF ok THEN "Left" ELSE "Failed")
  /\ gw' = Selecting
  /\ UNCHANGED << control, botReady, pending, workers, nextId, timers, events >>

------------------------------------------------------------------------------
(* The Gateway loop: dispatches *)

Ready ==
  /\ gw.at = "select" /\ ~ botReady
  /\ botReady' = TRUE
  /\ UNCHANGED << call, control, gw, pending, workers, nextId, timers, events,
                  worker, requested >>

(* Mutant: the response is dropped on the way to the worker. *)
NewTaskUnanswered(g, join) ==
  [at |-> "connecting", guild |-> g, channel |-> join.channel,
   caller |-> NoCall, reason |-> "none", mailbox |-> << >>]

NewTask(g, join) ==
  [at |-> "connecting", guild |-> g, channel |-> join.channel,
   caller |-> join.caller, reason |-> "none", mailbox |-> << >>]

(* Both halves of the rendezvous are there: the worker takes over, and with *)
(* it the response to the join.                                             *)
StartWorker(g) ==
  /\ gw.at = "select" /\ HasPending(g)
  /\ nextId < MaxId
  /\ nextId' = nextId + 1
  /\ pending' = [pending EXCEPT ![g] = NoPending]
  /\ workers' = [workers EXCEPT ![g] =
                   [id |-> nextId', channel |-> pending[g].channel]]
  /\ worker' = [worker EXCEPT ![nextId'] = NewTask(g, pending[g])]
  /\ UNCHANGED << call, control, gw, botReady, timers, events, requested >>

ServerUnavailable(g) ==
  /\ gw.at = "select" /\ HasPending(g)
  /\ Answer(pending[g].caller, "Failed")
  /\ pending' = [pending EXCEPT ![g] = NoPending]
  /\ Disconnect(g)
  /\ UNCHANGED << control, gw, botReady, workers, nextId, timers, events,
                  worker >>

------------------------------------------------------------------------------
(* The Gateway loop: events *)

ReceiveEvent(kind) ==
  /\ gw.at = "select" /\ events # << >> /\ Head(events).kind = kind
  /\ events' = Tail(events)

(* Mutant: whatever the guild is doing now, the timeout disconnects it. *)
JoinTimedOutUnchecked ==
  /\ ReceiveEvent("JoinTimedOut")
  /\ Answer(pending[Head(events).guild].caller, "Failed")
  /\ pending' = [pending EXCEPT ![Head(events).guild] = NoPending]
  /\ Disconnect(Head(events).guild)
  /\ UNCHANGED << control, gw, botReady, workers, nextId, timers, worker >>

JoinTimedOut ==
  /\ ReceiveEvent("JoinTimedOut")
  /\ LET g == Head(events).guild
     IN  \/ /\ pending[g].id = Head(events).id
            /\ Answer(pending[g].caller, "Failed")
            /\ pending' = [pending EXCEPT ![g] = NoPending]
            /\ Disconnect(g)
         \/ /\ pending[g].id # Head(events).id
            /\ UNCHANGED << call, pending, requested >>
  /\ UNCHANGED << control, gw, botReady, workers, nextId, timers, worker >>

(* Only the end of the current worker counts, and a worker that was asked   *)
(* to stop leaves the voice state alone.                                    *)
Stopped ==
  /\ ReceiveEvent("Stopped")
  /\ LET g == Head(events).guild
     IN  \/ /\ workers[g].id = Head(events).id
            /\ workers' = [workers EXCEPT ![g] = NoHandle]
            /\ IF Head(events).reason = "Requested" THEN UNCHANGED requested
                                                    ELSE Disconnect(g)
         \/ /\ workers[g].id # Head(events).id
            /\ UNCHANGED << workers, requested >>
  /\ UNCHANGED << call, control, gw, botReady, pending, nextId, timers,
                  worker >>

------------------------------------------------------------------------------
(* Join timers *)

(* Mutant: a timer does not wait for room in the channel. *)
TimerFiresLossy(t) ==
  /\ timers' = timers \ {t}
  /\ events' = IF events # << >> THEN events
               ELSE Append(events, [kind |-> "JoinTimedOut", guild |-> t.guild,
                                    id |-> t.id, reason |-> "none"])
  /\ UNCHANGED << call, control, gw, botReady, pending, workers, nextId,
                  worker, requested >>

TimerFires(t) ==
  /\ Len(events) < EventCap
  /\ timers' = timers \ {t}
  /\ events' = Append(events, [kind |-> "JoinTimedOut", guild |-> t.guild,
                               id |-> t.id, reason |-> "none"])
  /\ UNCHANGED << call, control, gw, botReady, pending, workers, nextId,
                  worker, requested >>

------------------------------------------------------------------------------
(* Voice workers *)

(* A step of worker id that leaves the rest of the system alone. *)
WorkerStep(id, task) ==
  /\ worker' = [worker EXCEPT ![id] = task]
  /\ UNCHANGED << control, gw, botReady, pending, workers, nextId, timers,
                  events, requested >>

Stopping(id, reason) == [worker[id] EXCEPT !.at = "stopping", !.reason = reason]

Connected(id) ==
  /\ worker[id].at = "connecting"
  /\ WorkerStep(id, [worker[id] EXCEPT !.at = "running"])
  /\ Answer(worker[id].caller, "Joined")

(* Mutant: a worker that cannot connect ends without a Stopped event. *)
ConnectFailsSilently(id) ==
  /\ worker[id].at = "connecting"
  /\ WorkerStep(id, [worker[id] EXCEPT !.at = "ended"])
  /\ Answer(worker[id].caller, "Failed")

ConnectFails(id) ==
  /\ worker[id].at = "connecting"
  /\ WorkerStep(id, Stopping(id, "ConnectFailed"))
  /\ Answer(worker[id].caller, "Failed")

(* Mutant: the caller of the join is not told. *)
ConnectAbortedUntold(id) ==
  /\ worker[id].at = "connecting" /\ worker[id].mailbox # << >>
  /\ WorkerStep(id, [Stopping(id, "Requested") EXCEPT !.mailbox = Tail(@)])
  /\ Answer(Head(worker[id].mailbox), "Dropped")

(* Any command, not just Shutdown, aborts a connection attempt; the command *)
(* is dropped unanswered.                                                   *)
ConnectAborted(id) ==
  /\ worker[id].at = "connecting" /\ worker[id].mailbox # << >>
  /\ WorkerStep(id, [Stopping(id, "Requested") EXCEPT !.mailbox = Tail(@)])
  /\ call' = [AnswerAll({Head(worker[id].mailbox)}, "Dropped")
                EXCEPT ![worker[id].caller].answer = "Cancelled"]

(* Mutant: commands are carried out while the connection is being made. *)
HandlePlaybackEarly(id) ==
  /\ worker[id].at \in {"connecting", "running"} /\ worker[id].mailbox # << >>
  /\ Head(worker[id].mailbox) # Shutdown
  /\ WorkerStep(id, [worker[id] EXCEPT !.mailbox = Tail(@)])
  /\ Answer(Head(worker[id].mailbox), "Handled")

(* A playback action is carried out and answered, or the voice session      *)
(* fails under it and the response is dropped.                              *)
HandlePlayback(id) ==
  /\ worker[id].at = "running" /\ worker[id].mailbox # << >>
  /\ LET c == Head(worker[id].mailbox)
         rest == [worker[id] EXCEPT !.mailbox = Tail(@)]
     IN  /\ c # Shutdown
         /\ \/ WorkerStep(id, rest) /\ Answer(c, "Handled")
            \/ /\ WorkerStep(id, [rest EXCEPT !.at = "stopping",
                                              !.reason = "VoiceFailed"])
               /\ Answer(c, "Dropped")

(* Mutant: Shutdown does not leave the worker's loop. *)
HandleShutdownAgain(id) ==
  /\ worker[id].at = "running" /\ worker[id].mailbox # << >>
  /\ Head(worker[id].mailbox) = Shutdown
  /\ WorkerStep(id, [worker[id] EXCEPT !.mailbox = Tail(@)])
  /\ UNCHANGED call

HandleShutdown(id) ==
  /\ worker[id].at = "running" /\ worker[id].mailbox # << >>
  /\ Head(worker[id].mailbox) = Shutdown
  /\ WorkerStep(id, [Stopping(id, "Requested") EXCEPT !.mailbox = Tail(@)])
  /\ UNCHANGED call

(* The voice connection breaks, or the idle timeout ends the session. *)
SessionEnds(id) ==
  /\ worker[id].at = "running"
  /\ \E reason \in {"VoiceFailed", "IdleTimedOut"} :
       WorkerStep(id, Stopping(id, reason))
  /\ UNCHANGED call

(* The last step of every worker; what is left in its mailbox is dropped    *)
(* with the receiver.                                                       *)
SendStopped(id) ==
  /\ worker[id].at = "stopping" /\ Len(events) < EventCap
  /\ events' = Append(events, [kind |-> "Stopped", guild |-> worker[id].guild,
                               id |-> id, reason |-> worker[id].reason])
  /\ worker' = [worker EXCEPT ![id].at = "ended", ![id].mailbox = << >>]
  /\ call' = AnswerAll(ToSet(worker[id].mailbox), "Dropped")
  /\ UNCHANGED << control, gw, botReady, pending, workers, nextId, timers,
                  requested >>

------------------------------------------------------------------------------
(* Shutdown of the process *)

(* Mutant: pending joins are cancelled, but Discord is not told. *)
CtrlCUntold ==
  /\ gw.at = "select"
  /\ call' = [c \in Calls |->
                CASE c \in ToSet(control) -> [call[c] EXCEPT !.answer = "Failed"]
                  [] \E g \in Guilds : pending[g].caller = c ->
                       [call[c] EXCEPT !.answer = "Cancelled"]
                  [] OTHER -> call[c]]
  /\ control' = << >>
  /\ pending' = [g \in Guilds |-> NoPending]
  /\ workers' = [g \in Guilds |-> NoHandle]
  /\ gw' = [gw EXCEPT !.at = "drain",
                      !.left = {workers[g].id : g \in Guilds} \ {0}]
  /\ UNCHANGED << botReady, nextId, timers, events, worker, requested >>

(* ctrl-c: the control channel is closed and emptied, every pending join is *)
(* cancelled and disconnected, and the worker map is drained.               *)
CtrlC ==
  /\ gw.at = "select"
  /\ call' = [c \in Calls |->
                CASE c \in ToSet(control) -> [call[c] EXCEPT !.answer = "Failed"]
                  [] \E g \in Guilds : pending[g].caller = c ->
                       [call[c] EXCEPT !.answer = "Cancelled"]
                  [] OTHER -> call[c]]
  /\ control' = << >>
  /\ \E failed \in SUBSET {g \in Guilds : HasPending(g)} :
       /\ failed # {} => FALSE \in Updates
       /\ requested' = [g \in Guilds |->
                          IF HasPending(g) /\ g \notin failed THEN NoChannel
                                                              ELSE requested[g]]
  /\ pending' = [g \in Guilds |-> NoPending]
  /\ workers' = [g \in Guilds |-> NoHandle]
  /\ gw' = [gw EXCEPT !.at = "drain",
                      !.left = {workers[g].id : g \in Guilds} \ {0}]
  /\ UNCHANGED << botReady, nextId, timers, events, worker >>

(* For each worker of the drained map, in any order: disconnect, ... *)
ShutdownWorker(id) ==
  /\ gw.at = "drain" /\ id \in gw.left
  /\ gw' = [gw EXCEPT !.at = "stop", !.to = id, !.left = @ \ {id}]
  /\ Disconnect(worker[id].guild)
  /\ UNCHANGED << call, control, botReady, pending, workers, nextId, timers,
                  events, worker >>

(* ... then send Shutdown. *)
DeliverShutdown ==
  /\ gw.at = "stop" /\ CanSend(gw.to)
  /\ Send(gw.to, Shutdown)
  /\ gw' = [gw EXCEPT !.at = "drain", !.to = 0]
  /\ UNCHANGED << call, control, botReady, pending, workers, nextId, timers,
                  events, requested >>

(* join_next until every worker task is over, then close the Gateway ... *)
TasksJoined ==
  /\ gw.at = "drain" /\ gw.left = {} /\ \A id \in Ids : ~ Live(id)
  /\ gw' = [gw EXCEPT !.at = "join"]
  /\ UNCHANGED << call, control, botReady, pending, workers, nextId, timers,
                  events, worker, requested >>

(* ... and join the command tasks: none may still wait for a response. *)
CommandsJoined ==
  /\ gw.at = "join" /\ \A c \in Calls : ~ Waiting(c)
  /\ gw' = [gw EXCEPT !.at = "done"]
  /\ UNCHANGED << call, control, botReady, pending, workers, nextId, timers,
                  events, worker, requested >>

------------------------------------------------------------------------------
HandleCall == \E c \in Calls : JoinVoice(c) \/ LeaveVoice(c) \/ RoutePlayback(c)
HandleEvent == JoinTimedOut \/ Stopped
Deliver == DeliverPlayback \/ DeliverLeave \/ DeliverShutdown
Dispatch == Ready \/ \E g \in Guilds : StartWorker(g) \/ ServerUnavailable(g)
HandleCommand(id) ==
  ConnectAborted(id) \/ HandlePlayback(id) \/ HandleShutdown(id)
Stop ==
  (\E id \in Ids : ShutdownWorker(id)) \/ TasksJoined \/ CommandsJoined

(* The process has ended; late timers and commands no longer matter. *)
Ended == gw.at = "done" /\ UNCHANGED vars

Next ==
  \/ \E c \in Calls : Issue(c)
  \/ HandleCall \/ HandleEvent \/ Deliver \/ Dispatch
  \/ \E t \in timers : TimerFires(t)
  \/ \E id \in Ids :
       \/ Connected(id) \/ ConnectFails(id) \/ HandleCommand(id)
       \/ SessionEnds(id) \/ SendStopped(id)
  \/ CtrlC \/ Stop \/ Ended

Spec == Init /\ [][Next]_vars

(* The loop's select polls its ready branches in random order, so none that *)
(* stays ready is passed over for ever; tokio runs every task that can run, *)
(* and a sleep ends.  Nothing is assumed of commands, of Discord, of voice  *)
(* connection attempts, or of ctrl-c.                                       *)
Fairness ==
  /\ WF_vars(HandleCall) /\ WF_vars(HandleEvent) /\ WF_vars(Deliver)
  /\ WF_vars(Stop)
  /\ WF_vars(\E t \in timers : TimerFires(t))
  /\ \A id \in Ids : WF_vars(HandleCommand(id)) /\ WF_vars(SendStopped(id))

FairSpec == Spec /\ Fairness

------------------------------------------------------------------------------
(* Types *)

Pending == [id : Ids, channel : Channels, caller : Calls] \union {NoPending}
Handle == [id : Ids, channel : Channels] \union {NoHandle}
Reasons == {"Requested", "IdleTimedOut", "ConnectFailed", "VoiceFailed"}
Task == [at : {"connecting", "running", "stopping", "ended"},
         guild : Guilds, channel : Channels, caller : Calls,
         reason : Reasons \union {"none"}, mailbox : Seq(Calls \union {Shutdown})]
Event == [kind : {"JoinTimedOut", "Stopped"}, guild : Guilds, id : Ids,
          reason : Reasons \union {"none"}]
Loop == [at : {"select", "route", "leave", "drain", "stop", "join", "done"},
         to : Ids \union {0}, for : Calls \union {NoCall}, left : SUBSET Ids]

(* The types of the variables. *)
TypeOK ==
  /\ call \in [Calls -> {Unissued} \union
                 [kind : Kinds, guild : Guilds, channel : Channels,
                  answer : Answers \union {"none"}]]
  /\ control \in Seq(Calls)
  /\ gw \in Loop
  /\ botReady \in BOOLEAN
  /\ pending \in [Guilds -> Pending]
  /\ workers \in [Guilds -> Handle]
  /\ nextId \in 0 .. MaxId
  /\ timers \in SUBSET [guild : Guilds, id : Ids]
  /\ events \in Seq(Event)
  /\ worker \in [Ids -> Task \union {NoTask}]
  /\ requested \in [Guilds -> Channels \union {NoChannel}]

------------------------------------------------------------------------------
(* Safety *)

(* A guild is joining or connected, never both. *)
PendingXorWorker == \A g \in Guilds : ~ (HasPending(g) /\ HasWorker(g))

(* Worker id has been told to stop, or is about to be. *)
ToldToStop(id) ==
  \/ Shutdown \in ToSet(worker[id].mailbox)
  \/ gw.at \in {"leave", "stop"} /\ gw.to = id
  \/ id \in gw.left

(* No worker gets out of control: one that still connects or plays is the  *)
(* one its guild's map entry names, unless it has been told to stop.  So a *)
(* guild has at most one worker that nobody has told to stop, and a stale  *)
(* Stopped event never unhooks the worker of a later session.              *)
NoOrphan ==
  \A id \in Ids :
    worker[id].at \in {"connecting", "running"} =>
      workers[worker[id].guild].id = id \/ ToldToStop(id)

(* Conversely a map entry names a worker task of its own guild and channel *)
(* which has not ended, or whose Stopped event is on its way.              *)
EntryHasWorker ==
  \A g \in Guilds :
    HasWorker(g) =>
      LET id == workers[g].id
      IN  /\ worker[id].guild = g /\ worker[id].channel = workers[g].channel
          /\ \/ Live(id)
             \/ \E e \in ToSet(events) : e.kind = "Stopped" /\ e.id = id

(* How many parties hold the response of call c. *)
Holders(c) ==
  Cardinality({i \in DOMAIN control : control[i] = c})
    + Cardinality({g \in Guilds : pending[g].caller = c})
    + Cardinality({id \in Ids :
        worker[id].at = "connecting" /\ worker[id].caller = c})
    + Cardinality({id \in Ids : c \in ToSet(worker[id].mailbox)})
    + (IF gw.for = c THEN 1 ELSE 0)

(* Each request is answered once: while it waits exactly one party holds   *)
(* its response, and afterwards none does.                                 *)
OneHolder ==
  \A c \in Calls : Holders(c) = IF Waiting(c) THEN 1 ELSE 0

(* A pending join cannot be forgotten: its own timer still sleeps, or the  *)
(* event of that timer is on its way.                                      *)
PendingHasTimer ==
  \A g \in Guilds :
    HasPending(g) =>
      \/ [guild |-> g, id |-> pending[g].id] \in timers
      \/ \E e \in ToSet(events) : /\ e.kind = "JoinTimedOut"
                                  /\ e.guild = g /\ e.id = pending[g].id

(* What a guild's session shows is what Discord was asked for: late timers *)
(* and the ends of earlier sessions never disconnect a later session.      *)
SessionRequested ==
  \A g \in Guilds :
    /\ HasPending(g) => requested[g] = pending[g].channel
    /\ HasWorker(g) => requested[g] = workers[g].channel

(* The bot was last asked into a channel for a worker that was told to     *)
(* stop while it connected: the join was cancelled, and only a leave takes *)
(* the request back.                                                       *)
CancelledIn(g) ==
  \E id \in Ids :
    /\ worker[id].guild = g /\ worker[id].channel = requested[g]
    /\ worker[id].reason = "Requested" /\ call[worker[id].caller].answer = "Cancelled"

(* "Graceful shutdown for Gateway, players, voice sessions": when the loop *)
(* closes the Gateway connection, no worker of any session is left that    *)
(* uses it, and if no update fails Discord was asked to have the bot out   *)
(* of every channel, whatever was joining, playing, failing or leaving     *)
(* when ctrl-c came.  The one exception is the cancelled join.             *)
ShutdownDisconnects ==
  gw.at \in {"join", "done"} =>
    /\ \A id \in Ids : ~ Live(id)
    /\ FALSE \notin Updates =>
         \A g \in Guilds : requested[g] = NoChannel \/ CancelledIn(g)

(* What commands/voice_control.rs tells the caller of /leave: "I am not    *)
(* connected to voice here" is said when Discord was last asked to have    *)
(* the bot out of voice.                                                   *)
NotConnectedIsDisconnected ==
  [][\A c \in Calls :
       /\ Waiting(c) /\ call[c].kind = "leave"
       /\ call'[c].answer = "NotConnected"
       => requested[call[c].guild] = NoChannel]_vars

(* What callers see of a request: it is accepted once it has left the      *)
(* control channel without an answer.                                      *)
CallSeen ==
  [c \in Calls |-> IF Waiting(c) /\ c \notin ToSet(control)
                   THEN [call[c] EXCEPT !.answer = "accepted"] ELSE call[c]]

(* What users see of a guild: a session that still connects counts.  It is *)
(* by the caller whose response its worker got.                            *)
SessionSeen ==
  [g \in Guilds |->
     CASE HasPending(g) -> [at |-> "joining", channel |-> pending[g].channel,
                            by |-> pending[g].caller]
       [] HasWorker(g) -> [at |-> "connected", channel |-> workers[g].channel,
                           by |-> worker[workers[g].id].caller]
       [] OTHER -> [at |-> "absent", channel |-> NoChannel, by |-> NoCall]]

(* The voice connection of worker id: while it is made, a worker that is   *)
(* no longer listed was overtaken.                                         *)
Link(id) ==
  CASE worker[id].at = "connecting" ->
         IF workers[worker[id].guild].id = id THEN "connecting" ELSE "overtaken"
    [] worker[id].at = "running" -> "connected"
    [] worker[id].at = "stopping" -> "closing"
    [] OTHER -> "ended"

(* The worker that got the response to join c, if there is one. *)
Got(c) == {id \in Ids : worker[id].caller = c}

LinkSeen ==
  [c \in Calls |-> IF Got(c) = {} THEN "none"
                   ELSE Link(CHOOSE id \in Ids : id \in Got(c))]

Promise == INSTANCE VoiceSession
             WITH call <- CallSeen, session <- SessionSeen, link <- LinkSeen,
                  voice <- requested, open <- Open

(* VoiceManager implements VoiceSession: through timers, late events,      *)
(* blocked sends, failing updates and ctrl-c, a guild's session begins     *)
(* with an accepted join and ends with an answer to it.  The caller of a   *)
(* join is told Joined when the connection of its session is made, unless  *)
(* a leave or ctrl-c overtook it, and Cancelled or Failed only by what     *)
(* ended it; a playback request is carried out over the connection of a    *)
(* join of its caller's channel, and fails or is dropped only with it.     *)
SessionSpec == Promise!Spec

------------------------------------------------------------------------------
(* Liveness *)

Connecting(c) ==
  \E id \in Ids : worker[id].at = "connecting" /\ worker[id].caller = c

(* Every request is answered in the end; only a join may wait longer, on   *)
(* its own connection attempt.                                             *)
CallsAnswered ==
  \A c \in Calls : Waiting(c) ~> (Answered(c) \/ Connecting(c))

(* "Graceful shutdown for Gateway, players, voice sessions, and command    *)
(* tasks": after ctrl-c the process ends.                                  *)
ShutdownCompletes == (gw.at = "drain") ~> (gw.at = "done")

(* "The Gateway task must remain responsive": a handler that sends to a    *)
(* worker comes back to the select.                                        *)
GatewayResponsive == (gw.at \in {"route", "leave"}) ~> (gw.at = "select")
==============================================================================
