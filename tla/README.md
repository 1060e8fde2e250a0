# A formal model of Sonoryn

Sonoryn is a Discord music bot: one process that owns a Discord Gateway
connection, joins voice channels, resolves tracks with `yt-dlp`, decodes them
with FFmpeg and streams Opus frames. The TLA+ modules here model the part of it
that is hard to test: the tasks that run side by side, the bounded channels and
locks between them, and the shared player state they change. Paths below are
relative to the repository; `src/` in `PROJECT.json` is the repository's root.

## 1. The system

| part | source | state | interacts by |
|---|---|---|---|
| Gateway loop | `src/main.rs` | bot user id, control channel, event channel, command tasks | one `select!` over ctrl-c, control requests, worker events and Gateway dispatches |
| voice manager | `src/voice_manager.rs` 86-490 | `pending` joins, `workers` map, `next_id` | called by the loop; sends to worker mailboxes; answers oneshot responses; asks Discord for voice states |
| join timers | `src/voice_manager.rs` 359-368 | one sleeping task per join | put `JoinTimedOut` on the event channel |
| voice worker | `src/voice_manager.rs` 573-999 | `active` playback, volume, idle deadline, voice session | receives its mailbox; locks player and history; puts `Stopped` on the event channel |
| decoder task | `src/voice_manager.rs` 513-571, 1023-1074 | position in the stream | owns a yt-dlp process, then an FFmpeg process; bounded frame channel to its worker, which may abort it |
| player store | `src/player.rs` | per guild: current track, queue, loop mode; one id counter | `RwLock`, shared by commands, workers and the manager |
| history store | `src/history.rs` | per guild: at most 20 finished tracks | `RwLock`, shared by workers and commands |
| commands | `src/commands/*` | none of their own | control requests with a oneshot response; edits of the player store |
| decoder stream | `src/media/decoder.rs` | FFmpeg process, its pipe, the Ogg reader's partial packet and pending packets | pulled frame by frame by its decoder task |
| resolver | `src/media/ytdlp.rs`, `resolver.rs` | none but the yt-dlp process of a call | called by commands and decoder tasks |

A command that needs the bot in voice sends `JoinVoice`. The manager asks
Discord to move the bot, notes a pending join and starts a timer. When both
halves of Discord's answer have come in, the pending join becomes a worker,
which takes over the response, connects, answers and then serves playback
actions until it is told to stop, its session fails or it has been idle for
five minutes. It then puts `Stopped` on the event channel, and the manager
drops it from its map.

The behaviours that are hard, with the properties that make the parts correct:

* **Late messages.** Timers and ends of workers carry the ids they were made
  with and may arrive in any later session of the guild (`NoOrphan`,
  `EntryHasWorker`, `PendingHasTimer`, `SessionRequested`).
* **Ownership of a response.** It moves from request to pending join to worker,
  and each must be answered exactly once (`OneHolder`, `CallsAnswered`).
* **What callers are told.** A request is judged when it is routed and answered
  several steps later, by another task; the answer must fit what has come of the
  session it was given for (`SessionSpec`; not
  `NotConnectedIsDisconnected`, which the code breaks).
* **A shutdown in the middle.** ctrl-c comes while guilds join, play, fail or
  leave, and nobody handles their events any more (`ShutdownDisconnects`,
  `ShutdownCompletes`).
* **Bounded channels in a circle.** Loop to worker and worker to loop, both with
  blocking sends (`GatewayResponsive`, `ShutdownCompletes`).
* **A worker's copy of shared state.** What the worker plays and what the player
  calls current are separate, and a handler takes the lock two or three times
  (`SlotAgrees`, `QueueAdvances`, `IdleDisconnectKeepsQueue`), and the manager
  may clear the player of a worker it has told to leave; what the
  listeners hear must not depend on it (`JukeboxSpec`).
* **Flags repeated by many handlers.** Speaking, idle deadline, volume and
  position across cancel, pause, seek and respawn (`SpeakingMirrored`,
  `IdleArmed`, `DecoderMatches`, `OnlySeekJumps`).
* **One store for all guilds.** One id counter, stale ids that come back, a
  bounded history, queue moves by index (`GuildsIsolated`, `FreshTrackIds`,
  `HistoryBounded`, `TracksKept`).
* **Numbers and words of users.** Users count tracks from one and type positions
  of any length (`NumbersNameTracks`, `SeekReadsClock`).
* **Sessions that overlap.** The map entry of a session goes away when its
  worker is told to stop; the worker goes on until it notices, and its last act
  is to clear the player that the next session may already use. A command takes
  several steps, and any of them may find another session (`NowHasPlayer`,
  `TrackOnce`, `OnlyOwnerFinishes`; not `SessionsApart` and `QueueInContext`,
  which the code breaks).
* **A stream in pieces.** Packets continue over pages, FFmpeg may die anywhere,
  and nothing of that may pass for a frame or for the end of the track
  (`FramesWhole`, `ReadAheadBounded`, `StreamSpec`, `EndReported`).
* **Two processes and a task that may be aborted.** yt-dlp may hang or print
  anything, and an abort finds the task wherever it waits (`NoOrphans`,
  `TaskSettles`, `PlaylistAsAsked`).

`PROJECT.json` lists every hazard with its line under `hazards`, and the lines
each definition stands for under `map`.

## 2. The modules

**`GuildPlayer`** has one guild's player and history as values, and each
operation of `player.rs` and `history.rs` as an operator from the old value to
the new one. A track is its `TrackId`; `NoTrack` (0, which
`allocate_track_id` skips) stands for `None`. A guild without an entry in the
`HashMap` is the default player, which no operation can tell apart from it.

**`PlaybackStore`** is the two stores as every task sees them: `players`,
`nextTrackId`, `histories`, one action per critical section; `EnqueuePlaylist`
adds several tracks under one lock, each with an id of its own. `TracksKept`
says of each operation which tracks a player must show afterwards and how often
(`TracksAccounted`), so that neither a move nor a completion nor a rewind may
drop one by changing the number of tracks. `issued` is a
ghost: which tracks were enqueued for which guild. `Previous` is one action
because the worker keeps the write lock over the whole rewind. The id counter
has a modulus, as the `u64` has, and fewer tracks are ever enqueued than it has
values (`MaxTracks < IdModulus`): "unique for the lifetime of this manager"
holds only under that assumption, and the wrap itself is never reached.

**`QueueViews`** is what `/queue` and `/queue-page` show of a player, as numbered
lines, and what `/remove` and `/move` make of a number: operators over the
states of `PlaybackStore`, which it extends. **`SeekPosition`** is the parser of
`/seek`, with the limit of a `u64` as a constant.

**`VoiceManager`** is the Gateway loop, the manager, the timers and the
lifecycle of the workers. `gw.at` says which handler the loop is in: a handler
that sends to a worker is two actions, for the send waits while the mailbox is
full and nothing else of the loop runs meanwhile. A `HashMap` entry is a record
with an id, 0 for none. `call` holds the requests with their response, and
`requested` the channel Discord was last asked for: what the bot's voice state
would show. An update of the voice state fails or not (`Updates`). A dropped
sender is the answer `Dropped`. What a worker plays is abstract: a playback
request is answered, or the session fails under it. Clearing the player, which
`leave_voice` and the workers also do, has no effect on anything here and is in
`VoiceWorker`. **`VoiceSession`** is what the manager promises the users of its
commands. A guild's `session` is absent, joining or connected, and each join has
a `link`, its voice connection: being made, made, going away, ended. The outcomes
tie each answer to them (`JoinOutcome`, `LeaveOutcome`, `PlaybackOutcome`): the
caller of a join is told Joined by the step that makes the link of the session
that is still his, and Cancelled or Failed only by what ended it (a leave,
ctrl-c, a failing attempt, a command that cut it off); a leave is told Left only
when the guild has no session and Discord was asked for none; a playback command
is told Handled only over a link to its caller's channel, and Dropped only by
the loss of one. `VoiceManager` implements it
(`Promise == INSTANCE VoiceSession WITH ...`, property `SessionSpec`): the
session is read off `pending` and `workers`, the link off the worker that got
the join's response, and a request counts as accepted from the step that takes
it out of the control channel without an answer. A worker that still connects
counts as connected there, as it does for the code. That leaves one answer which
is not true of the moment it is given, and `VoiceSession` names it: a link that
is "overtaken" by a leave or ctrl-c may still be made, and its caller told
Joined. The code does so: `leave_voice` takes the connecting worker out of the
map and answers Left (`voice_manager.rs:403-417`), the worker's `select!` (592)
finds both its `Shutdown` and the finished connection ready, picks the latter,
and the caller of `/join` reads "Connected to ..." (`voice_control.rs:61`) of a
channel the bot has left.

**`VoiceWorker`** is the inside of one guild's worker, with the decoder task and
the commands that change the queue. Each handler is cut where it takes or
releases the player lock: `Skip` is `Skip`, then `Finish`, then `Advance`, and
commands may act in between. `owed` counts enqueued tracks whose `Wake` has not
been received. `listed` says whether the manager's map still has the worker:
`Unlist` is the first half of a `/leave`, the shutdown, or the `Stopped` event.
From then on the player may be cleared at any time (`ClearUnlisted`), while the
worker plays, is between two critical sections or has ended, by a second
`/leave` that finds no entry or by the next session's worker that is told to
stop before it is connected. `SlotAgrees` therefore allows an unlisted worker to
play on without a current track, but never next to another one. A worker that is
still ending while the next session plays is in `PlaySession`. The decoder's events carry the position they
were decoded at, which the program does not store; `DecoderMatches` compares it
with `playback.position`. `Refused` is every command that is answered without an
effect. Sessions follow one another (`Rejoin`) over the same stores.
**`Jukebox`** is what a worker promises its listeners: one track at a time, the
head of the queue first, each from its beginning and frame after frame until it
is over, skipped or taken back, and looped only if it was heard to its end; a
track that plays is taken out of the player only once the session is on its way
out (`serving`), and what is heard to its end after that is not looped (`Fade`).
`VoiceWorker` implements it (`JukeboxSpec`), one step of the promise taking
several of the worker's; `Sound` tells whether a track that was cancelled is
about to complete.

**`PlaySession`** composes what the other two keep apart: the commands of one
guild, each as the sequence of its steps (`command[c].at`), over the manager's
`pending` and `entry`, over every worker ever started (`worker`, by generation)
and over the guild's one player and history. A command appears where it first
touches something shared, for what it does before (reading the caller's channel,
resolving) changes nothing and may end it in a reply. `/play` and `/playlist`
are `JoinVoice`, perhaps the wait for `Connect`, `EnqueueTracks`,
`RoutePlayback` and the worker's `Wake`; a queue edit is `RoutePlayback`, the
worker's `CheckContext` and `EditQueue`; `/previous` is four steps of the worker
(`Previous`, `ReadCurrent`, `RewindQueue`, `ForgetLatest`), under the locks of
history, player, player and history. Several workers may be alive: `leave_voice`
resets `entry` and appends `Shutdown` to the mailbox, and the old worker takes
it whenever it likes. A handler is cut where a lock is taken, as in
`VoiceWorker`. `track` is what the worker's `active` plays, kept until the step
that gives it up. Left out, because another module has it: capacities of
channels, join timers and updates of Discord's voice state (`VoiceManager`),
decoders, the speaking flag, volume, positions, pause and seek (`VoiceWorker`),
which touch nothing that two sessions share. A `finish_speaking` that fails is
the session failing before the input was taken. A user may change channel at any
time, so each step that reads the caller's channel finds any; requests may be
delayed, so they are served in any order. `MaxWorkers`, `MaxTracks` and
`MaxPrevious` bound the sessions, the tracks and the rewinds.

**`OpusStream`** has the actions of one decoder stream: FFmpeg (external) writes
pages into a pipe, `OggPacketReader` puts segments back together into packets,
and `FfmpegOpusStream::next_frame` hands out those that are audio. Sizes are
counted in segments, and a packet's content is its number; a segment says
whether it is the last of its packet, as a lacing value below 255 does. FFmpeg
cuts the packets into pages anywhere, may die within a page (`torn`), and one
page may carry the wrong "continued" flag. `process_page` is one step per
segment, so that the bound on a packet is seen where the code checks it.
**`YtDlp`** is how the resolver reads the JSON that yt-dlp prints, as operators
on documents whose entries are sets of usable fields. **`CommandInput`**
puts the two parsers to use: a user types the fields of a position, or a limit
for which yt-dlp prints entries one by one. **`DecoderTask`** composes
`OpusStream` and `YtDlp` with `run_decoder`: it resolves (a process with a
timer), opens the stream, sends frame after frame into a bounded channel and
then says how it ended, while the worker receives when it likes and may cancel
at any time. **`FrameStream`** is what the worker may rely
on: every frame once, in order, an end that is reported only when none is
missing, or an error. `DecoderTask` implements it (`StreamSpec`), from what the
worker has received, so through the stream and the channel; only after a wrong
flag may frames be missing.

The modules named `MC...` give the constants their values for TLC.
`GuildPlayerProofs` has the lemmas about the operators of `GuildPlayer`. The
other modules named `...Proofs` have the proofs about the module they are named
for: `PlaybackStoreProofs` (with `QueueViews`), `VoiceManagerProofs`,
`VoiceSessionProofs` (that `VoiceManager` implements it), `PlaySessionProofs`,
`VoiceWorkerProofs` (with `Jukebox`), `DecoderTaskProofs` (with `OpusStream` and
`FrameStream`) and `CommandInputProofs` (with `SeekPosition` and `YtDlp`).
Operators marked "Mutant" are
plausible bugs: each replaces the operation after it to show that a property
can fail.

## 3. The runs

| run | configuration | shows |
|---|---|---|
| `player_store` | 2 guilds, 3 tracks, queues of 2, ids mod 5, history of 1; previews and pages of 2 | isolation, freshness, history bound, what each operation does to the tracks, numbers that name what was shown |
| `vm_safety` | 1 guild, 2 channels, 3 requests, event channel of 4, mailbox of 2, failing updates | ownership of workers and responses, late events, answers that fit what came of the request (implements `VoiceSession`) |
| `vm_liveness` | 1 guild, 1 channel, 3 requests, event channel of 4, mailbox of 1 | answers, responsiveness, a shutdown that ends and leaves no channel behind |
| `vm_not_connected` | as `vm_safety`, reliable updates | a disagreement with what `/leave` tells its caller |
| `vm_shutdown_hangs` | 2 guilds, event channel of 1 | a shutdown that never ends |
| `voice_worker` | 2 tracks of 2 frames, frame channel of 2, 2 volumes, history of 1, 1 rewind, 2 sessions | the worker's flags, positions and current track; implements `Jukebox`; the queue advances |
| `vw_idle_race` | as `voice_worker` | a track lost at the idle timeout |
| `decoder_task` | 3 packets, packet limit of 2 segments, pages of 3, pipe of 1 page, one wrong flag, frame channel of 1 | whole frames in order, bounded buffering, no process left behind, implements `FrameStream` |
| `command_input` | a `u64` of 22 bits, up to 4 fields of 19 numbers; limits up to 3, default 2, up to 4 entries of 8 sorts | positions are read as what they mean, the right tracks of a playlist are queued |
| `play_session` | 2 commands at a time, 1 channel, 2 sessions, 2 tracks, history of 1, 1 rewind | the player stays playable and tracks whole while sessions overlap |
| `ps_sessions_apart`, `ps_queue_context` | as `play_session`, 2 channels, history of 2 | what overlapping sessions do to each other's queue |

**Bounds.** `player_store` needs two guilds for isolation, and three tracks for
one guild to reorder two while the other holds one. Enqueueing stops at a queue
of two; a rewind or a loop then makes it three, so that moves and removals meet
queues of none to three tracks. Nothing in the manager
relates two guilds but the loop and the event channel, so one guild shows every
race between sessions; three requests give a join, its interruption and a second
join. `MaxId` allows both ids of every join, and the assumption
`BoundAssumption` says so. An event channel of 4 never fills up with three
requests (at most three `JoinTimedOut` and three `Stopped`, of which a full
channel only delays some); the shutdown that hangs and the loop that waits
appear with a capacity of one and the same code, and need 64 events in the real
program. Two frames and a
frame channel of two give a playback that is at its start, in the middle and at
its end with zero, one or two frames buffered; two tracks and one rewind give a
queue, a current track and a history at once, and two sessions a queue left over
from an earlier session. In `play_session` two sessions overlap with two
commands at a time, one of which may wait anywhere while the other runs over and
over: commands are not bounded in number, so that one of the two slots can
start, stop and leave sessions while the other is held between two of its steps.
The two tracks give each session one, or one session a current track with
another queued; a history of one is full at once, so that remembering also
evicts, and one rewind meets every step of the other session. Channels only
decide which requests are accepted, which any channel does in `play_session`;
the two runs about a caller's channel have two. In `decoder_task` packets have
one to four segments against a limit of two, so that they are allowed, just too
large and larger, and pages of three segments let a packet span two pages, fill
one or share it; a frame channel of one is empty or full, and the reader sees of
the pipe its first page only, so that one page is enough. The entries of a
playlist are a null, the empty one, and the combinations of title and locators
that the code tells apart, with lists one longer than the largest limit. With 22
bits a `u64` ends at 1:09:54 of milliseconds, and the numbers typed into a
position lie below, at and beyond each limit of the three multiplications.
Queues of up to three tracks over pages of two are empty, short of a page, just
full and just over one.

**Fairness.** In `VoiceManager` the loop's `select!` polls ready branches in
random order and tokio runs every runnable task, so there is weak fairness for
taking requests, taking events, finishing a send, shutting down, firing a timer
and, per worker, handling its mailbox and sending `Stopped`. Nothing is assumed
of users, Discord, connection attempts or ctrl-c; `CallsAnswered` therefore lets
a join wait on its connection attempt. In `VoiceWorker` the worker's own steps
and its idle timeout are weakly fair, and a `Wake` in the mailbox is strongly
fair: its branch is ready in every `select!`, which other branches win only
sometimes. Decoders need not make progress. In `DecoderTask` the
task's own steps are weakly fair, in two groups: resolving with its timer, and
the rest with the abort, and so is the worker's receive. Nothing is assumed of
yt-dlp and FFmpeg: `TaskSettles` rests on the timer, and `EndReported` only
speaks of an FFmpeg that has exited. `PlaySession` has safety properties only
and states no fairness.

**Deadlock** is checked in all passing runs. `vm_shutdown_hangs` turns it off,
for there a temporal property states the failure.

**What the violations say.** They are recorded under `findings`. The manager
takes a connecting worker for a connected one; a playback command aborts it and
leaves the bot in the channel. The shutdown does not drain the event channel it
depends on. The idle recheck and the clear are two critical sections. The clear
of an old worker hits the queue of the next session; so may a `/previous` left
in its mailbox, which takes back the next session's track, and which `TrackOnce`
and `OnlyOwnerFinishes` therefore have to except. A queue edit, and the
enqueue of a `/play`, may outlive the session that accepted its caller's
channel.

`ShutdownDisconnects` excepts the join that was cancelled by a command, the one
`vm_not_connected` is about; it knows it by its guild and channel, so that a
later session in the same channel is excepted with it. `GatewayResponsive` and
`ShutdownCompletes` hold in `vm_liveness` because the event channel has room
there. `vm_shutdown_hangs` shows what a full one does to the shutdown; the loop
suffers in the same way, though docs/ARCHITECTURE.md:72 says that it "must
remain responsive". With an event channel and a mailbox of one place each,
`GatewayResponsive` fails without any ctrl-c: a `JoinTimedOut` fills the event
channel, a playback command the mailbox, the loop waits to send a second one
(`voice_manager.rs:446`), and the worker, whose session has just failed, waits
to send `Stopped`. The real program needs 64 events and 16 commands for that.

## 4. The proofs

Every safety property that a passing run checks, invariant, action property or
refinement, is also a theorem, for every value of the constants that the
`ASSUME` named with it allows. `PROJECT.json` lists the theorems; what follows
is why each invariant had to be strengthened to be inductive.

**`PlaybackStoreProofs`** (`BoundAssumption`, `LimitAssumption`, for the views
`ViewAssumption`). `Owned` says that every track a guild's player or history
holds is in `issued` of that guild, that `issued` is disjoint between guilds,
and the types; isolation alone is not inductive, because it does not say where
an id in use came from. `TypeCorrect`, `Isolation`, `HistoryBound` and
`Freshness` follow. The lemmas of **`GuildPlayerProofs`** show that each operator
of `GuildPlayer` yields a player over the same tracks, and how often each track
is queued afterwards. `NothingLost` (`TracksKept`) rests on that, with one lemma
per operation for what it adds or takes: the number of
places a track has in a queue is the cardinality of a set, which adds up under
concatenation and is kept by every rearrangement, the moves included.
`NumbersAreNames` needs that no player holds more than one track beyond the
bound (`ShortCorrect`), so that there is a last page, and that division puts
every position on exactly one page.

**`VoiceManagerProofs`** (`BoundAssumption`, `DistinctAssumption`) has three
invariants that build on one another:

* `Typed` (`TypedCorrect`, `TypeCorrect`). The types alone are not inductive:
  answering a call must find a call that was issued. So `Typed` says that the
  control channel, the loop, the pending map, the workers and their mailboxes
  only hold responses of issued requests, and that whatever the map, a waiting
  handler or the shutdown names is a task that was started.
* `Sessions` (`JoiningXorConnected`, `SessionsUndisturbed`). While `leave_voice`
  waits for a mailbox its guild has no session, and no guild has one after
  ctrl-c; without the first, the voice update that ends `leave_voice` could hit
  a later session. A `Stopped` event that matches the entry can only find the
  guild connected, and a timeout that matches only joining.
* `Supervised` (`NoOrphans`, `EntriesHaveWorkers`). A `Stopped` event in the
  channel names a task that has ended and its guild, so that handling it unhooks
  no other worker; generations above `next_id` are unused, so that a new worker
  replaces none; and a `Shutdown` in a mailbox stays there until it is taken.

`JoinsHaveTimers` needs no strengthening but the types.

**`VoiceSessionProofs`** (the same assumptions) goes on from there:

* `Held` (`AnsweredOnce`). `OneHolder` counts the holders of a response, and a
  count says nothing of where they are. `Held` says that the five places a
  response can be in (control channel, loop, pending join, connecting worker,
  mailbox) hold a waiting request in one of them exactly, at one place there,
  and an answered one in none.
* `Parted` (`ShutdownLeavesVoice`). The property is about the last state; the
  invariant says at every state who will still leave the channel that Discord
  shows, as long as no update fails: a pending join, the worker of a map entry,
  the handler of a `/leave`, the shutdown, or nobody, in the one case that the
  property excepts. It needs the reason each worker stops for, and that its
  `Stopped` event says that reason.
* `Asked`: each response waits where requests of its kind, guild and channel
  wait, so that the answer it gets is one for its kind and from the connection
  of its caller's channel.
* `Told` (`ToldCorrect`): a task that no longer connects has told the caller of
  its join, and no two tasks were started for one join, so that a join has one
  link and a playback command in a mailbox is carried out over one whose caller
  was answered.
* `Refines` (`SessionSpec`). The initial states map to those of `VoiceSession`,
  and each action maps to one of its actions or to a stutter. The lemmas are of
  three kinds: what an action does to each guild's session (stays, begins,
  connects, ends), what it does to the link of each join, and what it does to
  each call (is issued, taken up, answered or left alone); an action of
  `VoiceSession` is then put together from the three.

**`PlaySessionProofs`** (`BoundAssumption`, `DistinctAssumption`, and
`FiniteAssumption` where requests are counted):

* `Types` (`TypesCorrect`), then `Counted` (`CountedCorrect`, `TypeCorrect`).
  `TypeOK` bounds the length of a mailbox and the number of tracks. Neither
  bound is inductive: `Counted` says that a command that waits has its request
  in one mailbox, once, so that a mailbox maps one-to-one into the commands and
  one `Shutdown`, that no listed worker was told to leave, so that it has no
  `Shutdown` yet, and that every `/play` that may still enqueue was let in while
  there was room.
* `Held` (`HeldCorrect`, `CurrentIsPlayed`): the current track is always in the
  hands of a worker. `NowHasPlayer` alone is not inductive, for a worker that
  begins a track, connects or ends forgets what it held; `FreeHands` says that in
  those phases it holds none. `InHands` also says what the holder has read: if it
  is about to rewind the queue, what it puts back is the current track, so that
  the rewind gives up the right one, and an old worker that rewinds with
  another's track (`RewindNow`) leaves a player whose current track is gone or
  held as before.
* `OwnersFinish`: only the worker that plays the current track finishes it, and
  only a `/previous` that read it as current takes it back. It rests on the types
  alone; the lemmas `NowUntouched` and `RewindNow` say which operators leave the
  current track alone.
* `TracksStayWhole` (`TrackOnce`) needs `Known`: what is current, queued,
  remembered or in hand was enqueued, so that an enqueue adds none of it again.
  The places of a track in the queue and in the workers' hands are then counted
  over every step; `RewindQueue` is the one that may add to the sum.

**`VoiceWorkerProofs`** (`BoundAssumption`) has one invariant for all of
`TypeCorrect`, `SlotsAgree`, `SpeakingIsMirrored`, `IdleIsArmed` and
`DecoderCarriesOn`. That the next frame carries on where the playback is needs
the whole channel (`Buffered`): consecutive frames with the worker's volume, and
at most one last event behind them. That player and worker agree on the current
track needs what a handler keeps in its locals between two of its critical
sections (`JobKept`), for a command may act there, and that a current track is
only missing when the manager has let go of the worker and cleared the player. `SeekAloneJumps` follows from
it step by step, and `Refines` (`JukeboxSpec`) too: most steps of the worker are
a stutter of `Jukebox`, the steps that take, finish or put back a track are each
an action of it.

**`DecoderTaskProofs`** (`BoundAssumption` of `OpusStream`) starts with the
stream. What `FlattenSeq` makes of the packets is shown by induction on their
number, in the form of a least counterexample, for the induction theorems of the
library cannot be instantiated here. `StreamInv` says where in the media the
reader is, that what it has collected ends there and starts where a packet
starts, and that it can only be lost within a packet if the one wrong flag is
behind it. `FramesWhole` alone, which only sees what has been returned, is far
from inductive. `Handed` then carries this to the other end of the channel: the
frames received, those in the channel and the one being sent are the frames
returned, in order. `TypeCorrect`, `NeverSpliced`, `Bounded`,
`NothingLeftBehind` and `Delivers` (`StreamSpec`) follow.

**`CommandInputProofs`** (`SeekAssumption`, `EntryAssumption`,
`PlaylistAssumption`). `SeeksAsRead`: the checked arithmetic of
`parse_seek_position` is compared with the recursive `Meaning`, whose values for
one, two and three fields are worked out; a value that overflows on the way is
one whose meaning does not fit. `QueuesAsAsked` (`PlaylistAsAsked`): a finite set
of places has an increasing enumeration (by induction on the largest), its n-th
place has n - 1 before it, so that taking the first of them is a condition on
how many are before each; filtering what is left keeps the order.

**What stays with TLC.** Liveness: `CallsAnswered`, `ShutdownCompletes`,
`GatewayResponsive`, `QueueAdvances`, `TaskSettles` and `EndReported` need
fairness and `ENABLED`, which the provers do not handle. That the passing runs
do not deadlock is about `ENABLED` too. The violations of section 3 are
counterexamples, which TLC finds. The three refinements are about safety only:
`VoiceSession`, `Jukebox` and `FrameStream` state no fairness.

## 5. Plan

Done: the stores, the manager, the worker, the decoder task with both processes,
the composition of commands and sessions, an abstract specification for each of
manager, worker and stream, and the proofs of every safety property that is
checked. Next: liveness in `PlaySession`, that a queue in an overlapped session
advances, checked by TLC.

### Not modelled

* Audio, Opus encoding and DAVE (the Gloamwire library), the command lines of
  FFmpeg and yt-dlp, HTTP headers, and the validation of Opus headers: data that
  no state change depends on.
* The metadata of tracks beside title and locator. A `duration` that is finite
  but above `u64::MAX` seconds makes `Duration::from_secs_f64` panic
  (`ytdlp.rs:285`); floating-point values are out of TLC's reach. Whether a
  locator that falls back to `url` (`ytdlp.rs:261`) expires while it is queued
  is yt-dlp's knowledge.
* The words and lengths of replies, the formatting of positions and of
  `/history`, autocomplete, diagnostics, tracing. The position that the reply of
  `/play` names (`play.rs:164`) is an observation of the past by then.
* The loop mode that `TrackEnds` reads before the player applies it
  (`voice_manager.rs:902`): it is in the models, but no document says what the
  history must hold if a `/loop` comes in between.
* `/leave` does not check its caller's channel, though `docs/ARCHITECTURE.md:255`
  lists it among the commands that do: a missing check leaves no step to model.
* An error of the Gateway connection or the cache that ends `main` with `?`,
  after which nothing of the program is left; a panic in a worker, which would
  leave its map entry behind: the code shows no reachable one.
