------------------------------ MODULE DecoderTask ------------------------------
(***************************************************************************)
(* A decoder task from its start to its end (ActivePlayback::spawn and     *)
(* run_decoder in src/src/voice_manager.rs): it asks yt-dlp where the      *)
(* media is (YtDlp), opens an FFmpeg on it (OpusStream) and sends frame    *)
(* after frame to the voice worker, then one event that says how it ended. *)
(*                                                                         *)
(* The worker receives when it likes and may cancel at any time: the       *)
(* channel is closed at once, but the task only learns of it at its next   *)
(* await, from the abort or from a send that fails.  Both processes are    *)
(* external: they may exit at any time, fail, or never return.             *)
(***************************************************************************)
EXTENDS OpusStream, YtDlp

CONSTANT FrameCapacity   \* DECODER_FRAME_CAPACITY

ASSUME CapacityAssumption == FrameCapacity \in Nat \ {0}

VARIABLES
  task,       \* where run_decoder is
  process,    \* the yt-dlp process
  printed,    \* what it printed
  events,     \* the channel to the worker
  listening,  \* the worker still has the other end of it
  received,   \* the frames it received
  report      \* the last event it received, if that was not a frame

resolver == << process, printed >>
worker == << listening, received, report >>
vars == << stream, task, resolver, events, worker >>

NoDocument == [kind |-> "none", items |-> << >>]

(* What one yt-dlp may print, for a single media. *)
Printed == Documents(BoundedSeq(PrintedEntries, 1)) \union {NoDocument}

Init ==
  /\ Unopened
  /\ task = "resolving" /\ process = "none" /\ printed = NoDocument
  /\ events = << >> /\ listening = TRUE /\ received = << >> /\ report = "none"

------------------------------------------------------------------------------
(* run_json: one yt-dlp process *)

Spawn ==
  /\ task = "resolving" /\ process = "none"
  /\ \/ process' = "running" /\ UNCHANGED << task, outcome >>
     \/ process' = "failed" /\ task' = "MediaResolution" /\ outcome' = "error"
  /\ UNCHANGED << source, child, pipe, at, page, discarding, partial, pending,
                  frames, printed, events, worker >>

(* It exits, with a JSON document, with something else or with a failure. *)
YtDlpExits ==
  /\ process = "running"
  /\ \/ process' = "succeeded" /\ printed' \in Printed
     \/ process' = "failed" /\ UNCHANGED printed
  /\ UNCHANGED << stream, task, events, worker >>

(* Mutant: yt-dlp is waited for without a timer. *)
TimesOutNever == FALSE /\ UNCHANGED vars

(* timeout drops command.output(), and with it the process. *)
TimesOut ==
  /\ task = "resolving" /\ process = "running"
  /\ process' = "killed"
  /\ task' = "MediaResolution" /\ outcome' = "error"
  /\ UNCHANGED << source, child, pipe, at, page, discarding, partial, pending,
                  frames, printed, events, worker >>

Usable == process = "succeeded" /\ printed # NoDocument /\ ParsePlayableMedia(printed) = "none"

Resolves ==
  /\ task = "resolving" /\ process \in {"succeeded", "failed"}
  /\ \/ Usable /\ task' = "opening" /\ UNCHANGED outcome
     \/ ~ Usable /\ task' = "MediaResolution" /\ outcome' = "error"
  /\ printed' = NoDocument
  /\ UNCHANGED << source, child, pipe, at, page, discarding, partial, pending,
                  frames, process, events, worker >>

------------------------------------------------------------------------------
(* run_decoder on its stream *)

OpenStream ==
  /\ task = "opening"
  /\ \/ Open /\ task' = "reading"
     \/ OpenFails /\ task' = "DecoderStart"
  /\ UNCHANGED << resolver, events, worker >>

(* The events that tell how the task ended are named in `task'. *)
CallStream ==
  /\ task = "reading"
  /\ NextFrame \/ Read
  /\ task' = CASE outcome' = "end"   -> "Finished"
               [] outcome' = "error" -> "DecoderRead"
               [] outcome' = "open"  -> IF frames' # frames THEN "sending" ELSE "reading"
  /\ UNCHANGED << resolver, events, worker >>

FFmpeg ==
  /\ MuxPage \/ Exits
  /\ UNCHANGED << task, resolver, events, worker >>

Frame(packet) == [kind |-> "Frame", packet |-> packet]
End(kind) == [kind |-> kind, packet |-> 0]

HasRoom == listening /\ Len(events) < FrameCapacity

SendFrame ==
  /\ task = "sending" /\ HasRoom
  /\ events' = Append(events, Frame(Head(Last(frames)).packet))
  /\ task' = "reading"
  /\ UNCHANGED << stream, resolver, worker >>

Ends == {"Finished", "MediaResolution", "DecoderStart", "DecoderRead"}

(* The stream, if there is one, is dropped when run_decoder returns. *)
SendEnd ==
  /\ task \in Ends /\ HasRoom
  /\ events' = Append(events, End(task))
  /\ task' = "over" /\ Drop
  /\ UNCHANGED << resolver, worker >>

(* Nobody listens any more: shutdown, or just the return. *)
SendFails ==
  /\ task \in {"sending"} \union Ends /\ ~ listening
  /\ task' = "over" /\ Drop
  /\ UNCHANGED << resolver, events, worker >>

(* Mutant: an aborted task lets go of FFmpeg without stopping it. *)
AbortedLeavesChild ==
  /\ task # "over" /\ ~ listening
  /\ task' = "over"
  /\ process' = IF process = "running" THEN "killed" ELSE process
  /\ UNCHANGED << stream, printed, events, worker >>

(* task.abort(): the future is dropped where it waits. *)
Aborted ==
  /\ task # "over" /\ ~ listening
  /\ task' = "over" /\ Drop
  /\ process' = IF process = "running" THEN "killed" ELSE process
  /\ UNCHANGED << printed, events, worker >>

------------------------------------------------------------------------------
(* The voice worker *)

Receive ==
  /\ listening /\ events # << >>
  /\ events' = Tail(events)
  /\ IF Head(events).kind = "Frame"
     THEN received' = Append(received, Head(events).packet) /\ UNCHANGED report
     ELSE report' = Head(events).kind /\ UNCHANGED received
  /\ UNCHANGED << stream, task, resolver, listening >>

(* ActivePlayback::cancel: a skip, a seek, a stop, the end of the session. *)
Cancel ==
  /\ listening /\ report = "none"
  /\ listening' = FALSE /\ events' = << >>
  /\ UNCHANGED << stream, task, resolver, received, report >>

------------------------------------------------------------------------------
Resolve == Spawn \/ TimesOut \/ Resolves

Run == OpenStream \/ CallStream \/ SendFrame \/ SendEnd \/ SendFails \/ Aborted

(* The task is over. *)
Done == task = "over" /\ events = << >> /\ UNCHANGED vars

Next == Resolve \/ YtDlpExits \/ Run \/ FFmpeg \/ Receive \/ Cancel \/ Done

Spec == Init /\ [][Next]_vars

(* The task is scheduled, its timer fires and an abort arrives; the worker  *)
(* that does not cancel receives.  Nothing is assumed of the processes.     *)
FairSpec == Spec /\ WF_vars(Resolve) /\ WF_vars(Run) /\ WF_vars(Receive)

------------------------------------------------------------------------------
(* The types of the stream, of the task that pulls it, of the yt-dlp       *)
(* before it and of the channel to the worker.                             *)
TypeOK ==
  /\ StreamTypeOK
  /\ task \in {"resolving", "opening", "reading", "sending", "over"} \union Ends
  /\ process \in {"none", "running", "succeeded", "failed", "killed"}
  /\ printed \in Printed
  /\ events \in Seq([kind : {"Frame"} \union Ends, packet : Nat])
  /\ Len(events) <= FrameCapacity
  /\ listening \in BOOLEAN /\ received \in Seq(Nat)
  /\ report \in {"none"} \union Ends

(* A task leaves no subprocess behind, however it ends ("dropping the      *)
(* returned stream cancels the decoder instead of leaving a subprocess     *)
(* behind"), and never runs both at a time.                                *)
NoOrphans ==
  /\ task = "over" => process # "running" /\ child # "running"
  /\ process = "running" => task = "resolving" /\ child = "none"

(* The worker receives the frames of the source, each once and in order,   *)
(* and is told of the end only after all of them, through the stream and   *)
(* the channel: FrameStream.                                               *)
Stream == INSTANCE FrameStream
  WITH audio <- {n \in DOMAIN packets : packets[n].kind = "audio"},
       sent <- received,
       outcome <- CASE ~ listening -> "stopped"
                    [] listening /\ report = "none" -> "open"
                    [] listening /\ report = "Finished" -> "end"
                    [] OTHER -> "error",
       lossy <- misflagged

StreamSpec == Stream!Spec

(* A yt-dlp that never answers holds nobody up: after its time the task    *)
(* goes on, or reports that it cannot, and a cancelled task is gone.       *)
TaskSettles ==
  /\ (task = "resolving") ~> (task \in {"opening", "over"} \/ report = "MediaResolution")
  /\ ~ listening ~> task = "over"

(* Once FFmpeg is gone the worker gets to the end of the track, unless it  *)
(* cancels it itself: it cannot wait for a frame that never comes.         *)
EndReported == (child \in {"succeeded", "failed"}) ~> (report # "none" \/ ~ listening)
===============================================================================
