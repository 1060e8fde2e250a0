------------------------------ MODULE OpusStream ------------------------------
(***************************************************************************)
(* A decoder stream (src/src/media/decoder.rs): FFmpeg writes Ogg pages    *)
(* into a pipe, OggPacketReader puts the segments of the pages back        *)
(* together into packets, FfmpegOpusStream hands out those that are audio. *)
(* The actions here are those of the stream; run_decoder, which opens it,  *)
(* pulls it and may be aborted at any point, is DecoderTask.               *)
(*                                                                         *)
(* A page is a list of segments.  A packet is as many segments as it needs *)
(* and ends with the first that is shorter than 255 bytes ("last"), so it  *)
(* may go on in the next page, which then says "continued".  Sizes are     *)
(* counted in segments and contents are the packet's number.  FFmpeg is    *)
(* external: it encodes some packets, cuts them into pages anywhere and    *)
(* may die at any point.  Two checks of the code cannot fail and are left  *)
(* out: a page of at most 255 segments never exceeds MAX_OGG_PAGE_BYTES,   *)
(* and the payload is read by the sum of its lacing values.                *)
(***************************************************************************)
EXTENDS Naturals, SequencesExt, FiniteSetsExt

CONSTANTS
  MaxPacket,     \* segments that fit in MAX_OGG_PACKET_BYTES
  PageSegments,  \* segments of a page (255)
  PipePages,     \* bound: pages the pipe holds before FFmpeg waits
  MaxPackets,    \* bound: packets of one stream
  Misflags       \* {FALSE}, or BOOLEAN to let one page have the wrong flag

ASSUME BoundAssumption ==
  /\ MaxPacket \in Nat \ {0} /\ PageSegments \in Nat \ {0}
  /\ PipePages \in Nat \ {0} /\ MaxPackets \in Nat
  /\ FALSE \in Misflags /\ Misflags \subseteq BOOLEAN

VARIABLES
  packets,     \* what FFmpeg encodes: the kind and the segments of each packet
  written,     \* how many segments it has put into pages
  misflagged,  \* some page had the wrong flag
  child,       \* the FFmpeg process
  pipe,        \* whole pages not yet read
  torn,        \* the pipe ends within a page
  at,          \* where next_frame is; "closed", then "idle" between two calls
  page,        \* segments of the current page still to be processed
  discarding,  \* discard_unknown_continuation
  partial,     \* OggPacketReader.partial
  pending,     \* OggPacketReader.pending
  frames,      \* the frames returned so far
  outcome      \* how the stream ended

source == << packets, written, misflagged, torn >>
stream == << source, child, pipe, at, page, discarding, partial, pending, frames,
             outcome >>

------------------------------------------------------------------------------
(* Headers are OpusHead and OpusTags.  An audio packet may be too large.  *)
PacketKinds ==
  [kind : {"header"}, segments : {1}] \union [kind : {"empty"}, segments : {1}]
    \union [kind : {"audio"}, segments : 1 .. MaxPacket + 2]

Segment(n, k) == [i \in 1 .. k |-> [packet |-> n, last |-> i = k]]

(* The segments of all packets, in order. *)
Media ==
  FlattenSeq([n \in DOMAIN packets |-> Segment(n, packets[n].segments)])

Whole(n) == Segment(n, packets[n].segments)

Unopened ==
  /\ packets \in BoundedSeq(PacketKinds, MaxPackets)
  /\ written = 0 /\ misflagged = FALSE
  /\ child = "none" /\ pipe = << >> /\ torn = FALSE
  /\ at = "closed" /\ page = << >> /\ discarding = FALSE
  /\ partial = << >> /\ pending = << >>
  /\ frames = << >> /\ outcome = "open"

------------------------------------------------------------------------------
(* FFmpeg *)

MidPacket == written > 0 /\ ~ Media[written].last

MuxPage ==
  /\ child = "running" /\ Len(pipe) < PipePages
  /\ \E n \in 1 .. PageSegments, wrong \in Misflags :
       /\ written + n <= Len(Media)
       /\ wrong => ~ misflagged
       /\ written' = written + n
       /\ misflagged' = (misflagged \/ wrong)
       /\ pipe' = Append(pipe, [continued |-> MidPacket # wrong,
                                segments |-> SubSeq(Media, written + 1, written + n)])
  /\ UNCHANGED << packets, child, torn, at, page, discarding, partial, pending,
                  frames, outcome >>

(* It succeeds when all is written, and may fail at any time, within a page *)
(* or between two.                                                          *)
Exits ==
  /\ child = "running"
  /\ \/ written = Len(Media) /\ child' = "succeeded" /\ UNCHANGED torn
     \/ child' = "failed" /\ torn' \in BOOLEAN
  /\ UNCHANGED << packets, written, misflagged, pipe, at, page, discarding,
                  partial, pending, frames, outcome >>

------------------------------------------------------------------------------
(* FfmpegOpusStream *)

(* kill_on_drop *)
Killed == IF child = "running" THEN "killed" ELSE child

(* open_with_options spawns FFmpeg. *)
Open ==
  /\ at = "closed" /\ outcome = "open"
  /\ child' = "running" /\ at' = "idle"
  /\ UNCHANGED << source, pipe, page, discarding, partial, pending, frames, outcome >>

OpenFails ==
  /\ at = "closed" /\ outcome = "open"
  /\ outcome' = "error"
  /\ UNCHANGED << source, child, pipe, at, page, discarding, partial, pending, frames >>

(* next_frame returns for the last time; FFmpeg may still be running. *)
Over(result) == outcome' = result /\ at' = "idle" /\ UNCHANGED child

(* run_decoder asks for the next frame, *)
NextFrame ==
  /\ at = "idle" /\ outcome = "open"
  /\ at' = "packet"
  /\ UNCHANGED << source, child, pipe, page, discarding, partial, pending,
                  frames, outcome >>

(* or drops the stream, within a call or after the last. *)
Drop ==
  /\ child' = Killed
  /\ outcome' = (IF outcome = "open" THEN "stopped" ELSE outcome)
  /\ at' = "closed"
  /\ pipe' = << >> /\ page' = << >> /\ partial' = << >> /\ pending' = << >>
  /\ UNCHANGED << source, discarding, frames >>

(* The next packet of the page: headers are skipped, an empty one is wrong. *)
TakePacket ==
  /\ at = "packet" /\ pending # << >>
  /\ pending' = Tail(pending)
  /\ LET packet == Head(pending)
         kind == packets[Head(packet).packet].kind
     IN  \/ /\ kind = "header"
            /\ UNCHANGED << at, child, frames, outcome >>
         \/ /\ kind = "empty"
            /\ Over("error") /\ UNCHANGED frames
         \/ /\ kind = "audio"
            /\ frames' = Append(frames, packet) /\ at' = "idle"
            /\ UNCHANGED << child, outcome >>
  /\ UNCHANGED << source, pipe, page, discarding, partial >>

(* Mutant: the end of the pipe is the end of the stream. *)
ChildEndsUnchecked ==
  /\ at = "wait" /\ child # "running"
  /\ Over("end")
  /\ UNCHANGED << source, pipe, page, discarding, partial, pending, frames >>

(* The pipe is empty and closed: how FFmpeg ended decides. *)
ChildEnds ==
  /\ at = "wait" /\ child # "running"
  /\ Over(IF child = "succeeded" THEN "end" ELSE "error")
  /\ UNCHANGED << source, pipe, page, discarding, partial, pending, frames >>

------------------------------------------------------------------------------
(* OggPacketReader *)

(* Mutant: pages are read ahead while the pipe has any. *)
ReadPageAhead ==
  /\ at = "packet" /\ pipe # << >>
  /\ pipe' = Tail(pipe)
  /\ page' = Head(pipe).segments
  /\ discarding' = (Head(pipe).continued /\ partial = << >>)
  /\ at' = "page"
  /\ UNCHANGED << source, child, partial, pending, frames, outcome >>

(* Mutant: a page always starts a packet. *)
ReadPageFresh ==
  /\ at = "packet" /\ pending = << >> /\ pipe # << >>
  /\ pipe' = Tail(pipe)
  /\ page' = Head(pipe).segments /\ partial' = << >> /\ discarding' = FALSE
  /\ at' = "page"
  /\ UNCHANGED << source, child, pending, frames, outcome >>

ReadPage ==
  /\ at = "packet" /\ pending = << >> /\ pipe # << >>
  /\ pipe' = Tail(pipe)
  /\ LET continued == Head(pipe).continued
     IN  \/ /\ continued \/ partial = << >>
            /\ page' = Head(pipe).segments
            /\ discarding' = (continued /\ partial = << >>)
            /\ at' = "page"
            /\ UNCHANGED << child, outcome >>
         \/ /\ ~ continued /\ partial # << >>
            /\ Over("error") /\ UNCHANGED << page, discarding >>
  /\ UNCHANGED << source, partial, pending, frames >>

(* Mutant: the size of a packet is looked at when it is complete. *)
TakeSegmentUnbounded ==
  /\ at = "page" /\ page # << >> /\ ~ discarding
  /\ page' = Tail(page)
  /\ LET grown == Append(partial, Head(page))
     IN  IF Head(page).last
         THEN /\ partial' = << >> /\ pending' = Append(pending, grown)
         ELSE partial' = grown /\ UNCHANGED pending
  /\ UNCHANGED << source, child, at, pipe, discarding, frames, outcome >>

(* The rest of a packet whose start was never seen is passed over. *)
DiscardSegment ==
  /\ at = "page" /\ page # << >> /\ discarding
  /\ page' = Tail(page)
  /\ discarding' = ~ Head(page).last
  /\ UNCHANGED << source, child, at, pipe, partial, pending, frames, outcome >>

TakeSegment ==
  /\ at = "page" /\ page # << >> /\ ~ discarding
  /\ page' = Tail(page)
  /\ LET grown == Append(partial, Head(page))
     IN  \/ /\ Len(grown) > MaxPacket
            /\ Over("error") /\ UNCHANGED << partial, pending >>
         \/ /\ Len(grown) <= MaxPacket /\ Head(page).last
            /\ partial' = << >> /\ pending' = Append(pending, grown)
            /\ UNCHANGED << at, child, outcome >>
         \/ /\ Len(grown) <= MaxPacket /\ ~ Head(page).last
            /\ partial' = grown
            /\ UNCHANGED << at, child, outcome, pending >>
  /\ UNCHANGED << source, pipe, discarding, frames >>

EndPage ==
  /\ at = "page" /\ page = << >>
  /\ at' = "packet"
  /\ UNCHANGED << source, child, pipe, page, discarding, partial, pending,
                  frames, outcome >>

(* Mutant: only a clean exit closes the pipe. *)
EndPipeOnSuccess ==
  /\ at = "packet" /\ pending = << >> /\ pipe = << >> /\ child = "succeeded"
  /\ at' = "wait"
  /\ UNCHANGED << source, child, pipe, page, discarding, partial, pending,
                  frames, outcome >>

EndPipe ==
  /\ at = "packet" /\ pending = << >> /\ pipe = << >> /\ child # "running"
  /\ \/ (torn \/ partial # << >>) /\ Over("error")
     \/ ~ torn /\ partial = << >> /\ at' = "wait" /\ UNCHANGED << child, outcome >>
  /\ UNCHANGED << source, pipe, page, discarding, partial, pending, frames >>

------------------------------------------------------------------------------
Read ==
  \/ TakePacket \/ ReadPage \/ DiscardSegment \/ TakeSegment \/ EndPage
  \/ EndPipe \/ ChildEnds

------------------------------------------------------------------------------
(* The types of the stream; a packet under construction stays within       *)
(* MAX_OGG_PACKET_BYTES, and what is in memory is what FFmpeg wrote.       *)
StreamTypeOK ==
  /\ packets \in Seq(PacketKinds) /\ Len(packets) <= MaxPackets
  /\ written \in 0 .. Len(Media)
  /\ {misflagged, torn, discarding} \subseteq BOOLEAN
  /\ child \in {"none", "running", "succeeded", "failed", "killed"}
  /\ at \in {"closed", "idle", "packet", "page", "wait"}
  /\ pipe \in Seq([continued : BOOLEAN, segments : Seq(ToSet(Media))])
  /\ Len(pipe) <= PipePages
  /\ partial \in Seq(ToSet(Media)) /\ Len(partial) <= MaxPacket
  /\ page \in Seq(ToSet(Media)) /\ Len(page) <= PageSegments
  /\ pending \in Seq(Seq(ToSet(Media))) /\ frames \in Seq(Seq(ToSet(Media)))
  /\ outcome \in {"open", "end", "error", "stopped"}

(* No frame is ever put together from the pieces of two packets or misses  *)
(* a piece of its own, however packets are cut into pages: even if a page  *)
(* is marked wrongly packets are lost, never spliced.                      *)
FramesWhole ==
  \A packet \in ToSet(pending) \union ToSet(frames) :
    packet = Whole(Head(packet).packet)

(* "at most the current Ogg page plus completed packets from that page are *)
(* buffered, so a slow Discord sender cannot create an unbounded in-memory *)
(* decode queue".                                                          *)
ReadAheadBounded == Len(page) + Len(pending) <= PageSegments
===============================================================================
