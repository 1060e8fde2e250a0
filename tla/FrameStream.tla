----------------------------- MODULE FrameStream -----------------------------
(***************************************************************************)
(* What a decoder stream promises its reader (FfmpegOpusStream::next_frame *)
(* in src/src/media/decoder.rs): the encoded frames of a source, each      *)
(* once and in order, up to a proper end, an error, or the reader's own    *)
(* decision to stop.  The end is only reported once nothing is missing.    *)
(***************************************************************************)
EXTENDS Naturals, Sequences, FiniteSetsExt

VARIABLES
  audio,     \* the numbers of the frames in the source
  sent,      \* the frames delivered so far
  outcome,   \* "open", "end", "error" or "stopped"
  lossy      \* the source is malformed and frames may be missing

vars == << audio, sent, outcome, lossy >>

Init == audio \subseteq Nat /\ sent = << >> /\ outcome = "open" /\ lossy = FALSE

(* The frames that come after everything delivered so far. *)
Missing == {n \in audio : \A i \in DOMAIN sent : sent[i] < n}

Deliver ==
  /\ outcome = "open"
  /\ \E n \in Missing :
       /\ lossy \/ \A m \in Missing : n <= m
       /\ sent' = Append(sent, n)
  /\ UNCHANGED << audio, outcome, lossy >>

End ==
  /\ outcome = "open" /\ (lossy \/ Missing = {})
  /\ outcome' = "end"
  /\ UNCHANGED << audio, sent, lossy >>

Fail ==
  /\ outcome = "open"
  /\ outcome' \in {"error", "stopped"}
  /\ UNCHANGED << audio, sent, lossy >>

Malform == lossy' = TRUE /\ UNCHANGED << audio, sent, outcome >>

Next == Deliver \/ End \/ Fail \/ Malform

Spec == Init /\ [][Next]_vars
==============================================================================
