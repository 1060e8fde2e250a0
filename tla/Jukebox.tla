------------------------------- MODULE Jukebox -------------------------------
(***************************************************************************)
(* What a guild's playback promises its listeners, without the decoder,    *)
(* the mailbox and the locks: one track at a time, the head of the queue   *)
(* first, each from its beginning and frame after frame until it is over,  *)
(* skipped or taken back; what was heard to its end is looped as the mode  *)
(* says, and what was heard may enter the history.  Only a session that is *)
(* on its way out may still be heard when its track is no longer the       *)
(* current one.  VoiceWorker implements this module, though it takes       *)
(* several steps where this one takes one.                                 *)
(***************************************************************************)
EXTENDS GuildPlayer

CONSTANTS TrackFrames, HistoryLimit

VARIABLES
  player,    \* current track, queue and loop mode
  history,   \* tracks heard, oldest first
  sound,     \* of the track that was started: "playing", "ended" or "silent"
  position,  \* frames of it that were heard
  paused,
  serving    \* the session is not on its way out

vars == << player, history, sound, position, paused, serving >>

Init ==
  /\ player = DefaultPlayer /\ history = << >>
  /\ sound = "silent" /\ position = 0 /\ paused = FALSE /\ serving = TRUE

------------------------------------------------------------------------------
Quiet(how) == sound' = how /\ position' = 0 /\ paused' = FALSE

(* Users set the loop mode, add to the queue, shorten and reorder it. *)
SetLoop == \E mode \in LoopModes : player' = SetLoopMode(player, mode)

Add ==
  /\ Len(player'.queue) = Len(player.queue) + 1
  /\ player' = [player EXCEPT !.queue = Append(@, Last(player'.queue))]
  /\ Last(player'.queue) \notin
       ToSet(player.queue) \union ToSet(history) \union {player.now}

Rearrange ==
  /\ player' = [player EXCEPT !.queue = player'.queue]
  /\ \E f \in Injection(DOMAIN player'.queue, DOMAIN player.queue) :
       player'.queue = [i \in DOMAIN player'.queue |-> player.queue[f[i]]]

Edit ==
  /\ UNCHANGED << history, sound, position, paused, serving >>
  /\ SetLoop \/ Add \/ Rearrange

Start ==
  /\ sound # "playing" /\ player.now = NoTrack /\ player.queue # << >>
  /\ player' = [player EXCEPT !.now = Head(player.queue), !.queue = Tail(@)]
  /\ sound' = "playing" /\ position' = 0 /\ paused' = FALSE
  /\ UNCHANGED << history, serving >>

Hear ==
  /\ sound = "playing" /\ ~ paused
  /\ position' = position + 1
  /\ UNCHANGED << player, history, sound, paused, serving >>

Seek ==
  /\ sound = "playing"
  /\ position' \in 0 .. TrackFrames
  /\ UNCHANGED << player, history, sound, paused, serving >>

PauseOrResume ==
  /\ sound = "playing"
  /\ paused' = ~ paused
  /\ UNCHANGED << player, history, sound, position, serving >>

(* The current track is heard to its end, *)
PlayedOut ==
  /\ sound = "playing" /\ ~ paused /\ position >= TrackFrames
  /\ Quiet("ended")
  /\ UNCHANGED << player, history, serving >>

(* or it is broken off. *)
BreakOff ==
  /\ sound = "playing"
  /\ Quiet("silent")
  /\ UNCHANGED << player, history, serving >>

(* It is no longer the current one, and may be remembered.  Only a track    *)
(* that was heard to its end is looped.                                     *)
GiveUp ==
  /\ player.now # NoTrack /\ sound # "playing"
  /\ player' = [player EXCEPT !.now = NoTrack,
                              !.queue = IF sound = "ended" THEN Requeued(player) ELSE @]
  /\ history' \in {history, Remember(history, player.now, HistoryLimit)}
  /\ Quiet("silent")
  /\ UNCHANGED serving

(* /previous: the interrupted track waits behind the one that is taken back *)
(* out of the history.                                                      *)
TakeBack ==
  /\ sound = "silent" /\ history # << >>
  /\ player' = [player EXCEPT
       !.now = NoTrack,
       !.queue = << Last(history) >>
                   \o (IF player.now = NoTrack THEN << >> ELSE << player.now >>) \o @]
  /\ history' = Front(history)
  /\ UNCHANGED << sound, position, paused, serving >>

(* /stop, or the end of a session. *)
Clear ==
  /\ player' = DefaultPlayer /\ Quiet("silent")
  /\ UNCHANGED << history, serving >>

(* The session is told to stop, or has stopped. *)
Leave ==
  /\ serving /\ serving' = FALSE
  /\ UNCHANGED << player, history, sound, position, paused >>

(* From then on the player may be cleared although a track is still heard;  *)
ClearLate ==
  /\ ~ serving
  /\ player' = DefaultPlayer
  /\ UNCHANGED << history, sound, position, paused, serving >>

(* what is heard to its end after that is not looped.                       *)
Fade ==
  /\ ~ serving /\ player.now = NoTrack /\ sound = "ended"
  /\ Quiet("silent")
  /\ UNCHANGED << player, history, serving >>

(* The next session finds nothing of the last. *)
Join ==
  /\ ~ serving /\ serving' = TRUE
  /\ player.now = NoTrack /\ sound = "silent"
  /\ UNCHANGED << player, history, sound, position, paused >>

Next ==
  \/ Edit \/ Start \/ Hear \/ Seek \/ PauseOrResume \/ PlayedOut \/ BreakOff
  \/ GiveUp \/ TakeBack \/ Clear \/ Leave \/ ClearLate \/ Fade \/ Join

Spec == Init /\ [][Next]_vars
==============================================================================
