----------------------------- MODULE VoiceSession -----------------------------
(***************************************************************************)
(* What Sonoryn promises the users of its voice commands, without the      *)
(* Gateway loop, the channels, the timers and the workers that keep the    *)
(* promise: a guild has at most one voice session, Discord is asked for    *)
(* the channel of that session, and what a caller is told                  *)
(* (VoiceJoinResult, VoiceLeaveResult and PlaybackControlResult in         *)
(* src/src/gateway_control.rs) is what has come of the request.            *)
(* VoiceManager implements this module.                                    *)
(*                                                                         *)
(* A session is "connected" for /leave and for the playback commands once  *)
(* both halves of Discord's answer to the join are there.  Its link, the   *)
(* voice connection, is only being made then, and the caller of the join   *)
(* is told when it is made.  Hence the one thing the code leaves open: a   *)
(* leave or ctrl-c may end the session before that, and the caller of the  *)
(* join may be told Joined all the same ("overtaken").                     *)
(*                                                                         *)
(* A step may answer several requests and move several guilds, as the end  *)
(* of a worker and ctrl-c do.                                              *)
(***************************************************************************)
CONSTANTS Guilds, Channels, Calls, NoChannel, NoCall

VARIABLES
  call,     \* the requests: what is asked, and how far they are
  session,  \* each guild's voice session
  link,     \* how far the voice connection of each join is
  voice,    \* the channel Discord was last asked to have the bot in
  open      \* ctrl-c has not come

------------------------------------------------------------------------------
Unissued ==
  [kind |-> "none", guild |-> NoChannel, channel |-> NoChannel, answer |-> "none"]

Requests ==
  [kind : {"join", "leave", "playback"}, guild : Guilds, channel : Channels,
   answer : {"none", "Failed"}]

NoSession == [at |-> "absent", channel |-> NoChannel, by |-> NoCall]

Joining(c) == [at |-> "joining", channel |-> call[c].channel, by |-> c]

Connected(c) == [at |-> "connected", channel |-> call[c].channel, by |-> c]

Init ==
  /\ call = [c \in Calls |-> Unissued]
  /\ session = [g \in Guilds |-> NoSession]
  /\ link = [c \in Calls |-> "none"]
  /\ voice = [g \in Guilds |-> NoChannel]
  /\ open = TRUE

------------------------------------------------------------------------------
(* A request is turned down on sight, or accepted and answered later. *)

(* The guild's session when c is answered or accepted, and after that. *)
Now(c) == session[call[c].guild]
Then(c) == session'[call[c].guild]

MayAccept(c) ==
  CASE call[c].kind = "join" -> Now(c) = NoSession /\ Then(c) = Joining(c)
    [] call[c].kind = "leave" -> Now(c).at = "connected" /\ Then(c) = NoSession
    [] call[c].kind = "playback" ->
         Now(c).at = "connected" /\ Now(c).channel = call[c].channel

(* What may be told a caller whose request was not accepted. *)
Refusal(c, answer) ==
  \/ answer = "Failed"
  \/ answer = "AlreadyConnected" /\ call[c].kind = "join" /\ Now(c).at = "connected"
  \/ answer = "InProgress" /\ call[c].kind = "join" /\ Now(c).at = "joining"
  \/ answer = "NotConnected" /\ call[c].kind = "leave" /\ Now(c) = NoSession
  \/ answer = "NotConnected" /\ call[c].kind = "playback" /\ Now(c).at # "connected"
  \/ /\ answer = "WrongVoiceChannel" /\ call[c].kind = "playback"
     /\ Now(c).at = "connected" /\ Now(c).channel # call[c].channel
  \/ /\ answer = "CancelledJoin" /\ call[c].kind = "leave"
     /\ Now(c).at = "joining" /\ Then(c) = NoSession
     /\ voice'[call[c].guild] = NoChannel

(* What ends a join or its session from outside: a leave, or ctrl-c. *)
Interrupted(g) ==
  \/ open /\ ~ open'
  \/ \E c \in Calls :
       /\ call[c].kind = "leave" /\ call[c].guild = g
       /\ call[c].answer = "none" /\ call'[c].answer # "none"

(* The join c is given up before its session connects ... *)
GivenUp(c) == Now(c) = Joining(c) /\ Then(c) = NoSession

(* ... or while its link is being made. *)
LinkFails(c) == link[c] \in {"connecting", "overtaken"} /\ link'[c] = "closing"

(* d joined the channel that the caller of c is in. *)
SameVoice(c, d) ==
  /\ call[d].kind = "join"
  /\ call[d].guild = call[c].guild /\ call[d].channel = call[c].channel

(* The link of the session that c is for goes away under it. *)
LinkLost(c) ==
  \E d \in Calls :
    /\ SameVoice(c, d)
    /\ link'[d] # link[d] /\ link'[d] \in {"closing", "ended"}

(* A command that comes while the link is being made cuts it off. *)
CutOff(c) ==
  \E d \in Calls :
    /\ call[d].kind = "playback" /\ SameVoice(d, c)
    /\ call[d].answer = "accepted" /\ call'[d].answer = "Dropped"

(* What may be told the caller of an accepted join, ... *)
JoinOutcome(c, answer) ==
  \/ /\ answer = "Joined" /\ link'[c] = "connected"
     /\ \/ link[c] = "connecting" /\ Then(c) = Connected(c)
        \/ link[c] = "overtaken"
  \/ /\ answer = "Cancelled"
     /\ \/ GivenUp(c) /\ Interrupted(call[c].guild)
        \/ LinkFails(c) /\ (link[c] = "overtaken" \/ CutOff(c))
  \/ answer = "Failed" /\ (GivenUp(c) \/ LinkFails(c))

(* ... of an accepted leave, ... *)
LeaveOutcome(c, answer) ==
  /\ Now(c) = NoSession
  /\ \/ answer = "Left" /\ voice'[call[c].guild] = NoChannel
     \/ answer = "Failed"

(* ... and of an accepted playback command. *)
PlaybackOutcome(c, answer) ==
  \/ /\ answer = "Handled"
     /\ \E d \in Calls : SameVoice(c, d) /\ link[d] = "connected"
  \/ answer = "Dropped" /\ LinkLost(c)
  \/ /\ answer = "Failed"
     /\ \E d \in Calls : SameVoice(c, d) /\ link[d] = "ended"

Outcome(c, answer) ==
  \/ call[c].kind = "join" /\ JoinOutcome(c, answer)
  \/ call[c].kind = "leave" /\ LeaveOutcome(c, answer)
  \/ call[c].kind = "playback" /\ PlaybackOutcome(c, answer)

CallStep(c) ==
  \/ call'[c] = call[c]
  \/ call[c] = Unissued /\ call'[c] \in Requests
  \/ /\ call[c].kind # "none"
     /\ call'[c] = [call[c] EXCEPT !.answer = call'[c].answer]
     /\ \/ call[c].answer = "none" /\ Refusal(c, call'[c].answer)
        \/ call[c].answer = "none" /\ call'[c].answer = "accepted" /\ MayAccept(c)
        \/ call[c].answer = "accepted" /\ Outcome(c, call'[c].answer)

------------------------------------------------------------------------------
(* The link of a join comes with its session, and its caller is told how   *)
(* the attempt went.                                                       *)
LinkStep(c) ==
  \/ link'[c] = link[c]
  \/ /\ link[c] = "none" /\ link'[c] = "connecting"
     /\ Now(c) = Joining(c) /\ Then(c) = Connected(c)
  \/ /\ link[c] = "connecting" /\ link'[c] = "overtaken"
     /\ Now(c) = Connected(c) /\ Then(c) = NoSession
     /\ Interrupted(call[c].guild)
  \/ /\ link[c] \in {"connecting", "overtaken"} /\ link'[c] = "connected"
     /\ call'[c].answer = "Joined"
  \/ LinkFails(c) /\ call'[c].answer \in {"Failed", "Cancelled"}
  \/ link[c] = "connected" /\ link'[c] = "closing"
  \/ link[c] = "closing" /\ link'[c] = "ended"

------------------------------------------------------------------------------
(* Asking Discord to have the bot out of g's voice, or failing to. *)
MayDisconnect(g) == voice'[g] \in {voice[g], NoChannel}

(* Only a guild without a session may be disconnected on its own. *)
Stay(g) ==
  /\ session'[g] = session[g]
  /\ IF session[g] = NoSession THEN MayDisconnect(g) ELSE voice'[g] = voice[g]

Begin(g) ==
  /\ open' /\ session[g] = NoSession
  /\ \E c \in Calls :
       /\ call'[c].answer = "accepted" /\ call[c].guild = g
       /\ session'[g] = Joining(c)
       /\ voice'[g] = call[c].channel

Connect(g) ==
  /\ session[g].at = "joining"
  /\ session'[g] = [session[g] EXCEPT !.at = "connected"]
  /\ link'[session[g].by] = "connecting"
  /\ voice'[g] = voice[g]

(* A join that ends before it connects is answered by that step, and a     *)
(* session whose link is being made is overtaken.                          *)
End(g) ==
  /\ session[g] # NoSession /\ session'[g] = NoSession
  /\ session[g].at = "joining" =>
       call'[session[g].by].answer \in {"Failed", "Cancelled"}
  /\ link'[session[g].by] # "connecting"
  /\ MayDisconnect(g)

(* ctrl-c ends every session, and none begins after it. *)
OpenStep ==
  open' = open \/ (~ open' /\ \A g \in Guilds : session'[g] = NoSession)

Next ==
  /\ \A c \in Calls : CallStep(c) /\ LinkStep(c)
  /\ \A g \in Guilds : Stay(g) \/ Begin(g) \/ Connect(g) \/ End(g)
  /\ OpenStep

Spec == Init /\ [][Next]_<< call, session, link, voice, open >>
==============================================================================
