-------------------------- MODULE VoiceSessionProofs --------------------------
(***************************************************************************)
(* What VoiceManager promises the users of its commands, for every number  *)
(* of guilds, channels and requests and for every capacity of its          *)
(* channels.  It rests on VoiceManagerProofs.                              *)
(*                                                                         *)
(* Part 1: Held, that each waiting request is in the hands of exactly one  *)
(* party.                                                                  *)
(* Part 2: Parted, who will have the bot leave voice.                      *)
(* Part 3: Asked, that a response waits where requests of its kind wait.   *)
(* Part 4: Told, that a join is settled before its worker goes on.         *)
(* Part 5: VoiceManager implements VoiceSession.                           *)
(***************************************************************************)
EXTENDS VoiceManagerProofs, FiniteSetTheorems

------------------------------------------------------------------------------
(* Part 1: who holds a response *)

(* The parties that may hold the response of call c. *)
InControl(c) == c \in ToSet(control)
InLoop(c) == gw.for = c
Joins(c) == {g \in Guilds : pending[g].caller = c}
Tasks(c) == {id \in Ids : worker[id].at = "connecting" /\ worker[id].caller = c}
Boxes(c) == {id \in Ids : c \in ToSet(worker[id].mailbox)}

(* The parties that hold it are control or not, loop or not, and the rest. *)
HeldBy(c, inControl, inLoop, joins, tasks, boxes) ==
  /\ InControl(c) <=> inControl
  /\ InLoop(c) <=> inLoop
  /\ Joins(c) = joins /\ Tasks(c) = tasks /\ Boxes(c) = boxes

HeldOnce(c) ==
  \/ HeldBy(c, TRUE, FALSE, {}, {}, {})
  \/ HeldBy(c, FALSE, TRUE, {}, {}, {})
  \/ \E g \in Guilds : HeldBy(c, FALSE, FALSE, {g}, {}, {})
  \/ \E id \in Ids : HeldBy(c, FALSE, FALSE, {}, {id}, {})
  \/ \E id \in Ids : HeldBy(c, FALSE, FALSE, {}, {}, {id})

HeldRight(c) ==
  IF Waiting(c) THEN HeldOnce(c) ELSE HeldBy(c, FALSE, FALSE, {}, {}, {})

(* No call is in s twice. *)
NoTwice(s) ==
  \A i, j \in 1 .. Len(s) : s[i] \in Calls /\ s[i] = s[j] => i = j

Held ==
  /\ \A c \in Calls : HeldRight(c)
  /\ NoTwice(control)
  /\ \A id \in Ids : NoTwice(worker[id].mailbox)
  /\ gw.at \notin {"route", "leave"} => gw.for = NoCall

(* Who holds a response is the only one, and its caller still waits. *)
LEMMA HolderOnly ==
  ASSUME NEW c \in Calls, HeldRight(c)
  PROVE  /\ InControl(c) => Waiting(c) /\ HeldBy(c, TRUE, FALSE, {}, {}, {})
         /\ InLoop(c) => Waiting(c) /\ HeldBy(c, FALSE, TRUE, {}, {}, {})
         /\ \A g \in Joins(c) :
              Waiting(c) /\ HeldBy(c, FALSE, FALSE, {g}, {}, {})
         /\ \A id \in Tasks(c) :
              Waiting(c) /\ HeldBy(c, FALSE, FALSE, {}, {id}, {})
         /\ \A id \in Boxes(c) :
              Waiting(c) /\ HeldBy(c, FALSE, FALSE, {}, {}, {id})
BY DEF HeldRight, HeldOnce, HeldBy

(* Taking the first element of a sequence without repeated calls. *)
LEMMA TakeOnce ==
  ASSUME NEW S, NEW s \in Seq(S), s # << >>, NoTwice(s)
  PROVE  /\ NoTwice(Tail(s))
         /\ Head(s) \in Calls => Head(s) \notin ToSet(Tail(s))
         /\ \A c \in Calls :
              c \in ToSet(Tail(s)) <=> c \in ToSet(s) /\ c # Head(s)
<1>1. /\ Tail(s) \in Seq(S) /\ Len(s) \in Nat \ {0}
      /\ Len(Tail(s)) = Len(s) - 1
      /\ \A i \in 1 .. Len(Tail(s)) : Tail(s)[i] = s[i + 1]
      /\ Head(s) = s[1]
  BY HeadTailProperties, EmptySeq, LenProperties
<1>2. DOMAIN Tail(s) = 1 .. Len(Tail(s))
  BY <1>1, LenProperties
<1>3. ToSet(s) = {Head(s)} \union ToSet(Tail(s))
  BY TakeFirst
<1> DEFINE t == Tail(s)
<1> HIDE DEF t
<1>4. NoTwice(t)
  <2> SUFFICES ASSUME NEW i \in 1 .. Len(t), NEW j \in 1 .. Len(t),
                      t[i] \in Calls, t[i] = t[j]
               PROVE  i = j
    BY DEF NoTwice
  <2>1. i + 1 \in 1 .. Len(s) /\ j + 1 \in 1 .. Len(s)
    BY <1>1 DEF t
  <2>2. s[i + 1] \in Calls /\ s[i + 1] = s[j + 1]
    BY <1>1 DEF t
  <2>3. i + 1 = j + 1
    BY <2>1, <2>2 DEF NoTwice
  <2> QED BY <2>3
<1>5. ASSUME Head(s) \in Calls, Head(s) \in ToSet(t) PROVE FALSE
  <2>1. PICK i \in 1 .. Len(t) : t[i] = Head(s)
    BY <1>2, <1>5 DEF ToSet, t
  <2>2. i + 1 \in 1 .. Len(s) /\ 1 \in 1 .. Len(s) /\ s[i + 1] = s[1]
    BY <1>1, <2>1 DEF t
  <2>3. i + 1 = 1
    BY <1>1, <1>5, <2>2 DEF NoTwice
  <2> QED BY <2>3
<1> QED BY <1>3, <1>4, <1>5 DEF t

(* Adding what is no call, or a call that is not there yet. *)
LEMMA AddOnce ==
  ASSUME NEW S, NEW s \in Seq(S), NEW e \in S, NoTwice(s),
         e \in Calls => e \notin ToSet(s)
  PROVE  NoTwice(Append(s, e))
<1> DEFINE t == Append(s, e)
<1>1. /\ t \in Seq(S) /\ Len(s) \in Nat /\ Len(t) = Len(s) + 1
      /\ \A i \in 1 .. Len(s) : t[i] = s[i]
      /\ t[Len(s) + 1] = e
  BY AppendProperties, LenProperties
<1>2. DOMAIN s = 1 .. Len(s)
  BY LenProperties
<1>3. ASSUME NEW i \in 1 .. Len(s) PROVE s[i] \in ToSet(s)
  BY <1>2 DEF ToSet
<1> HIDE DEF t
<1> SUFFICES ASSUME NEW i \in 1 .. Len(t), NEW j \in 1 .. Len(t),
                    t[i] \in Calls, t[i] = t[j]
             PROVE  i = j
  BY DEF NoTwice, t
<1>4. (i \in 1 .. Len(s) \/ i = Len(s) + 1) /\ (j \in 1 .. Len(s) \/ j = Len(s) + 1)
  BY <1>1
<1>5. CASE i \in 1 .. Len(s) /\ j \in 1 .. Len(s)
  BY <1>1, <1>5 DEF NoTwice
<1>6. CASE i \in 1 .. Len(s) /\ j = Len(s) + 1
  <2>1. e = s[i] /\ e \in Calls
    BY <1>1, <1>6
  <2> QED BY <1>3, <1>6, <2>1
<1>7. CASE i = Len(s) + 1 /\ j \in 1 .. Len(s)
  <2>1. e = s[j] /\ e \in Calls
    BY <1>1, <1>7
  <2> QED BY <1>3, <1>7, <2>1
<1> QED BY <1>4, <1>5, <1>6, <1>7

LEMMA HeldInit == Init => Held
<1> SUFFICES ASSUME Init PROVE Held
  OBVIOUS
<1>1. /\ control = << >> /\ gw = Selecting
      /\ \A id \in Ids : worker[id] = NoTask
      /\ \A g \in Guilds : pending[g] = NoPending
      /\ \A c \in Calls : call[c] = Unissued
  BY DEF Init
<1>2. NoTwice(<< >>) /\ ToSet(<< >>) = {}
  BY DEF NoTwice, ToSet
<1>3. ASSUME NEW c \in Calls PROVE HeldRight(c)
  <2>1. ~ InControl(c) /\ ~ InLoop(c)
    BY <1>1, <1>2, DistinctAssumption DEF InControl, InLoop, Selecting
  <2>2. Joins(c) = {} /\ Tasks(c) = {}
    BY <1>1, DistinctAssumption DEF Joins, Tasks, NoPending, NoTask
  <2>3. Boxes(c) = {}
    BY <1>1, <1>2 DEF Boxes, NoTask
  <2>4. ~ Waiting(c)
    BY <1>1 DEF Waiting, Unissued
  <2> QED BY <2>1, <2>2, <2>3, <2>4 DEF HeldRight, HeldBy
<1> QED BY <1>1, <1>2, <1>3 DEF Held, NoTask, Selecting

(* Call c is where it was, and answered or not as it was. *)
Stays(c) ==
  /\ call'[c] = call[c]
  /\ InControl(c)' <=> InControl(c)
  /\ InLoop(c)' <=> InLoop(c)
  /\ Joins(c)' = Joins(c) /\ Tasks(c)' = Tasks(c) /\ Boxes(c)' = Boxes(c)

LEMMA StaysRight ==
  ASSUME NEW c \in Calls, HeldRight(c), Stays(c)
  PROVE  HeldRight(c)'
<1>1. Waiting(c)' <=> Waiting(c)
  BY DEF Stays, Waiting
<1>2. \A a, b \in BOOLEAN : \A joins, tasks, boxes :
        HeldBy(c, a, b, joins, tasks, boxes)' <=>
          HeldBy(c, a, b, joins, tasks, boxes)
  BY DEF Stays, HeldBy
<1> QED BY <1>1, <1>2 DEF HeldRight, HeldOnce

(* An answer, once given, is final. *)
Final == \A c \in Calls : Answered(c) => call'[c] = call[c]

(* Steps after which every call stays or is held right, and which answer   *)
(* nobody twice.                                                           *)
LEMMA HeldStep ==
  ASSUME Held,
         \A c \in Calls : Stays(c) \/ (HeldRight(c)' /\ Waiting(c)),
         NoTwice(control)',
         \A id \in Ids : NoTwice(worker'[id].mailbox),
         gw'.at \notin {"route", "leave"} => gw'.for = NoCall
  PROVE  Held' /\ Final
<1>1. \A c \in Calls : HeldRight(c)'
  BY StaysRight DEF Held
<1>2. Final
  BY DEF Final, Stays, Waiting, Answered
<1> QED BY <1>1, <1>2 DEF Held

LEMMA OneAnswered ==
  ASSUME Typed, NEW d \in Issued, NEW a \in Answers, Answer(d, a)
  PROVE  /\ ~ Waiting(d)'
         /\ \A c \in Calls \ {d} : call'[c] = call[c]
<1>1. d \in Calls /\ call[d] \in Request
  BY IssuedRequest DEF Issued, Typed
<1>2. call'[d].answer = a
  BY <1>1 DEF Answer, AnswerAll, Request
<1>3. a # "none"
  BY DEF Answers
<1> QED BY <1>2, <1>3 DEF Answer, AnswerAll, Waiting

(* The call that the loop takes off its channel was only there. *)
LEMMA ReceivedOnce ==
  ASSUME Typed, Held, NEW d \in Calls, NEW kind, Receive(d, kind)
  PROVE  /\ d \in Issued /\ Waiting(d)
         /\ HeldBy(d, TRUE, FALSE, {}, {}, {})
         /\ NoTwice(control)' /\ gw.for = NoCall /\ gw.at = "select"
         /\ \A c \in Calls : InControl(c)' <=> InControl(c) /\ c # d
<1>1. control \in Seq(Issued) /\ control # << >> /\ d = Head(control)
      /\ control' = Tail(control) /\ gw.at = "select"
  BY DEF Receive, Typed, LoopTyped
<1>2. NoTwice(control) /\ HeldRight(d) /\ gw.for = NoCall
  BY <1>1 DEF Held
<1>3. /\ NoTwice(Tail(control))
      /\ \A c \in Calls : c \in ToSet(Tail(control)) <=>
                            c \in ToSet(control) /\ c # Head(control)
  BY <1>1, <1>2, TakeOnce
<1>4. InControl(d)
  BY <1>1, TakeFirst DEF InControl
<1>5. Waiting(d) /\ HeldBy(d, TRUE, FALSE, {}, {}, {})
  BY <1>2, <1>4, HolderOnly
<1>6. d \in Issued
  BY <1>5 DEF Waiting, Issued
<1> QED BY <1>1, <1>2, <1>3, <1>5, <1>6 DEF InControl

(* The tasks keep what they hold. *)
LEMMA SameTasks ==
  ASSUME UNCHANGED worker
  PROVE  \A c \in Calls : Tasks(c)' = Tasks(c) /\ Boxes(c)' = Boxes(c)
BY DEF Tasks, Boxes

LEMMA SameJoins ==
  ASSUME UNCHANGED pending
  PROVE  \A c \in Calls : Joins(c)' = Joins(c)
BY DEF Joins

(* A pending join goes away. *)
LEMMA JoinGone ==
  ASSUME Typed, NEW g \in Guilds,
         pending' = [pending EXCEPT ![g] = NoPending]
  PROVE  \A c \in Calls : Joins(c)' = Joins(c) \ {g}
BY DistinctAssumption DEF Typed, MapsTyped, Joins, NoPending

(* The caller of a pending join is held there and nowhere else. *)
LEMMA JoinCaller ==
  ASSUME Typed, Held, NEW g \in Guilds, HasPending(g)
  PROVE  LET d == pending[g].caller
         IN  /\ d \in Issued /\ Waiting(d)
             /\ HeldBy(d, FALSE, FALSE, {g}, {}, {})
             /\ \A c \in Calls \ {d} : g \notin Joins(c)
<1> DEFINE d == pending[g].caller
<1>1. d \in Issued /\ d \in Calls
  BY PendingTyped DEF IssuedJoin, Issued
<1>2. g \in Joins(d)
  BY DEF Joins
<1>3. HeldRight(d)
  BY <1>1 DEF Held
<1>4. Waiting(d) /\ HeldBy(d, FALSE, FALSE, {g}, {}, {})
  BY <1>1, <1>2, <1>3, HolderOnly
<1> QED BY <1>1, <1>4 DEF Joins

LEMMA IssueHeld ==
  ASSUME Typed, Held, NEW d \in Calls, Issue(d)
  PROVE  Held' /\ Final
<1>1. PICK kind \in Kinds, g \in Guilds, ch \in Channels :
        call' = [call EXCEPT ![d] =
                   [kind |-> kind, guild |-> g, channel |-> ch,
                    answer |-> IF Open THEN "none" ELSE "Failed"]]
  BY DEF Issue
<1>2. /\ ~ Waiting(d) /\ ~ Answered(d) /\ d \notin Issued
      /\ UNCHANGED << gw, pending, worker >>
  BY DEF Issue, Waiting, Answered, Issued, Typed, CallsTyped, Unissued, Request,
         Kinds
<1>3. /\ call'[d].kind # "none"
      /\ call'[d].answer = IF Open THEN "none" ELSE "Failed"
      /\ \A c \in Calls \ {d} : call'[c] = call[c]
  BY <1>1 DEF Typed, CallsTyped, Kinds
<1>4. HeldBy(d, FALSE, FALSE, {}, {}, {})
  BY <1>2 DEF Held, HeldRight
<1>5. control \in Seq(Calls)
  <2>1. Issued \subseteq Calls
    BY DEF Issued
  <2> QED BY <2>1, SeqMonotonic DEF Typed, LoopTyped
<1>6. /\ NoTwice(control)'
      /\ \A c \in Calls : InControl(c)' <=> InControl(c) \/ (Open /\ c = d)
  <2>1. CASE Open
    <3>1. control' = Append(control, d)
      BY <2>1 DEF Issue
    <3>2. d \notin ToSet(control) /\ NoTwice(control)
      BY <1>4 DEF HeldBy, InControl, Held
    <3>3. ToSet(Append(control, d)) = ToSet(control) \union {d}
      BY <1>5, AddLast
    <3>4. NoTwice(Append(control, d))
      BY <1>5, <3>2, AddOnce
    <3> QED BY <2>1, <3>1, <3>3, <3>4 DEF InControl
  <2>2. CASE ~ Open
    BY <2>2 DEF Issue, InControl, Held
  <2> QED BY <2>1, <2>2
<1>7. \A c \in Calls \ {d} : Stays(c)
  BY <1>2, <1>3, <1>6, SameTasks, SameJoins DEF Stays, InLoop
<1>8. HeldRight(d)'
  <2>1. /\ ~ InLoop(d)' /\ Joins(d)' = {} /\ Tasks(d)' = {} /\ Boxes(d)' = {}
        /\ InControl(d)' <=> Open
    BY <1>2, <1>4, <1>6, SameTasks, SameJoins DEF HeldBy, InLoop
  <2>2. Waiting(d)' <=> Open
    BY <1>3 DEF Waiting
  <2> QED BY <2>1, <2>2 DEF HeldRight, HeldOnce, HeldBy
<1>9. \A c \in Calls : HeldRight(c)'
  BY <1>7, <1>8, StaysRight DEF Held
<1>10. Final
  BY <1>2, <1>3 DEF Final
<1> QED BY <1>2, <1>6, <1>9, <1>10 DEF Held

LEMMA JoinVoiceHeld ==
  ASSUME Typed, Held, NEW d \in Calls, JoinVoice(d)
  PROVE  Held' /\ Final
<1> DEFINE g == call[d].guild
<1>1. /\ d \in Issued /\ Waiting(d) /\ HeldBy(d, TRUE, FALSE, {}, {}, {})
      /\ NoTwice(control)' /\ gw.for = NoCall /\ g \in Guilds
      /\ \A c \in Calls : InControl(c)' <=> InControl(c) /\ c # d
  BY ReceivedOnce, Received DEF JoinVoice, Request
<1>2. UNCHANGED << gw, worker >>
  BY DEF JoinVoice, JoinRefused, JoinRequested
<1>3. CASE JoinRefused(d, g)
  <2>1. /\ ~ Waiting(d)' /\ UNCHANGED pending
        /\ \A c \in Calls \ {d} : call'[c] = call[c]
    BY <1>1, <1>3, OneAnswered DEF JoinRefused, Answers
  <2>2. \A c \in Calls \ {d} : Stays(c)
    BY <1>1, <1>2, <2>1, SameTasks, SameJoins DEF Stays, InLoop
  <2>3. HeldRight(d)'
    BY <1>1, <1>2, <2>1, SameTasks, SameJoins DEF HeldRight, HeldBy, InLoop
  <2> QED BY <1>1, <1>2, <2>2, <2>3, HeldStep DEF Held
<1>4. CASE JoinRequested(d, g)
  <2>1. /\ pending[g] = NoPending
        /\ pending' = [pending EXCEPT ![g] =
             [id |-> nextId', channel |-> call[d].channel, caller |-> d]]
        /\ UNCHANGED call
    BY <1>1, <1>4 DEF JoinRequested, HasPending, Typed, MapsTyped, IssuedJoin,
                      NoPending, Ids
  <2>2. \A c \in Calls : Joins(c)' = IF c = d THEN Joins(c) \union {g} ELSE Joins(c)
    BY <1>1, <2>1, DistinctAssumption DEF Joins, NoPending, Typed, MapsTyped
  <2>3. \A c \in Calls \ {d} : Stays(c)
    BY <1>1, <1>2, <2>1, <2>2, SameTasks DEF Stays, InLoop
  <2>4. HeldBy(d, FALSE, FALSE, {g}, {}, {})'
    BY <1>1, <1>2, <2>1, <2>2, SameTasks DEF HeldBy, InLoop
  <2>5. HeldRight(d)'
    BY <1>1, <2>1, <2>4 DEF HeldRight, HeldOnce, Waiting
  <2> QED BY <1>1, <1>2, <2>3, <2>5, HeldStep DEF Held
<1> QED BY <1>3, <1>4 DEF JoinVoice

(* A pending join is answered and goes away: its caller is settled, and    *)
(* the others stay.                                                        *)
LEMMA JoinSettled ==
  ASSUME Typed, Held, NEW g \in Guilds, HasPending(g),
         pending' = [pending EXCEPT ![g] = NoPending],
         NEW d \in Calls, d = pending[g].caller, ~ Waiting(d)',
         InControl(d)' => InControl(d), InLoop(d)' => InLoop(d),
         UNCHANGED worker
  PROVE  /\ HeldRight(d)' /\ Waiting(d)
         /\ \A c \in Calls \ {d} : Joins(c)' = Joins(c)
<1>1. /\ HeldBy(d, FALSE, FALSE, {g}, {}, {}) /\ Waiting(d)
      /\ \A c \in Calls \ {d} : g \notin Joins(c)
  BY JoinCaller
<1>2. \A c \in Calls : Joins(c)' = Joins(c) \ {g}
  BY JoinGone
<1>3. HeldBy(d, FALSE, FALSE, {}, {}, {})'
  BY <1>1, <1>2, SameTasks DEF HeldBy
<1> QED BY <1>1, <1>2, <1>3 DEF HeldRight

LEMMA LeavePendingHeld ==
  ASSUME Typed, Held, NEW d \in Calls, LeaveVoice(d),
         LeavePending(d, call[d].guild)
  PROVE  Held' /\ Final
<1>1. PICK g \in Guilds : g = call[d].guild
  BY Received DEF LeaveVoice, Request
<1>2. /\ d \in Issued /\ Waiting(d) /\ HeldBy(d, TRUE, FALSE, {}, {}, {})
      /\ NoTwice(control)' /\ gw.for = NoCall
      /\ \A c \in Calls : InControl(c)' <=> InControl(c) /\ c # d
  BY ReceivedOnce DEF LeaveVoice
<1>3. PICK b \in Calls : b = pending[g].caller
  BY <1>1, JoinCaller DEF LeavePending, Issued
<1>4. /\ b \in Issued /\ Waiting(b) /\ HeldBy(b, FALSE, FALSE, {g}, {}, {})
      /\ \A c \in Calls \ {b} : g \notin Joins(c)
  BY <1>1, <1>3, JoinCaller DEF LeavePending
<1>5. HasPending(g) /\ pending' = [pending EXCEPT ![g] = NoPending]
      /\ UNCHANGED << gw, worker >>
  BY <1>1 DEF LeaveVoice, LeavePending
<1>6. PICK a \in {"CancelledJoin", "Failed"} :
        call' = [AnswerAll({b}, "Cancelled") EXCEPT ![d].answer = a]
  BY <1>1, <1>3 DEF LeavePending
<1>7. /\ ~ Waiting(d)' /\ ~ Waiting(b)'
      /\ \A c \in Calls \ {b, d} : call'[c] = call[c]
  <2>1. call[d] \in Request /\ call[b] \in Request
    BY <1>2, <1>4, IssuedRequest DEF Issued, Typed
  <2> DEFINE first == AnswerAll({b}, "Cancelled")
  <2>2. /\ first = [c \in Calls |-> IF c = b THEN [call[b] EXCEPT !.answer = "Cancelled"]
                                            ELSE call[c]]
        /\ first[d] \in Request
    BY <2>1 DEF AnswerAll, Request, Answers
  <2> HIDE DEF first
  <2>3. call'[d] = [first[d] EXCEPT !.answer = a]
        /\ \A c \in Calls \ {d} : call'[c] = first[c]
    BY <1>6, <2>2 DEF first
  <2>4. call'[d].answer = a
    BY <2>2, <2>3 DEF Request
  <2>5. b # d => call'[b].answer = "Cancelled"
    BY <2>1, <2>2, <2>3 DEF Request
  <2> QED BY <2>2, <2>3, <2>4, <2>5 DEF Waiting
<1>8. /\ HeldRight(b)'
      /\ \A c \in Calls \ {b} : Joins(c)' = Joins(c)
  BY <1>2, <1>3, <1>5, <1>7, JoinSettled DEF InLoop
<1>9. \A c \in Calls \ {b, d} : Stays(c)
  BY <1>2, <1>5, <1>7, <1>8, SameTasks DEF Stays, InLoop
<1>10. HeldRight(d)'
  <2>1. CASE d = b
    BY <1>8, <2>1
  <2>2. CASE d # b
    BY <1>2, <1>5, <1>7, <1>8, <2>2, SameTasks DEF HeldRight, HeldBy, InLoop
  <2> QED BY <2>1, <2>2
<1> QED BY <1>2, <1>4, <1>5, <1>8, <1>9, <1>10, HeldStep DEF Held

(* The call at the head of the control channel is answered, or the loop    *)
(* keeps it while it waits for a mailbox.                                  *)
LEMMA ReceivedSettled ==
  ASSUME Typed, Held, NEW d \in Calls, NEW kind, Receive(d, kind),
         UNCHANGED << pending, worker >>,
         \/ \E a \in Answers : Answer(d, a) /\ UNCHANGED gw
         \/ UNCHANGED call /\ gw'.for = d /\ gw'.at \in {"route", "leave"}
  PROVE  Held' /\ Final
<1>1. /\ d \in Issued /\ Waiting(d) /\ HeldBy(d, TRUE, FALSE, {}, {}, {})
      /\ NoTwice(control)' /\ gw.for = NoCall
      /\ \A c \in Calls : InControl(c)' <=> InControl(c) /\ c # d
  BY ReceivedOnce
<1>2. CASE UNCHANGED call /\ gw'.for = d /\ gw'.at \in {"route", "leave"}
  <2>1. \A c \in Calls \ {d} : Stays(c)
    BY <1>1, <1>2, SameTasks, SameJoins, DistinctAssumption DEF Stays, InLoop
  <2>2. HeldBy(d, FALSE, TRUE, {}, {}, {})'
    BY <1>1, <1>2, SameTasks, SameJoins DEF HeldBy, InLoop
  <2>3. HeldRight(d)'
    BY <1>1, <1>2, <2>2 DEF HeldRight, HeldOnce, Waiting
  <2> QED BY <1>1, <1>2, <2>1, <2>3, HeldStep DEF Held
<1>3. CASE \E a \in Answers : Answer(d, a) /\ UNCHANGED gw
  <2>1. ~ Waiting(d)' /\ \A c \in Calls \ {d} : call'[c] = call[c]
    BY <1>1, <1>3, OneAnswered
  <2>2. \A c \in Calls \ {d} : Stays(c)
    BY <1>1, <1>3, <2>1, SameTasks, SameJoins DEF Stays, InLoop
  <2>3. HeldRight(d)'
    BY <1>1, <1>3, <2>1, SameTasks, SameJoins DEF HeldRight, HeldBy, InLoop
  <2> QED BY <1>1, <1>3, <2>2, <2>3, HeldStep DEF Held
<1> QED BY <1>2, <1>3

LEMMA LeaveVoiceHeld ==
  ASSUME Typed, Held, NEW d \in Calls, LeaveVoice(d)
  PROVE  Held' /\ Final
<1>1. CASE LeaveNothing(d, call[d].guild)
  <2>1. \E a \in Answers : Answer(d, a) /\ UNCHANGED gw
    BY <1>1 DEF LeaveNothing, Answers
  <2>2. Receive(d, "leave") /\ UNCHANGED << pending, worker >>
    BY <1>1 DEF LeaveVoice, LeaveNothing
  <2> QED BY <2>1, <2>2, ReceivedSettled
<1>2. CASE LeaveWorker(d, call[d].guild)
  <2>1. UNCHANGED call /\ gw'.for = d /\ gw'.at \in {"route", "leave"}
    BY <1>2 DEF LeaveWorker, Typed, LoopTyped
  <2>2. Receive(d, "leave") /\ UNCHANGED << pending, worker >>
    BY <1>2 DEF LeaveVoice, LeaveWorker
  <2> QED BY <2>1, <2>2, ReceivedSettled
<1> QED BY <1>1, <1>2, LeavePendingHeld DEF LeaveVoice

LEMMA RoutePlaybackHeld ==
  ASSUME Typed, Held, NEW d \in Calls, RoutePlayback(d)
  PROVE  Held' /\ Final
<1>1. Receive(d, "playback") /\ UNCHANGED << pending, worker >>
  BY DEF RoutePlayback
<1>2. \/ \E a \in Answers : Answer(d, a) /\ UNCHANGED gw
      \/ UNCHANGED call /\ gw'.for = d /\ gw'.at \in {"route", "leave"}
  <2>1. "NotConnected" \in Answers /\ "WrongVoiceChannel" \in Answers
    BY DEF Answers
  <2> QED BY <2>1 DEF RoutePlayback, Typed, LoopTyped
<1> QED BY <1>1, <1>2, ReceivedSettled

(* A send puts a message into the mailbox of a worker that has not ended.  *)
LEMMA SendOnce ==
  ASSUME Typed, Held, NEW id \in Ids, Started(id),
         NEW m \in Issued \union {Shutdown}, Send(id, m),
         m \in Calls => id \notin Boxes(m)
  PROVE  /\ \A i \in Ids : NoTwice(worker'[i].mailbox)
         /\ \A c \in Calls :
              /\ Tasks(c)' = Tasks(c)
              /\ Boxes(c)' = IF c = m /\ worker[id].at # "ended"
                             THEN Boxes(c) \union {id} ELSE Boxes(c)
<1>1. worker[id] \in IssuedTask
  BY StartedTask
<1>2. CASE worker[id].at = "ended"
  BY <1>2, SameTasks DEF Send, Held
<1>3. CASE worker[id].at # "ended"
  <2> DEFINE box == worker[id].mailbox
             longer == Append(box, m)
  <2>1. box \in Seq(Issued \union {Shutdown}) /\ NoTwice(box)
    BY <1>1 DEF IssuedTask, Held
  <2>2. ToSet(longer) = ToSet(box) \union {m}
    BY <2>1, AddLast
  <2>3. m \in Calls => m \notin ToSet(box)
    BY DEF Boxes
  <2>4. NoTwice(longer)
    BY <2>1, <2>3, AddOnce
  <2>5. worker' = [worker EXCEPT ![id] = [worker[id] EXCEPT !.mailbox = longer]]
    BY <1>3 DEF Send
  <2> HIDE DEF longer
  <2>6. /\ worker'[id].mailbox = longer /\ worker'[id].at = worker[id].at
        /\ worker'[id].caller = worker[id].caller
        /\ \A i \in Ids \ {id} : worker'[i] = worker[i]
    BY <1>1, <2>5 DEF IssuedTask, Typed, TasksTyped
  <2>7. \A i \in Ids : NoTwice(worker'[i].mailbox)
    BY <2>4, <2>6 DEF Held
  <2>8. \A c \in Calls : Tasks(c)' = Tasks(c)
    BY <2>6 DEF Tasks
  <2>9. ASSUME NEW c \in Calls
        PROVE  Boxes(c)' = IF c = m THEN Boxes(c) \union {id} ELSE Boxes(c)
    <3>1. c \in ToSet(longer) <=> c \in ToSet(box) \/ c = m
      BY <2>2
    <3> QED BY <2>6, <3>1 DEF Boxes
  <2> QED BY <1>3, <2>7, <2>8, <2>9
<1> QED BY <1>2, <1>3

LEMMA DeliverHeld ==
  ASSUME Typed, Held, Deliver
  PROVE  Held' /\ Final
<1>1. PICK id \in Ids : id = gw.to
  BY DEF Deliver, DeliverPlayback, DeliverLeave, DeliverShutdown, Typed, LoopTyped
<1>2. Started(id) /\ UNCHANGED << control, pending >>
  BY <1>1 DEF Deliver, DeliverPlayback, DeliverLeave, DeliverShutdown, Typed,
              NamesStarted
<1>3. Shutdown \notin Calls /\ NoCall \notin Calls
  BY DistinctAssumption
<1>4. ASSUME gw.at \in {"route", "leave"}
      PROVE  /\ gw.for \in Issued /\ gw.for \in Calls /\ Waiting(gw.for)
             /\ HeldBy(gw.for, FALSE, TRUE, {}, {}, {})
  <2>1. gw.for \in Issued /\ gw.for \in Calls
    BY <1>4 DEF Typed, LoopTyped, Issued
  <2>2. HeldRight(gw.for) /\ InLoop(gw.for)
    BY <2>1 DEF Held, InLoop
  <2> QED BY <2>1, <2>2, HolderOnly
<1>5. CASE DeliverPlayback
  <2>1. PICK d \in Calls : d = gw.for
    BY <1>4, <1>5 DEF DeliverPlayback
  <2>2. /\ d \in Issued /\ Waiting(d) /\ HeldBy(d, FALSE, TRUE, {}, {}, {})
        /\ Send(id, d) /\ gw' = Selecting
    BY <1>1, <1>4, <1>5, <2>1 DEF DeliverPlayback
  <2>3. /\ \A i \in Ids : NoTwice(worker'[i].mailbox)
        /\ \A c \in Calls :
             /\ Tasks(c)' = Tasks(c)
             /\ Boxes(c)' = IF c = d /\ worker[id].at # "ended"
                            THEN Boxes(c) \union {id} ELSE Boxes(c)
    BY <1>2, <2>2, SendOnce DEF HeldBy
  <2>4. /\ \A c \in Calls \ {d} : call'[c] = call[c]
        /\ worker[id].at = "ended" => ~ Waiting(d)'
        /\ worker[id].at # "ended" => Waiting(d)'
    <3>1. CASE worker[id].at = "ended"
      <4>1. Answer(d, "Failed") /\ "Failed" \in Answers
        BY <1>1, <1>5, <2>1, <3>1 DEF DeliverPlayback, Answer, Answers
      <4> QED BY <2>2, <3>1, <4>1, OneAnswered
    <3>2. CASE worker[id].at # "ended"
      BY <1>1, <1>5, <2>2, <3>2 DEF DeliverPlayback, Waiting
    <3> QED BY <3>1, <3>2
  <2>5. \A c \in Calls \ {d} : Stays(c)
    BY <1>2, <1>3, <2>1, <2>2, <2>3, <2>4, SameJoins
       DEF Stays, InLoop, InControl, Selecting
  <2>6. HeldRight(d)'
    <3>1. /\ ~ InControl(d)' /\ ~ InLoop(d)' /\ Joins(d)' = {} /\ Tasks(d)' = {}
          /\ Boxes(d)' = IF worker[id].at # "ended" THEN {id} ELSE {}
      BY <1>2, <1>3, <2>2, <2>3, SameJoins DEF HeldBy, InControl, InLoop, Selecting
    <3> QED BY <2>4, <3>1 DEF HeldRight, HeldOnce, HeldBy
  <2> QED BY <1>2, <2>2, <2>3, <2>5, <2>6, HeldStep DEF Held, Selecting
<1>6. CASE DeliverLeave
  <2>1. PICK d \in Calls : d = gw.for
    BY <1>4, <1>6 DEF DeliverLeave
  <2>2. /\ d \in Issued /\ Waiting(d) /\ HeldBy(d, FALSE, TRUE, {}, {}, {})
        /\ Send(id, Shutdown) /\ gw' = Selecting
    BY <1>1, <1>4, <1>6, <2>1 DEF DeliverLeave
  <2>3. /\ \A i \in Ids : NoTwice(worker'[i].mailbox)
        /\ \A c \in Calls : Tasks(c)' = Tasks(c) /\ Boxes(c)' = Boxes(c)
    BY <1>2, <1>3, <2>2, SendOnce
  <2>4. ~ Waiting(d)' /\ \A c \in Calls \ {d} : call'[c] = call[c]
    BY <1>6, <2>1, <2>2, OneAnswered DEF DeliverLeave, Answers
  <2>5. \A c \in Calls \ {d} : Stays(c)
    BY <1>2, <1>3, <2>1, <2>2, <2>3, <2>4, SameJoins
       DEF Stays, InLoop, InControl, Selecting
  <2>6. HeldRight(d)'
    BY <1>2, <1>3, <2>2, <2>3, <2>4, SameJoins
       DEF HeldRight, HeldBy, InLoop, InControl, Selecting
  <2> QED BY <1>2, <2>2, <2>3, <2>5, <2>6, HeldStep DEF Held, Selecting
<1>7. CASE DeliverShutdown
  <2>1. /\ Send(id, Shutdown) /\ UNCHANGED call
        /\ gw'.for = gw.for /\ gw'.at = "drain" /\ gw.for = NoCall
    BY <1>1, <1>7 DEF DeliverShutdown, Typed, LoopTyped, Held
  <2>2. /\ \A i \in Ids : NoTwice(worker'[i].mailbox)
        /\ \A c \in Calls : Tasks(c)' = Tasks(c) /\ Boxes(c)' = Boxes(c)
    BY <1>2, <1>3, <2>1, SendOnce
  <2>3. \A c \in Calls : Stays(c)
    BY <1>2, <2>1, <2>2, SameJoins DEF Stays, InLoop, InControl
  <2> QED BY <1>2, <2>1, <2>2, <2>3, HeldStep DEF Held
<1> QED BY <1>5, <1>6, <1>7 DEF Deliver

(* A task changes and may lose the response to its join, or messages of    *)
(* its mailbox: then their callers are settled.                            *)
LEMMA TaskHeld ==
  ASSUME Typed, Held, NEW id \in Ids, NEW task,
         worker' = [worker EXCEPT ![id] = task],
         UNCHANGED << control, gw, pending >>,
         task.at # "connecting", NoTwice(task.mailbox),
         ToSet(task.mailbox) \subseteq ToSet(worker[id].mailbox),
         \A c \in Calls :
           IF \/ id \in Tasks(c)
              \/ c \in ToSet(worker[id].mailbox) /\ c \notin ToSet(task.mailbox)
           THEN ~ Waiting(c)' ELSE call'[c] = call[c]
  PROVE  Held' /\ Final
<1>1. worker'[id] = task /\ \A i \in Ids \ {id} : worker'[i] = worker[i]
  BY DEF Typed, TasksTyped
<1>2. \A c \in Calls : Tasks(c)' = Tasks(c) \ {id}
  BY <1>1 DEF Tasks
<1>3. \A c \in Calls :
        Boxes(c)' = IF c \in ToSet(task.mailbox) THEN Boxes(c) ELSE Boxes(c) \ {id}
  BY <1>1 DEF Boxes
<1>4. ASSUME NEW c \in Calls PROVE Stays(c) \/ (HeldRight(c)' /\ Waiting(c))
  <2>1. /\ InControl(c)' <=> InControl(c)
        /\ InLoop(c)' <=> InLoop(c)
        /\ Joins(c)' = Joins(c)
    BY SameJoins DEF InControl, InLoop
  <2>2. HeldRight(c)
    BY DEF Held
  <2>3. CASE id \in Tasks(c)
    <3>1. Waiting(c) /\ HeldBy(c, FALSE, FALSE, {}, {id}, {})
      BY <2>2, <2>3, HolderOnly
    <3>2. ~ Waiting(c)'
      BY <2>3
    <3>3. HeldBy(c, FALSE, FALSE, {}, {}, {})'
      BY <1>2, <1>3, <2>1, <3>1 DEF HeldBy
    <3> QED BY <3>1, <3>2, <3>3 DEF HeldRight
  <2>4. CASE /\ id \notin Tasks(c) /\ c \in ToSet(worker[id].mailbox)
             /\ c \notin ToSet(task.mailbox)
    <3>1. id \in Boxes(c)
      BY <2>4 DEF Boxes
    <3>2. Waiting(c) /\ HeldBy(c, FALSE, FALSE, {}, {}, {id})
      BY <2>2, <3>1, HolderOnly
    <3>3. ~ Waiting(c)'
      BY <2>4
    <3>4. HeldBy(c, FALSE, FALSE, {}, {}, {})'
      BY <1>2, <1>3, <2>1, <2>4, <3>2 DEF HeldBy
    <3> QED BY <3>2, <3>3, <3>4 DEF HeldRight
  <2>5. CASE /\ id \notin Tasks(c)
             /\ c \in ToSet(worker[id].mailbox) => c \in ToSet(task.mailbox)
    <3>1. c \notin ToSet(task.mailbox) => id \notin Boxes(c)
      BY <2>5 DEF Boxes
    <3>2. call'[c] = call[c]
      BY <2>5
    <3>3. Tasks(c)' = Tasks(c)
      <4>1. Tasks(c) \ {id} = Tasks(c)
        BY <2>5
      <4> QED BY <1>2, <4>1
    <3>4. Boxes(c)' = Boxes(c)
      <4>1. c \notin ToSet(task.mailbox) => Boxes(c) \ {id} = Boxes(c)
        BY <3>1
      <4> QED BY <1>3, <4>1
    <3> QED BY <2>1, <3>2, <3>3, <3>4 DEF Stays
  <2> QED BY <2>3, <2>4, <2>5
<1>5. \A i \in Ids : NoTwice(worker'[i].mailbox)
  BY <1>1 DEF Held
<1> QED BY <1>4, <1>5, HeldStep DEF Held

(* The first message of a mailbox is taken. *)
LEMMA MailboxOnce ==
  ASSUME Typed, Held, NEW id \in Ids, Started(id), worker[id].mailbox # << >>
  PROVE  LET box == worker[id].mailbox
         IN  /\ Head(box) \in Issued \union {Shutdown}
             /\ NoTwice(Tail(box)) /\ ToSet(Tail(box)) \subseteq ToSet(box)
             /\ \A c \in Calls :
                  c \in ToSet(Tail(box)) <=> c \in ToSet(box) /\ c # Head(box)
             /\ Head(box) \in Calls =>
                  /\ Head(box) \in ToSet(box)
                  /\ Waiting(Head(box)) /\ id \notin Tasks(Head(box))
<1> DEFINE box == worker[id].mailbox
<1>1. box \in Seq(Issued \union {Shutdown}) /\ NoTwice(box)
  BY StartedTask DEF IssuedTask, Held
<1>2. /\ NoTwice(Tail(box))
      /\ \A c \in Calls :
           c \in ToSet(Tail(box)) <=> c \in ToSet(box) /\ c # Head(box)
  BY <1>1, TakeOnce
<1>3. /\ Head(box) \in Issued \union {Shutdown} /\ Head(box) \in ToSet(box)
      /\ ToSet(Tail(box)) \subseteq ToSet(box)
  BY <1>1, TakeFirst
<1>4. ASSUME Head(box) \in Calls
      PROVE  Waiting(Head(box)) /\ id \notin Tasks(Head(box))
  <2>1. id \in Boxes(Head(box)) /\ HeldRight(Head(box))
    BY <1>3, <1>4 DEF Boxes, Held
  <2>2. /\ Waiting(Head(box))
        /\ HeldBy(Head(box), FALSE, FALSE, {}, {}, {id})
    BY <1>4, <2>1, HolderOnly
  <2> QED BY <2>2 DEF HeldBy
<1> QED BY <1>2, <1>3, <1>4

LEMMA WorkerHeld ==
  ASSUME Typed, Held, NEW id \in Ids,
         \/ Connected(id) \/ ConnectFails(id) \/ HandleCommand(id)
         \/ SessionEnds(id)
  PROVE  Held' /\ Final
<1> DEFINE box == worker[id].mailbox
<1>1. worker[id] \in IssuedTask /\ Started(id) /\ NoTwice(box)
  BY StartedTask DEF Connected, ConnectFails, HandleCommand, SessionEnds,
         ConnectAborted, HandlePlayback, HandleShutdown, Started, Held
<1>2. PICK b \in Issued : b = worker[id].caller
  BY <1>1 DEF IssuedTask
<1>3. /\ b \in Calls
      /\ \A c \in Calls : id \in Tasks(c) <=> worker[id].at = "connecting" /\ b = c
  BY <1>2 DEF Tasks, Issued
<1>4. Shutdown \notin Calls
  BY DistinctAssumption
<1>10. PICK task : task = worker'[id]
  OBVIOUS
<1>11. /\ worker' = [worker EXCEPT ![id] = task]
       /\ UNCHANGED << control, gw, pending >>
  BY <1>10 DEF Connected, ConnectFails, HandleCommand, SessionEnds, WorkerStep,
               ConnectAborted, HandlePlayback, HandleShutdown, Typed, TasksTyped
<1>5. CASE Connected(id) \/ ConnectFails(id)
  <2>1. task.at # "connecting" /\ task.mailbox = box
    BY <1>1, <1>5, <1>10 DEF Connected, ConnectFails, WorkerStep, Stopping, IssuedTask, Typed, TasksTyped
  <2>2. worker[id].at = "connecting" /\ \E a \in Answers : Answer(b, a)
    <3>1. "Joined" \in Answers /\ "Failed" \in Answers
      BY DEF Answers
    <3> QED BY <1>2, <1>5, <3>1 DEF Connected, ConnectFails
  <2>3. ~ Waiting(b)' /\ \A c \in Calls \ {b} : call'[c] = call[c]
    BY <2>2, OneAnswered
  <2> QED BY <1>1, <1>3, <1>11, <2>1, <2>2, <2>3, TaskHeld
<1>6. CASE ConnectAborted(id)
  <2>1. task.at # "connecting" /\ task.mailbox = Tail(box)
    BY <1>1, <1>6, <1>10 DEF ConnectAborted, WorkerStep, Stopping, IssuedTask, Typed, TasksTyped
  <2>2. worker[id].at = "connecting" /\ box # << >>
    BY <1>6 DEF ConnectAborted
  <2>3. PICK h \in Issued \union {Shutdown} : h = Head(box)
    BY <1>1, <2>2, MailboxOnce
  <2>4. /\ NoTwice(Tail(box)) /\ ToSet(Tail(box)) \subseteq ToSet(box)
        /\ \A c \in Calls :
             c \in ToSet(Tail(box)) <=> c \in ToSet(box) /\ c # h
        /\ h \in Calls => h \in ToSet(box)
    BY <1>1, <2>2, <2>3, MailboxOnce
  <2>5. /\ ~ Waiting(b)'
        /\ h \in Calls => ~ Waiting(h)'
        /\ \A c \in Calls \ {b, h} : call'[c] = call[c]
    <3> DEFINE first == AnswerAll({h}, "Dropped")
    <3>1. /\ call[b] \in Request
          /\ h \in Calls => call[h] \in Request
      BY <1>3, <1>4, <2>3, IssuedRequest DEF Issued, Typed
    <3>2. /\ first \in [Calls -> {Unissued} \union Request]
          /\ \A c \in Calls \ {h} : first[c] = call[c]
          /\ h \in Calls => first[h].answer = "Dropped"
      BY <3>1 DEF AnswerAll, Request, Answers, Typed, CallsTyped
    <3>3. first[b] \in Request
      BY <1>3, <3>1 DEF AnswerAll, Request, Answers
    <3>4. call' = [first EXCEPT ![b].answer = "Cancelled"]
      BY <1>2, <1>6, <2>3 DEF ConnectAborted
    <3> HIDE DEF first
    <3>5. /\ call'[b] = [first[b] EXCEPT !.answer = "Cancelled"]
          /\ \A c \in Calls \ {b} : call'[c] = first[c]
      BY <1>3, <3>2, <3>4
    <3>6. call'[b].answer = "Cancelled"
      BY <3>3, <3>5 DEF Request
    <3>7. h \in Calls => call'[h].answer # "none"
      BY <3>2, <3>5, <3>6
    <3>8. \A c \in Calls \ {b, h} : call'[c] = call[c]
      BY <3>2, <3>5
    <3> QED BY <3>6, <3>7, <3>8 DEF Waiting
  <2> QED BY <1>3, <1>11, <2>1, <2>2, <2>4, <2>5, TaskHeld
<1>7. CASE HandlePlayback(id)
  <2>1. task.at # "connecting" /\ task.mailbox = Tail(box)
    BY <1>1, <1>7, <1>10 DEF HandlePlayback, WorkerStep, IssuedTask, Typed, TasksTyped
  <2>2. /\ worker[id].at = "running" /\ box # << >> /\ Head(box) # Shutdown
        /\ \E a \in Answers : Answer(Head(box), a)
    <3>1. "Handled" \in Answers /\ "Dropped" \in Answers
      BY DEF Answers
    <3> QED BY <1>7, <3>1 DEF HandlePlayback
  <2>3. PICK d \in Issued : d = Head(box)
    BY <1>1, <2>2, MailboxOnce
  <2>4. d \in Calls
    BY DEF Issued
  <2>5. /\ NoTwice(Tail(box)) /\ ToSet(Tail(box)) \subseteq ToSet(box)
        /\ \A c \in Calls :
             c \in ToSet(Tail(box)) <=> c \in ToSet(box) /\ c # d
        /\ d \in ToSet(box)
    BY <1>1, <2>2, <2>3, <2>4, MailboxOnce
  <2>6. ~ Waiting(d)' /\ \A c \in Calls \ {d} : call'[c] = call[c]
    BY <2>2, <2>3, OneAnswered
  <2>7. \A c \in Calls : id \notin Tasks(c)
    BY <1>3, <2>2
  <2> QED BY <1>11, <2>1, <2>4, <2>5, <2>6, <2>7, TaskHeld
<1>8. CASE HandleShutdown(id)
  <2>1. task.at # "connecting" /\ task.mailbox = Tail(box)
    BY <1>1, <1>8, <1>10 DEF HandleShutdown, WorkerStep, Stopping, IssuedTask, Typed, TasksTyped
  <2>2. /\ worker[id].at = "running" /\ box # << >> /\ Head(box) = Shutdown
        /\ UNCHANGED call
    BY <1>8 DEF HandleShutdown
  <2>3. /\ NoTwice(Tail(box)) /\ ToSet(Tail(box)) \subseteq ToSet(box)
        /\ \A c \in Calls :
             c \in ToSet(Tail(box)) <=> c \in ToSet(box) /\ c # Head(box)
    BY <1>1, <2>2, MailboxOnce
  <2> QED BY <1>3, <1>4, <1>11, <2>1, <2>2, <2>3, TaskHeld
<1>9. CASE SessionEnds(id)
  <2>1. task.at # "connecting" /\ task.mailbox = box /\ UNCHANGED call
    BY <1>1, <1>9, <1>10 DEF SessionEnds, WorkerStep, Stopping, IssuedTask, Typed, TasksTyped
  <2>2. worker[id].at = "running"
    BY <1>9 DEF SessionEnds
  <2> QED BY <1>1, <1>3, <1>11, <2>1, <2>2, TaskHeld
<1> QED BY <1>5, <1>6, <1>7, <1>8, <1>9 DEF HandleCommand

LEMMA SendStoppedHeld ==
  ASSUME Typed, Held, NEW id \in Ids, SendStopped(id)
  PROVE  Held' /\ Final
<1> DEFINE box == worker[id].mailbox
           task == [worker[id] EXCEPT !.at = "ended", !.mailbox = << >>]
<1>1. worker[id] \in IssuedTask /\ worker[id].at = "stopping"
  BY StartedTask DEF SendStopped, Started
<1>2. worker' = [worker EXCEPT ![id] = task]
      /\ UNCHANGED << control, gw, pending >>
  BY <1>1 DEF SendStopped, IssuedTask, Typed, TasksTyped
<1>3. task.at = "ended" /\ task.mailbox = << >>
  BY <1>1 DEF IssuedTask
<1>4. NoTwice(<< >>) /\ ToSet(<< >>) = {}
  BY DEF NoTwice, ToSet
<1>5. ToSet(box) \intersect Calls \subseteq Issued
  BY <1>1, Elements, DistinctAssumption DEF IssuedTask
<1>6. ASSUME NEW c \in Calls
      PROVE  IF c \in ToSet(box) THEN ~ Waiting(c)' ELSE call'[c] = call[c]
  <2>1. call' = AnswerAll(ToSet(box), "Dropped")
    BY DEF SendStopped
  <2>2. CASE c \in ToSet(box)
    <3>1. call[c] \in Request
      BY <1>5, <2>2, IssuedRequest DEF Issued, Typed
    <3>2. call'[c].answer = "Dropped"
      BY <2>1, <2>2, <3>1 DEF AnswerAll, Request
    <3> QED BY <2>2, <3>2 DEF Waiting
  <2>3. CASE c \notin ToSet(box)
    BY <2>1, <2>3 DEF AnswerAll
  <2> QED BY <2>2, <2>3
<1>7. \A c \in Calls : id \notin Tasks(c)
  BY <1>1 DEF Tasks
<1> HIDE DEF task
<1> QED BY <1>2, <1>3, <1>4, <1>6, <1>7, TaskHeld

(* The response to a join passes from the pending map to the new worker.   *)
LEMMA StartWorkerHeld ==
  ASSUME Typed, Supervised, Held, NEW g \in Guilds, StartWorker(g)
  PROVE  Held' /\ Final
<1>1. PICK n \in Ids : n = nextId + 1
  BY BoundAssumption DEF StartWorker, Typed, MapsTyped, Ids
<1>2. PICK task : task = NewTask(g, pending[g])
  OBVIOUS
<1>3. PICK d \in Calls : d = pending[g].caller
  BY JoinCaller DEF StartWorker, Issued
<1>4. /\ d \in Issued /\ Waiting(d) /\ HeldBy(d, FALSE, FALSE, {g}, {}, {})
      /\ \A c \in Calls \ {d} : g \notin Joins(c)
  BY <1>3, JoinCaller DEF StartWorker
<1>5. /\ worker' = [worker EXCEPT ![n] = task]
      /\ pending' = [pending EXCEPT ![g] = NoPending]
      /\ UNCHANGED << call, control, gw >>
  BY <1>1, <1>2 DEF StartWorker
<1>6. task.at = "connecting" /\ task.caller = d /\ task.mailbox = << >>
  BY <1>2, <1>3 DEF NewTask
<1>7. worker[n] = NoTask
  BY <1>1 DEF Supervised, Unused, Typed, MapsTyped, Ids
<1>8. worker'[n] = task /\ \A i \in Ids \ {n} : worker'[i] = worker[i]
  BY <1>5 DEF Typed, TasksTyped
<1>9. NoTwice(<< >>) /\ ToSet(<< >>) = {}
  BY DEF NoTwice, ToSet
<1>10. \A c \in Calls : Joins(c)' = Joins(c) \ {g}
  BY <1>5, JoinGone
<1>11. \A c \in Calls : Boxes(c)' = Boxes(c)
  BY <1>6, <1>7, <1>8, <1>9 DEF Boxes, NoTask
<1>12. \A c \in Calls \ {d} : Tasks(c)' = Tasks(c)
  BY <1>6, <1>7, <1>8 DEF Tasks, NoTask
<1>13. Tasks(d)' = {n}
  BY <1>4, <1>6, <1>8 DEF Tasks, HeldBy
<1>14. \A c \in Calls \ {d} : Stays(c)
  BY <1>4, <1>5, <1>10, <1>11, <1>12 DEF Stays, InControl, InLoop
<1>15. HeldBy(d, FALSE, FALSE, {}, {n}, {})'
  BY <1>4, <1>5, <1>10, <1>11, <1>13 DEF HeldBy, InControl, InLoop
<1>16. HeldRight(d)'
  BY <1>4, <1>5, <1>15 DEF HeldRight, HeldOnce, Waiting
<1>17. \A i \in Ids : NoTwice(worker'[i].mailbox)
  BY <1>6, <1>8, <1>9 DEF Held
<1> QED BY <1>4, <1>5, <1>14, <1>16, <1>17, HeldStep DEF Held

(* A join fails while it is pending. *)
LEMMA JoinFailed ==
  ASSUME Typed, Held, NEW g \in Guilds, HasPending(g),
         Answer(pending[g].caller, "Failed"),
         pending' = [pending EXCEPT ![g] = NoPending],
         UNCHANGED << control, gw, worker >>
  PROVE  Held' /\ Final
<1>1. PICK d \in Calls : d = pending[g].caller
  BY JoinCaller DEF Issued
<1>2. d \in Issued /\ "Failed" \in Answers
  BY <1>1, JoinCaller DEF Answers
<1>3. ~ Waiting(d)' /\ \A c \in Calls \ {d} : call'[c] = call[c]
  BY <1>1, <1>2, OneAnswered
<1>4. /\ HeldRight(d)' /\ Waiting(d)
      /\ \A c \in Calls \ {d} : Joins(c)' = Joins(c)
  BY <1>1, <1>3, JoinSettled DEF InControl, InLoop
<1>5. \A c \in Calls \ {d} : Stays(c)
  BY <1>3, <1>4, SameTasks DEF Stays, InControl, InLoop
<1> QED BY <1>4, <1>5, HeldStep DEF Held

(* Steps that touch no response. *)
LEMMA HeldFrame ==
  ASSUME Held, UNCHANGED << call, control, pending, worker >>, gw'.for = gw.for,
         gw.at \in {"route", "leave"} => gw'.at \in {"route", "leave"}
  PROVE  Held' /\ Final
<1>1. \A c \in Calls : Stays(c)
  BY SameTasks, SameJoins DEF Stays, InControl, InLoop
<1> QED BY <1>1, HeldStep DEF Held

LEMMA DispatchHeld ==
  ASSUME Typed, Supervised, Held, Dispatch
  PROVE  Held' /\ Final
<1>1. ASSUME NEW g \in Guilds, ServerUnavailable(g) PROVE Held' /\ Final
  BY <1>1, JoinFailed DEF ServerUnavailable
<1>2. CASE Ready
  BY <1>2, HeldFrame DEF Ready
<1> QED BY <1>1, <1>2, StartWorkerHeld DEF Dispatch

LEMMA HandleEventHeld ==
  ASSUME Typed, Held, HandleEvent
  PROVE  Held' /\ Final
<1>1. CASE JoinTimedOut
  <2>1. PICK g \in Guilds : g = Head(events).guild
    BY <1>1, ReceivedEvent DEF JoinTimedOut, Event
  <2>2. UNCHANGED << control, gw, worker >> /\ Head(events).id # 0
    BY <1>1, ReceivedEvent DEF JoinTimedOut, Event, Ids
  <2>3. CASE pending[g].id = Head(events).id
    <3>1. /\ HasPending(g) /\ Answer(pending[g].caller, "Failed")
          /\ pending' = [pending EXCEPT ![g] = NoPending]
      BY <1>1, <2>1, <2>2, <2>3 DEF JoinTimedOut, HasPending
    <3> QED BY <2>2, <3>1, JoinFailed
  <2>4. CASE pending[g].id # Head(events).id
    <3>1. UNCHANGED << call, pending >>
      BY <1>1, <2>1, <2>4 DEF JoinTimedOut
    <3> QED BY <2>2, <3>1, HeldFrame
  <2> QED BY <2>3, <2>4
<1>2. CASE Stopped
  BY <1>2, HeldFrame DEF Stopped
<1> QED BY <1>1, <1>2 DEF HandleEvent

(* ctrl-c settles the calls in the control channel and the pending joins,  *)
(* and leaves the others with the workers.                                 *)
LEMMA CtrlCHeld ==
  ASSUME Typed, Held, CtrlC
  PROVE  Held' /\ Final
<1>1. /\ gw'.for = NoCall /\ gw.for = NoCall /\ gw'.at = "drain"
      /\ UNCHANGED worker /\ control' = << >>
      /\ pending' = [g \in Guilds |-> NoPending]
  BY DEF CtrlC, Held, Typed, LoopTyped
<1>2. NoTwice(<< >>) /\ ToSet(<< >>) = {} /\ NoCall \notin Calls
  BY DistinctAssumption DEF NoTwice, ToSet
<1>3. \A c \in Calls : ~ InControl(c)' /\ ~ InLoop(c)' /\ Joins(c)' = {}
  BY <1>1, <1>2 DEF InControl, InLoop, Joins, NoPending
<1>4. ASSUME NEW c \in Calls PROVE Stays(c) \/ (HeldRight(c)' /\ Waiting(c))
  <2>1. HeldRight(c) /\ Tasks(c)' = Tasks(c) /\ Boxes(c)' = Boxes(c)
    BY <1>1, SameTasks DEF Held
  <2>2. CASE InControl(c) \/ Joins(c) # {}
    <3>1. Waiting(c) /\ Tasks(c) = {} /\ Boxes(c) = {}
      BY <2>1, <2>2, HolderOnly DEF HeldBy
    <3>2. call[c] \in Request
      BY <3>1, IssuedRequest DEF Waiting, Typed
    <3>3. call'[c].answer \in {"Failed", "Cancelled"}
      <4>1. c \in ToSet(control) \/ \E g \in Guilds : pending[g].caller = c
        BY <2>2 DEF InControl, Joins
      <4>2. call' = [d \in Calls |->
              CASE d \in ToSet(control) -> [call[d] EXCEPT !.answer = "Failed"]
                [] \E g \in Guilds : pending[g].caller = d ->
                     [call[d] EXCEPT !.answer = "Cancelled"]
                [] OTHER -> call[d]]
        BY DEF CtrlC
      <4>3. \E a \in {"Failed", "Cancelled"} :
              call'[c] = [call[c] EXCEPT !.answer = a]
        BY <4>1, <4>2
      <4> QED BY <3>2, <4>3 DEF Request
    <3>4. ~ Waiting(c)'
      BY <3>3 DEF Waiting
    <3> QED BY <1>3, <2>1, <3>1, <3>4 DEF HeldRight, HeldBy
  <2>3. CASE ~ InControl(c) /\ Joins(c) = {}
    <3>1. c \notin ToSet(control) /\ ~ \E g \in Guilds : pending[g].caller = c
      BY <2>3 DEF InControl, Joins
    <3>2. call'[c] = call[c]
      BY <3>1 DEF CtrlC
    <3>3. ~ InLoop(c)
      BY <1>1, <1>2 DEF InLoop
    <3> QED BY <1>3, <2>1, <2>3, <3>2, <3>3 DEF Stays
  <2> QED BY <2>2, <2>3
<1> QED BY <1>1, <1>2, <1>4, HeldStep DEF Held

LEMMA StopHeld ==
  ASSUME Typed, Held, Stop
  PROVE  Held' /\ Final
<1>1. /\ UNCHANGED << call, control, pending, worker >> /\ gw'.for = gw.for
      /\ gw.at \notin {"route", "leave"}
  BY DEF Stop, ShutdownWorker, TasksJoined, CommandsJoined, Typed, LoopTyped
<1> QED BY <1>1, HeldFrame

LEMMA NextHeld ==
  ASSUME Typed, Supervised, Held, [Next]_vars
  PROVE  Held' /\ Final
<1>1. CASE UNCHANGED vars
  BY <1>1, HeldFrame DEF vars
<1>2. CASE HandleCall
  BY <1>2, JoinVoiceHeld, LeaveVoiceHeld, RoutePlaybackHeld DEF HandleCall
<1>3. ASSUME NEW t \in timers, TimerFires(t) PROVE Held' /\ Final
  BY <1>3, HeldFrame DEF TimerFires
<1> QED
  BY <1>1, <1>2, <1>3, IssueHeld, HandleEventHeld, DeliverHeld, DispatchHeld,
     WorkerHeld, SendStoppedHeld, CtrlCHeld, StopHeld
     DEF Next, Ended

(* Every request is held by one party as long as its caller waits, and by  *)
(* none before and after: the inductive invariant behind OneHolder.        *)
THEOREM HeldCorrect == Spec => []Held
<1>1. Typed /\ Supervised /\ Held /\ [Next]_vars => Held'
  BY NextHeld
<1> QED BY <1>1, HeldInit, TypedCorrect, SupervisedCorrect, PTL DEF Spec

(* Each request is answered once: while it waits exactly one party holds   *)
(* its response, wherever joins, leaves, timers, failures and ctrl-c took  *)
(* it, and afterwards none does.                                           *)
THEOREM AnsweredOnce == Spec => []OneHolder
<1>1. Held => OneHolder
  <2> SUFFICES ASSUME Held, NEW c \in Calls
               PROVE  Holders(c) = IF Waiting(c) THEN 1 ELSE 0
    BY DEF OneHolder
  <2> DEFINE places == {i \in DOMAIN control : control[i] = c}
  <2>1. Cardinality({}) = 0 /\ \A x : Cardinality({x}) = 1
    BY FS_EmptySet, FS_Singleton
  <2>2. Holders(c) = Cardinality(places) + Cardinality(Joins(c))
                       + Cardinality(Tasks(c)) + Cardinality(Boxes(c))
                       + (IF InLoop(c) THEN 1 ELSE 0)
    BY DEF Holders, Joins, Tasks, Boxes, InLoop
  <2>3. Cardinality(places) = IF InControl(c) THEN 1 ELSE 0
    <3>1. CASE InControl(c)
      <4>1. PICK i \in DOMAIN control : control[i] = c
        BY <3>1 DEF InControl, ToSet
      <4>2. places = {i}
        BY <4>1 DEF Held, NoTwice
      <4> QED BY <2>1, <3>1, <4>2
    <3>2. CASE ~ InControl(c)
      <4>1. places = {}
        BY <3>2 DEF InControl, ToSet
      <4> QED BY <2>1, <3>2, <4>1
    <3> QED BY <3>1, <3>2
  <2> HIDE DEF places
  <2>4. HeldRight(c)
    BY DEF Held
  <2>5. CASE ~ Waiting(c)
    <3>1. HeldBy(c, FALSE, FALSE, {}, {}, {})
      BY <2>4, <2>5 DEF HeldRight
    <3> QED BY <2>1, <2>2, <2>3, <2>5, <3>1 DEF HeldBy
  <2>6. CASE Waiting(c)
    <3>1. CASE \/ HeldBy(c, TRUE, FALSE, {}, {}, {})
               \/ HeldBy(c, FALSE, TRUE, {}, {}, {})
      BY <2>1, <2>2, <2>3, <2>6, <3>1 DEF HeldBy
    <3>2. ASSUME NEW g \in Guilds, HeldBy(c, FALSE, FALSE, {g}, {}, {})
          PROVE  Holders(c) = 1
      <4>1. Cardinality({g}) = 1
        BY <2>1
      <4> QED BY <2>1, <2>2, <2>3, <3>2, <4>1 DEF HeldBy
    <3>3. ASSUME NEW id \in Ids,
                 \/ HeldBy(c, FALSE, FALSE, {}, {id}, {})
                 \/ HeldBy(c, FALSE, FALSE, {}, {}, {id})
          PROVE  Holders(c) = 1
      <4>1. Cardinality({id}) = 1
        BY <2>1
      <4> QED BY <2>1, <2>2, <2>3, <3>3, <4>1 DEF HeldBy
    <3>4. HeldOnce(c)
      BY <2>4, <2>6 DEF HeldRight
    <3> QED BY <2>6, <3>1, <3>2, <3>3, <3>4 DEF HeldOnce
  <2> QED BY <2>5, <2>6
<1> QED BY <1>1, HeldCorrect, PTL

------------------------------------------------------------------------------
(* Part 2: who will have the bot leave voice *)

(* Once the Gateway is closed no task of a worker is left. *)
Quit ==
  gw.at \in {"join", "done"} => gw.left = {} /\ \A id \in Ids : ~ Live(id)

(* A worker has a reason exactly from the moment it stops, and its Stopped *)
(* event says that reason.                                                 *)
ReasonsKnown ==
  /\ \A id \in Ids :
       worker[id].at \notin {"stopping", "ended"} => worker[id].reason = "none"
  /\ \A e \in Stops(ToSet(events)) : worker[e.id].reason = e.reason

(* Nobody tells the worker of a map entry to stop, so if it was asked to,  *)
(* that was by a command that came while it connected.                     *)
Untold ==
  \A g \in Guilds :
    HasWorker(g) =>
      /\ Shutdown \notin ToSet(worker[workers[g].id].mailbox)
      /\ gw.at = "leave" => gw.to # workers[g].id
      /\ worker[workers[g].id].reason = "Requested" =>
           call[worker[workers[g].id].caller].answer = "Cancelled"

(* Someone is there who will have the bot leave voice in g.                *)
Owed(g) ==
  \/ HasPending(g) \/ HasWorker(g)
  \/ gw.at = "leave" /\ call[gw.for].guild = g
  \/ \E id \in gw.left : worker[id].guild = g

(* If no update fails, the bot is out of voice, or someone is about to     *)
(* have it leave, or it is there for the join that was cancelled.          *)
Accounted ==
  FALSE \notin Updates =>
    \A g \in Guilds : requested[g] = NoChannel \/ CancelledIn(g) \/ Owed(g)

Parted == Quit /\ ReasonsKnown /\ Untold /\ Accounted

LEMMA PartedInit == Init => Parted
<1> SUFFICES ASSUME Init PROVE Parted
  OBVIOUS
<1>1. Quit /\ Accounted
  BY DEF Init, Quit, Accounted, Selecting
<1>2. ReasonsKnown
  <2>1. ToSet(events) = {}
    BY DEF Init, ToSet
  <2> QED BY <2>1 DEF Init, ReasonsKnown, Stops, NoTask
<1>3. Untold
  BY DEF Init, Untold, HasWorker, NoHandle
<1> QED BY <1>1, <1>2, <1>3 DEF Parted

(* A join that was cancelled stays cancelled, until Discord is asked again. *)
LEMMA CancelledKept ==
  ASSUME Typed, Final, NEW g \in Guilds, CancelledIn(g),
         requested'[g] = requested[g],
         \A id \in Ids :
           worker[id].reason = "Requested" =>
             /\ worker'[id].reason = "Requested"
             /\ worker'[id].guild = worker[id].guild
             /\ worker'[id].channel = worker[id].channel
             /\ worker'[id].caller = worker[id].caller
  PROVE  CancelledIn(g)'
<1>1. PICK id \in Ids :
        /\ worker[id].guild = g /\ worker[id].channel = requested[g]
        /\ worker[id].reason = "Requested"
        /\ call[worker[id].caller].answer = "Cancelled"
  BY DEF CancelledIn
<1>2. PICK c \in Calls : c = worker[id].caller
  <2>1. Started(id)
    BY <1>1 DEF Started, Typed, TasksTyped, NoTask, IssuedTask
  <2> QED BY <2>1, StartedTask DEF IssuedTask, Issued
<1>3. call'[c] = call[c]
  BY <1>1, <1>2 DEF Final, Answered
<1> QED BY <1>1, <1>2, <1>3 DEF CancelledIn

(* Steps that leave the tasks and the worker map alone. *)
LEMMA PartedFrame ==
  ASSUME Typed, Parted, Final, UNCHANGED << worker, workers >>,
         Stops(ToSet(events')) \subseteq Stops(ToSet(events)),
         FALSE \notin Updates =>
           \A g \in Guilds :
             \/ requested'[g] = NoChannel \/ HasPending(g)'
             \/ requested'[g] = requested[g] /\ ~ HasPending(g),
         gw'.left = gw.left,
         gw'.at \in {"join", "done"} => gw.at \in {"join", "done"},
         gw'.at = "leave" => gw.at = "leave" /\ gw'.to = gw.to,
         gw.at = "leave" =>
           gw'.at = "leave" /\ call'[gw'.for].guild = call[gw.for].guild
  PROVE  Parted'
<1>1. Quit'
  BY DEF Parted, Quit, Live
<1>2. ReasonsKnown'
  BY DEF Parted, ReasonsKnown, Stops
<1>3. Untold'
  <2> SUFFICES ASSUME NEW g \in Guilds, HasWorker(g)
               PROVE  /\ Shutdown \notin ToSet(worker[workers[g].id].mailbox)
                      /\ gw'.at = "leave" => gw'.to # workers[g].id
                      /\ worker[workers[g].id].reason = "Requested" =>
                           call'[worker[workers[g].id].caller].answer = "Cancelled"
    BY DEF Untold, HasWorker
  <2>1. /\ Shutdown \notin ToSet(worker[workers[g].id].mailbox)
        /\ gw'.at = "leave" => gw'.to # workers[g].id
        /\ worker[workers[g].id].reason = "Requested" =>
             call[worker[workers[g].id].caller].answer = "Cancelled"
    BY DEF Parted, Untold
  <2>2. worker[workers[g].id].caller \in Calls
    <3>1. workers[g].id \in Ids /\ Started(workers[g].id)
      BY HandleTyped DEF Typed, NamesStarted
    <3> QED BY <3>1, StartedTask DEF IssuedTask, Issued
  <2> QED BY <2>1, <2>2 DEF Final, Answered
<1>4. Accounted'
  <2> SUFFICES ASSUME FALSE \notin Updates, NEW g \in Guilds
               PROVE  requested'[g] = NoChannel \/ CancelledIn(g)' \/ Owed(g)'
    BY DEF Accounted
  <2>1. CASE requested'[g] = NoChannel \/ HasPending(g)'
    BY <2>1 DEF Owed
  <2>2. CASE requested'[g] = requested[g] /\ ~ HasPending(g)
    <3>1. requested[g] = NoChannel \/ CancelledIn(g) \/ Owed(g)
      BY DEF Parted, Accounted
    <3>2. CASE CancelledIn(g)
      BY <2>2, <3>2, CancelledKept
    <3>3. CASE Owed(g)
      BY <2>2, <3>3 DEF Owed, HasWorker
    <3> QED BY <2>2, <3>1, <3>2, <3>3
  <2> QED BY <2>1, <2>2
<1> QED BY <1>1, <1>2, <1>3, <1>4 DEF Parted

(* One task changes, under the same loop and the same maps. *)
LEMMA PartedTask ==
  ASSUME Typed, Supervised, Parted, Final, Answering, NEW id \in Ids, NEW task,
         worker' = [worker EXCEPT ![id] = task],
         UNCHANGED << gw, pending, workers, requested >>,
         Live(id), task.at \in {"running", "stopping", "ended"},
         task.guild = worker[id].guild, task.caller = worker[id].caller,
         task.channel = worker[id].channel,
         worker[id].reason # "none" => task.reason = worker[id].reason,
         task.at = "running" => task.reason = "none",
         Shutdown \in ToSet(task.mailbox) => Shutdown \in ToSet(worker[id].mailbox),
         task.reason = "Requested" =>
           \/ worker[id].reason = "Requested"
           \/ Shutdown \in ToSet(worker[id].mailbox)
           \/ call'[task.caller].answer = "Cancelled",
         \A e \in Stops(ToSet(events')) :
           e \in Stops(ToSet(events)) \/ (e.id = id /\ e.reason = task.reason)
  PROVE  Parted'
<1>1. worker'[id] = task /\ \A i \in Ids \ {id} : worker'[i] = worker[i]
  BY DEF Typed, TasksTyped
<1>2. Quit'
  <2>1. gw.at \notin {"join", "done"}
    BY DEF Parted, Quit
  <2> QED BY <2>1 DEF Quit
<1>3. ReasonsKnown'
  <2>1. \A i \in Ids :
          worker'[i].at \notin {"stopping", "ended"} => worker'[i].reason = "none"
    BY <1>1 DEF Parted, ReasonsKnown
  <2>2. ASSUME NEW e \in Stops(ToSet(events')), e \in Stops(ToSet(events))
        PROVE  worker'[e.id].reason = e.reason
    <3>1. worker[e.id].at = "ended" /\ worker[e.id].reason = e.reason
      BY <2>2 DEF Supervised, StoppedHasEnded, Parted, ReasonsKnown
    <3>2. e.id # id
      BY <3>1 DEF Live
    <3>3. e.id \in Ids
      <4>1. events \in Seq(Event)
        BY DEF Typed, TasksTyped
      <4>2. e \in Event
        BY <2>2, <4>1, Elements DEF Stops
      <4> QED BY <4>2 DEF Event
    <3> QED BY <1>1, <3>1, <3>2, <3>3
  <2> QED BY <1>1, <2>1, <2>2 DEF ReasonsKnown, Stops
<1>4. Untold'
  <2> SUFFICES ASSUME NEW g \in Guilds, HasWorker(g)
               PROVE  /\ Shutdown \notin ToSet(worker'[workers[g].id].mailbox)
                      /\ gw.at = "leave" => gw.to # workers[g].id
                      /\ worker'[workers[g].id].reason = "Requested" =>
                           call'[worker'[workers[g].id].caller].answer = "Cancelled"
    BY DEF Untold, HasWorker
  <2> DEFINE i == workers[g].id
  <2>1. /\ Shutdown \notin ToSet(worker[i].mailbox)
        /\ gw.at = "leave" => gw.to # i
        /\ worker[i].reason = "Requested" =>
             call[worker[i].caller].answer = "Cancelled"
    BY DEF Parted, Untold
  <2>2. i \in Ids /\ worker[i].caller \in Calls
    <3>1. i \in Ids /\ Started(i)
      BY HandleTyped DEF Typed, NamesStarted
    <3> QED BY <3>1, StartedTask DEF IssuedTask, Issued
  <2>3. worker[i].reason = "Requested" =>
          call'[worker[i].caller].answer = "Cancelled"
    BY <2>1, <2>2 DEF Final, Answered
  <2> HIDE DEF i
  <2>4. CASE i # id
    BY <1>1, <2>1, <2>2, <2>3, <2>4 DEF i
  <2>5. CASE i = id
    <3>1. task.reason = "Requested" => call'[task.caller].answer = "Cancelled"
      BY <2>1, <2>3, <2>5
    <3> QED BY <1>1, <2>1, <2>5, <3>1 DEF i
  <2> QED BY <2>4, <2>5
<1>5. Accounted'
  <2> SUFFICES ASSUME FALSE \notin Updates, NEW g \in Guilds
               PROVE  requested[g] = NoChannel \/ CancelledIn(g)' \/ Owed(g)'
    BY DEF Accounted
  <2>1. requested[g] = NoChannel \/ CancelledIn(g) \/ Owed(g)
    BY DEF Parted, Accounted
  <2>2. CASE CancelledIn(g)
    <3>1. \A i \in Ids :
            worker[i].reason = "Requested" =>
              /\ worker'[i].reason = "Requested"
              /\ worker'[i].guild = worker[i].guild
              /\ worker'[i].channel = worker[i].channel
              /\ worker'[i].caller = worker[i].caller
      BY <1>1
    <3> QED BY <2>2, <3>1, CancelledKept
  <2>3. CASE Owed(g)
    <3>1. gw.at = "leave" => call'[gw.for].guild = call[gw.for].guild
      BY DEF Answering, Typed, LoopTyped, Issued
    <3>2. \A i \in gw.left : worker'[i].guild = worker[i].guild
      BY <1>1 DEF Typed, LoopTyped
    <3> QED BY <2>3, <3>1, <3>2 DEF Owed, HasPending, HasWorker
  <2> QED BY <2>1, <2>2, <2>3
<1> QED BY <1>2, <1>3, <1>4, <1>5 DEF Parted

LEMMA WorkerParted ==
  ASSUME Typed, Supervised, Parted, Final, NEW id \in Ids,
         \/ Connected(id) \/ ConnectFails(id) \/ HandleCommand(id)
         \/ SessionEnds(id)
  PROVE  Parted'
<1> DEFINE box == worker[id].mailbox
<1>1. worker[id] \in IssuedTask /\ Started(id) /\ Live(id)
      /\ worker[id].at \in {"connecting", "running"}
  BY StartedTask DEF Connected, ConnectFails, HandleCommand, SessionEnds,
         ConnectAborted, HandlePlayback, HandleShutdown, Started, Live
<1>2. worker[id].reason = "none"
  BY <1>1 DEF Parted, ReasonsKnown
<1>3. PICK task : task = worker'[id]
  OBVIOUS
<1>4. /\ worker' = [worker EXCEPT ![id] = task]
      /\ UNCHANGED << gw, pending, workers, requested, events >>
  BY <1>3 DEF Connected, ConnectFails, HandleCommand, SessionEnds, WorkerStep,
              ConnectAborted, HandlePlayback, HandleShutdown, Typed, TasksTyped
<1>5. Answering
  BY WorkerTyped
<1>6. /\ task.at \in {"running", "stopping"}
      /\ task.guild = worker[id].guild /\ task.caller = worker[id].caller
      /\ task.channel = worker[id].channel
      /\ task.at = "running" => task.reason = "none"
      /\ task.mailbox = box \/ (box # << >> /\ task.mailbox = Tail(box))
  <2>1. CASE Connected(id)
    BY <1>1, <1>2, <1>3, <2>1
       DEF Connected, WorkerStep, IssuedTask, Typed, TasksTyped
  <2>0. CASE ConnectFails(id)
    BY <1>1, <1>2, <1>3, <2>0
       DEF ConnectFails, WorkerStep, Stopping, IssuedTask, Typed, TasksTyped
  <2>2. CASE ConnectAborted(id) \/ HandleShutdown(id)
    <3> DEFINE stopping == Stopping(id, "Requested")
    <3>1. /\ stopping \in IssuedTask
          /\ stopping.at = "stopping" /\ stopping.mailbox = box
          /\ stopping.guild = worker[id].guild
          /\ stopping.caller = worker[id].caller
          /\ stopping.channel = worker[id].channel
      BY <1>1 DEF Stopping, IssuedTask, Reasons
    <3>2. /\ worker' = [worker EXCEPT ![id] =
                          [stopping EXCEPT !.mailbox = Tail(@)]]
          /\ box # << >>
      BY <2>2 DEF ConnectAborted, HandleShutdown, WorkerStep
    <3> HIDE DEF stopping
    <3>3. task = [stopping EXCEPT !.mailbox = Tail(@)]
      BY <1>3, <3>2 DEF Typed, TasksTyped
    <3>4. /\ task.at = "stopping" /\ task.mailbox = Tail(box)
          /\ task.guild = worker[id].guild
          /\ task.caller = worker[id].caller
          /\ task.channel = worker[id].channel
      BY <3>1, <3>3 DEF IssuedTask
    <3> QED BY <3>2, <3>4
  <2>3. CASE HandlePlayback(id)
    <3> DEFINE rest == [worker[id] EXCEPT !.mailbox = Tail(@)]
    <3> DEFINE failed == [rest EXCEPT !.at = "stopping",
                                      !.reason = "VoiceFailed"]
    <3>1. box # << >> /\ worker[id].at = "running"
          /\ (worker' = [worker EXCEPT ![id] = rest]
               \/ worker' = [worker EXCEPT ![id] = failed])
      BY <2>3 DEF HandlePlayback, WorkerStep
    <3>2. task = rest \/ task = failed
      BY <1>3, <3>1 DEF Typed, TasksTyped
    <3>3. /\ rest.at = "running" /\ rest.mailbox = Tail(box)
          /\ rest.reason = "none"
          /\ rest.guild = worker[id].guild
          /\ rest.caller = worker[id].caller
          /\ rest.channel = worker[id].channel
      BY <1>1, <1>2, <3>1 DEF IssuedTask
    <3>4. /\ failed.at = "stopping" /\ failed.mailbox = Tail(box)
          /\ failed.guild = worker[id].guild
          /\ failed.caller = worker[id].caller
          /\ failed.channel = worker[id].channel
      BY <1>1 DEF IssuedTask
    <3> HIDE DEF rest, failed
    <3>5. CASE task = rest
      BY <3>1, <3>3, <3>5
    <3>6. CASE task = failed
      BY <3>1, <3>4, <3>6
    <3> QED BY <3>2, <3>5, <3>6
  <2>4. CASE SessionEnds(id)
    BY <1>1, <1>2, <1>3, <2>4
       DEF SessionEnds, WorkerStep, Stopping, IssuedTask, Typed, TasksTyped
  <2> QED BY <2>0, <2>1, <2>2, <2>3, <2>4 DEF HandleCommand
<1>7. Shutdown \in ToSet(task.mailbox) => Shutdown \in ToSet(box)
  <2>1. box # << >> => ToSet(Tail(box)) \subseteq ToSet(box)
    BY <1>1, TakeFirst DEF IssuedTask
  <2> QED BY <1>6, <2>1
<1>8. task.reason = "Requested" =>
        \/ Shutdown \in ToSet(box) \/ call'[task.caller].answer = "Cancelled"
  <2>1. CASE Connected(id) \/ ConnectFails(id)
    <3>1. task.reason # "Requested"
      BY <1>1, <1>2, <1>3, <2>1
         DEF Connected, ConnectFails, WorkerStep, Stopping, IssuedTask, Typed,
             TasksTyped
    <3> QED BY <3>1
  <2>2. CASE ConnectAborted(id)
    <3>1. PICK d \in Calls : d = worker[id].caller
      BY <1>1 DEF IssuedTask, Issued
    <3> DEFINE first == AnswerAll({Head(box)}, "Dropped")
    <3>2. first \in [Calls -> {Unissued} \union Request]
      <4>1. {Head(box)} \intersect Calls \subseteq Issued
        BY <1>1, <2>2, MailboxTyped, DistinctAssumption DEF ConnectAborted
      <4> QED BY <4>1, AnswersType DEF Typed, Answers
    <3>3. call' = [first EXCEPT ![d].answer = "Cancelled"]
      BY <2>2, <3>1 DEF ConnectAborted
    <3> HIDE DEF first
    <3>4. call'[d] = [first[d] EXCEPT !.answer = "Cancelled"]
      BY <3>1, <3>2, <3>3
    <3>5. call'[d].answer = "Cancelled"
      BY <3>1, <3>2, <3>4 DEF Request, Unissued
    <3> QED BY <1>6, <3>1, <3>5
  <2>3. CASE HandlePlayback(id)
    <3>1. task.reason # "Requested"
      BY <1>1, <1>2, <1>3, <2>3
         DEF HandlePlayback, WorkerStep, IssuedTask, Typed, TasksTyped
    <3> QED BY <3>1
  <2>4. CASE HandleShutdown(id)
    <3>1. Shutdown \in ToSet(box)
      BY <1>1, <2>4, TakeFirst DEF HandleShutdown, IssuedTask
    <3> QED BY <3>1
  <2>5. CASE SessionEnds(id)
    <3>1. task.reason # "Requested"
      BY <1>1, <1>2, <1>3, <2>5
         DEF SessionEnds, WorkerStep, Stopping, IssuedTask, Typed, TasksTyped
    <3> QED BY <3>1
  <2> QED BY <2>1, <2>2, <2>3, <2>4, <2>5 DEF HandleCommand
<1> HIDE DEF box
<1> QED BY <1>1, <1>2, <1>4, <1>5, <1>6, <1>7, <1>8, PartedTask DEF box

LEMMA SendStoppedParted ==
  ASSUME Typed, Supervised, Parted, Final, NEW id \in Ids, SendStopped(id)
  PROVE  Parted'
<1> DEFINE e == [kind |-> "Stopped", guild |-> worker[id].guild, id |-> id,
                 reason |-> worker[id].reason]
<1>1. worker[id] \in IssuedTask /\ Live(id)
  BY StartedTask DEF SendStopped, Started, Live
<1>2. PICK task : task = [worker[id] EXCEPT !.at = "ended", !.mailbox = << >>]
  OBVIOUS
<1>3. /\ task.at = "ended" /\ task.mailbox = << >>
      /\ task.guild = worker[id].guild /\ task.caller = worker[id].caller
      /\ task.channel = worker[id].channel /\ task.reason = worker[id].reason
  BY <1>1, <1>2 DEF IssuedTask
<1>4. /\ worker' = [worker EXCEPT ![id] = task]
      /\ UNCHANGED << gw, pending, workers, requested >>
  BY <1>1, <1>2 DEF SendStopped, IssuedTask, Typed, TasksTyped
<1>5. Answering
  BY SendStoppedTyped
<1>6. ToSet(<< >>) = {}
  BY DEF ToSet
<1>7. e \in Event /\ e.id = id /\ e.reason = worker[id].reason
  BY <1>1 DEF IssuedTask, Event
<1>8. events' = Append(events, e)
  BY DEF SendStopped
<1> HIDE DEF e
<1>9. ToSet(events') = ToSet(events) \union {e}
  BY <1>7, <1>8, AddLast DEF Typed, TasksTyped
<1>10. \A f \in Stops(ToSet(events')) :
         f \in Stops(ToSet(events)) \/ (f.id = id /\ f.reason = task.reason)
  BY <1>3, <1>7, <1>9 DEF Stops
<1> QED BY <1>1, <1>3, <1>4, <1>5, <1>6, <1>10, PartedTask

LEMMA DeliverParted ==
  ASSUME Typed, Sessions, Supervised, Parted, Final, Deliver
  PROVE  Parted'
<1>1. PICK to \in Ids : to = gw.to
  BY DEF Deliver, DeliverPlayback, DeliverLeave, DeliverShutdown, Typed, LoopTyped
<1>2. /\ Started(to) /\ worker[to] \in IssuedTask
      /\ UNCHANGED << pending, workers, events >>
  BY <1>1, StartedTask DEF Deliver, DeliverPlayback, DeliverLeave,
     DeliverShutdown, Typed, NamesStarted
<1>3. PICK m \in Issued \union {Shutdown} :
        /\ Send(to, m)
        /\ DeliverPlayback => m # Shutdown
  BY <1>1, DistinctAssumption
     DEF Deliver, DeliverPlayback, DeliverLeave, DeliverShutdown, Typed,
         LoopTyped, Issued
<1>4. /\ \A i \in Ids : /\ worker'[i].at = worker[i].at
                        /\ worker'[i].guild = worker[i].guild
                        /\ worker'[i].channel = worker[i].channel
                        /\ worker'[i].caller = worker[i].caller
                        /\ worker'[i].reason = worker[i].reason
      /\ \A i \in Ids \ {to} : worker'[i] = worker[i]
      /\ \/ worker'[to].mailbox = worker[to].mailbox
         \/ worker'[to].mailbox = Append(worker[to].mailbox, m)
  BY <1>2, <1>3 DEF Send, Typed, TasksTyped, IssuedTask
<1>5. ToSet(worker'[to].mailbox) \subseteq ToSet(worker[to].mailbox) \union {m}
  <2>1. worker[to].mailbox \in Seq(Issued \union {Shutdown})
    BY <1>2 DEF IssuedTask
  <2>2. ToSet(Append(worker[to].mailbox, m)) = ToSet(worker[to].mailbox) \union {m}
    BY <2>1, AddLast
  <2> QED BY <1>4, <2>2
<1>6. gw'.at \in {"select", "drain"} /\ gw'.left = gw.left
  <2>1. Open => gw.left = {}
    BY DEF Supervised, NoneLeft
  <2>2. CASE DeliverPlayback \/ DeliverLeave
    <3>1. gw.at \in {"route", "leave"} /\ gw' = Selecting
      BY <2>2 DEF DeliverPlayback, DeliverLeave
    <3> QED BY <2>1, <3>1 DEF Selecting, Open
  <2>3. CASE DeliverShutdown
    BY <2>3 DEF DeliverShutdown, Typed, LoopTyped
  <2> QED BY <2>2, <2>3 DEF Deliver
<1>7. Quit'
  BY <1>6 DEF Quit
<1>8. ReasonsKnown'
  <2>1. \A e \in Stops(ToSet(events)) : e.id \in Ids
    BY Elements DEF Typed, TasksTyped, Stops, Event
  <2> QED BY <1>2, <1>4, <2>1 DEF Parted, ReasonsKnown, Stops
<1>9. Untold'
  <2> SUFFICES ASSUME NEW g \in Guilds, HasWorker(g)
               PROVE  /\ Shutdown \notin ToSet(worker'[workers[g].id].mailbox)
                      /\ worker'[workers[g].id].reason = "Requested" =>
                           call'[worker'[workers[g].id].caller].answer = "Cancelled"
    BY <1>2, <1>6 DEF Untold, HasWorker
  <2> DEFINE i == workers[g].id
  <2>1. /\ Shutdown \notin ToSet(worker[i].mailbox)
        /\ gw.at = "leave" => gw.to # i
        /\ worker[i].reason = "Requested" =>
             call[worker[i].caller].answer = "Cancelled"
    BY DEF Parted, Untold
  <2>2. i \in Ids /\ worker[i].caller \in Calls
    <3>1. i \in Ids /\ Started(i)
      BY HandleTyped DEF Typed, NamesStarted
    <3> QED BY <3>1, StartedTask DEF IssuedTask, Issued
  <2>3. Open
    BY DEF Sessions, Closed
  <2>4. i = to => DeliverPlayback
    BY <1>1, <2>1, <2>3 DEF Deliver, DeliverLeave, DeliverShutdown, Open
  <2> HIDE DEF i
  <2>5. Shutdown \notin ToSet(worker'[i].mailbox)
    <3>1. CASE i = to
      BY <1>3, <1>5, <2>1, <2>4, <3>1
    <3>2. CASE i # to
      BY <1>4, <2>1, <2>2, <3>2
    <3> QED BY <3>1, <3>2
  <2>6. worker'[i].reason = "Requested" =>
          call'[worker'[i].caller].answer = "Cancelled"
    BY <1>4, <2>1, <2>2 DEF Final, Answered
  <2> QED BY <2>5, <2>6 DEF i
<1>10. Accounted'
  <2> SUFFICES ASSUME FALSE \notin Updates, NEW g \in Guilds
               PROVE  requested'[g] = NoChannel \/ CancelledIn(g)' \/ Owed(g)'
    BY DEF Accounted
  <2>1. requested[g] = NoChannel \/ CancelledIn(g) \/ Owed(g)
    BY DEF Parted, Accounted
  <2>2. \/ requested'[g] = NoChannel
        \/ /\ requested'[g] = requested[g]
           /\ ~ (gw.at = "leave" /\ call[gw.for].guild = g)
    <3>1. CASE DeliverPlayback \/ DeliverShutdown
      BY <3>1 DEF DeliverPlayback, DeliverShutdown
    <3>2. CASE DeliverLeave
      <4>1. requested' = [requested EXCEPT ![call[gw.for].guild] = NoChannel]
        BY <3>2, BoundAssumption DEF DeliverLeave
      <4> QED BY <4>1 DEF Typed, MapsTyped
    <3> QED BY <3>1, <3>2 DEF Deliver
  <2>3. CASE requested'[g] = requested[g] /\ CancelledIn(g)
    BY <1>4, <2>3, CancelledKept
  <2>4. CASE Owed(g) /\ ~ (gw.at = "leave" /\ call[gw.for].guild = g)
    <3>1. \A i \in gw.left : worker'[i].guild = worker[i].guild
      BY <1>4 DEF Typed, LoopTyped
    <3> QED BY <1>2, <1>6, <2>4, <3>1 DEF Owed, HasPending, HasWorker
  <2> QED BY <2>1, <2>2, <2>3, <2>4
<1> QED BY <1>7, <1>8, <1>9, <1>10 DEF Parted

LEMMA StartWorkerParted ==
  ASSUME Typed, Supervised, Parted, Final, NEW g \in Guilds, StartWorker(g)
  PROVE  Parted'
<1>1. PICK n \in Ids : n = nextId + 1
  BY BoundAssumption DEF StartWorker, Typed, MapsTyped, Ids
<1>2. PICK task : task = NewTask(g, pending[g])
  OBVIOUS
<1>3. /\ worker' = [worker EXCEPT ![n] = task]
      /\ workers' = [workers EXCEPT ![g] =
                       [id |-> n, channel |-> pending[g].channel]]
      /\ pending' = [pending EXCEPT ![g] = NoPending]
      /\ UNCHANGED << call, control, gw, events, requested >>
      /\ gw.at = "select"
  BY <1>1, <1>2 DEF StartWorker
<1>4. /\ task.at = "connecting" /\ task.mailbox = << >>
      /\ task.reason = "none"
  BY <1>2 DEF NewTask
<1>5. worker[n] = NoTask
  BY <1>1 DEF Supervised, Unused, Typed, MapsTyped, Ids
<1>6. worker'[n] = task /\ \A i \in Ids \ {n} : worker'[i] = worker[i]
  BY <1>3 DEF Typed, TasksTyped
<1>7. /\ workers'[g].id = n /\ n # 0
      /\ \A h \in Guilds \ {g} : workers'[h] = workers[h] /\ pending'[h] = pending[h]
  BY <1>3 DEF Typed, MapsTyped, Ids
<1>8. Quit'
  BY <1>3 DEF Quit
<1>9. ReasonsKnown'
  <2>1. \A e \in Stops(ToSet(events)) : e.id \in Ids /\ worker[e.id].at = "ended"
    BY Elements DEF Typed, TasksTyped, Stops, Event, Supervised, StoppedHasEnded
  <2> QED BY <1>3, <1>4, <1>5, <1>6, <2>1
             DEF Parted, ReasonsKnown, Stops, NoTask
<1>10. Untold'
  <2> SUFFICES ASSUME NEW h \in Guilds, HasWorker(h)'
               PROVE  /\ Shutdown \notin ToSet(worker'[workers'[h].id].mailbox)
                      /\ worker'[workers'[h].id].reason = "Requested" =>
                           call'[worker'[workers'[h].id].caller].answer = "Cancelled"
    BY <1>3 DEF Untold
  <2>1. CASE h = g
    <3>1. ToSet(<< >>) = {}
      BY DEF ToSet
    <3> QED BY <1>4, <1>6, <1>7, <2>1, <3>1
  <2>2. CASE h # g
    <3>1. HasWorker(h) /\ workers'[h].id = workers[h].id
      BY <1>7, <2>2 DEF HasWorker
    <3>2. workers[h].id \in Ids \ {n}
      <4>1. workers[h].id \in Ids /\ Started(workers[h].id)
        BY <3>1, HandleTyped DEF Typed, NamesStarted
      <4> QED BY <1>5, <4>1 DEF Started, NoTask
    <3> QED BY <1>3, <1>6, <3>1, <3>2 DEF Parted, Untold
  <2> QED BY <2>1, <2>2
<1>11. Accounted'
  <2> SUFFICES ASSUME FALSE \notin Updates, NEW h \in Guilds
               PROVE  requested[h] = NoChannel \/ CancelledIn(h)' \/ Owed(h)'
    BY <1>3 DEF Accounted
  <2>1. requested[h] = NoChannel \/ CancelledIn(h) \/ Owed(h)
    BY DEF Parted, Accounted
  <2>2. CASE CancelledIn(h)
    <3>1. \A i \in Ids : worker[i].reason = "Requested" => i # n
      BY <1>5 DEF NoTask
    <3> QED BY <1>3, <1>6, <2>2, <3>1, CancelledKept
  <2>3. CASE Owed(h)
    <3>1. gw.left = {}
      BY <1>3 DEF Supervised, NoneLeft, Open
    <3> QED BY <1>3, <1>7, <2>3, <3>1 DEF Owed, HasPending, HasWorker
  <2> QED BY <2>1, <2>2, <2>3
<1> QED BY <1>8, <1>9, <1>10, <1>11 DEF Parted

(* The end of the entry's own worker: one that was asked to stop connected *)
(* when it was told to, so the join was cancelled.                         *)
LEMMA StoppedParted ==
  ASSUME Typed, Sessions, Supervised, Parted, Final, Stopped
  PROVE  Parted'
<1>1. PICK e \in Event : e = Head(events)
  BY ReceivedEvent DEF Stopped
<1>2. /\ e.kind = "Stopped" /\ gw.at = "select"
      /\ ToSet(events) = {e} \union ToSet(events')
  BY <1>1, ReceivedEvent DEF Stopped, ReceiveEvent
<1>3. e \in Stops(ToSet(events)) /\ Stops(ToSet(events')) \subseteq Stops(ToSet(events))
  BY <1>2 DEF Stops
<1>4. PICK g \in Guilds : g = e.guild
  BY DEF Event
<1>5. UNCHANGED << call, control, gw, pending, worker >>
  BY DEF Stopped
<1>6. CASE workers[g].id # e.id
  <2>1. UNCHANGED << workers, requested >>
    BY <1>1, <1>4, <1>6 DEF Stopped
  <2>2. \A h \in Guilds : HasPending(h)' \/ ~ HasPending(h)
    BY <1>5 DEF HasPending
  <2> QED BY <1>2, <1>3, <1>5, <2>1, <2>2, PartedFrame
<1>7. CASE workers[g].id = e.id
  <2>1. /\ workers' = [workers EXCEPT ![g] = NoHandle]
        /\ IF e.reason = "Requested" THEN UNCHANGED requested ELSE Disconnect(g)
    BY <1>1, <1>4, <1>7 DEF Stopped
  <2>2. /\ ~ HasWorker(g)'
        /\ \A h \in Guilds \ {g} : workers'[h] = workers[h]
        /\ \A h \in Guilds : HasWorker(h)' => workers'[h] = workers[h] /\ HasWorker(h)
    BY <2>1 DEF HasWorker, NoHandle, Typed, MapsTyped
  <2>3. Quit' /\ ReasonsKnown'
    BY <1>2, <1>3, <1>5 DEF Parted, Quit, ReasonsKnown
  <2>4. Untold'
    BY <1>5, <2>2 DEF Parted, Untold
  <2>5. Accounted'
    <3> SUFFICES ASSUME FALSE \notin Updates, NEW h \in Guilds
                 PROVE  requested'[h] = NoChannel \/ CancelledIn(h)' \/ Owed(h)'
      BY DEF Accounted
    <3>1. requested[h] = NoChannel \/ CancelledIn(h) \/ Owed(h)
      BY DEF Parted, Accounted
    <3>2. Disconnect(g) => requested' = [requested EXCEPT ![g] = NoChannel]
      BY BoundAssumption DEF Disconnect
    <3>3. requested'[h] = NoChannel \/ requested'[h] = requested[h]
      BY <2>1, <3>2 DEF Typed, MapsTyped
    <3>4. CASE CancelledIn(h)
      BY <1>5, <3>3, <3>4, CancelledKept
    <3>5. CASE Owed(h) /\ h # g
      BY <1>5, <2>2, <3>5 DEF Owed, HasPending, HasWorker
    <3>6. CASE h = g /\ e.reason = "Requested"
      <4>1. /\ e.id \in Ids /\ worker[e.id].guild = g
            /\ worker[e.id].reason = "Requested"
        BY <1>3, <1>4, <3>6
           DEF Event, Supervised, StoppedHasEnded, Parted, ReasonsKnown
      <4>2. HasWorker(g)
        BY <1>7, <4>1 DEF HasWorker, Ids
      <4>3. worker[e.id].channel = requested[g]
        BY <1>7, <4>2 DEF Supervised, EntryHasWorker, Sessions, SessionRequested
      <4>4. call[worker[e.id].caller].answer = "Cancelled"
        BY <1>7, <4>1, <4>2 DEF Parted, Untold
      <4>5. CancelledIn(g)
        BY <4>1, <4>3, <4>4 DEF CancelledIn
      <4>6. requested'[g] = requested[g]
        BY <2>1, <3>6
      <4> QED BY <1>5, <3>6, <4>5, <4>6, CancelledKept
    <3>7. CASE h = g /\ e.reason # "Requested"
      BY <2>1, <3>2, <3>7 DEF Typed, MapsTyped
    <3> QED BY <3>1, <3>3, <3>4, <3>5, <3>6, <3>7
  <2> QED BY <2>3, <2>4, <2>5 DEF Parted
<1> QED BY <1>6, <1>7

(* ctrl-c disconnects the pending joins, and hands the workers over.       *)
LEMMA CtrlCParted ==
  ASSUME Typed, Sessions, Supervised, Parted, Final, CtrlC
  PROVE  Parted'
<1>1. /\ gw.at = "select" /\ gw'.at = "drain"
      /\ gw'.left = {workers[g].id : g \in Guilds} \ {0}
      /\ \A g \in Guilds : ~ HasWorker(g)' /\ ~ HasPending(g)'
      /\ UNCHANGED << worker, events >>
  BY DEF CtrlC, Typed, LoopTyped, HasWorker, HasPending, NoHandle, NoPending
<1>2. Quit' /\ ReasonsKnown' /\ Untold'
  BY <1>1 DEF Parted, Quit, ReasonsKnown, Untold
<1>3. Accounted'
  <2> SUFFICES ASSUME FALSE \notin Updates, NEW g \in Guilds
               PROVE  requested'[g] = NoChannel \/ CancelledIn(g)' \/ Owed(g)'
    BY DEF Accounted
  <2>1. requested[g] = NoChannel \/ CancelledIn(g) \/ Owed(g)
    BY DEF Parted, Accounted
  <2>2. requested'[g] = IF HasPending(g) THEN NoChannel ELSE requested[g]
    BY DEF CtrlC
  <2>3. CASE CancelledIn(g)
    BY <1>1, <2>2, <2>3, CancelledKept
  <2>4. CASE HasWorker(g)
    <3>1. workers[g].id \in gw'.left
      BY <1>1, <2>4 DEF HasWorker
    <3>2. worker'[workers[g].id].guild = g
      BY <1>1, <2>4 DEF Supervised, EntryHasWorker
    <3> QED BY <3>1, <3>2 DEF Owed
  <2>5. gw.left = {}
    BY <1>1 DEF Supervised, NoneLeft, Open
  <2> QED BY <1>1, <2>1, <2>2, <2>3, <2>4, <2>5 DEF Owed
<1> QED BY <1>2, <1>3 DEF Parted

LEMMA StopParted ==
  ASSUME Typed, Sessions, Supervised, Parted, Final, Stop
  PROVE  Parted'
<1>1. CASE CommandsJoined
  <2>1. /\ UNCHANGED << worker, workers, events, requested, pending >>
        /\ gw.at = "join" /\ gw'.at = "done" /\ gw'.left = gw.left
    BY <1>1 DEF CommandsJoined, Typed, LoopTyped
  <2>2. \A g \in Guilds : HasPending(g)' \/ ~ HasPending(g)
    BY <2>1 DEF HasPending
  <2> QED BY <2>1, <2>2, PartedFrame
<1>2. CASE TasksJoined
  <2>1. /\ UNCHANGED << worker, workers, events, requested, pending >>
        /\ gw.at = "drain" /\ gw'.at = "join" /\ gw'.left = gw.left
        /\ gw.left = {} /\ \A id \in Ids : ~ Live(id)
    BY <1>2 DEF TasksJoined, Typed, LoopTyped
  <2>2. Quit'
    BY <2>1 DEF Quit, Live
  <2>3. ReasonsKnown' /\ Untold'
    <3>1. \A g \in Guilds : ~ HasWorker(g)'
      BY <2>1 DEF Sessions, Closed, Open, HasWorker
    <3> QED BY <2>1, <3>1 DEF Parted, ReasonsKnown, Untold
  <2>4. Accounted'
    <3> SUFFICES ASSUME FALSE \notin Updates, NEW g \in Guilds
                 PROVE  requested[g] = NoChannel \/ CancelledIn(g)' \/ Owed(g)'
      BY <2>1 DEF Accounted
    <3>1. requested[g] = NoChannel \/ CancelledIn(g) \/ Owed(g)
      BY DEF Parted, Accounted
    <3>2. CASE CancelledIn(g)
      BY <2>1, <3>2, CancelledKept
    <3> QED BY <2>1, <3>1, <3>2 DEF Owed, HasPending, HasWorker
  <2> QED BY <2>2, <2>3, <2>4 DEF Parted
<1>3. ASSUME NEW id \in Ids, ShutdownWorker(id) PROVE Parted'
  <2>1. /\ UNCHANGED << worker, workers, events, pending >>
        /\ gw.at = "drain" /\ gw'.at = "stop" /\ gw'.left = gw.left \ {id}
        /\ Disconnect(worker[id].guild)
    BY <1>3 DEF ShutdownWorker, Typed, LoopTyped
  <2>2. \A g \in Guilds : ~ HasWorker(g)'
    BY <2>1 DEF Sessions, Closed, Open, HasWorker
  <2>3. Quit' /\ ReasonsKnown' /\ Untold'
    BY <2>1, <2>2 DEF Parted, Quit, ReasonsKnown, Untold
  <2>4. Accounted'
    <3> SUFFICES ASSUME FALSE \notin Updates, NEW g \in Guilds
                 PROVE  requested'[g] = NoChannel \/ CancelledIn(g)' \/ Owed(g)'
      BY DEF Accounted
    <3>1. requested[g] = NoChannel \/ CancelledIn(g) \/ Owed(g)
      BY DEF Parted, Accounted
    <3>2. requested' = [requested EXCEPT ![worker[id].guild] = NoChannel]
      BY <2>1, BoundAssumption DEF Disconnect
    <3>3. \/ requested'[g] = NoChannel
          \/ requested'[g] = requested[g] /\ worker[id].guild # g
      BY <3>2 DEF Typed, MapsTyped
    <3>4. CASE requested'[g] = requested[g] /\ CancelledIn(g)
      BY <2>1, <3>4, CancelledKept
    <3>5. CASE Owed(g) /\ worker[id].guild # g
      BY <2>1, <3>5 DEF Owed, HasPending, HasWorker
    <3> QED BY <3>1, <3>3, <3>4, <3>5
  <2> QED BY <2>3, <2>4 DEF Parted
<1> QED BY <1>1, <1>2, <1>3 DEF Stop

LEMMA JoinVoiceParted ==
  ASSUME Typed, Parted, Final, NEW c \in Calls, JoinVoice(c)
  PROVE  Parted'
<1>1. /\ UNCHANGED << worker, workers, gw, events >> /\ gw.at = "select"
      /\ call[c].guild \in Guilds
  BY Received DEF JoinVoice, JoinRefused, JoinRequested, Receive, Request
<1>2. \A g \in Guilds : \/ HasPending(g)'
                        \/ requested'[g] = requested[g] /\ ~ HasPending(g)
  <2>1. CASE JoinRefused(c, call[c].guild)
    BY <2>1 DEF JoinRefused, HasPending
  <2>2. CASE JoinRequested(c, call[c].guild)
    <3>1. nextId' # 0
      BY <2>2 DEF JoinRequested, Typed, MapsTyped
    <3> QED BY <1>1, <2>2, <3>1 DEF JoinRequested, HasPending, Typed, MapsTyped
  <2> QED BY <2>1, <2>2 DEF JoinVoice
<1> QED BY <1>1, <1>2, PartedFrame

(* What ends a pending join also asks Discord to have the bot leave. *)
LEMMA PendingGoneParted ==
  ASSUME Typed, Parted, Final, NEW g \in Guilds,
         pending' = [pending EXCEPT ![g] = NoPending],
         FALSE \notin Updates => requested' = [requested EXCEPT ![g] = NoChannel],
         UNCHANGED << worker, workers, gw >>, gw.at = "select",
         Stops(ToSet(events')) \subseteq Stops(ToSet(events))
  PROVE  Parted'
<1>1. FALSE \notin Updates =>
        \A h \in Guilds : \/ requested'[h] = NoChannel \/ HasPending(h)'
                          \/ requested'[h] = requested[h] /\ ~ HasPending(h)
  BY DEF HasPending, Typed, MapsTyped
<1> QED BY <1>1, PartedFrame

LEMMA LeaveVoiceParted ==
  ASSUME Typed, Supervised, Parted, Final, NEW c \in Calls, LeaveVoice(c)
  PROVE  Parted'
<1>1. PICK g \in Guilds : g = call[c].guild
  BY Received DEF LeaveVoice, Request
<1>2. /\ gw.at = "select" /\ UNCHANGED << worker, events >>
      /\ LeavePending(c, g) \/ LeaveNothing(c, g) \/ LeaveWorker(c, g)
  BY <1>1 DEF LeaveVoice, Receive
<1>3. CASE LeavePending(c, g)
  <2>1. FALSE \notin Updates => requested' = [requested EXCEPT ![g] = NoChannel]
    BY <1>3, BoundAssumption DEF LeavePending
  <2> QED BY <1>2, <1>3, <2>1, PendingGoneParted DEF LeavePending
<1>4. CASE LeaveNothing(c, g)
  <2>1. \A h \in Guilds : HasPending(h)' \/ ~ HasPending(h)
    BY <1>4 DEF LeaveNothing, HasPending
  <2> QED BY <1>2, <1>4, <2>1, PartedFrame DEF LeaveNothing
<1>5. CASE LeaveWorker(c, g)
  <2>1. /\ gw'.at = "leave" /\ gw'.to = workers[g].id /\ gw'.for = c
        /\ gw'.left = gw.left /\ HasWorker(g)
        /\ workers' = [workers EXCEPT ![g] = NoHandle]
        /\ UNCHANGED << call, pending, requested >>
    BY <1>5 DEF LeaveWorker, Typed, LoopTyped
  <2>2. /\ ~ HasWorker(g)'
        /\ \A h \in Guilds \ {g} : workers'[h] = workers[h]
    BY <2>1 DEF HasWorker, NoHandle, Typed, MapsTyped
  <2>3. Quit' /\ ReasonsKnown'
    BY <1>2, <2>1 DEF Parted, Quit, ReasonsKnown
  <2>4. Untold'
    <3> SUFFICES ASSUME NEW h \in Guilds, HasWorker(h)'
                 PROVE  /\ Shutdown \notin ToSet(worker[workers'[h].id].mailbox)
                        /\ gw'.to # workers'[h].id
                        /\ worker[workers'[h].id].reason = "Requested" =>
                             call[worker[workers'[h].id].caller].answer = "Cancelled"
      BY <1>2, <2>1 DEF Untold
    <3>1. h # g /\ workers'[h] = workers[h] /\ HasWorker(h)
      BY <2>2 DEF HasWorker
    <3>2. worker[workers[h].id].guild = h /\ worker[workers[g].id].guild = g
      BY <2>1, <3>1 DEF Supervised, EntryHasWorker
    <3> QED BY <2>1, <3>1, <3>2 DEF Parted, Untold
  <2>5. Accounted'
    <3> SUFFICES ASSUME FALSE \notin Updates, NEW h \in Guilds
                 PROVE  requested[h] = NoChannel \/ CancelledIn(h)' \/ Owed(h)'
      BY <2>1 DEF Accounted
    <3>1. requested[h] = NoChannel \/ CancelledIn(h) \/ Owed(h)
      BY DEF Parted, Accounted
    <3>2. CASE CancelledIn(h)
      BY <1>2, <2>1, <3>2, CancelledKept
    <3>3. CASE h = g
      BY <1>1, <2>1, <3>3 DEF Owed
    <3>4. CASE h # g /\ Owed(h)
      BY <1>2, <2>1, <2>2, <3>4 DEF Owed, HasPending, HasWorker
    <3> QED BY <3>1, <3>2, <3>3, <3>4
  <2> QED BY <2>3, <2>4, <2>5 DEF Parted
<1> QED BY <1>2, <1>3, <1>4, <1>5

LEMMA JoinTimedOutParted ==
  ASSUME Typed, Parted, Final, JoinTimedOut
  PROVE  Parted'
<1>1. PICK g \in Guilds : g = Head(events).guild
  BY ReceivedEvent DEF JoinTimedOut, Event
<1>2. /\ gw.at = "select" /\ UNCHANGED << worker, workers, gw >>
      /\ Stops(ToSet(events')) \subseteq Stops(ToSet(events))
  BY ReceivedEvent DEF JoinTimedOut, ReceiveEvent, Stops
<1>3. CASE pending[g].id = Head(events).id
  <2>1. /\ pending' = [pending EXCEPT ![g] = NoPending]
        /\ FALSE \notin Updates => requested' = [requested EXCEPT ![g] = NoChannel]
    BY <1>1, <1>3, BoundAssumption DEF JoinTimedOut, Disconnect
  <2> QED BY <1>2, <2>1, PendingGoneParted
<1>4. CASE pending[g].id # Head(events).id
  <2>1. UNCHANGED << pending, requested >>
    BY <1>1, <1>4 DEF JoinTimedOut
  <2>2. \A h \in Guilds : HasPending(h)' \/ ~ HasPending(h)
    BY <2>1 DEF HasPending
  <2> QED BY <1>2, <2>1, <2>2, PartedFrame
<1> QED BY <1>3, <1>4

LEMMA ServerUnavailableParted ==
  ASSUME Typed, Parted, Final, NEW g \in Guilds, ServerUnavailable(g)
  PROVE  Parted'
<1>1. /\ gw.at = "select" /\ UNCHANGED << worker, workers, gw, events >>
      /\ pending' = [pending EXCEPT ![g] = NoPending]
  BY DEF ServerUnavailable
<1>2. FALSE \notin Updates => requested' = [requested EXCEPT ![g] = NoChannel]
  BY BoundAssumption DEF ServerUnavailable, Disconnect
<1> QED BY <1>1, <1>2, PendingGoneParted

(* Steps that leave the maps and tasks alone. *)
LEMMA QuietParted ==
  ASSUME Typed, Parted, Final,
         \/ \E c \in Calls : Issue(c) \/ RoutePlayback(c)
         \/ \E t \in timers : TimerFires(t)
         \/ Ready \/ UNCHANGED vars
  PROVE  Parted'
<1>1. UNCHANGED << worker, workers, pending, requested >>
  BY DEF Issue, RoutePlayback, TimerFires, Ready, vars
<1>2. Stops(ToSet(events')) \subseteq Stops(ToSet(events))
  <2>1. CASE UNCHANGED events
    BY <2>1
  <2>2. ASSUME NEW t \in timers, TimerFires(t)
        PROVE  Stops(ToSet(events')) \subseteq Stops(ToSet(events))
    <3> DEFINE e == [kind |-> "JoinTimedOut", guild |-> t.guild, id |-> t.id,
                     reason |-> "none"]
    <3>1. e \in Event /\ e.kind = "JoinTimedOut"
      BY DEF Typed, MapsTyped, Event
    <3>2. events' = Append(events, e)
      BY <2>2 DEF TimerFires
    <3> HIDE DEF e
    <3>3. ToSet(events') = ToSet(events) \union {e}
      BY <3>1, <3>2, AddLast DEF Typed, TasksTyped
    <3> QED BY <3>1, <3>3 DEF Stops
  <2> QED BY <2>1, <2>2 DEF Issue, RoutePlayback, Ready, vars
<1>3. /\ gw'.left = gw.left
      /\ gw'.at \in {"join", "done"} => gw.at \in {"join", "done"}
      /\ gw'.at = "leave" => gw.at = "leave" /\ gw'.to = gw.to
      /\ gw.at = "leave" => gw'.at = "leave" /\ gw'.for = gw.for
  <2>1. CASE UNCHANGED gw
    BY <2>1
  <2>2. ASSUME NEW c \in Calls, RoutePlayback(c)
        PROVE  UNCHANGED gw \/ (gw.at = "select" /\ gw'.at = "route" /\ gw'.left = gw.left)
    BY <2>2 DEF RoutePlayback, Receive, Typed, LoopTyped
  <2> QED BY <2>1, <2>2 DEF Issue, TimerFires, Ready, vars
<1>4. gw.at = "leave" => call'[gw.for].guild = call[gw.for].guild
  <2>1. CASE UNCHANGED call
    BY <2>1
  <2>2. ASSUME NEW c \in Calls, Issue(c), gw.at = "leave"
        PROVE  call'[gw.for].guild = call[gw.for].guild
    <3>1. gw.for \in Issued /\ c \notin Issued
      BY <2>2 DEF Issue, Typed, LoopTyped, Issued
    <3> QED BY <2>2, <3>1 DEF Issue, Typed, CallsTyped, Issued
  <2>3. ASSUME NEW c \in Calls, RoutePlayback(c) PROVE gw.at = "select"
    BY <2>3 DEF RoutePlayback, Receive
  <2> QED BY <2>1, <2>2, <2>3 DEF TimerFires, Ready, vars
<1>5. \A g \in Guilds : HasPending(g)' \/ ~ HasPending(g)
  BY <1>1 DEF HasPending
<1> QED BY <1>1, <1>2, <1>3, <1>4, <1>5, PartedFrame

(* The inductive invariant behind ShutdownDisconnects: as long as no update *)
(* fails, someone will have the bot leave every channel it was asked into.  *)
THEOREM PartedCorrect == Spec => []Parted
<1>1. /\ Typed /\ Sessions /\ Supervised /\ Held /\ Parted /\ [Next]_vars
      => Parted'
  <2> SUFFICES ASSUME Typed, Sessions, Supervised, Held, Parted, [Next]_vars
               PROVE  Parted'
    OBVIOUS
  <2>1. Final
    BY NextHeld
  <2>2. CASE HandleCall
    BY <2>1, <2>2, JoinVoiceParted, LeaveVoiceParted, QuietParted DEF HandleCall
  <2>3. CASE HandleEvent
    BY <2>1, <2>3, JoinTimedOutParted, StoppedParted DEF HandleEvent
  <2>4. CASE Dispatch
    BY <2>1, <2>4, QuietParted, StartWorkerParted, ServerUnavailableParted
       DEF Dispatch
  <2> QED
    BY <2>1, <2>2, <2>3, <2>4, QuietParted, DeliverParted, WorkerParted,
       SendStoppedParted, CtrlCParted, StopParted
       DEF Next, Ended
<1> QED
  BY <1>1, PartedInit, TypedCorrect, SessionsCorrect, SupervisedCorrect,
     HeldCorrect, PTL
     DEF Spec

(* When the loop closes the Gateway connection no worker is left that uses *)
(* it, and if no update fails Discord was asked to have the bot out of     *)
(* every channel, except for a join that a command cancelled.              *)
THEOREM ShutdownLeavesVoice == Spec => []ShutdownDisconnects
<1>1. Sessions /\ Parted => ShutdownDisconnects
  <2> SUFFICES ASSUME Sessions, Parted, gw.at \in {"join", "done"}
               PROVE  /\ \A id \in Ids : ~ Live(id)
                      /\ FALSE \notin Updates =>
                           \A g \in Guilds :
                             requested[g] = NoChannel \/ CancelledIn(g)
    BY DEF ShutdownDisconnects
  <2>1. gw.left = {} /\ \A id \in Ids : ~ Live(id)
    BY DEF Parted, Quit
  <2>2. \A g \in Guilds : ~ Owed(g)
    BY <2>1 DEF Sessions, Closed, Open, Owed
  <2> QED BY <2>1, <2>2 DEF Parted, Accounted
<1> QED BY <1>1, SessionsCorrect, PartedCorrect, PTL

------------------------------------------------------------------------------
(* Part 3: what each party was asked *)

(* Request c is of this kind, for guild g and channel ch. *)
Asks(c, kind, g, ch) ==
  call[c].kind = kind /\ call[c].guild = g /\ call[c].channel = ch

(* A response waits where requests of its kind wait, and what holds it is  *)
(* for the guild and the channel that were asked for.  A task remembers    *)
(* the join it was started for.                                            *)
Asked ==
  /\ \A g \in Guilds :
       HasPending(g) => Asks(pending[g].caller, "join", g, pending[g].channel)
  /\ \A id \in Ids :
       Started(id) =>
         Asks(worker[id].caller, "join", worker[id].guild, worker[id].channel)
  /\ \A id \in Ids : \A c \in ToSet(worker[id].mailbox) :
       c \in Calls => Asks(c, "playback", worker[id].guild, worker[id].channel)
  /\ gw.at = "route" =>
       Asks(gw.for, "playback", worker[gw.to].guild, worker[gw.to].channel)
  /\ gw.at = "leave" => call[gw.for].kind = "leave"

LEMMA AskedInit == Init => Asked
<1> SUFFICES ASSUME Init PROVE Asked
  OBVIOUS
<1>1. ToSet(<< >>) = {}
  BY DEF ToSet
<1> QED BY <1>1 DEF Init, Asked, HasPending, NoPending, Started, NoTask, Selecting

(* What an issued request asks for, and what a task was started for, stay. *)
SameRequest(c) ==
  /\ call'[c].kind = call[c].kind /\ call'[c].guild = call[c].guild
  /\ call'[c].channel = call[c].channel
RequestsKept == \A c \in Issued : SameRequest(c)

SameTask(id) ==
  /\ worker'[id].guild = worker[id].guild
  /\ worker'[id].channel = worker[id].channel
  /\ worker'[id].caller = worker[id].caller

LEMMA AnswersKeepRequests ==
  ASSUME Typed, NEW S, NEW a, call' = AnswerAll(S, a)
  PROVE  RequestsKept
<1>1. ASSUME NEW c \in Issued PROVE SameRequest(c)
  <2>1. c \in Calls /\ call[c] \in Request
    BY <1>1, IssuedRequest DEF Issued, Typed
  <2> QED BY <2>1 DEF AnswerAll, Request, SameRequest
<1> QED BY <1>1 DEF RequestsKept

LEMMA AnsweringKeeps ==
  ASSUME Answering
  PROVE  RequestsKept
BY DEF Answering, RequestsKept, SameRequest, Issued

(* Steps that take on no response. *)
LEMMA AskedFrame ==
  ASSUME Typed, Asked, RequestsKept,
         \A g \in Guilds : HasPending(g)' => pending'[g] = pending[g],
         \A id \in Ids :
           /\ SameTask(id) /\ (Started(id)' => Started(id))
           /\ ToSet(worker'[id].mailbox) \subseteq ToSet(worker[id].mailbox),
         gw'.at \in {"route", "leave"} =>
           gw'.at = gw.at /\ gw'.for = gw.for /\ gw'.to = gw.to
  PROVE  Asked'
<1>1. ASSUME NEW g \in Guilds, HasPending(g)'
      PROVE  Asks(pending[g].caller, "join", g, pending[g].channel)'
  <2>1. HasPending(g) /\ pending'[g] = pending[g]
    BY <1>1 DEF HasPending
  <2>2. pending[g].caller \in Issued
    BY <2>1, PendingTyped DEF IssuedJoin
  <2> QED BY <2>1, <2>2 DEF RequestsKept, SameRequest, Asked, Asks
<1>2. ASSUME NEW id \in Ids, Started(id)'
      PROVE  Asks(worker[id].caller, "join", worker[id].guild, worker[id].channel)'
  <2>1. Started(id) /\ SameTask(id)
    BY <1>2
  <2>2. worker[id].caller \in Issued
    BY <2>1, StartedTask DEF IssuedTask
  <2> QED BY <2>1, <2>2 DEF RequestsKept, SameRequest, SameTask, Asked, Asks
<1>3. ASSUME NEW id \in Ids, NEW c \in ToSet(worker'[id].mailbox), c \in Calls
      PROVE  Asks(c, "playback", worker[id].guild, worker[id].channel)'
  <2>1. Asks(c, "playback", worker[id].guild, worker[id].channel)
    BY <1>3 DEF Asked
  <2>2. c \in Issued /\ SameTask(id)
    BY <1>3, <2>1 DEF Asks, Issued
  <2> QED BY <2>1, <2>2 DEF RequestsKept, SameRequest, SameTask, Asks
<1>4. ASSUME gw'.at = "route"
      PROVE  Asks(gw.for, "playback", worker[gw.to].guild, worker[gw.to].channel)'
  <2>1. /\ gw.for \in Issued /\ gw.to \in Ids /\ gw'.for = gw.for /\ gw'.to = gw.to
        /\ Asks(gw.for, "playback", worker[gw.to].guild, worker[gw.to].channel)
    BY <1>4 DEF Asked, Typed, LoopTyped
  <2>2. SameTask(gw.to) /\ SameRequest(gw.for)
    BY <2>1 DEF RequestsKept
  <2> QED BY <2>1, <2>2 DEF SameRequest, SameTask, Asks
<1>5. gw'.at = "leave" => (call[gw.for].kind = "leave")'
  BY DEF Asked, RequestsKept, SameRequest, Typed, LoopTyped
<1> QED BY <1>1, <1>2, <1>3, <1>4, <1>5 DEF Asked

LEMMA HandleCallAsked ==
  ASSUME Typed, Supervised, Asked, HandleCall
  PROVE  Asked'
<1>1. PICK c \in Calls : JoinVoice(c) \/ LeaveVoice(c) \/ RoutePlayback(c)
  BY DEF HandleCall
<1>2. c \in Issued /\ c \in Calls /\ call[c] \in Request /\ UNCHANGED worker
  BY <1>1, Received DEF JoinVoice, LeaveVoice, RoutePlayback
<1> USE DEF SameTask, Started
<1>3. CASE JoinVoice(c) /\ JoinRequested(c, call[c].guild)
  <2>1. PICK g \in Guilds : g = call[c].guild
    BY <1>2 DEF Request
  <2>2. /\ UNCHANGED << call, gw >> /\ call[c].kind = "join"
        /\ pending'[g].caller = c /\ pending'[g].channel = call[c].channel
        /\ \A h \in Guilds \ {g} : pending'[h] = pending[h]
    BY <1>3, <2>1 DEF JoinVoice, Receive, JoinRequested, Typed, MapsTyped
  <2>3. gw.at = "select"
    BY <1>3 DEF JoinVoice, Receive
  <2> QED BY <1>2, <2>1, <2>2, <2>3 DEF Asked, Asks, HasPending
<1>4. CASE JoinVoice(c) /\ JoinRefused(c, call[c].guild)
  <2>1. RequestsKept
    BY <1>4, AnswersKeepRequests DEF JoinRefused, Answer
  <2>2. UNCHANGED << pending, gw >>
    BY <1>4 DEF JoinRefused
  <2> QED BY <1>2, <2>1, <2>2, AskedFrame
<1>5. CASE LeaveVoice(c) /\ LeavePending(c, call[c].guild)
  <2>1. PICK g \in Guilds : g = call[c].guild
    BY <1>2 DEF Request
  <2>2. /\ pending' = [pending EXCEPT ![g] = NoPending]
        /\ gw' = gw /\ HasPending(g)
    BY <1>5, <2>1 DEF LeavePending
  <2>3. RequestsKept
    <3> DEFINE first == AnswerAll({pending[g].caller}, "Cancelled")
    <3>1. \E a : call' = [first EXCEPT ![c].answer = a]
      BY <1>5, <2>1 DEF LeavePending
    <3>2. ASSUME NEW d \in Issued
          PROVE  /\ first[d].kind = call[d].kind /\ first[d].guild = call[d].guild
                 /\ first[d].channel = call[d].channel /\ first[d] \in Request
      <4>1. d \in Calls /\ call[d] \in Request
        BY <3>2, IssuedRequest DEF Issued, Typed
      <4> QED BY <4>1 DEF AnswerAll, Request, Answers
    <3>3. Issued \subseteq DOMAIN first
      BY DEF AnswerAll, Issued
    <3> HIDE DEF first
    <3> QED BY <3>1, <3>2, <3>3 DEF RequestsKept, SameRequest, Request
  <2>4. \A h \in Guilds : HasPending(h)' => pending'[h] = pending[h]
    BY <2>2 DEF HasPending, NoPending, Typed, MapsTyped
  <2> QED BY <1>2, <2>2, <2>3, <2>4, AskedFrame
<1>6. CASE LeaveVoice(c) /\ LeaveNothing(c, call[c].guild)
  <2>1. RequestsKept
    BY <1>6, AnswersKeepRequests DEF LeaveNothing, Answer
  <2>2. UNCHANGED << pending, gw >>
    BY <1>6 DEF LeaveNothing
  <2> QED BY <1>2, <2>1, <2>2, AskedFrame
<1>7. CASE LeaveVoice(c) /\ LeaveWorker(c, call[c].guild)
  <2>1. /\ UNCHANGED << call, pending >> /\ call[c].kind = "leave"
        /\ gw'.at = "leave" /\ gw'.for = c
    BY <1>7 DEF LeaveVoice, LeaveWorker, Receive, Typed, LoopTyped
  <2> QED BY <1>2, <2>1 DEF Asked, Asks, HasPending
<1>8. CASE RoutePlayback(c) /\ UNCHANGED gw
  <2>1. RequestsKept /\ UNCHANGED pending
    BY <1>8, AnswersKeepRequests DEF RoutePlayback, Answer, RequestsKept, SameRequest
  <2> QED BY <1>2, <1>8, <2>1, AskedFrame
<1>9. CASE RoutePlayback(c) /\ ~ UNCHANGED gw
  <2>1. PICK g \in Guilds : g = call[c].guild
    BY <1>2 DEF Request
  <2>2. /\ UNCHANGED << call, pending >> /\ call[c].kind = "playback"
        /\ gw'.at = "route" /\ gw'.for = c /\ gw'.to = workers[g].id
        /\ HasWorker(g) /\ workers[g].channel = call[c].channel
    BY <1>9, <2>1 DEF RoutePlayback, Receive, Typed, LoopTyped, HasWorker
  <2>3. /\ worker[workers[g].id].guild = g
        /\ worker[workers[g].id].channel = call[c].channel
    BY <2>2 DEF Supervised, EntryHasWorker
  <2> QED BY <1>2, <2>1, <2>2, <2>3 DEF Asked, Asks, HasPending
<1> QED BY <1>1, <1>3, <1>4, <1>5, <1>6, <1>7, <1>8, <1>9 DEF JoinVoice, LeaveVoice

(* A send only touches a mailbox. *)
LEMMA DeliverKeeps ==
  ASSUME Typed, Deliver
  PROVE  \A id \in Ids : /\ SameTask(id) /\ (Started(id)' => Started(id))
                         /\ worker'[id].at = worker[id].at
<1>1. PICK to \in Ids : to = gw.to
  BY DEF Deliver, DeliverPlayback, DeliverLeave, DeliverShutdown, Typed, LoopTyped
<1>2. worker[to] \in IssuedTask
  BY <1>1, StartedTask
     DEF Deliver, DeliverPlayback, DeliverLeave, DeliverShutdown, Typed, NamesStarted
<1>3. PICK m : Send(to, m)
  BY <1>1 DEF Deliver, DeliverPlayback, DeliverLeave, DeliverShutdown
<1>4. PICK longer : longer = Append(worker[to].mailbox, m)
  OBVIOUS
<1>5. \/ UNCHANGED worker
      \/ worker' = [worker EXCEPT ![to] = [worker[to] EXCEPT !.mailbox = longer]]
  BY <1>3, <1>4 DEF Send
<1>6. CASE UNCHANGED worker
  BY <1>6 DEF SameTask, Started
<1>7. CASE worker' = [worker EXCEPT ![to] = [worker[to] EXCEPT !.mailbox = longer]]
  <2>1. /\ worker'[to] = [worker[to] EXCEPT !.mailbox = longer]
        /\ \A i \in Ids \ {to} : worker'[i] = worker[i]
    BY <1>7 DEF Typed, TasksTyped
  <2>2. SameTask(to) /\ worker'[to].at = worker[to].at
    BY <1>2, <2>1 DEF IssuedTask, SameTask
  <2> QED BY <2>1, <2>2 DEF SameTask, Started
<1> QED BY <1>5, <1>6, <1>7

LEMMA DeliverAsked ==
  ASSUME Typed, Asked, Deliver
  PROVE  Asked'
<1>1. PICK id \in Ids : id = gw.to
  BY DEF Deliver, DeliverPlayback, DeliverLeave, DeliverShutdown, Typed, LoopTyped
<1>2. /\ UNCHANGED pending /\ gw'.at \notin {"route", "leave"}
      /\ worker[id] \in IssuedTask
  <2>1. Started(id)
    BY <1>1 DEF Deliver, DeliverPlayback, DeliverLeave, DeliverShutdown, Typed,
                NamesStarted
  <2>2. CASE DeliverPlayback \/ DeliverLeave
    BY <2>1, <2>2, StartedTask DEF DeliverPlayback, DeliverLeave, Selecting
  <2>3. CASE DeliverShutdown
    BY <2>1, <2>3, StartedTask DEF DeliverShutdown, Typed, LoopTyped
  <2> QED BY <2>2, <2>3 DEF Deliver
<1>3. PICK m \in Issued \union {Shutdown} :
        /\ Send(id, m)
        /\ m \in Issued =>
             Asks(m, "playback", worker[id].guild, worker[id].channel)
  <2>1. Shutdown \notin Issued
    BY DistinctAssumption DEF Issued
  <2>2. CASE DeliverPlayback
    BY <1>1, <2>2 DEF DeliverPlayback, Typed, LoopTyped, Asked
  <2>3. CASE DeliverLeave \/ DeliverShutdown
    BY <1>1, <2>1, <2>3 DEF DeliverLeave, DeliverShutdown
  <2> QED BY <2>2, <2>3 DEF Deliver
<1>4. RequestsKept
  BY AnswersKeepRequests
     DEF Deliver, DeliverPlayback, DeliverLeave, DeliverShutdown, Answer,
         RequestsKept, SameRequest
<1>5. /\ \A i \in Ids \ {id} : worker'[i] = worker[i]
      /\ SameTask(id) /\ worker'[id].at = worker[id].at
      /\ ToSet(worker'[id].mailbox) \subseteq ToSet(worker[id].mailbox) \union {m}
  <2> DEFINE longer == Append(worker[id].mailbox, m)
  <2>1. ToSet(longer) = ToSet(worker[id].mailbox) \union {m}
    BY <1>2, AddLast DEF IssuedTask
  <2>2. \/ UNCHANGED worker
        \/ worker' = [worker EXCEPT ![id] = [worker[id] EXCEPT !.mailbox = longer]]
    BY <1>3 DEF Send
  <2> HIDE DEF longer
  <2>3. CASE UNCHANGED worker
    BY <2>3 DEF SameTask
  <2>4. CASE worker' = [worker EXCEPT ![id] = [worker[id] EXCEPT !.mailbox = longer]]
    BY <1>2, <2>1, <2>4 DEF IssuedTask, Typed, TasksTyped, SameTask
  <2> QED BY <2>2, <2>3, <2>4
<1>6. \A i \in Ids : SameTask(i) /\ (Started(i)' => Started(i))
  BY <1>5 DEF SameTask, Started
<1>7. ASSUME NEW i \in Ids, Started(i)'
      PROVE  Asks(worker[i].caller, "join", worker[i].guild, worker[i].channel)'
  <2>1. Started(i) /\ SameTask(i)
    BY <1>6, <1>7
  <2>2. worker[i].caller \in Issued
    BY <2>1, StartedTask DEF IssuedTask
  <2> QED BY <1>4, <2>1, <2>2 DEF RequestsKept, SameRequest, SameTask, Asked, Asks
<1>8. ASSUME NEW i \in Ids, NEW c \in ToSet(worker'[i].mailbox), c \in Calls
      PROVE  Asks(c, "playback", worker[i].guild, worker[i].channel)'
  <2>1. c \in ToSet(worker[i].mailbox) \/ (i = id /\ c = m)
    BY <1>5
  <2>2. Shutdown \notin Calls
    BY DistinctAssumption
  <2>3. Asks(c, "playback", worker[i].guild, worker[i].channel)
    BY <1>3, <1>8, <2>1, <2>2 DEF Asked
  <2>4. c \in Issued /\ SameTask(i)
    BY <1>6, <1>8, <2>3 DEF Asks, Issued
  <2> QED BY <1>4, <2>3, <2>4 DEF RequestsKept, SameRequest, SameTask, Asks
<1>9. ASSUME NEW g \in Guilds, HasPending(g)'
      PROVE  Asks(pending[g].caller, "join", g, pending[g].channel)'
  <2>1. HasPending(g) /\ pending'[g] = pending[g]
    BY <1>2, <1>9 DEF HasPending
  <2>2. pending[g].caller \in Issued
    BY <2>1, PendingTyped DEF IssuedJoin
  <2> QED BY <1>4, <2>1, <2>2 DEF RequestsKept, SameRequest, Asked, Asks
<1> QED BY <1>2, <1>7, <1>8, <1>9 DEF Asked

(* The response to a join passes on to the worker. *)
LEMMA StartWorkerAsked ==
  ASSUME Typed, Asked, NEW g \in Guilds, StartWorker(g)
  PROVE  Asked'
<1>1. PICK n \in Ids : n = nextId + 1
  BY BoundAssumption DEF StartWorker, Typed, MapsTyped, Ids
<1>2. PICK task : task = NewTask(g, pending[g])
  OBVIOUS
<1>3. /\ worker' = [worker EXCEPT ![n] = task]
      /\ pending' = [pending EXCEPT ![g] = NoPending]
      /\ UNCHANGED << call, gw >> /\ gw.at = "select"
  BY <1>1, <1>2 DEF StartWorker
<1>4. worker'[n] = task /\ \A i \in Ids \ {n} : worker'[i] = worker[i]
  BY <1>3 DEF Typed, TasksTyped
<1>5. ToSet(<< >>) = {}
  BY DEF ToSet
<1>6. /\ ToSet(task.mailbox) = {}
      /\ Asks(task.caller, "join", task.guild, task.channel)
  BY <1>2, <1>5 DEF NewTask, StartWorker, Asked, Asks
<1>7. \A h \in Guilds : HasPending(h)' => HasPending(h) /\ pending'[h] = pending[h]
  BY <1>3 DEF HasPending, NoPending, Typed, MapsTyped
<1> QED BY <1>3, <1>4, <1>6, <1>7 DEF Asked, Asks, Started

(* A pending join is answered, and nothing else is held elsewhere. *)
LEMMA PendingGoneAsked ==
  ASSUME Typed, Asked, RequestsKept, NEW g \in Guilds,
         pending' = [pending EXCEPT ![g] = NoPending], UNCHANGED << gw, worker >>
  PROVE  Asked'
<1>1. \A h \in Guilds : HasPending(h)' => pending'[h] = pending[h]
  BY DEF HasPending, NoPending, Typed, MapsTyped
<1> QED BY <1>1, AskedFrame DEF SameTask, Started

LEMMA DispatchAsked ==
  ASSUME Typed, Asked, Dispatch
  PROVE  Asked'
<1>1. CASE Ready
  BY <1>1, AskedFrame DEF Ready, RequestsKept, SameRequest, SameTask, Started
<1>2. ASSUME NEW g \in Guilds, ServerUnavailable(g) PROVE Asked'
  <2>1. RequestsKept
    BY <1>2, AnswersKeepRequests DEF ServerUnavailable, Answer
  <2> QED BY <1>2, <2>1, PendingGoneAsked DEF ServerUnavailable
<1> QED BY <1>1, <1>2, StartWorkerAsked DEF Dispatch

LEMMA HandleEventAsked ==
  ASSUME Typed, Asked, HandleEvent
  PROVE  Asked'
<1>1. CASE JoinTimedOut
  <2>1. PICK g \in Guilds : g = Head(events).guild
    BY <1>1, ReceivedEvent DEF JoinTimedOut, Event
  <2>2. UNCHANGED << gw, worker >>
    BY <1>1 DEF JoinTimedOut
  <2>3. CASE pending[g].id = Head(events).id
    <3>1. /\ call' = AnswerAll({pending[g].caller}, "Failed")
          /\ pending' = [pending EXCEPT ![g] = NoPending]
      BY <1>1, <2>1, <2>3 DEF JoinTimedOut, Answer
    <3>2. RequestsKept
      BY <3>1, AnswersKeepRequests
    <3> QED BY <2>2, <3>1, <3>2, PendingGoneAsked
  <2>4. CASE pending[g].id # Head(events).id
    <3>1. UNCHANGED << call, pending >>
      BY <1>1, <2>1, <2>4 DEF JoinTimedOut
    <3> QED BY <2>2, <3>1, AskedFrame DEF RequestsKept, SameRequest, SameTask, Started
  <2> QED BY <2>3, <2>4
<1>2. CASE Stopped
  BY <1>2, AskedFrame DEF Stopped, RequestsKept, SameRequest, SameTask, Started
<1> QED BY <1>1, <1>2 DEF HandleEvent

(* A task connects, fails or takes a message from its mailbox. *)
LEMMA WorkerKeeps ==
  ASSUME Typed, NEW id \in Ids,
         \/ Connected(id) \/ ConnectFails(id) \/ HandleCommand(id)
         \/ SessionEnds(id) \/ SendStopped(id)
  PROVE  /\ worker[id] \in IssuedTask /\ Started(id)
         /\ \A i \in Ids \ {id} : worker'[i] = worker[i]
         /\ \A i \in Ids :
              /\ SameTask(i) /\ (Started(i)' => Started(i))
              /\ ToSet(worker'[i].mailbox) \subseteq ToSet(worker[i].mailbox)
<1>1. worker[id] \in IssuedTask
  BY StartedTask DEF Connected, ConnectFails, HandleCommand, SessionEnds,
         SendStopped, ConnectAborted, HandlePlayback, HandleShutdown, Started
<1> DEFINE rest == Tail(worker[id].mailbox)
<1>3. /\ worker[id].mailbox \in Seq(Issued \union {Shutdown})
      /\ ToSet(<< >>) = {}
      /\ worker[id].mailbox # << >> =>
           ToSet(rest) \subseteq ToSet(worker[id].mailbox)
  BY <1>1, TakeFirst DEF IssuedTask, ToSet
<1>4. PICK task : task = worker'[id]
  OBVIOUS
<1> HIDE DEF rest
<1>5. /\ \A i \in Ids \ {id} : worker'[i] = worker[i]
      /\ task.guild = worker[id].guild /\ task.channel = worker[id].channel
      /\ task.caller = worker[id].caller
      /\ \/ task.mailbox = worker[id].mailbox
         \/ task.mailbox = rest /\ worker[id].mailbox # << >>
         \/ task.mailbox = << >>
  <2>1. CASE Connected(id)
    BY <1>1, <1>4, <2>1 DEF Connected, WorkerStep, Typed, TasksTyped, IssuedTask
  <2>2. CASE ConnectFails(id) \/ SessionEnds(id)
    <3>1. PICK reason : worker' = [worker EXCEPT ![id] = Stopping(id, reason)]
      BY <2>2 DEF ConnectFails, SessionEnds, WorkerStep
    <3>2. /\ Stopping(id, reason).mailbox = worker[id].mailbox
          /\ Stopping(id, reason).guild = worker[id].guild
          /\ Stopping(id, reason).channel = worker[id].channel
          /\ Stopping(id, reason).caller = worker[id].caller
      BY <1>1 DEF Stopping, IssuedTask
    <3>3. worker'[id] = Stopping(id, reason)
      BY <3>1 DEF Typed, TasksTyped
    <3> QED BY <1>4, <3>1, <3>2, <3>3 DEF Typed, TasksTyped
  <2>3. CASE ConnectAborted(id) \/ HandleShutdown(id)
    <3>1. /\ worker' = [worker EXCEPT ![id] =
               [Stopping(id, "Requested") EXCEPT !.mailbox = Tail(@)]]
          /\ worker[id].mailbox # << >>
      BY <2>3 DEF ConnectAborted, HandleShutdown, WorkerStep
    <3>2. PICK ending : ending = Stopping(id, "Requested")
      OBVIOUS
    <3>3. /\ ending.mailbox = worker[id].mailbox
          /\ ending.guild = worker[id].guild /\ ending.channel = worker[id].channel
          /\ ending.caller = worker[id].caller
          /\ {"guild", "channel", "caller", "mailbox"} \subseteq DOMAIN ending
      BY <1>1, <3>2 DEF Stopping, IssuedTask
    <3>4. worker' = [worker EXCEPT ![id] = [ending EXCEPT !.mailbox = rest]]
      BY <3>1, <3>2, <3>3 DEF rest
    <3>5. /\ [ending EXCEPT !.mailbox = rest].guild = worker[id].guild
          /\ [ending EXCEPT !.mailbox = rest].channel = worker[id].channel
          /\ [ending EXCEPT !.mailbox = rest].caller = worker[id].caller
          /\ [ending EXCEPT !.mailbox = rest].mailbox = rest
      BY <3>3
    <3>6. /\ worker'[id] = [ending EXCEPT !.mailbox = rest]
          /\ \A i \in Ids \ {id} : worker'[i] = worker[i]
      BY <3>4 DEF Typed, TasksTyped
    <3> QED BY <1>4, <3>1, <3>5, <3>6
  <2>4. CASE HandlePlayback(id)
    <3>1. PICK handled : handled = [worker[id] EXCEPT !.mailbox = rest]
      OBVIOUS
    <3>2. /\ handled.guild = worker[id].guild /\ handled.mailbox = rest
          /\ handled.channel = worker[id].channel
          /\ handled.caller = worker[id].caller
          /\ {"guild", "channel", "caller", "mailbox"} \subseteq DOMAIN handled
      BY <1>1, <3>1 DEF IssuedTask
    <3>3. /\ worker[id].mailbox # << >>
          /\ \/ worker' = [worker EXCEPT ![id] = handled]
             \/ worker' = [worker EXCEPT ![id] =
                              [handled EXCEPT !.at = "stopping",
                                              !.reason = "VoiceFailed"]]
      BY <2>4, <3>1 DEF HandlePlayback, WorkerStep, rest
    <3>4. PICK t : t = [handled EXCEPT !.at = "stopping", !.reason = "VoiceFailed"]
      OBVIOUS
    <3>5. /\ t.guild = worker[id].guild /\ t.mailbox = rest
          /\ t.channel = worker[id].channel /\ t.caller = worker[id].caller
      BY <3>2, <3>4
    <3>6. /\ worker'[id] = handled \/ worker'[id] = t
          /\ \A i \in Ids \ {id} : worker'[i] = worker[i]
      BY <3>3, <3>4 DEF Typed, TasksTyped
    <3> QED BY <1>4, <3>2, <3>3, <3>5, <3>6
  <2>5. CASE SendStopped(id)
    BY <1>1, <1>4, <2>5 DEF SendStopped, Typed, TasksTyped, IssuedTask
  <2> QED BY <2>1, <2>2, <2>3, <2>4, <2>5 DEF HandleCommand
<1>6. Started(id)
  BY <1>1 DEF IssuedTask, Started
<1> QED BY <1>1, <1>3, <1>4, <1>5, <1>6 DEF SameTask, Started

LEMMA WorkerAsked ==
  ASSUME Typed, Asked, NEW id \in Ids,
         \/ Connected(id) \/ ConnectFails(id) \/ HandleCommand(id)
         \/ SessionEnds(id) \/ SendStopped(id)
  PROVE  Asked'
<1>1. RequestsKept
  BY WorkerTyped, SendStoppedTyped, AnsweringKeeps
<1>2. UNCHANGED << gw, pending >>
  BY DEF Connected, ConnectFails, HandleCommand, SessionEnds, SendStopped,
         ConnectAborted, HandlePlayback, HandleShutdown, WorkerStep
<1> QED BY <1>1, <1>2, WorkerKeeps, AskedFrame

LEMMA IssueAsked ==
  ASSUME Typed, Asked, NEW c \in Calls, Issue(c)
  PROVE  Asked'
<1>1. RequestsKept
  BY DEF Issue, RequestsKept, SameRequest, Issued, Typed, CallsTyped
<1>2. UNCHANGED << gw, pending, worker >>
  BY DEF Issue
<1> QED BY <1>1, <1>2, AskedFrame DEF SameTask, Started

LEMMA CtrlCAsked ==
  ASSUME Typed, Asked, CtrlC
  PROVE  Asked'
<1>1. RequestsKept
  BY CtrlCTyped, AnsweringKeeps
<1>2. gw'.at = "drain"
  BY DEF CtrlC, Typed, LoopTyped
<1>3. pending' = [g \in Guilds |-> NoPending] /\ UNCHANGED worker
  BY DEF CtrlC
<1> QED BY <1>1, <1>2, <1>3, AskedFrame DEF HasPending, NoPending, SameTask, Started

LEMMA StopAsked ==
  ASSUME Typed, Asked, Stop
  PROVE  Asked'
<1>1. ASSUME NEW id \in Ids, ShutdownWorker(id) PROVE Asked'
  <2>1. UNCHANGED << call, pending, worker >> /\ gw'.at = "stop"
    BY <1>1 DEF ShutdownWorker, Typed, LoopTyped
  <2> QED BY <2>1, AskedFrame DEF RequestsKept, SameRequest, SameTask, Started
<1>2. CASE TasksJoined \/ CommandsJoined
  <2>1. UNCHANGED << call, pending, worker >> /\ gw'.at \in {"join", "done"}
    BY <1>2 DEF TasksJoined, CommandsJoined, Typed, LoopTyped
  <2> QED BY <2>1, AskedFrame DEF RequestsKept, SameRequest, SameTask, Started
<1> QED BY <1>1, <1>2 DEF Stop

LEMMA NextAsked ==
  ASSUME Typed, Supervised, Asked, [Next]_vars
  PROVE  Asked'
<1>1. CASE UNCHANGED vars
  BY <1>1, AskedFrame DEF vars, RequestsKept, SameRequest, SameTask, Started
<1>2. ASSUME NEW t \in timers, TimerFires(t) PROVE Asked'
  BY <1>2, AskedFrame DEF TimerFires, RequestsKept, SameRequest, SameTask, Started
<1> QED
  BY <1>1, <1>2, IssueAsked, HandleCallAsked, HandleEventAsked, DeliverAsked,
     DispatchAsked, WorkerAsked, CtrlCAsked, StopAsked
     DEF Next, Ended

(* Each response waits where requests of its kind, guild and channel wait, *)
(* and a worker is for the guild and channel of the join it was started    *)
(* for: Asked is inductive together with Typed and Supervised.             *)
THEOREM AskedCorrect == Spec => []Asked
<1>1. Typed /\ Supervised /\ Asked /\ [Next]_vars => Asked'
  BY NextAsked
<1> QED BY <1>1, AskedInit, TypedCorrect, SupervisedCorrect, PTL DEF Spec

------------------------------------------------------------------------------
(* Part 4: when the caller of a join is told *)

(* A task that no longer connects has told the caller of its join, and no  *)
(* two tasks were started for the same join.                               *)
Told ==
  /\ \A id \in Ids :
       Started(id) /\ worker[id].at # "connecting" => Answered(worker[id].caller)
  /\ \A i, j \in Ids :
       Started(i) /\ Started(j) /\ worker[i].caller = worker[j].caller => i = j

LEMMA ToldInit == Init => Told
BY DEF Init, Told, Started, NoTask

(* Steps after which each task is where it was, or its caller is answered. *)
LEMMA ToldFrame ==
  ASSUME Typed, Told, Final,
         \A id \in Ids :
           /\ SameTask(id) /\ (Started(id)' => Started(id))
           /\ \/ worker'[id].at = worker[id].at
              \/ Started(id) => Answered(worker[id].caller)'
  PROVE  Told'
<1>1. ASSUME NEW id \in Ids, Started(id)', worker'[id].at # "connecting"
      PROVE  Answered(worker[id].caller)'
  <2>1. Started(id) /\ worker'[id].caller = worker[id].caller
    BY <1>1 DEF SameTask
  <2>2. worker[id].caller \in Calls
    BY <2>1, StartedTask DEF IssuedTask, Issued
  <2>3. CASE worker'[id].at = worker[id].at
    <3>1. Answered(worker[id].caller)
      BY <1>1, <2>1, <2>3 DEF Told
    <3> QED BY <2>1, <2>2, <3>1 DEF Final, Answered
  <2>4. CASE Answered(worker[id].caller)'
    BY <2>4
  <2> QED BY <1>1, <2>1, <2>3, <2>4
<1>2. ASSUME NEW i \in Ids, NEW j \in Ids, Started(i)', Started(j)',
             worker'[i].caller = worker'[j].caller
      PROVE  i = j
  BY <1>2 DEF Told, SameTask
<1> QED BY <1>1, <1>2 DEF Told

LEMMA ToldQuiet ==
  ASSUME Typed, Told, Final, UNCHANGED worker
  PROVE  Told'
BY ToldFrame DEF SameTask, Started

(* A caller that is answered stays so. *)
LEMMA WorkerTold ==
  ASSUME Typed, Held, Told, Final, NEW id \in Ids,
         \/ Connected(id) \/ ConnectFails(id) \/ HandleCommand(id)
         \/ SessionEnds(id) \/ SendStopped(id)
  PROVE  Told'
<1>1. /\ worker[id] \in IssuedTask /\ Started(id)
      /\ \A i \in Ids \ {id} : worker'[i] = worker[i]
      /\ \A i \in Ids : SameTask(i) /\ (Started(i)' => Started(i))
  BY WorkerKeeps
<1>2. PICK b \in Issued : b = worker[id].caller
  BY <1>1 DEF IssuedTask
<1>3. CASE worker[id].at = "connecting" /\ ~ SendStopped(id)
  <2>1. b \in Calls /\ call[b] \in Request
    BY <1>2, IssuedRequest DEF Issued, Typed
  <2>2. PICK a \in Answers : call'[b] = [call[b] EXCEPT !.answer = a]
    <3>1. CASE Connected(id) \/ ConnectFails(id)
      BY <1>2, <2>1, <3>1 DEF Connected, ConnectFails, Answer, AnswerAll, Answers
    <3>2. CASE ConnectAborted(id)
      <4>1. PICK m : m = Head(worker[id].mailbox)
        OBVIOUS
      <4>2. call' = [AnswerAll({m}, "Dropped") EXCEPT ![b].answer = "Cancelled"]
        BY <1>2, <3>2, <4>1 DEF ConnectAborted
      <4>3. AnswerAll({m}, "Dropped")[b] \in {call[b], [call[b] EXCEPT !.answer = "Dropped"]}
        BY <2>1 DEF AnswerAll
      <4>4. call'[b] = [AnswerAll({m}, "Dropped")[b] EXCEPT !.answer = "Cancelled"]
        BY <2>1, <4>2 DEF AnswerAll
      <4>5. call'[b] = [call[b] EXCEPT !.answer = "Cancelled"]
        BY <2>1, <4>3, <4>4 DEF Request
      <4> QED BY <4>5 DEF Answers
    <3> QED
      BY <1>3, <3>1, <3>2 DEF HandleCommand, HandlePlayback, HandleShutdown,
                              SessionEnds
  <2>3. Answered(b)'
    BY <2>1, <2>2 DEF Answered, Request, Answers
  <2>4. \A i \in Ids : \/ worker'[i].at = worker[i].at
                       \/ Started(i) => Answered(worker[i].caller)'
    <3>1. worker'[id].caller = b
      BY <1>1, <1>2 DEF SameTask
    <3> QED BY <1>1, <2>3, <3>1
  <2> QED BY <1>1, <2>4, ToldFrame
<1>4. CASE worker[id].at # "connecting"
  <2>1. Answered(b) /\ b \in Calls
    BY <1>1, <1>2, <1>4 DEF Told, Issued
  <2>2. Answered(b)' /\ worker'[id].caller = b
    BY <1>1, <1>2, <2>1 DEF Final, Answered, SameTask
  <2>3. \A i \in Ids : \/ worker'[i].at = worker[i].at
                       \/ Started(i) => Answered(worker[i].caller)'
    BY <1>1, <2>2
  <2> QED BY <1>1, <2>3, ToldFrame
<1> QED BY <1>3, <1>4 DEF SendStopped

(* The caller of a pending join still waits, so no task was started for it. *)
LEMMA JoinUnstarted ==
  ASSUME Typed, Held, Told, NEW g \in Guilds, HasPending(g), NEW id \in Ids
  PROVE  worker[id].caller # pending[g].caller
<1> SUFFICES ASSUME worker[id].caller = pending[g].caller PROVE FALSE
  OBVIOUS
<1>1. PICK d \in Calls : d = pending[g].caller
  BY JoinCaller DEF Issued
<1>2. Waiting(d) /\ HeldBy(d, FALSE, FALSE, {g}, {}, {})
  BY <1>1, JoinCaller
<1>3. Started(id)
  BY <1>1, DistinctAssumption DEF Typed, TasksTyped, Started, IssuedTask, NoTask
<1>4. worker[id].at # "connecting"
  BY <1>1, <1>2 DEF HeldBy, Tasks
<1>5. Answered(d)
  BY <1>1, <1>3, <1>4 DEF Told
<1> QED BY <1>2, <1>5 DEF Waiting, Answered

LEMMA StartWorkerTold ==
  ASSUME Typed, Held, Told, NEW g \in Guilds, StartWorker(g)
  PROVE  Told'
<1>1. PICK n \in Ids : n = nextId + 1
  BY BoundAssumption DEF StartWorker, Typed, MapsTyped, Ids
<1>2. PICK task : task = NewTask(g, pending[g])
  OBVIOUS
<1>3. /\ task.at = "connecting" /\ task.caller = pending[g].caller
      /\ HasPending(g) /\ UNCHANGED call
      /\ worker' = [worker EXCEPT ![n] = task]
  BY <1>1, <1>2 DEF StartWorker, NewTask
<1>4. worker'[n] = task /\ \A i \in Ids \ {n} : worker'[i] = worker[i]
  BY <1>3 DEF Typed, TasksTyped
<1>5. \A i \in Ids : worker[i].caller # task.caller
  BY <1>3, JoinUnstarted
<1> QED BY <1>3, <1>4, <1>5 DEF Told, Started, Answered

(* Told is inductive together with the types and Held. *)
THEOREM ToldCorrect == Spec => []Told
<1>1. Typed /\ Supervised /\ Held /\ Told /\ [Next]_vars => Told'
  <2> SUFFICES ASSUME Typed, Supervised, Held, Told, [Next]_vars PROVE Told'
    OBVIOUS
  <2>1. Final
    BY NextHeld
  <2>2. CASE Deliver
    BY <2>1, <2>2, DeliverKeeps, ToldFrame
  <2>3. ASSUME NEW c \in Calls,
               Issue(c) \/ JoinVoice(c) \/ LeaveVoice(c) \/ RoutePlayback(c)
        PROVE  Told'
    BY <2>1, <2>3, ToldQuiet DEF Issue, JoinVoice, LeaveVoice, RoutePlayback
  <2>4. CASE HandleCall
    BY <2>3, <2>4 DEF HandleCall
  <2>5. CASE HandleEvent \/ CtrlC \/ Stop \/ Ended \/ UNCHANGED vars
    <3>1. CASE HandleEvent \/ CtrlC
      BY <2>1, <3>1, ToldQuiet DEF HandleEvent, JoinTimedOut, Stopped, CtrlC
    <3>2. CASE Stop
      <4>1. UNCHANGED worker
        BY <3>2 DEF Stop, ShutdownWorker, TasksJoined, CommandsJoined
      <4> QED BY <2>1, <4>1, ToldQuiet
    <3>3. CASE UNCHANGED vars
      BY <2>1, <3>3, ToldQuiet DEF vars
    <3> QED BY <2>5, <3>1, <3>2, <3>3 DEF Ended
  <2>6. CASE Dispatch
    <3>1. ASSUME NEW g \in Guilds, ServerUnavailable(g) PROVE Told'
      BY <2>1, <3>1, ToldQuiet DEF ServerUnavailable
    <3>2. CASE Ready
      BY <2>1, <3>2, ToldQuiet DEF Ready
    <3> QED BY <2>6, <3>1, <3>2, StartWorkerTold DEF Dispatch
  <2>7. ASSUME NEW t \in timers, TimerFires(t) PROVE Told'
    BY <2>1, <2>7, ToldQuiet DEF TimerFires
  <2>8. ASSUME NEW id \in Ids,
               \/ Connected(id) \/ ConnectFails(id) \/ HandleCommand(id)
               \/ SessionEnds(id) \/ SendStopped(id)
        PROVE  Told'
    BY <2>1, <2>8, WorkerTold
  <2> QED BY <2>2, <2>3, <2>4, <2>5, <2>6, <2>7, <2>8 DEF Next
<1> QED
  BY <1>1, ToldInit, TypedCorrect, SupervisedCorrect, HeldCorrect, PTL DEF Spec

------------------------------------------------------------------------------
(* Part 5: VoiceManager implements VoiceSession *)

(* What a step does to requests, links and sessions. *)
Promised ==
  /\ \A c \in Calls : Promise!CallStep(c) /\ Promise!LinkStep(c)
  /\ \A g \in Guilds : \/ Promise!Stay(g) \/ Promise!Begin(g)
                        \/ Promise!Connect(g) \/ Promise!End(g)

LEMMA SeenInit == Init => Promise!Init
<1> SUFFICES ASSUME Init PROVE Promise!Init
  OBVIOUS
<1>1. CallSeen = [c \in Calls |-> Promise!Unissued]
  BY DEF Init, CallSeen, Waiting, Unissued, Promise!Unissued
<1>2. SessionSeen = [g \in Guilds |-> Promise!NoSession]
  BY DEF Init, SessionSeen, HasPending, HasWorker, NoPending, NoHandle,
         Promise!NoSession
<1>3. LinkSeen = [c \in Calls |-> "none"]
  <2>1. \A c \in Calls : Got(c) = {}
    BY DistinctAssumption DEF Init, Got, NoTask
  <2> QED BY <2>1 DEF LinkSeen
<1>4. requested = [g \in Guilds |-> NoChannel] /\ Open = TRUE
  BY DEF Init, Open, Selecting
<1> QED BY <1>1, <1>2, <1>3, <1>4 DEF Promise!Init

(* A request that is neither answered nor taken off the control channel.   *)
LEMMA SeenKept ==
  ASSUME NEW c \in Calls, call'[c] = call[c],
         InControl(c)' <=> InControl(c)
  PROVE  CallSeen'[c] = CallSeen[c] /\ Promise!CallStep(c)
<1>1. CallSeen'[c] = CallSeen[c]
  BY DEF CallSeen, Waiting, InControl
<1> QED BY <1>1 DEF Promise!CallStep

(* How a request shows while it waits ... *)
LEMMA SeenWaiting ==
  ASSUME NEW c \in Calls, Waiting(c), call[c] \in Request
  PROVE  /\ CallSeen[c].kind = call[c].kind /\ CallSeen[c].kind # "none"
         /\ CallSeen[c].guild = call[c].guild
         /\ CallSeen[c].channel = call[c].channel
         /\ InControl(c) => CallSeen[c].answer = "none"
         /\ ~ InControl(c) => CallSeen[c].answer = "accepted"
         /\ InControl(c) => CallSeen[c] = call[c]
         /\ ~ InControl(c) =>
              CallSeen[c] = [call[c] EXCEPT !.answer = "accepted"]
BY DEF CallSeen, Waiting, InControl, Request, Kinds

(* ... always with what it asks for, ... *)
LEMMA SeenFields ==
  ASSUME Typed, NEW c \in Calls
  PROVE  /\ CallSeen[c].kind = call[c].kind /\ CallSeen[c].guild = call[c].guild
         /\ CallSeen[c].channel = call[c].channel
<1>1. CASE Waiting(c) /\ ~ InControl(c)
  <2>1. call[c] \in Request
    BY <1>1 DEF Waiting, Typed, CallsTyped, Unissued
  <2> QED BY <1>1, <2>1, SeenWaiting
<1>2. CASE ~ Waiting(c) \/ InControl(c)
  BY <1>2 DEF CallSeen, Waiting, InControl
<1> QED BY <1>1, <1>2

(* ... and when it is answered. *)
LEMMA SeenTold ==
  ASSUME NEW c \in Calls, Waiting(c), call[c] \in Request, NEW a \in Answers,
         call'[c] = [call[c] EXCEPT !.answer = a]
  PROVE  /\ CallSeen'[c] = [CallSeen[c] EXCEPT !.answer = a]
         /\ CallSeen'[c].answer = a
<1>1. a # "none"
  BY DEF Answers
<1>2. call'[c] = [kind |-> call[c].kind, guild |-> call[c].guild,
                  channel |-> call[c].channel, answer |-> a]
  BY DEF Request
<1>3. CallSeen'[c] = call'[c]
  BY <1>1, <1>2 DEF CallSeen, Waiting
<1>4. [[call[c] EXCEPT !.answer = "accepted"] EXCEPT !.answer = a] =
        [call[c] EXCEPT !.answer = a]
  BY DEF Request
<1>5. CallSeen[c] = call[c] \/ CallSeen[c] = [call[c] EXCEPT !.answer = "accepted"]
  BY SeenWaiting
<1> QED BY <1>2, <1>3, <1>4, <1>5

LEMMA SeenAnswered ==
  ASSUME NEW c \in Calls, Waiting(c), call[c] \in Request, NEW a \in Answers,
         call'[c] = [call[c] EXCEPT !.answer = a],
         InControl(c) => Promise!Refusal(c, a),
         ~ InControl(c) => Promise!Outcome(c, a)
  PROVE  Promise!CallStep(c)
<1>1. CallSeen'[c] = [CallSeen[c] EXCEPT !.answer = a] /\ CallSeen'[c].answer = a
  BY SeenTold
<1>2. /\ CallSeen[c].kind # "none"
      /\ InControl(c) => CallSeen[c].answer = "none"
      /\ ~ InControl(c) => CallSeen[c].answer = "accepted"
  BY SeenWaiting
<1>3. CASE InControl(c)
  BY <1>1, <1>2, <1>3 DEF Promise!CallStep
<1>4. CASE ~ InControl(c)
  BY <1>1, <1>2, <1>4 DEF Promise!CallStep
<1> QED BY <1>3, <1>4

(* A request that was not accepted may fail at any time. *)
LEMMA SeenFailed ==
  ASSUME NEW c \in Calls, Waiting(c), call[c] \in Request,
         call'[c] = [call[c] EXCEPT !.answer = "Failed"],
         ~ InControl(c) => Promise!Outcome(c, "Failed")
  PROVE  Promise!CallStep(c)
BY SeenAnswered DEF Answers, Promise!Refusal

LEMMA SeenAccepted ==
  ASSUME NEW c \in Calls, Waiting(c), call[c] \in Request, InControl(c),
         ~ InControl(c)', call'[c] = call[c], Promise!MayAccept(c)
  PROVE  /\ CallSeen'[c].answer = "accepted"
         /\ Promise!CallStep(c)
<1>1. /\ CallSeen[c].kind # "none" /\ CallSeen[c].answer = "none"
      /\ CallSeen[c] = call[c]
  BY SeenWaiting
<1>2. CallSeen'[c] = [call[c] EXCEPT !.answer = "accepted"]
  BY DEF CallSeen, Waiting, InControl
<1>3. CallSeen'[c].answer = "accepted"
  BY <1>2 DEF Request
<1> QED BY <1>1, <1>2, <1>3 DEF Promise!CallStep

(* The session of a guild, as its users see it. *)
LEMMA SeenGuild ==
  ASSUME Sessions, NEW g \in Guilds
  PROVE  /\ HasPending(g) =>
              SessionSeen[g] = [at |-> "joining", channel |-> pending[g].channel,
                                by |-> pending[g].caller]
         /\ HasWorker(g) =>
              SessionSeen[g] = [at |-> "connected", channel |-> workers[g].channel,
                                by |-> worker[workers[g].id].caller]
         /\ ~ HasPending(g) /\ ~ HasWorker(g) => SessionSeen[g] = Promise!NoSession
BY DEF Sessions, PendingXorWorker, SessionSeen, Promise!NoSession

LEMMA SeenAt ==
  ASSUME Sessions, NEW g \in Guilds
  PROVE  /\ HasPending(g) =>
              /\ SessionSeen[g].at = "joining"
              /\ SessionSeen[g].channel = pending[g].channel
              /\ SessionSeen[g].by = pending[g].caller
         /\ HasWorker(g) =>
              /\ SessionSeen[g].at = "connected"
              /\ SessionSeen[g].channel = workers[g].channel
              /\ SessionSeen[g].by = worker[workers[g].id].caller
         /\ ~ HasPending(g) /\ ~ HasWorker(g) => SessionSeen[g].at = "absent"
BY DEF Sessions, PendingXorWorker, SessionSeen

(* ... and after a step. *)
LEMMA SeenGuildNext ==
  ASSUME Sessions', NEW g \in Guilds
  PROVE  /\ HasPending(g)' =>
              SessionSeen'[g] = [at |-> "joining", channel |-> pending'[g].channel,
                                 by |-> pending'[g].caller]
         /\ HasWorker(g)' =>
              SessionSeen'[g] = [at |-> "connected", channel |-> workers'[g].channel,
                                 by |-> worker'[workers'[g].id].caller]
         /\ ~ HasPending(g)' /\ ~ HasWorker(g)' =>
              SessionSeen'[g] = Promise!NoSession
BY DEF Sessions, PendingXorWorker, SessionSeen, Promise!NoSession

(* The link of a join is that of the task which was started for it, ... *)
LEMMA LinkIs ==
  ASSUME Typed, Told, NEW id \in Ids, Started(id), NEW c, c = worker[id].caller
  PROVE  c \in Calls /\ LinkSeen[c] = Link(id)
<1>1. c \in Calls
  BY StartedTask DEF IssuedTask, Issued
<1>2. \A j \in Got(c) : j = id
  BY <1>1, DistinctAssumption
     DEF Got, Told, Started, Typed, TasksTyped, IssuedTask, NoTask
<1>3. id \in Got(c)
  BY DEF Got
<1>4. (CHOOSE j \in Ids : j \in Got(c)) = id
  BY <1>2, <1>3
<1> QED BY <1>1, <1>3, <1>4 DEF LinkSeen

(* ... also after a step, ... *)
LEMMA LinkIsNext ==
  ASSUME Typed', Told', NEW id \in Ids, Started(id)', NEW c, c = worker'[id].caller
  PROVE  LinkSeen'[c] = Link(id)'
<1>1. c \in Calls
  <2>1. worker'[id] \in IssuedTask'
    BY DEF Typed, TasksTyped, Started, NoTask
  <2> QED BY <2>1 DEF IssuedTask, Issued
<1>2. \A j \in Ids : worker'[j].caller = c => j = id
  BY <1>1, DistinctAssumption
     DEF Told, Started, Typed, TasksTyped, IssuedTask, NoTask
<1>3. (CHOOSE j \in Ids : j \in Got(c)') = id
  BY <1>2 DEF Got
<1>4. Got(c)' # {}
  BY DEF Got
<1> QED BY <1>1, <1>3, <1>4 DEF LinkSeen

(* ... and there is none before. *)
LEMMA LinkNone ==
  ASSUME NEW c \in Calls, \A id \in Ids : worker[id].caller # c
  PROVE  /\ LinkSeen[c] = "none"
         /\ UNCHANGED worker => LinkSeen'[c] = "none"
<1>1. Got(c) = {} /\ (UNCHANGED worker => Got(c)' = {})
  BY DEF Got
<1> QED BY <1>1 DEF LinkSeen

(* Links that a step leaves alone. *)
LEMMA LinkKept ==
  ASSUME NEW c \in Calls, Got(c)' = Got(c),
         \A id \in Got(c) : Link(id)' = Link(id)
  PROVE  LinkSeen'[c] = LinkSeen[c] /\ Promise!LinkStep(c)
<1>2. PICK found : found = CHOOSE id \in Ids : id \in Got(c)
  OBVIOUS
<1>3. Got(c) # {} => found \in Got(c)
  BY <1>2 DEF Got
<1>4. LinkSeen[c] = IF Got(c) = {} THEN "none" ELSE Link(found)
  BY <1>2 DEF LinkSeen
<1>5. LinkSeen'[c] = IF Got(c) = {} THEN "none" ELSE Link(found)'
  BY <1>2 DEF LinkSeen
<1>6. LinkSeen'[c] = LinkSeen[c]
  BY <1>3, <1>4, <1>5
<1> QED BY <1>6 DEF Promise!LinkStep

LEMMA LinksStay ==
  ASSUME UNCHANGED workers,
         \A id \in Ids : SameTask(id) /\ worker'[id].at = worker[id].at
  PROVE  \A c \in Calls : Promise!LinkStep(c)
<1>1. \A id \in Ids : Link(id)' = Link(id)
  BY DEF Link, SameTask
<1>2. \A c \in Calls : Got(c)' = Got(c)
  BY DEF Got, SameTask
<1> QED BY <1>1, <1>2, LinkKept DEF Got

(* Sessions that end, by a leave or ctrl-c or with their worker, and leave *)
(* the tasks as they are: a link that is being made was overtaken.         *)
LEMMA UnlistLinks ==
  ASSUME Typed, Typed', Sessions, Sessions', Supervised, Asked, Told, Told',
         UNCHANGED worker,
         \A g \in Guilds :
           \/ workers'[g] = workers[g]
           \/ /\ ~ HasWorker(g)' /\ ~ HasPending(g)'
              /\ \/ Promise!Interrupted(g)
                 \/ worker[workers[g].id].at # "connecting"
  PROVE  \A c \in Calls : Promise!LinkStep(c)
<1> SUFFICES ASSUME NEW c \in Calls PROVE Promise!LinkStep(c)
  OBVIOUS
<1>1. ASSUME NEW id \in Got(c), Link(id)' # Link(id) PROVE Promise!LinkStep(c)
  <2>1. id \in Ids /\ worker[id].caller = c
    BY DEF Got
  <2>2. Started(id)
    BY <2>1, DistinctAssumption DEF Started, Typed, TasksTyped, IssuedTask, NoTask
  <2>3. PICK g \in Guilds : g = worker[id].guild
    BY <2>1, <2>2, StartedTask DEF IssuedTask
  <2>4. /\ worker[id].at = "connecting"
        /\ (workers[g].id = id) # (workers'[g].id = id)
    BY <1>1, <2>3 DEF Link
  <2>5. /\ ~ HasWorker(g)' /\ ~ HasPending(g)' /\ workers'[g].id = 0
        /\ Promise!Interrupted(g) \/ worker[workers[g].id].at # "connecting"
    BY <2>4 DEF HasWorker
  <2>6. workers[g].id = id /\ HasWorker(g) /\ Promise!Interrupted(g)
    BY <2>1, <2>4, <2>5 DEF HasWorker, Ids
  <2>7. LinkSeen[c] = "connecting" /\ LinkSeen'[c] = "overtaken"
    <3>1. LinkSeen[c] = Link(id) /\ LinkSeen'[c] = Link(id)'
      BY <2>1, <2>2, LinkIs, LinkIsNext DEF Started
    <3> QED BY <2>1, <2>3, <2>4, <2>5, <2>6, <3>1 DEF Link, Ids
  <2>8. CallSeen[c].guild = g /\ CallSeen[c].channel = workers[g].channel
    <3>1. call[c].guild = g /\ call[c].channel = worker[id].channel
      BY <2>1, <2>2, <2>3 DEF Asked, Asks
    <3>2. worker[id].channel = workers[g].channel
      BY <2>6 DEF Supervised, EntryHasWorker
    <3> QED BY <3>1, <3>2, SeenFields
  <2>9. SessionSeen[g] = Promise!Connected(c) /\ SessionSeen'[g] = Promise!NoSession
    BY <2>1, <2>5, <2>6, <2>8, SeenGuild, SeenGuildNext DEF Promise!Connected
  <2> QED
    BY <2>6, <2>7, <2>8, <2>9 DEF Promise!LinkStep, Promise!Now, Promise!Then
<1>2. Got(c)' = Got(c)
  BY DEF Got
<1> QED BY <1>1, <1>2, LinkKept

(* A guild that the step leaves alone, ... *)
LEMMA GuildStays ==
  ASSUME NEW g \in Guilds, pending'[g] = pending[g], workers'[g] = workers[g],
         requested'[g] = requested[g], Typed, \A id \in Ids : SameTask(id)
  PROVE  SessionSeen'[g] = SessionSeen[g] /\ Promise!Stay(g)
<1>1. HasWorker(g) => worker'[workers'[g].id].caller = worker[workers[g].id].caller
  BY HandleTyped DEF SameTask
<1>2. SessionSeen'[g] = SessionSeen[g]
  BY <1>1 DEF SessionSeen, HasPending, HasWorker
<1> QED BY <1>2 DEF Promise!Stay, Promise!MayDisconnect

(* ... one that has no session, ... *)
LEMMA GuildQuiet ==
  ASSUME NEW g \in Guilds, Sessions, ~ HasPending(g), ~ HasWorker(g),
         pending'[g] = pending[g], workers'[g] = workers[g],
         requested'[g] \in {requested[g], NoChannel}
  PROVE  Promise!Stay(g)
<1>1. SessionSeen'[g] = SessionSeen[g]
  BY DEF SessionSeen, HasPending, HasWorker
<1>2. SessionSeen[g] = Promise!NoSession
  BY SeenGuild
<1> QED BY <1>1, <1>2 DEF Promise!Stay, Promise!MayDisconnect

(* ... one whose connected session ends, ... *)
LEMMA GuildParts ==
  ASSUME NEW g \in Guilds, Sessions, Sessions', HasWorker(g), ~ HasWorker(g)',
         ~ HasPending(g)', requested'[g] \in {requested[g], NoChannel},
         Typed, Typed', Supervised, Told', UNCHANGED worker
  PROVE  Promise!End(g)
<1>1. PICK id \in Ids : id = workers[g].id
  BY HandleTyped
<1>2. SessionSeen[g].by = worker[id].caller /\ SessionSeen'[g] = Promise!NoSession
  BY <1>1, SeenAt, SeenGuildNext
<1>3. SessionSeen[g].at = "connected" /\ Promise!NoSession.at = "absent"
  BY SeenAt DEF Promise!NoSession
<1>4. SessionSeen[g] # Promise!NoSession
  BY <1>3
<1>5. LinkSeen'[worker[id].caller] # "connecting"
  <2>1. Started(id)' /\ worker'[id].guild = g /\ workers'[g].id # id
    BY <1>1 DEF Typed, NamesStarted, Started, Supervised, EntryHasWorker, HasWorker
  <2>2. LinkSeen'[worker[id].caller] = Link(id)'
    BY <2>1, LinkIsNext
  <2> QED BY <2>1, <2>2 DEF Link
<1> QED BY <1>2, <1>3, <1>4, <1>5 DEF Promise!End, Promise!MayDisconnect

(* ... and one whose join ends with an answer. *)
LEMMA GuildGivesUp ==
  ASSUME NEW g \in Guilds, Sessions, Sessions', HasPending(g), ~ HasWorker(g)',
         ~ HasPending(g)', requested'[g] \in {requested[g], NoChannel},
         NEW d \in Calls, d = pending[g].caller, Waiting(d), call[d] \in Request,
         NEW a \in {"Failed", "Cancelled"}, call'[d] = [call[d] EXCEPT !.answer = a],
         Typed, Held, Told, UNCHANGED worker
  PROVE  Promise!End(g)
<1>1. /\ SessionSeen[g] = [at |-> "joining", channel |-> pending[g].channel,
                           by |-> d]
      /\ SessionSeen'[g] = Promise!NoSession
  BY SeenGuild, SeenGuildNext
<1>2. SessionSeen[g].at = "joining" /\ Promise!NoSession.at = "absent"
      /\ SessionSeen[g].by = d
  BY <1>1 DEF Promise!NoSession
<1>3. SessionSeen[g] # Promise!NoSession
  BY <1>2
<1>4. CallSeen'[d].answer = a
  BY SeenTold DEF Answers
<1>5. LinkSeen'[d] = "none"
  BY JoinUnstarted, LinkNone
<1> QED BY <1>1, <1>2, <1>3, <1>4, <1>5 DEF Promise!End, Promise!MayDisconnect

(* Asking Discord to leave voice, which may fail. *)
LEMMA DisconnectSeen ==
  ASSUME Typed, NEW g \in Guilds, Disconnect(g) \/ UNCHANGED requested
  PROVE  requested'[g] \in {requested[g], NoChannel}
BY DEF Disconnect, Typed, MapsTyped

(* Steps that no user sees. *)
LEMMA UnseenRefines ==
  ASSUME Typed, UNCHANGED << call, control, pending, workers, requested >>,
         \A id \in Ids : SameTask(id) /\ worker'[id].at = worker[id].at
  PROVE  Promised
<1>1. ASSUME NEW c \in Calls PROVE Promise!CallStep(c)
  BY SeenKept DEF InControl
<1>2. ASSUME NEW g \in Guilds PROVE Promise!Stay(g)
  BY GuildStays
<1> QED BY <1>1, <1>2, LinksStay DEF Promised

LEMMA QuietRefines ==
  ASSUME Typed, UNCHANGED << call, control, pending, workers, requested, worker >>
  PROVE  Promised
BY UnseenRefines DEF SameTask

LEMMA IssueRefines ==
  ASSUME Typed, NEW c \in Calls, Issue(c)
  PROVE  Promised
<1>1. PICK kind \in Kinds, g \in Guilds, ch \in Channels :
        call' = [call EXCEPT ![c] =
                   [kind |-> kind, guild |-> g, channel |-> ch,
                    answer |-> IF Open THEN "none" ELSE "Failed"]]
  BY DEF Issue
<1>2. /\ call'[c] = [kind |-> kind, guild |-> g, channel |-> ch,
                     answer |-> IF Open THEN "none" ELSE "Failed"]
      /\ \A d \in Calls \ {c} : call'[d] = call[d]
      /\ call[c] = Unissued /\ call[c].kind = "none"
      /\ control \in Seq(Issued)
  BY <1>1 DEF Issue, Typed, CallsTyped, LoopTyped, Request, Kinds
<1>3. \A d \in Calls : InControl(d)' <=> InControl(d) \/ (d = c /\ Open)
  <2>1. ToSet(Append(control, c)) = ToSet(control) \union {c}
    <3>1. control \in Seq(Calls)
      BY <1>2, SeqMonotonic DEF Issued
    <3> QED BY <3>1, AddLast
  <2>2. CASE Open
    BY <2>1, <2>2 DEF Issue, InControl
  <2>3. CASE ~ Open
    BY <2>3 DEF Issue, InControl
  <2> QED BY <2>2, <2>3
<1>4. Promise!CallStep(c)
  <2>1. CallSeen[c] = Promise!Unissued
    BY <1>2 DEF CallSeen, Waiting, Unissued, Promise!Unissued
  <2>2. CallSeen'[c] = call'[c]
    BY <1>2, <1>3 DEF CallSeen, Waiting, InControl
  <2>3. call'[c] \in Promise!Requests
    BY <1>2 DEF Kinds, Promise!Requests
  <2> QED BY <2>1, <2>2, <2>3 DEF Promise!CallStep
<1>5. ASSUME NEW d \in Calls PROVE Promise!CallStep(d)
  BY <1>2, <1>3, <1>4, SeenKept
<1>6. UNCHANGED << pending, workers, requested, worker >>
  BY DEF Issue
<1>7. ASSUME NEW h \in Guilds PROVE Promise!Stay(h)
  BY <1>6, GuildStays DEF SameTask
<1>8. ASSUME NEW d \in Calls PROVE Promise!LinkStep(d)
  BY <1>6, LinksStay DEF SameTask
<1> QED BY <1>5, <1>7, <1>8 DEF Promised

(* The request that the loop takes off its channel, and the others. *)
LEMMA TakenSeen ==
  ASSUME Typed, Held, NEW c \in Calls, NEW kind, Receive(c, kind)
  PROVE  /\ Waiting(c) /\ call[c] \in Request /\ call[c].kind = kind
         /\ call[c].guild \in Guilds /\ InControl(c) /\ ~ InControl(c)'
         /\ CallSeen[c] = call[c]
         /\ \A d \in Calls \ {c} : call'[d] = call[d] => Promise!CallStep(d)
<1>1. /\ Waiting(c) /\ HeldBy(c, TRUE, FALSE, {}, {}, {})
      /\ \A d \in Calls : InControl(d)' <=> InControl(d) /\ d # c
  BY ReceivedOnce
<1>2. call[c] \in Request /\ call[c].kind = kind
  BY Received DEF Receive
<1>3. InControl(c) /\ CallSeen[c] = call[c]
  BY <1>1, <1>2, SeenWaiting DEF HeldBy
<1>4. ASSUME NEW d \in Calls \ {c}, call'[d] = call[d] PROVE Promise!CallStep(d)
  BY <1>1, <1>4, SeenKept
<1> QED BY <1>1, <1>2, <1>3, <1>4 DEF Request

(* Refused on sight: the answer fits the session of the guild. *)
LEMMA RefusedRefines ==
  ASSUME Typed, Held, NEW c \in Calls, NEW kind, Receive(c, kind),
         UNCHANGED << pending, workers, requested, worker >>, NEW a \in Answers,
         Answer(c, a), Promise!Refusal(c, a)
  PROVE  Promised
<1>1. /\ Waiting(c) /\ call[c] \in Request /\ InControl(c)
      /\ \A d \in Calls \ {c} : call'[d] = call[d] => Promise!CallStep(d)
  BY TakenSeen
<1>2. /\ call'[c] = [call[c] EXCEPT !.answer = a]
      /\ \A d \in Calls \ {c} : call'[d] = call[d]
  BY DEF Answer, AnswerAll
<1>3. Promise!CallStep(c)
  BY <1>1, <1>2, SeenAnswered
<1>4. ASSUME NEW d \in Calls PROVE Promise!CallStep(d)
  BY <1>1, <1>2, <1>3
<1>5. ASSUME NEW h \in Guilds PROVE Promise!Stay(h)
  BY GuildStays DEF SameTask
<1>6. ASSUME NEW d \in Calls PROVE Promise!LinkStep(d)
  BY LinksStay DEF SameTask
<1> QED BY <1>4, <1>5, <1>6 DEF Promised

(* Accepted: the loop or a pending join keeps the response. *)
LEMMA AcceptedRefines ==
  ASSUME Typed, Held, NEW c \in Calls, NEW kind, Receive(c, kind),
         UNCHANGED call, Promise!MayAccept(c)
  PROVE  /\ CallSeen'[c].answer = "accepted"
         /\ \A d \in Calls : Promise!CallStep(d)
<1>1. /\ Waiting(c) /\ call[c] \in Request /\ InControl(c) /\ ~ InControl(c)'
      /\ \A d \in Calls \ {c} : call'[d] = call[d] => Promise!CallStep(d)
  BY TakenSeen
<1>2. CallSeen'[c].answer = "accepted" /\ Promise!CallStep(c)
  BY <1>1, SeenAccepted
<1> QED BY <1>1, <1>2

LEMMA JoinVoiceRefines ==
  ASSUME Typed, Sessions, Sessions', Held, NEW c \in Calls, JoinVoice(c)
  PROVE  Promised
<1>1. PICK g \in Guilds : g = call[c].guild
  BY TakenSeen DEF JoinVoice
<1>2. /\ Receive(c, "join") /\ UNCHANGED << workers, worker >>
      /\ call[c].kind = "join" /\ CallSeen[c] = call[c]
      /\ call[c].channel \in Channels
  BY TakenSeen DEF JoinVoice, Request
<1>3. CASE JoinRefused(c, g)
  <2>1. UNCHANGED << pending, requested >>
    BY <1>3 DEF JoinRefused
  <2>2. CASE HasWorker(g) /\ Answer(c, "AlreadyConnected")
    <3>1. SessionSeen[g].at = "connected"
      BY <2>2, SeenAt
    <3>2. Promise!Refusal(c, "AlreadyConnected")
      BY <1>1, <1>2, <3>1 DEF Promise!Refusal, Promise!Now
    <3> QED BY <1>2, <2>1, <2>2, <3>2, RefusedRefines DEF Answers
  <2>3. CASE ~ HasWorker(g) /\ HasPending(g) /\ Answer(c, "InProgress")
    <3>1. SessionSeen[g].at = "joining"
      BY <2>3, SeenAt
    <3>2. Promise!Refusal(c, "InProgress")
      BY <1>1, <1>2, <3>1 DEF Promise!Refusal, Promise!Now
    <3> QED BY <1>2, <2>1, <2>3, <3>2, RefusedRefines DEF Answers
  <2>4. CASE Answer(c, "Failed")
    BY <1>2, <2>1, <2>4, RefusedRefines DEF Answers, Promise!Refusal
  <2> QED BY <1>3, <2>2, <2>3, <2>4 DEF JoinRefused
<1>4. CASE JoinRequested(c, g)
  <2>1. PICK n \in Ids : n = nextId'
    BY <1>4, BoundAssumption DEF JoinRequested, Typed, MapsTyped, Ids
  <2>2. /\ UNCHANGED call /\ ~ HasPending(g) /\ ~ HasWorker(g)
        /\ pending' = [pending EXCEPT ![g] =
             [id |-> n, channel |-> call[c].channel, caller |-> c]]
        /\ requested' = [requested EXCEPT ![g] = call[c].channel]
    BY <1>4, <2>1 DEF JoinRequested
  <2>3. /\ pending'[g].channel = call[c].channel /\ pending'[g].caller = c
        /\ HasPending(g)' /\ requested'[g] = call[c].channel
        /\ \A h \in Guilds \ {g} : /\ pending'[h] = pending[h]
                                   /\ requested'[h] = requested[h]
    BY <2>2 DEF HasPending, Ids, Typed, MapsTyped
  <2>4. /\ SessionSeen[g] = Promise!NoSession
        /\ SessionSeen'[g] = Promise!Joining(c)
    <3>1. SessionSeen'[g] = [at |-> "joining", channel |-> call[c].channel,
                             by |-> c]
      BY <2>3, SeenGuildNext
    <3> QED BY <1>2, <2>2, <3>1, SeenGuild DEF Promise!Joining
  <2>5. Promise!MayAccept(c)
    BY <1>1, <1>2, <2>4 DEF Promise!MayAccept, Promise!Now, Promise!Then
  <2>6. /\ CallSeen'[c].answer = "accepted"
        /\ \A d \in Calls : Promise!CallStep(d)
    BY <1>2, <2>2, <2>5, AcceptedRefines
  <2>7. Promise!Begin(g)
    <3>1. Open'
      BY <1>2, <1>4 DEF JoinRequested, Receive, Open
    <3> QED BY <1>1, <1>2, <2>3, <2>4, <2>6, <3>1 DEF Promise!Begin
  <2>8. ASSUME NEW h \in Guilds \ {g} PROVE Promise!Stay(h)
    BY <1>2, <2>3, GuildStays DEF SameTask
  <2>9. ASSUME NEW d \in Calls PROVE Promise!LinkStep(d)
    BY <1>2, LinksStay DEF SameTask
  <2> QED BY <2>6, <2>7, <2>8, <2>9 DEF Promised
<1> QED BY <1>1, <1>3, <1>4 DEF JoinVoice

(* A join whose caller is held by the pending map. *)
LEMMA PendingSeen ==
  ASSUME Typed, Held, Asked, NEW g \in Guilds, HasPending(g),
         NEW d, d = pending[g].caller
  PROVE  /\ d \in Calls /\ Waiting(d) /\ ~ InControl(d) /\ call[d] \in Request
         /\ CallSeen[d].kind = "join" /\ CallSeen[d].guild = g
         /\ CallSeen[d].channel = pending[g].channel
<1>1. d \in Issued /\ Waiting(d) /\ HeldBy(d, FALSE, FALSE, {g}, {}, {})
  BY JoinCaller
<1>2. d \in Calls /\ call[d] \in Request
  BY <1>1, IssuedRequest DEF Issued, Typed
<1>3. Asks(d, "join", g, pending[g].channel)
  BY DEF Asked
<1> QED BY <1>1, <1>2, <1>3, SeenFields DEF HeldBy, Asks

(* It may be told so when it is given up. *)
LEMMA PendingGivesUp ==
  ASSUME Typed, Sessions, Sessions', Held, Asked, NEW g \in Guilds, HasPending(g),
         ~ HasPending(g)', ~ HasWorker(g)', NEW d, d = pending[g].caller
  PROVE  /\ Promise!Outcome(d, "Failed")
         /\ Promise!Interrupted(g) => Promise!Outcome(d, "Cancelled")
<1>1. /\ CallSeen[d].kind = "join" /\ CallSeen[d].guild = g
      /\ CallSeen[d].channel = pending[g].channel
  BY PendingSeen
<1>2. SessionSeen[g] = Promise!Joining(d) /\ SessionSeen'[g] = Promise!NoSession
  BY <1>1, SeenGuild, SeenGuildNext DEF Promise!Joining
<1>3. Promise!GivenUp(d)
  BY <1>1, <1>2 DEF Promise!GivenUp, Promise!Now, Promise!Then
<1> QED BY <1>1, <1>3 DEF Promise!Outcome, Promise!JoinOutcome

(* The join of a guild and the leave that cancels it are told apart, and   *)
(* the leave is told so only when Discord was asked.                       *)
LEMMA LeavePendingRefines ==
  ASSUME Typed, Sessions, Sessions', Held, Asked, Told, NEW c \in Calls,
         LeaveVoice(c), LeavePending(c, call[c].guild)
  PROVE  Promised
<1>1. PICK g \in Guilds : g = call[c].guild
  BY TakenSeen DEF LeaveVoice
<1>2. /\ Waiting(c) /\ call[c] \in Request /\ call[c].kind = "leave"
      /\ InControl(c) /\ ~ InControl(c)' /\ CallSeen[c] = call[c]
      /\ \A d \in Calls \ {c} : call'[d] = call[d] => Promise!CallStep(d)
  BY TakenSeen DEF LeaveVoice
<1>3. PICK b \in Calls : b = pending[g].caller
  BY <1>1, JoinCaller DEF LeavePending, Issued
<1>4. /\ b \in Issued /\ Waiting(b) /\ HeldBy(b, FALSE, FALSE, {g}, {}, {})
      /\ HasPending(g) /\ call[b] \in Request
  BY <1>1, <1>3, JoinCaller, IssuedRequest DEF LeavePending, Issued, Typed
<1>5. b # c /\ ~ InControl(b)
  BY <1>2, <1>4 DEF HeldBy
<1>6. PICK ok \in BOOLEAN :
        /\ requested' = IF ok THEN [requested EXCEPT ![g] = NoChannel]
                              ELSE requested
        /\ call' = [AnswerAll({b}, "Cancelled") EXCEPT ![c].answer =
                      IF ok THEN "CancelledJoin" ELSE "Failed"]
  BY <1>1, <1>3, BoundAssumption DEF LeavePending
<1>7. PICK a : a = IF ok THEN "CancelledJoin" ELSE "Failed"
  OBVIOUS
<1>8. /\ call'[b] = [call[b] EXCEPT !.answer = "Cancelled"]
      /\ call'[c] = [call[c] EXCEPT !.answer = a]
      /\ \A d \in Calls \ {b, c} : call'[d] = call[d]
  BY <1>5, <1>6, <1>7 DEF AnswerAll
<1>9. /\ pending' = [pending EXCEPT ![g] = NoPending]
      /\ UNCHANGED << workers, worker >>
      /\ ~ HasWorker(g)
  BY <1>1, <1>4 DEF LeaveVoice, LeavePending, Sessions, PendingXorWorker
<1>10. /\ ~ HasPending(g)' /\ ~ HasWorker(g)'
       /\ \A h \in Guilds \ {g} : pending'[h] = pending[h]
  BY <1>9 DEF HasPending, HasWorker, NoPending, Typed, MapsTyped
<1>11. /\ requested'[g] \in {requested[g], NoChannel}
       /\ ok => requested'[g] = NoChannel
       /\ \A h \in Guilds \ {g} : requested'[h] = requested[h]
  BY <1>6 DEF Typed, MapsTyped
<1>12. /\ SessionSeen[g].at = "joining"
       /\ SessionSeen'[g] = Promise!NoSession
  BY <1>4, <1>10, SeenAt, SeenGuildNext
<1>13. Promise!CallStep(c)
  <2>1. Promise!Refusal(c, a)
    BY <1>1, <1>2, <1>7, <1>11, <1>12
       DEF Promise!Refusal, Promise!Now, Promise!Then
  <2>2. a \in Answers
    BY <1>7 DEF Answers
  <2> QED BY <1>2, <1>8, <2>1, <2>2, SeenAnswered
<1>14. Promise!CallStep(b)
  <2>1. Promise!Interrupted(g)
    <3>1. CallSeen'[c].answer = a /\ a # "none"
      BY <1>2, <1>7, <1>8, SeenTold DEF Answers
    <3>2. CallSeen[c].kind = "leave" /\ CallSeen[c].guild = g /\ CallSeen[c].answer = "none"
      BY <1>1, <1>2 DEF Waiting
    <3> QED BY <3>1, <3>2 DEF Promise!Interrupted
  <2>2. Promise!Outcome(b, "Cancelled")
    BY <1>3, <1>4, <1>10, <2>1, PendingGivesUp
  <2> QED BY <1>4, <1>5, <1>8, <2>2, SeenAnswered DEF Answers
<1>15. ASSUME NEW d \in Calls PROVE Promise!CallStep(d)
  BY <1>2, <1>8, <1>13, <1>14
<1>16. Promise!End(g)
  BY <1>3, <1>4, <1>8, <1>9, <1>10, <1>11, GuildGivesUp
<1>17. ASSUME NEW h \in Guilds \ {g} PROVE Promise!Stay(h)
  BY <1>9, <1>10, <1>11, GuildStays DEF SameTask
<1>18. ASSUME NEW d \in Calls PROVE Promise!LinkStep(d)
  BY <1>9, LinksStay DEF SameTask
<1> QED BY <1>15, <1>16, <1>17, <1>18 DEF Promised

(* The session ends when the leave is accepted, before anything is sent. *)
LEMMA LeaveVoiceRefines ==
  ASSUME Typed, Typed', Sessions, Sessions', Supervised, Held, Asked, Told, Told',
         NEW c \in Calls, LeaveVoice(c)
  PROVE  Promised
<1>1. PICK g \in Guilds : g = call[c].guild
  BY TakenSeen DEF LeaveVoice
<1>2. /\ Receive(c, "leave") /\ UNCHANGED worker
      /\ call[c].kind = "leave" /\ CallSeen[c] = call[c] /\ Waiting(c)
  BY TakenSeen DEF LeaveVoice
<1>3. CASE LeaveNothing(c, g)
  <2>1. /\ UNCHANGED << pending, workers, requested >>
        /\ ~ HasPending(g) /\ ~ HasWorker(g) /\ Answer(c, "NotConnected")
    BY <1>3 DEF LeaveNothing
  <2>2. SessionSeen[g] = Promise!NoSession
    BY <2>1, SeenGuild
  <2>3. Promise!Refusal(c, "NotConnected")
    BY <1>1, <1>2, <2>2 DEF Promise!Refusal, Promise!Now
  <2> QED BY <1>2, <2>1, <2>3, RefusedRefines DEF Answers
<1>4. CASE LeaveWorker(c, g)
  <2>1. /\ UNCHANGED << call, pending, requested >>
        /\ workers' = [workers EXCEPT ![g] = NoHandle]
        /\ ~ HasPending(g) /\ HasWorker(g)
    BY <1>4 DEF LeaveWorker
  <2>2. /\ ~ HasPending(g)' /\ ~ HasWorker(g)'
        /\ \A h \in Guilds \ {g} : workers'[h] = workers[h]
    BY <2>1 DEF HasPending, HasWorker, NoHandle, Typed, MapsTyped
  <2>3. /\ SessionSeen[g].at = "connected"
        /\ SessionSeen'[g] = Promise!NoSession
    BY <2>1, <2>2, SeenAt, SeenGuildNext
  <2>4. Promise!MayAccept(c)
    BY <1>1, <1>2, <2>3 DEF Promise!MayAccept, Promise!Now, Promise!Then
  <2>5. /\ CallSeen'[c].answer = "accepted"
        /\ \A d \in Calls : Promise!CallStep(d)
    BY <1>2, <2>1, <2>4, AcceptedRefines
  <2>6. Promise!End(g)
    BY <1>2, <2>1, <2>2, GuildParts
  <2>7. ASSUME NEW h \in Guilds \ {g} PROVE Promise!Stay(h)
    BY <1>2, <2>1, <2>2, GuildStays DEF SameTask
  <2>8. Promise!Interrupted(g)
    BY <1>1, <1>2, <2>5 DEF Promise!Interrupted, Waiting
  <2>9. ASSUME NEW d \in Calls PROVE Promise!LinkStep(d)
    BY <1>2, <2>2, <2>8, UnlistLinks
  <2> QED BY <2>5, <2>6, <2>7, <2>9 DEF Promised
<1> QED BY <1>1, <1>3, <1>4, LeavePendingRefines DEF LeaveVoice

LEMMA RoutePlaybackRefines ==
  ASSUME Typed, Sessions, Held, NEW c \in Calls, RoutePlayback(c)
  PROVE  Promised
<1>1. PICK g \in Guilds : g = call[c].guild
  BY TakenSeen DEF RoutePlayback
<1>2. /\ Receive(c, "playback")
      /\ UNCHANGED << pending, workers, requested, worker >>
      /\ call[c].kind = "playback" /\ CallSeen[c] = call[c]
  BY TakenSeen DEF RoutePlayback
<1>3. CASE ~ HasWorker(g) /\ Answer(c, "NotConnected")
  <2>1. SessionSeen[g].at # "connected"
    <3>1. SessionSeen[g].at \in {"joining", "absent"}
      BY <1>3, SeenAt
    <3> QED BY <3>1
  <2>2. Promise!Refusal(c, "NotConnected")
    BY <1>1, <1>2, <2>1 DEF Promise!Refusal, Promise!Now
  <2> QED BY <1>2, <1>3, <2>2, RefusedRefines DEF Answers
<1>4. CASE /\ HasWorker(g) /\ workers[g].channel # call[c].channel
           /\ Answer(c, "WrongVoiceChannel")
  <2>1. /\ SessionSeen[g].at = "connected"
        /\ SessionSeen[g].channel # call[c].channel
    BY <1>4, SeenAt
  <2>2. Promise!Refusal(c, "WrongVoiceChannel")
    BY <1>1, <1>2, <2>1 DEF Promise!Refusal, Promise!Now
  <2> QED BY <1>2, <1>4, <2>2, RefusedRefines DEF Answers
<1>5. CASE HasWorker(g) /\ workers[g].channel = call[c].channel /\ UNCHANGED call
  <2>1. /\ SessionSeen[g].at = "connected"
        /\ SessionSeen[g].channel = call[c].channel
    BY <1>5, SeenAt
  <2>2. Promise!MayAccept(c)
    BY <1>1, <1>2, <2>1 DEF Promise!MayAccept, Promise!Now
  <2>3. \A d \in Calls : Promise!CallStep(d)
    BY <1>2, <1>5, <2>2, AcceptedRefines
  <2>4. ASSUME NEW h \in Guilds PROVE Promise!Stay(h)
    BY <1>2, GuildStays DEF SameTask
  <2>5. ASSUME NEW d \in Calls PROVE Promise!LinkStep(d)
    BY <1>2, LinksStay DEF SameTask
  <2> QED BY <2>3, <2>4, <2>5 DEF Promised
<1> QED BY <1>1, <1>3, <1>4, <1>5 DEF RoutePlayback, HasWorker

(* A response that the loop held fails when its worker has ended. *)
LEMMA DeliverRefines ==
  ASSUME Typed, Sessions, Held, Asked, Told, Deliver
  PROVE  Promised
<1>1. ASSUME gw.at \in {"route", "leave"}
      PROVE  /\ gw.for \in Calls /\ Waiting(gw.for) /\ ~ InControl(gw.for)
             /\ call[gw.for] \in Request
  <2>1. gw.for \in Issued /\ gw.for \in Calls
    BY <1>1 DEF Typed, LoopTyped, Issued
  <2>2. HeldRight(gw.for) /\ InLoop(gw.for)
    BY <2>1 DEF Held, InLoop
  <2>3. Waiting(gw.for) /\ HeldBy(gw.for, FALSE, TRUE, {}, {}, {})
    BY <2>1, <2>2, HolderOnly
  <2> QED BY <2>1, <2>3, IssuedRequest DEF HeldBy, Issued, Typed
<1>2. /\ UNCHANGED << control, pending, workers >>
      /\ \A i \in Ids : SameTask(i) /\ worker'[i].at = worker[i].at
  BY DeliverKeeps DEF Deliver, DeliverPlayback, DeliverLeave, DeliverShutdown
<1>3. CASE DeliverPlayback
  <2>1. CASE UNCHANGED call
    BY <1>2, <1>3, <2>1, UnseenRefines DEF DeliverPlayback
  <2>2. CASE worker[gw.to].at = "ended" /\ Answer(gw.for, "Failed")
    <3>1. PICK c \in Calls : c = gw.for
      BY <1>1, <1>3 DEF DeliverPlayback
    <3>2. /\ call'[c] = [call[c] EXCEPT !.answer = "Failed"]
          /\ \A d \in Calls \ {c} : call'[d] = call[d]
      BY <2>2, <3>1 DEF Answer, AnswerAll
    <3>3. Promise!Outcome(c, "Failed")
      <4>1. PICK id \in Ids : id = gw.to
        BY <1>3 DEF DeliverPlayback, Typed, LoopTyped
      <4>2. Started(id) /\ Link(id) = "ended"
        BY <2>2, <4>1 DEF Started, Link
      <4>3. PICK d \in Calls : d = worker[id].caller
        BY <4>2, LinkIs
      <4>4. LinkSeen[d] = "ended"
        BY <4>2, <4>3, LinkIs
      <4>5. /\ Asks(d, "join", worker[id].guild, worker[id].channel)
            /\ Asks(c, "playback", worker[id].guild, worker[id].channel)
        BY <1>3, <3>1, <4>1, <4>2, <4>3 DEF DeliverPlayback, Asked
      <4>6. CallSeen[c].kind = "playback" /\ Promise!SameVoice(c, d)
        BY <4>5, SeenFields DEF Asks, Promise!SameVoice
      <4> QED BY <4>4, <4>6 DEF Promise!Outcome, Promise!PlaybackOutcome
    <3>4. Promise!CallStep(c)
      BY <1>1, <1>3, <3>1, <3>2, <3>3, SeenFailed DEF DeliverPlayback
    <3>5. ASSUME NEW d \in Calls PROVE Promise!CallStep(d)
      BY <1>2, <3>2, <3>4, SeenKept DEF InControl
    <3>6. ASSUME NEW h \in Guilds PROVE Promise!Stay(h)
      BY <1>2, <1>3, GuildStays DEF DeliverPlayback
    <3>7. ASSUME NEW d \in Calls PROVE Promise!LinkStep(d)
      BY <1>2, LinksStay
    <3> QED BY <3>5, <3>6, <3>7 DEF Promised
  <2> QED BY <1>3, <2>1, <2>2 DEF DeliverPlayback, Answer
<1>4. CASE DeliverLeave
  <2>1. PICK c \in Calls : c = gw.for
    BY <1>1, <1>4 DEF DeliverLeave
  <2>2. /\ Waiting(c) /\ ~ InControl(c) /\ call[c] \in Request
        /\ call[c].kind = "leave" /\ call[c].guild \in Guilds
    BY <1>1, <1>4, <2>1 DEF DeliverLeave, Asked, Request
  <2>3. PICK g \in Guilds : g = call[c].guild
    BY <2>2
  <2>4. PICK ok \in BOOLEAN :
          /\ requested' = IF ok THEN [requested EXCEPT ![g] = NoChannel]
                                ELSE requested
          /\ Answer(c, IF ok THEN "Left" ELSE "Failed")
    BY <1>4, <2>1, <2>3, BoundAssumption DEF DeliverLeave
  <2>5. PICK a : a = IF ok THEN "Left" ELSE "Failed"
    OBVIOUS
  <2>6. /\ call'[c] = [call[c] EXCEPT !.answer = a]
        /\ \A d \in Calls \ {c} : call'[d] = call[d]
    BY <2>4, <2>5 DEF Answer, AnswerAll
  <2>7. /\ requested'[g] \in {requested[g], NoChannel}
        /\ ok => requested'[g] = NoChannel
        /\ \A h \in Guilds \ {g} : requested'[h] = requested[h]
    BY <2>4 DEF Typed, MapsTyped
  <2>8. ~ HasPending(g) /\ ~ HasWorker(g)
    BY <1>4, <2>1, <2>3 DEF DeliverLeave, Sessions, Leaving
  <2>9. Promise!CallStep(c)
    <3>1. /\ CallSeen[c].kind = "leave" /\ CallSeen[c].guild = g
          /\ SessionSeen[g] = Promise!NoSession
      BY <2>2, <2>3, <2>8, SeenWaiting, SeenGuild
    <3>2. Promise!Outcome(c, a)
      BY <2>5, <2>7, <3>1
         DEF Promise!Outcome, Promise!LeaveOutcome, Promise!Now
    <3>3. a \in Answers
      BY <2>5 DEF Answers
    <3> QED BY <2>2, <2>6, <3>2, <3>3, SeenAnswered
  <2>10. ASSUME NEW d \in Calls PROVE Promise!CallStep(d)
    BY <1>2, <2>6, <2>9, SeenKept DEF InControl
  <2>11. Promise!Stay(g)
    BY <1>2, <2>7, <2>8, GuildQuiet
  <2>12. ASSUME NEW h \in Guilds \ {g} PROVE Promise!Stay(h)
    BY <1>2, <2>7, GuildStays
  <2>13. ASSUME NEW d \in Calls PROVE Promise!LinkStep(d)
    BY <1>2, LinksStay
  <2> QED BY <2>10, <2>11, <2>12, <2>13 DEF Promised
<1>5. CASE DeliverShutdown
  BY <1>2, <1>5, UnseenRefines DEF DeliverShutdown
<1> QED BY <1>3, <1>4, <1>5 DEF Deliver

(* A pending join fails: a timeout, or a server that went away. *)
LEMMA JoinFailsRefines ==
  ASSUME Typed, Sessions, Sessions', Held, Asked, Told,
         NEW g \in Guilds, HasPending(g),
         Answer(pending[g].caller, "Failed"), Disconnect(g),
         pending' = [pending EXCEPT ![g] = NoPending],
         UNCHANGED << control, workers, worker >>
  PROVE  Promised
<1>1. PICK d \in Calls : d = pending[g].caller
  BY PendingSeen
<1>2. /\ Waiting(d) /\ call[d] \in Request /\ ~ InControl(d)
  BY <1>1, PendingSeen
<1>3. /\ call'[d] = [call[d] EXCEPT !.answer = "Failed"]
      /\ \A e \in Calls \ {d} : call'[e] = call[e]
  BY <1>1 DEF Answer, AnswerAll
<1>4. /\ ~ HasPending(g)' /\ ~ HasWorker(g)'
      /\ \A h \in Guilds \ {g} : pending'[h] = pending[h]
  BY DEF HasPending, HasWorker, NoPending, Typed, MapsTyped, Sessions,
         PendingXorWorker
<1>5. Promise!CallStep(d)
  <2>1. Promise!Outcome(d, "Failed")
    BY <1>1, <1>4, PendingGivesUp
  <2> QED BY <1>2, <1>3, <2>1, SeenFailed
<1>6. ASSUME NEW e \in Calls PROVE Promise!CallStep(e)
  BY <1>3, <1>5, SeenKept DEF InControl
<1>7. requested'[g] \in {requested[g], NoChannel}
  BY DisconnectSeen
<1>8. Promise!End(g)
  BY <1>1, <1>2, <1>3, <1>4, <1>7, GuildGivesUp
<1>9. ASSUME NEW h \in Guilds \ {g} PROVE Promise!Stay(h)
  BY <1>4, DisconnectOther, GuildStays DEF SameTask
<1>10. ASSUME NEW e \in Calls PROVE Promise!LinkStep(e)
  BY LinksStay DEF SameTask
<1> QED BY <1>6, <1>8, <1>9, <1>10 DEF Promised

(* The session connects: from now on there is a link to be made. *)
LEMMA StartWorkerRefines ==
  ASSUME Typed, Typed', Sessions, Sessions', Supervised, Held, Asked, Told, Told',
         NEW g \in Guilds, StartWorker(g)
  PROVE  Promised
<1>1. PICK n \in Ids : n = nextId + 1
  BY BoundAssumption DEF StartWorker, Typed, MapsTyped, Ids
<1>2. PICK task : task = NewTask(g, pending[g])
  OBVIOUS
<1>3. /\ pending' = [pending EXCEPT ![g] = NoPending]
      /\ workers' = [workers EXCEPT ![g] = [id |-> n, channel |-> pending[g].channel]]
      /\ worker' = [worker EXCEPT ![n] = task]
      /\ UNCHANGED << call, control, requested >> /\ HasPending(g)
  BY <1>1, <1>2 DEF StartWorker
<1>4. PICK d \in Calls : d = pending[g].caller
  BY <1>3, PendingSeen
<1>5. /\ worker'[n] = task /\ \A i \in Ids \ {n} : worker'[i] = worker[i]
      /\ task.at = "connecting" /\ task.guild = g /\ task.caller = d
      /\ worker[n] = NoTask
  <2>1. worker[n] = NoTask
    <3>1. n > nextId
      BY <1>1 DEF Typed, MapsTyped
    <3> QED BY <3>1 DEF Supervised, Unused
  <2>2. worker'[n] = task /\ \A i \in Ids \ {n} : worker'[i] = worker[i]
    BY <1>3 DEF Typed, TasksTyped
  <2>3. task.at = "connecting" /\ task.guild = g /\ task.caller = d
    BY <1>2, <1>4 DEF NewTask
  <2> QED BY <2>1, <2>2, <2>3
<1>6. /\ ~ HasPending(g)' /\ HasWorker(g)' /\ workers'[g].channel = pending[g].channel
      /\ workers'[g].id = n /\ ~ HasWorker(g)
      /\ \A h \in Guilds \ {g} : /\ pending'[h] = pending[h]
                                 /\ workers'[h] = workers[h]
  BY <1>3 DEF HasPending, HasWorker, NoPending, Typed, MapsTyped, Ids, Sessions,
              PendingXorWorker
<1>7. /\ SessionSeen[g] = [at |-> "joining", channel |-> pending[g].channel,
                           by |-> d]
      /\ SessionSeen'[g] = [at |-> "connected", channel |-> pending[g].channel,
                            by |-> d]
  <2>1. SessionSeen[g] = [at |-> "joining", channel |-> pending[g].channel,
                          by |-> d]
    BY <1>3, <1>4, SeenGuild
  <2>2. SessionSeen'[g] = [at |-> "connected", channel |-> workers'[g].channel,
                           by |-> worker'[workers'[g].id].caller]
    BY <1>6, SeenGuildNext
  <2>3. worker'[workers'[g].id].caller = d
    BY <1>5, <1>6
  <2> QED BY <1>6, <2>1, <2>2, <2>3
<1>8. LinkSeen'[d] = "connecting"
  <2>1. Started(n)' /\ Link(n)' = "connecting"
    BY <1>5, <1>6 DEF Started, Link
  <2> QED BY <1>5, <2>1, LinkIsNext
<1>9. Promise!Connect(g)
  BY <1>3, <1>7, <1>8 DEF Promise!Connect
<1>10. ASSUME NEW h \in Guilds \ {g} PROVE Promise!Stay(h)
  <2>1. SessionSeen'[h] = SessionSeen[h]
    <3>1. HasWorker(h) => worker'[workers[h].id] = worker[workers[h].id]
      BY <1>5, HandleTyped DEF Typed, NamesStarted, Started, NoTask
    <3> QED BY <1>6, <3>1 DEF SessionSeen, HasPending, HasWorker
  <2> QED BY <1>3, <2>1 DEF Promise!Stay, Promise!MayDisconnect
<1>11. ASSUME NEW c \in Calls PROVE Promise!CallStep(c)
  BY <1>3, SeenKept DEF InControl
<1>12. Promise!LinkStep(d)
  <2>1. LinkSeen[d] = "none"
    BY <1>3, <1>4, JoinUnstarted, LinkNone
  <2>2. CallSeen[d].guild = g /\ CallSeen[d].channel = pending[g].channel
    BY <1>3, <1>4, PendingSeen
  <2>3. SessionSeen[g] = Promise!Joining(d) /\ SessionSeen'[g] = Promise!Connected(d)
    BY <1>7, <2>2 DEF Promise!Joining, Promise!Connected
  <2> QED
    BY <1>8, <2>1, <2>2, <2>3 DEF Promise!LinkStep, Promise!Now, Promise!Then
<1>13. ASSUME NEW c \in Calls \ {d} PROVE Promise!LinkStep(c)
  <2>1. n \notin Got(c) /\ Got(c)' = Got(c)
    BY <1>5, DistinctAssumption DEF Got, NoTask
  <2>2. ASSUME NEW id \in Got(c) PROVE Link(id)' = Link(id)
    <3>1. id \in Ids /\ id # 0 /\ id # n /\ worker'[id] = worker[id]
      BY <1>5, <2>1 DEF Got, Ids
    <3>2. Started(id)
      BY <3>1, DistinctAssumption DEF Got, Started, Typed, TasksTyped, NoTask, IssuedTask
    <3>3. PICK h \in Guilds : h = worker[id].guild
      BY <3>1, <3>2, StartedTask DEF IssuedTask
    <3>4. (workers'[h].id = id) <=> (workers[h].id = id)
      BY <1>6, <3>1 DEF HasWorker
    <3> QED BY <3>1, <3>3, <3>4 DEF Link
  <2> QED BY <2>1, <2>2, LinkKept
<1> QED BY <1>9, <1>10, <1>11, <1>12, <1>13 DEF Promised

LEMMA DispatchRefines ==
  ASSUME Typed, Typed', Sessions, Sessions', Supervised, Held, Asked, Told, Told',
         Dispatch
  PROVE  Promised
<1>1. ASSUME NEW g \in Guilds, ServerUnavailable(g) PROVE Promised
  BY <1>1, JoinFailsRefines DEF ServerUnavailable
<1>2. CASE Ready
  BY <1>2, QuietRefines DEF Ready
<1> QED BY <1>1, <1>2, StartWorkerRefines DEF Dispatch

(* The end of the session's own worker ends it; any other event is unseen. *)
LEMMA HandleEventRefines ==
  ASSUME Typed, Typed', Sessions, Sessions', Supervised, Held, Asked, Told, Told',
         HandleEvent
  PROVE  Promised
<1>1. PICK g \in Guilds : g = Head(events).guild
  BY ReceivedEvent DEF HandleEvent, JoinTimedOut, Stopped, Event
<1>2. PICK id \in Ids : id = Head(events).id
  BY ReceivedEvent DEF HandleEvent, JoinTimedOut, Stopped, Event
<1>3. CASE JoinTimedOut
  <2>1. UNCHANGED << control, workers, worker >> /\ id # 0
    BY <1>3 DEF JoinTimedOut, Ids
  <2>2. CASE pending[g].id = id
    <3>1. /\ HasPending(g) /\ Answer(pending[g].caller, "Failed")
          /\ Disconnect(g) /\ pending' = [pending EXCEPT ![g] = NoPending]
      BY <1>1, <1>2, <1>3, <2>1, <2>2 DEF JoinTimedOut, HasPending
    <3> QED BY <2>1, <3>1, JoinFailsRefines
  <2>3. CASE pending[g].id # id
    <3>1. UNCHANGED << call, pending, requested >>
      BY <1>1, <1>2, <1>3, <2>3 DEF JoinTimedOut
    <3> QED BY <2>1, <3>1, QuietRefines
  <2> QED BY <2>2, <2>3
<1>4. CASE Stopped
  <2>1. UNCHANGED << call, control, pending, worker >> /\ id # 0
    BY <1>4 DEF Stopped, Ids
  <2>2. CASE workers[g].id = id
    <3>1. /\ HasWorker(g) /\ workers' = [workers EXCEPT ![g] = NoHandle]
          /\ Disconnect(g) \/ UNCHANGED requested
      BY <1>1, <1>2, <1>4, <2>1, <2>2 DEF Stopped, HasWorker
    <3>2. /\ ~ HasWorker(g)' /\ ~ HasPending(g)'
          /\ \A h \in Guilds \ {g} : workers'[h] = workers[h]
      BY <2>1, <3>1 DEF HasWorker, HasPending, NoHandle, Typed, MapsTyped,
                        Sessions, PendingXorWorker
    <3>3. requested'[g] \in {requested[g], NoChannel}
      BY <3>1, DisconnectSeen
    <3>4. Promise!End(g)
      BY <2>1, <3>1, <3>2, <3>3, GuildParts
    <3>5. ASSUME NEW h \in Guilds \ {g} PROVE Promise!Stay(h)
      BY <2>1, <3>1, <3>2, DisconnectOther, GuildStays DEF SameTask
    <3>6. ASSUME NEW c \in Calls PROVE Promise!CallStep(c)
      BY <2>1, SeenKept DEF InControl
    <3>7. ASSUME NEW c \in Calls PROVE Promise!LinkStep(c)
      <4>1. worker[workers[g].id].at = "ended"
        <5>1. Head(events) \in Stops(ToSet(events))
          BY <1>4, ReceivedEvent DEF Stopped, Stops
        <5> QED BY <1>2, <2>2, <5>1 DEF Supervised, StoppedHasEnded
      <4> QED BY <2>1, <3>2, <4>1, UnlistLinks
    <3> QED BY <3>4, <3>5, <3>6, <3>7 DEF Promised
  <2>3. CASE workers[g].id # id
    <3>1. UNCHANGED << workers, requested >>
      BY <1>1, <1>2, <1>4, <2>3 DEF Stopped
    <3> QED BY <2>1, <3>1, QuietRefines
  <2> QED BY <2>2, <2>3
<1> QED BY <1>3, <1>4 DEF HandleEvent

(* Requests that a worker holds. *)
LEMMA WorkerSeen ==
  ASSUME Typed, Held, Asked, NEW id \in Ids, Started(id), NEW d \in Calls,
         NEW b \in Calls, b = worker[id].caller,
         \/ d \in ToSet(worker[id].mailbox)
         \/ worker[id].at = "connecting" /\ b = d
  PROVE  /\ Waiting(d) /\ ~ InControl(d) /\ call[d] \in Request
         /\ d \in ToSet(worker[id].mailbox) =>
              CallSeen[d].kind = "playback" /\ Promise!SameVoice(d, b)
<1>1. HeldRight(d) /\ (id \in Boxes(d) \/ id \in Tasks(d))
  BY DEF Held, Boxes, Tasks
<1>2. Waiting(d) /\ ~ InControl(d)
  BY <1>1, HolderOnly DEF HeldBy
<1>3. call[d] \in Request
  BY <1>2, IssuedRequest DEF Waiting, Typed
<1>4. /\ Asks(b, "join", worker[id].guild, worker[id].channel)
      /\ d \in ToSet(worker[id].mailbox) =>
           Asks(d, "playback", worker[id].guild, worker[id].channel)
  BY DEF Asked
<1> QED BY <1>2, <1>3, <1>4, SeenFields DEF Asks, Promise!SameVoice

(* The link that a step of worker id moves is that of its own join. *)
LEMMA WorkerLinks ==
  ASSUME Typed, Typed', Told, Told', NEW id \in Ids, NEW b, b = worker[id].caller,
         Started(id), Started(id)', SameTask(id), UNCHANGED workers,
         \A i \in Ids \ {id} : worker'[i] = worker[i]
  PROVE  /\ b \in Calls /\ LinkSeen[b] = Link(id) /\ LinkSeen'[b] = Link(id)'
         /\ \A c \in Calls \ {b} : Promise!LinkStep(c)
<1>1. b \in Calls /\ LinkSeen[b] = Link(id)
  BY LinkIs
<1>2. LinkSeen'[b] = Link(id)'
  BY LinkIsNext DEF SameTask
<1>3. ASSUME NEW c \in Calls \ {b} PROVE Promise!LinkStep(c)
  <2>1. id \notin Got(c) /\ Got(c)' = Got(c)
    BY DEF Got, SameTask
  <2>2. \A i \in Got(c) : Link(i)' = Link(i)
    BY <2>1 DEF Got, Link
  <2> QED BY <2>1, <2>2, LinkKept
<1> QED BY <1>1, <1>2, <1>3

(* Steps that tell accepted requests their outcome, and move no session. *)
LEMMA ToldRefines ==
  ASSUME Typed, UNCHANGED << control, pending, workers, requested >>,
         \A id \in Ids : SameTask(id), \A d \in Calls : Promise!LinkStep(d),
         \A d \in Calls :
           \/ call'[d] = call[d]
           \/ /\ Waiting(d) /\ ~ InControl(d) /\ call[d] \in Request
              /\ \E a \in Answers : /\ call'[d] = [call[d] EXCEPT !.answer = a]
                                    /\ Promise!Outcome(d, a)
  PROVE  Promised
<1>1. ASSUME NEW d \in Calls PROVE Promise!CallStep(d)
  BY SeenKept, SeenAnswered DEF InControl
<1>2. ASSUME NEW h \in Guilds PROVE Promise!Stay(h)
  BY GuildStays
<1> QED BY <1>1, <1>2 DEF Promised

(* How far a step of a worker gets it. *)
LEMMA WorkerAt ==
  ASSUME Typed, NEW id \in Ids, NEW m, m = Head(worker[id].mailbox)
  PROVE  /\ Connected(id) =>
              worker[id].at = "connecting" /\ worker'[id].at = "running"
         /\ ConnectFails(id) \/ ConnectAborted(id) =>
              worker[id].at = "connecting" /\ worker'[id].at = "stopping"
         /\ HandleShutdown(id) \/ SessionEnds(id) =>
              worker[id].at = "running" /\ worker'[id].at = "stopping"
         /\ HandlePlayback(id) =>
              /\ worker[id].at = "running"
              /\ \/ worker'[id].at = "running" /\ Answer(m, "Handled")
                 \/ worker'[id].at = "stopping" /\ Answer(m, "Dropped")
         /\ SendStopped(id) =>
              worker[id].at = "stopping" /\ worker'[id].at = "ended"
<1>1. Started(id) => worker[id] \in IssuedTask
  BY StartedTask
<1>2. ASSUME NEW task, worker' = [worker EXCEPT ![id] = task]
      PROVE  worker'[id] = task
  BY <1>2 DEF Typed, TasksTyped
<1>3. ASSUME Connected(id)
      PROVE  worker[id].at = "connecting" /\ worker'[id].at = "running"
  BY <1>1, <1>3 DEF Connected, WorkerStep, Started, IssuedTask, Typed, TasksTyped
<1>4. ASSUME NEW reason, worker[id] \in IssuedTask
      PROVE  /\ Stopping(id, reason).at = "stopping"
             /\ "mailbox" \in DOMAIN Stopping(id, reason)
  BY <1>4 DEF Stopping, IssuedTask
<1>5. ASSUME NEW reason, worker[id] \in IssuedTask,
             worker' = [worker EXCEPT ![id] = Stopping(id, reason)]
      PROVE  worker'[id].at = "stopping"
  BY <1>2, <1>4, <1>5
<1>6. ASSUME NEW reason, worker[id] \in IssuedTask,
             worker' = [worker EXCEPT ![id] =
               [Stopping(id, reason) EXCEPT !.mailbox = Tail(@)]]
      PROVE  worker'[id].at = "stopping"
  <2>1. PICK ending : ending = Stopping(id, reason)
    OBVIOUS
  <2>2. ending.at = "stopping" /\ "mailbox" \in DOMAIN ending
    BY <1>4, <1>6, <2>1
  <2>3. PICK rest : rest = Tail(ending.mailbox)
    OBVIOUS
  <2>4. worker'[id] = [ending EXCEPT !.mailbox = rest]
    BY <1>2, <1>6, <2>1, <2>3
  <2> QED BY <2>2, <2>4
<1>7. ASSUME ConnectFails(id) \/ ConnectAborted(id)
      PROVE  worker[id].at = "connecting" /\ worker'[id].at = "stopping"
  <2>1. worker[id].at = "connecting" /\ worker[id] \in IssuedTask
    BY <1>1, <1>7 DEF ConnectFails, ConnectAborted, Started
  <2> QED BY <1>5, <1>6, <1>7, <2>1 DEF ConnectFails, ConnectAborted, WorkerStep
<1>8. ASSUME HandleShutdown(id) \/ SessionEnds(id)
      PROVE  worker[id].at = "running" /\ worker'[id].at = "stopping"
  <2>1. worker[id].at = "running" /\ worker[id] \in IssuedTask
    BY <1>1, <1>8 DEF HandleShutdown, SessionEnds, Started
  <2> QED BY <1>5, <1>6, <1>8, <2>1 DEF HandleShutdown, SessionEnds, WorkerStep
<1>9. ASSUME HandlePlayback(id)
      PROVE  /\ worker[id].at = "running"
             /\ \/ worker'[id].at = "running" /\ Answer(m, "Handled")
                \/ worker'[id].at = "stopping" /\ Answer(m, "Dropped")
  <2>1. worker[id].at = "running" /\ worker[id] \in IssuedTask
    BY <1>1, <1>9 DEF HandlePlayback, Started
  <2>2. PICK rest : rest = Tail(worker[id].mailbox)
    OBVIOUS
  <2>3. PICK handled : handled = [worker[id] EXCEPT !.mailbox = rest]
    OBVIOUS
  <2>4. /\ handled.at = "running" /\ {"at", "reason"} \subseteq DOMAIN handled
        /\ handled = [worker[id] EXCEPT !.mailbox = Tail(@)]
    BY <2>1, <2>2, <2>3 DEF IssuedTask
  <2>5. PICK t : t = [handled EXCEPT !.at = "stopping", !.reason = "VoiceFailed"]
    OBVIOUS
  <2>6. t.at = "stopping"
    BY <2>4, <2>5
  <2>7. \/ worker' = [worker EXCEPT ![id] = handled] /\ Answer(m, "Handled")
        \/ worker' = [worker EXCEPT ![id] = t] /\ Answer(m, "Dropped")
    BY <1>9, <2>4, <2>5 DEF HandlePlayback, WorkerStep
  <2> QED BY <1>2, <2>1, <2>4, <2>6, <2>7
<1>10. ASSUME SendStopped(id)
       PROVE  worker[id].at = "stopping" /\ worker'[id].at = "ended"
  BY <1>1, <1>10 DEF SendStopped, Started, IssuedTask, Typed, TasksTyped
<1> QED BY <1>3, <1>7, <1>8, <1>9, <1>10

LEMMA WorkerRefines ==
  ASSUME Typed, Typed', Sessions, Sessions', Supervised, Held, Parted, Asked,
         Told, Told', NEW id \in Ids,
         \/ Connected(id) \/ ConnectFails(id) \/ HandleCommand(id)
         \/ SessionEnds(id) \/ SendStopped(id)
  PROVE  Promised
<1>1. /\ worker[id] \in IssuedTask /\ Started(id)
      /\ \A i \in Ids \ {id} : worker'[i] = worker[i]
      /\ \A i \in Ids : SameTask(i)
  BY WorkerKeeps
<1>2. UNCHANGED << control, pending, workers, requested >>
  BY DEF Connected, ConnectFails, HandleCommand, SessionEnds, SendStopped,
         ConnectAborted, HandlePlayback, HandleShutdown, WorkerStep
<1>3. PICK m : m = Head(worker[id].mailbox)
  OBVIOUS
<1>4. worker[id].mailbox # << >> => m \in ToSet(worker[id].mailbox)
  BY <1>1, <1>3, TakeFirst DEF IssuedTask
<1>5. Started(id)'
  BY <1>3, WorkerAt DEF HandleCommand, Started
<1>6. PICK b \in Calls : b = worker[id].caller
  BY <1>1 DEF IssuedTask, Issued
<1>7. /\ LinkSeen[b] = Link(id) /\ LinkSeen'[b] = Link(id)'
      /\ \A c \in Calls \ {b} : Promise!LinkStep(c)
  BY <1>1, <1>2, <1>5, <1>6, WorkerLinks
<1>8. worker[id].at = "connecting" => LinkSeen[b] \in {"connecting", "overtaken"}
  BY <1>7 DEF Link
<1>9. PICK g \in Guilds : g = worker[id].guild
  BY <1>1 DEF IssuedTask
<1>10. /\ Asks(b, "join", g, worker[id].channel) /\ CallSeen[b].kind = "join"
       /\ CallSeen[b].guild = g /\ CallSeen[b].channel = worker[id].channel
  BY <1>1, <1>6, <1>9, SeenFields DEF Asked, Asks
<1>11. ASSUME worker[id].at = "connecting"
       PROVE  Waiting(b) /\ ~ InControl(b) /\ call[b] \in Request
  BY <1>1, <1>6, <1>11, WorkerSeen
<1>12. ASSUME NEW d \in Calls, d \in ToSet(worker[id].mailbox)
       PROVE  /\ Waiting(d) /\ ~ InControl(d) /\ call[d] \in Request
              /\ CallSeen[d].kind = "playback" /\ Promise!SameVoice(d, b)
  BY <1>1, <1>6, <1>12, WorkerSeen
<1>13. ASSUME worker'[id].at \in {"stopping", "ended"}, worker'[id].at # worker[id].at
       PROVE  /\ LinkSeen'[b] \in {"closing", "ended"} /\ LinkSeen'[b] # LinkSeen[b]
              /\ worker'[id].at = "stopping" => LinkSeen'[b] = "closing"
              /\ worker'[id].at = "ended" => LinkSeen'[b] = "ended"
  <2>1. /\ worker'[id].at = "stopping" => Link(id)' = "closing"
        /\ worker'[id].at = "ended" => Link(id)' = "ended"
        /\ worker[id].at # "stopping" => Link(id) # "closing"
        /\ worker[id].at \in {"connecting", "running", "stopping"} => Link(id) # "ended"
    BY DEF Link
  <2> QED BY <1>1, <1>7, <1>13, <2>1 DEF IssuedTask
<1>14. ASSUME worker'[id].at \in {"stopping", "ended"}, worker'[id].at # worker[id].at,
              NEW d \in Calls, d \in ToSet(worker[id].mailbox)
       PROVE  Promise!Outcome(d, "Dropped")
  <2>1. Promise!LinkLost(d)
    BY <1>6, <1>12, <1>13, <1>14 DEF Promise!LinkLost
  <2> QED BY <1>12, <1>14, <2>1 DEF Promise!Outcome, Promise!PlaybackOutcome
<1>15. CASE Connected(id)
  <2>1. /\ worker[id].at = "connecting" /\ worker'[id].at = "running"
        /\ Answer(b, "Joined")
    BY <1>3, <1>6, <1>15, WorkerAt DEF Connected
  <2>2. /\ call'[b] = [call[b] EXCEPT !.answer = "Joined"]
        /\ \A d \in Calls \ {b} : call'[d] = call[d]
    BY <2>1 DEF Answer, AnswerAll
  <2>3. LinkSeen'[b] = "connected"
    BY <1>7, <2>1 DEF Link
  <2>4. LinkSeen[b] = "connecting" => SessionSeen'[g] = Promise!Connected(b)
    <3>1. SUFFICES ASSUME LinkSeen[b] = "connecting"
                   PROVE  SessionSeen'[g] = Promise!Connected(b)
      OBVIOUS
    <3>2. workers[g].id = id /\ HasWorker(g)
      BY <1>7, <1>9, <2>1, <3>1 DEF Link, HasWorker, Ids
    <3>3. workers[g].channel = worker[id].channel
      BY <3>2 DEF Supervised, EntryHasWorker
    <3>4. SessionSeen'[g] = SessionSeen[g]
      BY <1>1, <1>2, GuildStays
    <3>5. SessionSeen[g] = [at |-> "connected", channel |-> worker[id].channel,
                            by |-> b]
      BY <1>6, <3>2, <3>3, SeenGuild
    <3> QED BY <1>10, <3>4, <3>5 DEF Promise!Connected
  <2>5. Promise!Outcome(b, "Joined")
    BY <1>8, <1>10, <2>1, <2>3, <2>4
       DEF Promise!Outcome, Promise!JoinOutcome, Promise!Then
  <2>6. Promise!LinkStep(b)
    <3>1. CallSeen'[b].answer = "Joined"
      BY <1>11, <2>1, <2>2, SeenTold DEF Answers
    <3> QED BY <1>8, <2>1, <2>3, <3>1 DEF Promise!LinkStep
  <2>7. \A d \in Calls : Promise!LinkStep(d)
    BY <1>7, <2>6
  <2> QED BY <1>1, <1>2, <1>11, <2>1, <2>2, <2>5, <2>7, ToldRefines DEF Answers
<1>16. CASE ConnectFails(id)
  <2>1. /\ worker[id].at = "connecting" /\ worker'[id].at = "stopping"
        /\ Answer(b, "Failed")
    BY <1>3, <1>6, <1>16, WorkerAt DEF ConnectFails
  <2>2. /\ call'[b] = [call[b] EXCEPT !.answer = "Failed"]
        /\ \A d \in Calls \ {b} : call'[d] = call[d]
    BY <2>1 DEF Answer, AnswerAll
  <2>3. Promise!LinkFails(b)
    BY <1>8, <1>13, <2>1 DEF Promise!LinkFails
  <2>4. Promise!Outcome(b, "Failed")
    BY <1>10, <2>3 DEF Promise!Outcome, Promise!JoinOutcome
  <2>5. Promise!LinkStep(b)
    <3>1. CallSeen'[b].answer = "Failed"
      BY <1>11, <2>1, <2>2, SeenTold DEF Answers
    <3> QED BY <2>3, <3>1 DEF Promise!LinkStep
  <2>6. \A d \in Calls : Promise!LinkStep(d)
    BY <1>7, <2>5
  <2> QED BY <1>1, <1>2, <1>11, <2>1, <2>2, <2>4, <2>6, ToldRefines DEF Answers
<1>17. CASE ConnectAborted(id)
  <2>1. /\ worker[id].at = "connecting" /\ worker'[id].at = "stopping"
        /\ m \in ToSet(worker[id].mailbox)
        /\ call' = [AnswerAll({m}, "Dropped") EXCEPT ![b].answer = "Cancelled"]
    BY <1>3, <1>4, <1>6, <1>17, WorkerAt DEF ConnectAborted
  <2>2. m # b
    <3>1. m \in Calls => CallSeen[m].kind = "playback"
      BY <1>12, <2>1
    <3> QED BY <1>10, <3>1
  <2>3. /\ call'[b] = [call[b] EXCEPT !.answer = "Cancelled"]
        /\ m \in Calls => call'[m] = [call[m] EXCEPT !.answer = "Dropped"]
        /\ \A d \in Calls \ {b, m} : call'[d] = call[d]
    BY <2>1, <2>2 DEF AnswerAll
  <2>4. Promise!LinkFails(b)
    BY <1>8, <1>13, <2>1 DEF Promise!LinkFails
  <2>5. LinkSeen[b] = "overtaken" \/ Promise!CutOff(b)
    <3>1. SUFFICES ASSUME LinkSeen[b] # "overtaken" PROVE Promise!CutOff(b)
      OBVIOUS
    <3>2. workers[g].id = id /\ HasWorker(g)
      BY <1>7, <1>9, <2>1, <3>1 DEF Link, HasWorker, Ids
    <3>3. m # Shutdown
      BY <2>1, <3>2 DEF Parted, Untold
    <3>4. m \in Calls
      <4>1. m \in Issued \union {Shutdown}
        BY <1>1, <1>3, <2>1, <1>17, TakeFirst DEF IssuedTask, ConnectAborted, ToSet
      <4> QED BY <3>3, <4>1 DEF Issued
    <3>5. /\ Waiting(m) /\ ~ InControl(m) /\ call[m] \in Request
          /\ CallSeen[m].kind = "playback" /\ Promise!SameVoice(m, b)
      BY <1>12, <2>1, <3>4
    <3>6. CallSeen[m].answer = "accepted"
      BY <3>4, <3>5, SeenWaiting
    <3>7. CallSeen'[m].answer = "Dropped"
      BY <2>3, <3>4, <3>5, SeenTold DEF Answers
    <3> QED BY <3>4, <3>5, <3>6, <3>7 DEF Promise!CutOff
  <2>6. Promise!Outcome(b, "Cancelled")
    BY <1>10, <2>4, <2>5 DEF Promise!Outcome, Promise!JoinOutcome
  <2>7. m \in Calls => /\ Waiting(m) /\ ~ InControl(m) /\ call[m] \in Request
                       /\ Promise!Outcome(m, "Dropped")
    BY <1>12, <1>14, <2>1
  <2>8. Promise!LinkStep(b)
    <3>1. CallSeen'[b].answer = "Cancelled"
      BY <1>11, <2>1, <2>3, SeenTold DEF Answers
    <3> QED BY <2>4, <3>1 DEF Promise!LinkStep
  <2>9. \A d \in Calls : Promise!LinkStep(d)
    BY <1>7, <2>8
  <2>10. "Cancelled" \in Answers /\ "Dropped" \in Answers
    BY DEF Answers
  <2> QED
    BY <1>1, <1>2, <1>11, <2>1, <2>3, <2>6, <2>7, <2>9, <2>10, ToldRefines
<1>18. CASE HandlePlayback(id)
  <2>1. /\ worker[id].at = "running" /\ LinkSeen[b] = "connected"
        /\ m \in ToSet(worker[id].mailbox)
        /\ \/ worker'[id].at = "running" /\ Answer(m, "Handled")
           \/ worker'[id].at = "stopping" /\ Answer(m, "Dropped")
    BY <1>3, <1>4, <1>7, <1>18, WorkerAt DEF HandlePlayback, Link
  <2>2. PICK a \in {"Handled", "Dropped"} :
          /\ Answer(m, a)
          /\ worker'[id].at = IF a = "Handled" THEN "running" ELSE "stopping"
    BY <2>1
  <2>3. /\ m \in Calls => call'[m] = [call[m] EXCEPT !.answer = a]
        /\ \A d \in Calls \ {m} : call'[d] = call[d]
    BY <2>2 DEF Answer, AnswerAll
  <2>4. m \in Calls => Promise!Outcome(m, a)
    <3>1. CASE a = "Handled"
      BY <1>6, <1>12, <2>1, <3>1 DEF Promise!Outcome, Promise!PlaybackOutcome
    <3>2. CASE a = "Dropped"
      BY <1>14, <2>1, <2>2, <3>2
    <3> QED BY <3>1, <3>2
  <2>5. Promise!LinkStep(b)
    <3>1. CASE a = "Handled"
      <4>1. LinkSeen'[b] = LinkSeen[b]
        BY <1>7, <2>1, <2>2, <3>1 DEF Link
      <4> QED BY <4>1 DEF Promise!LinkStep
    <3>2. CASE a = "Dropped"
      BY <1>13, <2>1, <2>2, <3>2 DEF Promise!LinkStep
    <3> QED BY <3>1, <3>2
  <2>6. \A d \in Calls : Promise!LinkStep(d)
    BY <1>7, <2>5
  <2>7. m \in Calls => Waiting(m) /\ ~ InControl(m) /\ call[m] \in Request
    BY <1>12, <2>1
  <2>8. a \in Answers
    BY DEF Answers
  <2> QED BY <1>1, <1>2, <2>3, <2>4, <2>6, <2>7, <2>8, ToldRefines
<1>19. CASE HandleShutdown(id) \/ SessionEnds(id)
  <2>1. /\ worker[id].at = "running" /\ worker'[id].at = "stopping"
        /\ UNCHANGED call
    BY <1>3, <1>19, WorkerAt DEF HandleShutdown, SessionEnds
  <2>2. Promise!LinkStep(b)
    BY <1>7, <1>13, <2>1 DEF Link, Promise!LinkStep
  <2>3. \A d \in Calls : Promise!LinkStep(d)
    BY <1>7, <2>2
  <2> QED BY <1>1, <1>2, <2>1, <2>3, ToldRefines
<1>20. CASE SendStopped(id)
  <2>1. PICK S : S = ToSet(worker[id].mailbox)
    OBVIOUS
  <2>2. /\ worker[id].at = "stopping" /\ worker'[id].at = "ended"
        /\ call' = AnswerAll(S, "Dropped")
    BY <1>3, <1>20, <2>1, WorkerAt DEF SendStopped
  <2>3. \A d \in Calls :
          /\ d \in S => call'[d] = [call[d] EXCEPT !.answer = "Dropped"]
          /\ d \notin S => call'[d] = call[d]
    BY <2>2 DEF AnswerAll
  <2>4. ASSUME NEW d \in Calls, d \in S
        PROVE  /\ Waiting(d) /\ ~ InControl(d) /\ call[d] \in Request
               /\ Promise!Outcome(d, "Dropped")
    BY <1>12, <1>14, <2>1, <2>2, <2>4
  <2>5. Promise!LinkStep(b)
    BY <1>7, <1>13, <2>2 DEF Link, Promise!LinkStep
  <2>6. \A d \in Calls : Promise!LinkStep(d)
    BY <1>7, <2>5
  <2>7. "Dropped" \in Answers
    BY DEF Answers
  <2> QED BY <1>1, <1>2, <2>3, <2>4, <2>6, <2>7, ToldRefines
<1> QED BY <1>15, <1>16, <1>17, <1>18, <1>19, <1>20 DEF HandleCommand

(* ctrl-c ends every session at once, and answers whom it finds waiting in *)
(* the control channel or for a join.                                      *)
LEMMA CtrlCRefines ==
  ASSUME Typed, Typed', Sessions, Sessions', Supervised, Held, Asked, Told, Told',
         CtrlC
  PROVE  Promised
<1>1. /\ control' = << >> /\ ToSet(<< >>) = {} /\ UNCHANGED worker
      /\ pending' = [g \in Guilds |-> NoPending]
      /\ workers' = [g \in Guilds |-> NoHandle]
  BY DEF CtrlC, ToSet
<1>2. call' = [c \in Calls |->
                 CASE c \in ToSet(control) -> [call[c] EXCEPT !.answer = "Failed"]
                   [] \E g \in Guilds : pending[g].caller = c ->
                        [call[c] EXCEPT !.answer = "Cancelled"]
                   [] OTHER -> call[c]]
  BY DEF CtrlC
<1>3. \A g \in Guilds : pending[g].caller \in Calls => HasPending(g)
  BY DistinctAssumption DEF HasPending, Typed, MapsTyped, IssuedJoin, NoPending, Ids
<1>4. ASSUME NEW g \in Guilds, HasPending(g), NEW d, d = pending[g].caller
      PROVE  call'[d] = [call[d] EXCEPT !.answer = "Cancelled"]
  <2>1. d \in Calls /\ d \notin ToSet(control)
    BY <1>4, PendingSeen DEF InControl
  <2>2. \E h \in Guilds : pending[h].caller = d
    BY <1>4
  <2> QED BY <1>2, <2>1, <2>2
<1>5. \A g \in Guilds : /\ ~ HasPending(g)' /\ ~ HasWorker(g)'
                        /\ Promise!Interrupted(g)
  <2>1. Open /\ ~ Open'
    BY DEF CtrlC, Open, Typed, LoopTyped
  <2> QED BY <1>1, <2>1 DEF HasPending, HasWorker, NoPending, NoHandle,
                            Promise!Interrupted
<1>6. ASSUME NEW c \in Calls PROVE Promise!CallStep(c)
  <2>1. ~ InControl(c)'
    BY <1>1 DEF InControl
  <2>2. CASE InControl(c)
    <3>1. Waiting(c) /\ call[c] \in Request /\ Joins(c) = {}
      <4>1. Waiting(c) /\ HeldBy(c, TRUE, FALSE, {}, {}, {})
        <5>1. HeldRight(c)
          BY DEF Held
        <5> QED BY <2>2, <5>1, HolderOnly
      <4> QED BY <4>1, IssuedRequest DEF Waiting, Typed, HeldBy
    <3>2. call'[c] = [call[c] EXCEPT !.answer = "Failed"]
      <4>1. ~ \E g \in Guilds : pending[g].caller = c
        BY <3>1 DEF Joins
      <4> QED BY <1>2, <2>2, <4>1 DEF InControl
    <3> QED BY <2>2, <3>1, <3>2, SeenFailed
  <2>3. ASSUME NEW g \in Guilds, pending[g].caller = c
        PROVE  Promise!CallStep(c)
    <3>1. HasPending(g)
      BY <1>3, <2>3
    <3>2. /\ Waiting(c) /\ ~ InControl(c) /\ call[c] \in Request
          /\ Promise!Outcome(c, "Cancelled")
      BY <1>5, <2>3, <3>1, PendingSeen, PendingGivesUp
    <3>3. call'[c] = [call[c] EXCEPT !.answer = "Cancelled"]
      BY <1>4, <2>3, <3>1
    <3> QED BY <3>2, <3>3, SeenAnswered DEF Answers
  <2>4. CASE ~ InControl(c) /\ ~ \E g \in Guilds : pending[g].caller = c
    <3>1. call'[c] = call[c]
      BY <1>2, <2>4 DEF InControl
    <3> QED BY <2>1, <2>4, <3>1, SeenKept
  <2> QED BY <2>2, <2>3, <2>4
<1>7. ASSUME NEW g \in Guilds PROVE Promise!Stay(g) \/ Promise!End(g)
  <2>1. ~ HasPending(g)' /\ ~ HasWorker(g)'
    BY <1>5
  <2>2. requested'[g] \in {requested[g], NoChannel}
    BY DEF CtrlC
  <2>3. CASE HasWorker(g)
    BY <1>1, <2>1, <2>2, <2>3, GuildParts
  <2>4. CASE HasPending(g)
    <3>1. PICK d \in Calls : d = pending[g].caller
      BY <2>4, PendingSeen
    <3>2. Waiting(d) /\ call[d] \in Request
      BY <2>4, <3>1, PendingSeen
    <3>3. call'[d] = [call[d] EXCEPT !.answer = "Cancelled"]
      BY <1>4, <2>4, <3>1
    <3> QED BY <1>1, <2>1, <2>2, <2>4, <3>1, <3>2, <3>3, GuildGivesUp
  <2>5. CASE ~ HasWorker(g) /\ ~ HasPending(g)
    <3>1. pending[g] = NoPending /\ workers[g] = NoHandle
      BY <2>5 DEF HasWorker, HasPending, Typed, MapsTyped, IssuedJoin, Handle, Ids
    <3>2. pending'[g] = pending[g] /\ workers'[g] = workers[g]
      BY <1>1, <3>1
    <3> QED BY <2>2, <2>5, <3>2, GuildQuiet
  <2> QED BY <2>3, <2>4, <2>5
<1>8. ASSUME NEW c \in Calls PROVE Promise!LinkStep(c)
  BY <1>1, <1>5, UnlistLinks
<1> QED BY <1>6, <1>7, <1>8 DEF Promised

LEMMA StopRefines ==
  ASSUME Typed, Sessions, Stop
  PROVE  Promised
<1>1. CASE TasksJoined \/ CommandsJoined
  BY <1>1, QuietRefines DEF TasksJoined, CommandsJoined
<1>2. ASSUME NEW id \in Ids, ShutdownWorker(id) PROVE Promised
  <2>1. /\ Started(id) /\ ~ Open
        /\ UNCHANGED << call, control, pending, workers, worker >>
    BY <1>2 DEF ShutdownWorker, Typed, NamesStarted, Open
  <2>2. PICK g \in Guilds : g = worker[id].guild
    BY <2>1, StartedTask DEF IssuedTask
  <2>3. Disconnect(g)
    BY <1>2, <2>2 DEF ShutdownWorker
  <2>4. ASSUME NEW h \in Guilds PROVE Promise!Stay(h)
    <3>1. requested'[h] \in {requested[h], NoChannel}
      BY <2>3, DisconnectSeen, DisconnectOther
    <3>2. ~ HasPending(h) /\ ~ HasWorker(h)
      BY <2>1 DEF Sessions, Closed
    <3> QED BY <2>1, <3>1, <3>2, GuildQuiet
  <2>5. ASSUME NEW c \in Calls PROVE Promise!CallStep(c)
    BY <2>1, SeenKept DEF InControl
  <2>6. ASSUME NEW c \in Calls PROVE Promise!LinkStep(c)
    BY <2>1, LinksStay DEF SameTask
  <2> QED BY <2>4, <2>5, <2>6 DEF Promised
<1> QED BY <1>1, <1>2 DEF Stop

(* The loop never opens again, and no session is left when it closes. *)
LEMMA OpenRefines ==
  ASSUME Typed, Sessions', [Next]_vars
  PROVE  Promise!OpenStep
<1>1. ~ Open => ~ Open'
  <2> SUFFICES ASSUME ~ Open PROVE ~ Open'
    OBVIOUS
  <2>1. gw.at \notin {"select", "route", "leave"}
    BY DEF Open
  <2>2. CASE UNCHANGED gw
    BY <2>1, <2>2 DEF Open
  <2>3. ASSUME NEW c \in Calls,
               Issue(c) \/ JoinVoice(c) \/ LeaveVoice(c) \/ RoutePlayback(c)
        PROVE  ~ Open'
    BY <2>1, <2>2, <2>3 DEF Issue, JoinVoice, LeaveVoice, RoutePlayback, Receive
  <2>4. CASE HandleCall
    BY <2>3, <2>4 DEF HandleCall
  <2>5. CASE HandleEvent \/ CtrlC
    BY <2>1, <2>5 DEF HandleEvent, JoinTimedOut, Stopped, ReceiveEvent, CtrlC
  <2>6. CASE Deliver
    BY <2>1, <2>6 DEF Deliver, DeliverPlayback, DeliverLeave, DeliverShutdown,
                      Open, Typed, LoopTyped
  <2>7. CASE Stop
    BY <2>7 DEF Stop, ShutdownWorker, TasksJoined, CommandsJoined, Open, Typed,
                LoopTyped
  <2>8. CASE Dispatch
    BY <2>1, <2>8 DEF Dispatch, Ready, StartWorker, ServerUnavailable
  <2>9. ASSUME NEW id \in Ids,
               \/ Connected(id) \/ ConnectFails(id) \/ HandleCommand(id)
               \/ SessionEnds(id) \/ SendStopped(id)
        PROVE  ~ Open'
    BY <2>2, <2>9 DEF Connected, ConnectFails, HandleCommand, ConnectAborted,
                      HandlePlayback, HandleShutdown, SessionEnds, SendStopped,
                      WorkerStep
  <2>10. CASE (\E t \in timers : TimerFires(t)) \/ Ended \/ UNCHANGED vars
    BY <2>2, <2>10 DEF TimerFires, Ended, vars
  <2> QED BY <2>3, <2>4, <2>5, <2>6, <2>7, <2>8, <2>9, <2>10 DEF Next
<1>2. ASSUME ~ Open', NEW g \in Guilds PROVE SessionSeen'[g] = Promise!NoSession
  BY <1>2, SeenGuildNext DEF Sessions, Closed
<1>3. Open \in BOOLEAN /\ Open' \in BOOLEAN
  BY DEF Open
<1> QED BY <1>1, <1>2, <1>3 DEF Promise!OpenStep

(* Every step of the Gateway loop, the timers and the workers is a step of *)
(* VoiceSession.                                                           *)
LEMMA NextRefines ==
  ASSUME Typed, Typed', Sessions, Sessions', Supervised, Held, Parted, Asked,
         Told, Told', [Next]_vars
  PROVE  Promise!Next
<1>1. Promised
  <2>1. CASE UNCHANGED vars
    BY <2>1, QuietRefines DEF vars
  <2>2. ASSUME NEW t \in timers, TimerFires(t) PROVE Promised
    BY <2>2, QuietRefines DEF TimerFires
  <2>3. CASE HandleCall
    BY <2>3, JoinVoiceRefines, LeaveVoiceRefines, RoutePlaybackRefines DEF HandleCall
  <2>4. ASSUME NEW c \in Calls, Issue(c) PROVE Promised
    BY <2>4, IssueRefines
  <2>5. CASE HandleEvent
    BY <2>5, HandleEventRefines
  <2>6. CASE Deliver
    BY <2>6, DeliverRefines
  <2>7. CASE Dispatch
    BY <2>7, DispatchRefines
  <2>8. ASSUME NEW id \in Ids,
               \/ Connected(id) \/ ConnectFails(id) \/ HandleCommand(id)
               \/ SessionEnds(id) \/ SendStopped(id)
        PROVE  Promised
    BY <2>8, WorkerRefines
  <2>9. CASE CtrlC
    BY <2>9, CtrlCRefines
  <2>10. CASE Stop
    BY <2>10, StopRefines
  <2> QED BY <2>1, <2>2, <2>3, <2>4, <2>5, <2>6, <2>7, <2>8, <2>9, <2>10
             DEF Next, Ended
<1>2. Promise!OpenStep
  BY OpenRefines
<1> QED BY <1>1, <1>2 DEF Promised, Promise!Next

(* VoiceManager implements VoiceSession: through timers, late events,      *)
(* blocked sends, failing updates and ctrl-c, a guild's session begins     *)
(* with an accepted join and ends with an answer to it.  The caller of a   *)
(* join is told Joined when the connection of its session is made, unless  *)
(* a leave or ctrl-c overtook it, and Cancelled or Failed only by what     *)
(* ended it; a playback request is carried out over the connection of a    *)
(* join of its caller's channel, and fails or is dropped only with it.     *)
THEOREM Refines == Spec => SessionSpec
<1>1. /\ Typed /\ Typed' /\ Sessions /\ Sessions' /\ Supervised /\ Held /\ Parted
      /\ Asked /\ Told /\ Told' /\ [Next]_vars
      => [Promise!Next]_<< CallSeen, SessionSeen, LinkSeen, requested, Open >>
  BY NextRefines
<1> QED
  BY <1>1, SeenInit, TypedCorrect, SessionsCorrect, SupervisedCorrect, HeldCorrect,
     PartedCorrect, AskedCorrect, ToldCorrect, PTL DEF Spec, SessionSpec, Promise!Spec
==============================================================================
