------------------------- MODULE VoiceManagerProofs -------------------------
(***************************************************************************)
(* What VoiceManager promises for every number of guilds, channels and     *)
(* requests, and for every capacity of its channels.                       *)
(*                                                                         *)
(* Part 1: facts about sequences and responses.  Part 2: Typed, the        *)
(* inductive form of TypeOK: responses are only ever held for requests     *)
(* that were issued.  Part 3: Sessions, what the maps of a guild say and   *)
(* what Discord was asked for.  Part 4: Supervised, that every worker is   *)
(* an entry of the map or told to stop, and every entry a worker.  Part 5: *)
(* a pending join has its timer.                                           *)
(***************************************************************************)
EXTENDS VoiceManager, SequenceTheorems, TLAPS

------------------------------------------------------------------------------
(* Part 1: sequences and responses *)

(* Taking the first element of a sequence over S. *)
LEMMA TakeFirst ==
  ASSUME NEW S, NEW s \in Seq(S), s # << >>
  PROVE  /\ Head(s) \in S /\ Tail(s) \in Seq(S)
         /\ ToSet(s) = {Head(s)} \union ToSet(Tail(s))
<1>1. /\ Head(s) \in S /\ Tail(s) \in Seq(S) /\ Len(s) \in Nat \ {0}
      /\ Len(Tail(s)) = Len(s) - 1
      /\ \A i \in 1 .. Len(Tail(s)) : Tail(s)[i] = s[i + 1]
  BY HeadTailProperties, EmptySeq, LenProperties
<1>2. DOMAIN s = 1 .. Len(s) /\ DOMAIN Tail(s) = 1 .. Len(Tail(s))
  BY <1>1, LenProperties
<1>3. Head(s) = s[1]
  BY HeadTailProperties
<1>4. ToSet(s) \subseteq {Head(s)} \union ToSet(Tail(s))
  <2> SUFFICES ASSUME NEW i \in 1 .. Len(s), i # 1
               PROVE  s[i] \in ToSet(Tail(s))
    BY <1>2, <1>3 DEF ToSet
  <2>1. i - 1 \in 1 .. Len(Tail(s)) /\ Tail(s)[i - 1] = s[i]
    BY <1>1
  <2> QED BY <1>2, <2>1 DEF ToSet
<1>5. {Head(s)} \union ToSet(Tail(s)) \subseteq ToSet(s)
  <2>1. Head(s) \in ToSet(s)
    BY <1>1, <1>2, <1>3 DEF ToSet
  <2>2. ASSUME NEW i \in 1 .. Len(Tail(s)) PROVE Tail(s)[i] \in ToSet(s)
    <3>1. i + 1 \in 1 .. Len(s) /\ Tail(s)[i] = s[i + 1]
      BY <1>1
    <3> QED BY <1>2, <3>1 DEF ToSet
  <2> QED BY <1>2, <2>1, <2>2 DEF ToSet
<1> QED BY <1>1, <1>4, <1>5

(* Adding a last element to a sequence over S. *)
LEMMA AddLast ==
  ASSUME NEW S, NEW s \in Seq(S), NEW e \in S
  PROVE  /\ Append(s, e) \in Seq(S)
         /\ ToSet(Append(s, e)) = ToSet(s) \union {e}
<1> DEFINE t == Append(s, e)
<1>1. /\ t \in Seq(S) /\ Len(s) \in Nat /\ Len(t) = Len(s) + 1
      /\ \A i \in 1 .. Len(s) : t[i] = s[i]
      /\ t[Len(s) + 1] = e
  BY AppendProperties, LenProperties
<1>2. DOMAIN s = 1 .. Len(s) /\ DOMAIN t = 1 .. Len(t)
  BY <1>1, LenProperties
<1> HIDE DEF t
<1>3. ToSet(t) \subseteq ToSet(s) \union {e}
  BY <1>1, <1>2 DEF ToSet
<1>4. ToSet(s) \union {e} \subseteq ToSet(t)
  <2>1. ASSUME NEW i \in 1 .. Len(s) PROVE s[i] \in ToSet(t)
    BY <1>1, <1>2 DEF ToSet
  <2>2. e \in ToSet(t)
    BY <1>1, <1>2 DEF ToSet
  <2> QED BY <1>2, <2>1, <2>2 DEF ToSet
<1> QED BY <1>1, <1>3, <1>4 DEF t

(* The elements of a sequence over S. *)
LEMMA Elements ==
  ASSUME NEW S, NEW s \in Seq(S)
  PROVE  ToSet(s) \subseteq S
BY LenProperties, ElementOfSeq DEF ToSet

(* The requests that were issued, and the responses they may have. *)
Issued == {c \in Calls : call[c].kind # "none"}

Request == [kind : Kinds, guild : Guilds, channel : Channels,
            answer : Answers \union {"none"}]

CallsTyped == call \in [Calls -> {Unissued} \union Request]

(* A step that only answers requests. *)
Answering ==
  /\ CallsTyped'
  /\ \A c \in Calls : /\ call'[c].kind = call[c].kind
                      /\ call'[c].guild = call[c].guild
                      /\ call'[c].channel = call[c].channel

LEMMA IssuedRequest ==
  ASSUME CallsTyped, NEW c \in Calls, call[c].kind # "none"
  PROVE  c \in Issued /\ call[c] \in Request
BY DEF Issued, CallsTyped, Unissued

(* Answering issued requests; what is not a request is passed over. *)
LEMMA AnswersType ==
  ASSUME CallsTyped, NEW S, S \intersect Calls \subseteq Issued,
         NEW a \in Answers
  PROVE  /\ AnswerAll(S, a) \in [Calls -> {Unissued} \union Request]
         /\ \A c \in Calls : /\ AnswerAll(S, a)[c].kind = call[c].kind
                             /\ AnswerAll(S, a)[c].guild = call[c].guild
                             /\ AnswerAll(S, a)[c].channel = call[c].channel
<1>1. ASSUME NEW c \in Calls, c \in S PROVE call[c] \in Request
  BY <1>1, IssuedRequest DEF Issued
<1> QED BY <1>1 DEF AnswerAll, CallsTyped, Request, Unissued

LEMMA AnswersAnswer ==
  ASSUME CallsTyped, NEW S, S \intersect Calls \subseteq Issued,
         NEW a \in Answers, call' = AnswerAll(S, a)
  PROVE  Answering
BY AnswersType DEF Answering, CallsTyped

LEMMA AnswerOne ==
  ASSUME CallsTyped, NEW c \in Issued, NEW a \in Answers, Answer(c, a)
  PROVE  Answering
BY AnswersAnswer DEF Answer

(* Two answers in one step, the second to request c. *)
LEMMA AnswerBoth ==
  ASSUME CallsTyped, NEW S, S \intersect Calls \subseteq Issued,
         NEW a \in Answers, NEW c \in Issued, NEW b \in Answers,
         call' = [AnswerAll(S, a) EXCEPT ![c].answer = b]
  PROVE  Answering
<1> DEFINE first == AnswerAll(S, a)
<1>1. /\ first \in [Calls -> {Unissued} \union Request]
      /\ \A d \in Calls : /\ first[d].kind = call[d].kind
                          /\ first[d].guild = call[d].guild
                          /\ first[d].channel = call[d].channel
  BY AnswersType
<1>2. c \in Calls /\ first[c] \in Request
  BY <1>1 DEF Issued, Unissued
<1>3. call' = [first EXCEPT ![c] = [first[c] EXCEPT !.answer = b]]
  OBVIOUS
<1> HIDE DEF first
<1>4. [first[c] EXCEPT !.answer = b] \in Request
  BY <1>2 DEF Request
<1>5. /\ [first[c] EXCEPT !.answer = b].kind = first[c].kind
      /\ [first[c] EXCEPT !.answer = b].guild = first[c].guild
      /\ [first[c] EXCEPT !.answer = b].channel = first[c].channel
  BY <1>2 DEF Request
<1> QED BY <1>1, <1>2, <1>3, <1>4, <1>5 DEF Answering, CallsTyped

LEMMA AnswerNone ==
  ASSUME CallsTyped, UNCHANGED call
  PROVE  Answering
BY DEF Answering, CallsTyped

LEMMA AnsweringKeepsIssued ==
  ASSUME Answering
  PROVE  Issued' = Issued
BY DEF Answering, Issued

------------------------------------------------------------------------------
(* Part 2: types *)

IssuedJoin == [id : Ids, channel : Channels, caller : Issued]

IssuedTask == [at : {"connecting", "running", "stopping", "ended"},
               guild : Guilds, channel : Channels, caller : Issued,
               reason : Reasons \union {"none"},
               mailbox : Seq(Issued \union {Shutdown})]

LoopTyped ==
  /\ control \in Seq(Issued)
  /\ gw \in [at : {"select", "route", "leave", "drain", "stop", "join", "done"},
             to : Ids \union {0}, for : Issued \union {NoCall},
             left : SUBSET Ids]
  /\ gw.at \in {"route", "leave", "stop"} => gw.to \in Ids
  /\ gw.at \in {"route", "leave"} => gw.for \in Issued
  /\ botReady \in BOOLEAN

MapsTyped ==
  /\ pending \in [Guilds -> IssuedJoin \union {NoPending}]
  /\ workers \in [Guilds -> Handle]
  /\ nextId \in 0 .. MaxId
  /\ timers \in SUBSET [guild : Guilds, id : Ids]
  /\ requested \in [Guilds -> Channels \union {NoChannel}]

TasksTyped ==
  /\ events \in Seq(Event)
  /\ worker \in [Ids -> IssuedTask \union {NoTask}]

(* Whom the map, a waiting handler or the shutdown names was started. *)
Started(id) == worker[id].at # "none"

NamesStarted ==
  /\ \A g \in Guilds : HasWorker(g) => Started(workers[g].id)
  /\ gw.at \in {"route", "leave", "stop"} => Started(gw.to)
  /\ \A id \in gw.left : Started(id)

Typed == CallsTyped /\ LoopTyped /\ MapsTyped /\ TasksTyped /\ NamesStarted

LEMMA TypedInit == Init => Typed
<1> SUFFICES ASSUME Init PROVE Typed
  OBVIOUS
<1>1. CallsTyped
  BY DEF Init, CallsTyped
<1>2. LoopTyped
  BY EmptySeq DEF Init, LoopTyped, Selecting
<1>3. MapsTyped
  BY BoundAssumption DEF Init, MapsTyped, Handle
<1>4. TasksTyped
  BY EmptySeq DEF Init, TasksTyped
<1>5. NamesStarted
  BY DEF Init, NamesStarted, HasWorker, NoHandle, Selecting
<1> QED BY <1>1, <1>2, <1>3, <1>4, <1>5 DEF Typed

LEMMA TypedImpliesTypeOK == Typed => TypeOK
<1> SUFFICES ASSUME Typed PROVE TypeOK
  OBVIOUS
<1>1. Issued \subseteq Calls
  BY DEF Issued
<1>2. control \in Seq(Calls)
  BY <1>1, SeqMonotonic DEF Typed, LoopTyped
<1>3. IssuedTask \subseteq Task
  <2> SUFFICES ASSUME NEW t \in IssuedTask PROVE t \in Task
    OBVIOUS
  <2>1. t.mailbox \in Seq(Calls \union {Shutdown})
    BY <1>1, SeqMonotonic DEF IssuedTask
  <2> QED BY <1>1, <2>1 DEF IssuedTask, Task
<1>4. IssuedJoin \union {NoPending} \subseteq Pending
  BY <1>1 DEF IssuedJoin, Pending
<1>5. gw \in Loop
  BY <1>1 DEF Typed, LoopTyped, Loop
<1> QED
  BY <1>2, <1>3, <1>4, <1>5
     DEF Typed, CallsTyped, LoopTyped, MapsTyped, TasksTyped, TypeOK, Request

(* The tasks that were started, and the joins that are pending. *)
LEMMA StartedTask ==
  ASSUME Typed, NEW id \in Ids, Started(id)
  PROVE  worker[id] \in IssuedTask
BY DEF Typed, TasksTyped, Started, NoTask

LEMMA PendingTyped ==
  ASSUME Typed, NEW g \in Guilds, HasPending(g)
  PROVE  pending[g] \in IssuedJoin
BY DEF Typed, MapsTyped, HasPending, NoPending

LEMMA HandleTyped ==
  ASSUME Typed, NEW g \in Guilds, HasWorker(g)
  PROVE  workers[g].id \in Ids /\ workers[g].channel \in Channels
BY DEF Typed, MapsTyped, HasWorker, Handle, NoHandle

(* A call that the loop takes off its channel. *)
LEMMA Received ==
  ASSUME Typed, NEW c \in Calls, NEW kind, Receive(c, kind)
  PROVE  /\ c \in Issued /\ call[c] \in Request
         /\ control' \in Seq(Issued)
BY TakeFirst, IssuedRequest DEF Typed, LoopTyped, Receive, Issued

(* A step of the commands: Issued may grow. *)
LEMMA IssueTyped ==
  ASSUME Typed, NEW c \in Calls, Issue(c)
  PROVE  Typed'
<1>1. PICK kind \in Kinds, g \in Guilds, ch \in Channels :
        call' = [call EXCEPT ![c] =
                   [kind |-> kind, guild |-> g, channel |-> ch,
                    answer |-> IF Open THEN "none" ELSE "Failed"]]
  BY DEF Issue
<1>2. CallsTyped'
  <2>1. [kind |-> kind, guild |-> g, channel |-> ch,
         answer |-> IF Open THEN "none" ELSE "Failed"] \in Request
    BY DEF Request, Answers
  <2> QED BY <1>1, <2>1 DEF Typed, CallsTyped
<1>3. Issued \subseteq Issued' /\ c \in Issued'
  BY <1>1 DEF Issued, Typed, CallsTyped, Kinds
<1>4. control' \in Seq(Issued')
  <2>1. control \in Seq(Issued')
    BY <1>3, SeqMonotonic DEF Typed, LoopTyped
  <2> QED BY <1>3, <2>1, AddLast DEF Issue
<1>5. LoopTyped'
  BY <1>3, <1>4 DEF Issue, Typed, LoopTyped
<1>6. MapsTyped'
  BY <1>3 DEF Issue, Typed, MapsTyped, IssuedJoin
<1>7. TasksTyped'
  <2>1. IssuedTask \subseteq IssuedTask'
    <3> SUFFICES ASSUME NEW t \in IssuedTask PROVE t \in IssuedTask'
      OBVIOUS
    <3>1. t.mailbox \in Seq(Issued' \union {Shutdown})
      BY <1>3, SeqMonotonic DEF IssuedTask
    <3> QED BY <1>3, <3>1 DEF IssuedTask
  <2> QED BY <2>1 DEF Issue, Typed, TasksTyped
<1>8. NamesStarted'
  BY DEF Issue, Typed, NamesStarted, HasWorker, Started
<1> QED BY <1>2, <1>5, <1>6, <1>7, <1>8 DEF Typed

(* Every other step keeps Issued; what it leaves alone stays typed. *)
LEMMA SameTypes ==
  ASSUME Answering
  PROVE  /\ CallsTyped' /\ Issued' = Issued
         /\ IssuedJoin' = IssuedJoin /\ IssuedTask' = IssuedTask
BY AnsweringKeepsIssued DEF Answering, IssuedJoin, IssuedTask

LEMMA DisconnectTyped ==
  ASSUME Typed, NEW g \in Guilds, Disconnect(g)
  PROVE  requested' \in [Guilds -> Channels \union {NoChannel}]
BY DEF Typed, MapsTyped, Disconnect

LEMMA JoinVoiceTyped ==
  ASSUME Typed, NEW c \in Calls, JoinVoice(c)
  PROVE  Typed'
<1> DEFINE g == call[c].guild
<1>1. /\ c \in Issued /\ call[c] \in Request /\ control' \in Seq(Issued)
      /\ g \in Guilds /\ call[c].channel \in Channels
  BY Received DEF JoinVoice, Request
<1>2. Answering
  <2>1. CASE JoinRefused(c, g)
    BY <1>1, <2>1, AnswerOne DEF JoinRefused, Answers, Typed
  <2>2. CASE JoinRequested(c, g)
    BY <2>2, AnswerNone DEF JoinRequested, Typed
  <2> QED BY <2>1, <2>2 DEF JoinVoice
<1>3. LoopTyped'
  BY <1>1, <1>2, SameTypes
     DEF JoinVoice, JoinRefused, JoinRequested, Typed, LoopTyped
<1>4. MapsTyped'
  <2>1. CASE JoinRefused(c, g)
    BY <1>2, <2>1, SameTypes DEF JoinVoice, JoinRefused, Typed, MapsTyped
  <2>2. CASE JoinRequested(c, g)
    <3>1. nextId' \in Ids
      BY <2>2, BoundAssumption DEF JoinRequested, Typed, MapsTyped, Ids
    <3>2. [id |-> nextId', channel |-> call[c].channel, caller |-> c]
            \in IssuedJoin
      BY <1>1, <3>1 DEF IssuedJoin
    <3>3. pending' \in [Guilds -> IssuedJoin \union {NoPending}]
      BY <1>1, <2>2, <3>2 DEF JoinRequested, Typed, MapsTyped
    <3>4. timers' \in SUBSET [guild : Guilds, id : Ids]
      BY <1>1, <2>2, <3>1 DEF JoinRequested, Typed, MapsTyped
    <3> QED
      BY <1>1, <1>2, <2>2, <3>1, <3>3, <3>4, SameTypes
         DEF JoinVoice, JoinRequested, Typed, MapsTyped, Ids
  <2> QED BY <2>1, <2>2 DEF JoinVoice
<1>5. TasksTyped'
  BY <1>2, SameTypes DEF JoinVoice, Typed, TasksTyped
<1>6. NamesStarted'
  BY DEF JoinVoice, JoinRefused, JoinRequested, Typed, NamesStarted, HasWorker,
         Started
<1> QED BY <1>2, <1>3, <1>4, <1>5, <1>6, SameTypes DEF Typed

LEMMA LeaveVoiceTyped ==
  ASSUME Typed, NEW c \in Calls, LeaveVoice(c)
  PROVE  Typed'
<1> DEFINE g == call[c].guild
<1>1. /\ c \in Issued /\ call[c] \in Request /\ control' \in Seq(Issued)
      /\ g \in Guilds
  BY Received DEF LeaveVoice, Request
<1>2. CASE LeavePending(c, g)
  <2>1. pending[g].caller \in Issued
    BY <1>1, <1>2, PendingTyped DEF LeavePending, IssuedJoin
  <2>2. PICK ok \in Updates :
          /\ requested' = IF ok THEN [requested EXCEPT ![g] = NoChannel]
                                ELSE requested
          /\ call' = [AnswerAll({pending[g].caller}, "Cancelled")
                        EXCEPT ![c].answer =
                          IF ok THEN "CancelledJoin" ELSE "Failed"]
    BY <1>2 DEF LeavePending
  <2>3. Answering
    <3> DEFINE b == IF ok THEN "CancelledJoin" ELSE "Failed"
    <3>1. "Cancelled" \in Answers /\ b \in Answers
      BY DEF Answers
    <3>2. {pending[g].caller} \intersect Calls \subseteq Issued
      BY <2>1
    <3>3. call' = [AnswerAll({pending[g].caller}, "Cancelled")
                     EXCEPT ![c].answer = b]
      BY <2>2
    <3> HIDE DEF b
    <3> QED BY <1>1, <3>1, <3>2, <3>3, AnswerBoth DEF Typed
  <2>4. LoopTyped'
    BY <1>1, <1>2, <2>3, SameTypes
       DEF LeaveVoice, LeavePending, Typed, LoopTyped
  <2>5. MapsTyped'
    BY <1>1, <1>2, <2>2, <2>3, SameTypes
       DEF LeaveVoice, LeavePending, Typed, MapsTyped
  <2>6. TasksTyped'
    BY <2>3, SameTypes DEF LeaveVoice, Typed, TasksTyped
  <2>7. NamesStarted'
    BY <1>2 DEF LeaveVoice, LeavePending, Typed, NamesStarted, HasWorker,
                Started
  <2> QED BY <2>3, <2>4, <2>5, <2>6, <2>7, SameTypes DEF Typed
<1>3. CASE LeaveNothing(c, g)
  <2>1. Answering
    BY <1>1, <1>3, AnswerOne DEF LeaveNothing, Answers, Typed
  <2> QED
    BY <1>1, <1>3, <2>1, SameTypes
       DEF LeaveVoice, LeaveNothing, Typed, LoopTyped, MapsTyped, TasksTyped,
           NamesStarted, HasWorker, Started
<1>4. CASE LeaveWorker(c, g)
  <2>1. Answering
    BY <1>4, AnswerNone DEF LeaveWorker, Typed
  <2>2. workers[g].id \in Ids
    BY <1>1, <1>4, HandleTyped DEF LeaveWorker
  <2>3. LoopTyped'
    BY <1>1, <1>4, <2>1, <2>2, SameTypes
       DEF LeaveVoice, LeaveWorker, Typed, LoopTyped
  <2>4. MapsTyped'
    BY <1>1, <1>4, <2>1, SameTypes
       DEF LeaveVoice, LeaveWorker, Typed, MapsTyped, Handle
  <2>5. TasksTyped'
    BY <2>1, SameTypes DEF LeaveVoice, Typed, TasksTyped
  <2>6. NamesStarted'
    BY <1>1, <1>4 DEF LeaveVoice, LeaveWorker, Typed, NamesStarted, HasWorker,
                      Started, NoHandle, MapsTyped, LoopTyped
  <2> QED BY <2>1, <2>3, <2>4, <2>5, <2>6, SameTypes DEF Typed
<1> QED BY <1>2, <1>3, <1>4 DEF LeaveVoice

LEMMA RoutePlaybackTyped ==
  ASSUME Typed, NEW c \in Calls, RoutePlayback(c)
  PROVE  Typed'
<1> DEFINE g == call[c].guild
<1>1. /\ c \in Issued /\ call[c] \in Request /\ control' \in Seq(Issued)
      /\ g \in Guilds
  BY Received DEF RoutePlayback, Request
<1>2. Answering
  BY <1>1, AnswerOne, AnswerNone DEF RoutePlayback, Answers, Typed
<1>3. LoopTyped'
  <2>1. workers[g].id # 0 => workers[g].id \in Ids
    BY <1>1, HandleTyped DEF HasWorker
  <2> QED
    BY <1>1, <1>2, <2>1, SameTypes DEF RoutePlayback, Typed, LoopTyped
<1>4. NamesStarted'
  BY <1>1 DEF RoutePlayback, Typed, NamesStarted, HasWorker, Started, LoopTyped
<1> QED
  BY <1>2, <1>3, <1>4, SameTypes
     DEF RoutePlayback, Typed, MapsTyped, TasksTyped

(* What a send does to the mailbox of a worker task. *)
LEMMA SendTyped ==
  ASSUME Typed, NEW id \in Ids, Started(id),
         NEW m \in Issued \union {Shutdown}, Send(id, m)
  PROVE  /\ worker' \in [Ids -> IssuedTask \union {NoTask}]
         /\ \A i \in Ids : Started(i) => Started(i)'
<1>1. worker[id] \in IssuedTask
  BY StartedTask
<1>2. Append(worker[id].mailbox, m) \in Seq(Issued \union {Shutdown})
  BY <1>1, AddLast DEF IssuedTask
<1>3. [worker[id] EXCEPT !.mailbox = Append(@, m)] \in IssuedTask
  BY <1>1, <1>2 DEF IssuedTask
<1> QED BY <1>1, <1>3 DEF Send, Typed, TasksTyped, Started, IssuedTask

LEMMA DeliverTyped ==
  ASSUME Typed, Deliver
  PROVE  Typed'
<1> USE DEF Typed
<1>1. gw.at \in {"route", "leave", "stop"} /\ gw.to \in Ids /\ Started(gw.to)
  BY DEF Deliver, DeliverPlayback, DeliverLeave, DeliverShutdown, LoopTyped,
         NamesStarted
<1>2. /\ worker' \in [Ids -> IssuedTask \union {NoTask}]
      /\ \A i \in Ids : Started(i) => Started(i)'
  BY <1>1, SendTyped DEF Deliver, DeliverPlayback, DeliverLeave,
                         DeliverShutdown, LoopTyped
<1>3. CASE DeliverPlayback
  <2>1. gw.for \in Issued
    BY <1>3 DEF DeliverPlayback, LoopTyped
  <2>2. Answering
    BY <1>3, <2>1, AnswersAnswer, AnswerNone DEF DeliverPlayback, Answers
  <2> QED
    BY <1>2, <1>3, <2>2, SameTypes, HandleTyped
       DEF DeliverPlayback, LoopTyped, MapsTyped, TasksTyped, NamesStarted,
           Selecting, HasWorker
<1>4. CASE DeliverLeave
  <2>1. gw.for \in Issued
    BY <1>4 DEF DeliverLeave, LoopTyped
  <2>2. call[gw.for].guild \in Guilds
    BY <2>1, IssuedRequest DEF Issued, Request
  <2>3. PICK ok \in Updates :
          /\ requested' = IF ok
                THEN [requested EXCEPT ![call[gw.for].guild] = NoChannel]
                ELSE requested
          /\ Answer(gw.for, IF ok THEN "Left" ELSE "Failed")
    BY <1>4 DEF DeliverLeave
  <2>4. Answering
    BY <2>1, <2>3, AnswerOne DEF Answers
  <2> QED
    BY <1>2, <1>4, <2>2, <2>3, <2>4, SameTypes, HandleTyped
       DEF DeliverLeave, LoopTyped, MapsTyped, TasksTyped, NamesStarted,
           Selecting, HasWorker
<1>5. CASE DeliverShutdown
  <2>1. Answering
    BY <1>5, AnswerNone DEF DeliverShutdown
  <2> QED
    BY <1>2, <1>5, <2>1, SameTypes, HandleTyped
       DEF DeliverShutdown, LoopTyped, MapsTyped, TasksTyped, NamesStarted,
           HasWorker
<1> QED BY <1>3, <1>4, <1>5 DEF Deliver

LEMMA DispatchTyped ==
  ASSUME Typed, Dispatch
  PROVE  Typed'
<1> USE DEF Typed
<1>1. CASE Ready
  <2>1. Answering
    BY <1>1, AnswerNone DEF Ready
  <2> QED
    BY <1>1, <2>1, SameTypes
       DEF Ready, LoopTyped, MapsTyped, TasksTyped, NamesStarted, HasWorker,
           Started
<1>2. ASSUME NEW g \in Guilds, StartWorker(g) PROVE Typed'
  <2>1. Answering
    BY <1>2, AnswerNone DEF StartWorker
  <2>2. pending[g] \in IssuedJoin /\ nextId' \in Ids
    BY <1>2, PendingTyped, BoundAssumption DEF StartWorker, MapsTyped, Ids
  <2>3. /\ NewTask(g, pending[g]) \in IssuedTask
        /\ NewTask(g, pending[g]).at # "none"
    BY <2>2, EmptySeq DEF NewTask, IssuedTask, IssuedJoin
  <2>4. LoopTyped'
    BY <1>2, <2>1, SameTypes DEF StartWorker, LoopTyped
  <2>5. MapsTyped'
    BY <1>2, <2>1, <2>2, SameTypes
       DEF StartWorker, MapsTyped, IssuedJoin, Handle, Ids
  <2>6. TasksTyped'
    BY <1>2, <2>1, <2>2, <2>3, SameTypes DEF StartWorker, TasksTyped
  <2>7. NamesStarted'
    <3>1. worker'[nextId'].at # "none"
      BY <1>2, <2>2, <2>3 DEF StartWorker, TasksTyped
    <3>2. \A i \in Ids : Started(i) => worker'[i].at # "none"
      BY <1>2, <2>2, <2>3 DEF StartWorker, TasksTyped, Started
    <3> QED
      BY <1>2, <3>1, <3>2, HandleTyped
         DEF StartWorker, NamesStarted, HasWorker, MapsTyped, LoopTyped, Started
  <2> QED BY <2>1, <2>4, <2>5, <2>6, <2>7, SameTypes
<1>3. ASSUME NEW g \in Guilds, ServerUnavailable(g) PROVE Typed'
  <2>1. pending[g].caller \in Issued
    BY <1>3, PendingTyped DEF ServerUnavailable, IssuedJoin
  <2>2. Answering
    BY <1>3, <2>1, AnswerOne DEF ServerUnavailable, Answers
  <2>3. requested' \in [Guilds -> Channels \union {NoChannel}]
    BY <1>3, DisconnectTyped DEF ServerUnavailable
  <2> QED
    BY <1>3, <2>2, <2>3, SameTypes
       DEF ServerUnavailable, LoopTyped, MapsTyped, TasksTyped, NamesStarted,
           HasWorker, Started
<1> QED BY <1>1, <1>2, <1>3 DEF Dispatch

LEMMA HandleEventTyped ==
  ASSUME Typed, HandleEvent
  PROVE  Typed'
<1> USE DEF Typed
<1> DEFINE g == Head(events).guild
<1>1. Head(events) \in Event /\ events' \in Seq(Event) /\ g \in Guilds
  <2>1. events # << >> /\ events' = Tail(events)
    BY DEF HandleEvent, JoinTimedOut, Stopped, ReceiveEvent
  <2>2. events \in Seq(Event)
    BY DEF TasksTyped
  <2>3. Head(events) \in Event /\ events' \in Seq(Event)
    BY <2>1, <2>2, TakeFirst
  <2> QED BY <2>3 DEF Event
<1>2. CASE JoinTimedOut
  <2>1. pending[g].id = Head(events).id => pending[g].caller \in Issued
    BY <1>1, PendingTyped DEF HasPending, IssuedJoin, Event, Ids
  <2>2. Answering
    BY <1>2, <2>1, AnswerOne, AnswerNone DEF JoinTimedOut, Answers
  <2>3. requested' \in [Guilds -> Channels \union {NoChannel}]
    BY <1>1, <1>2, DisconnectTyped DEF JoinTimedOut, MapsTyped
  <2>4. MapsTyped'
    BY <1>1, <1>2, <2>2, <2>3, SameTypes DEF JoinTimedOut, MapsTyped
  <2>5. NamesStarted'
    BY <1>2 DEF JoinTimedOut, NamesStarted, HasWorker, Started
  <2>6. LoopTyped'
    BY <1>2, <2>2, SameTypes DEF JoinTimedOut, LoopTyped
  <2>7. TasksTyped'
    BY <1>1, <1>2, <2>2, SameTypes DEF JoinTimedOut, TasksTyped
  <2> QED BY <2>2, <2>4, <2>5, <2>6, <2>7, SameTypes
<1>3. CASE Stopped
  <2>1. Answering
    BY <1>3, AnswerNone DEF Stopped
  <2>2. requested' \in [Guilds -> Channels \union {NoChannel}]
    BY <1>1, <1>3, DisconnectTyped DEF Stopped, MapsTyped
  <2>3. workers' \in [Guilds -> Handle]
    BY <1>1, <1>3 DEF Stopped, MapsTyped, Handle
  <2>4. NamesStarted'
    BY <1>1, <1>3 DEF Stopped, MapsTyped, NamesStarted, HasWorker, Started,
                      NoHandle
  <2> QED
    BY <1>1, <1>3, <2>1, <2>2, <2>3, <2>4, SameTypes
       DEF Stopped, LoopTyped, MapsTyped, TasksTyped
<1> QED BY <1>2, <1>3 DEF HandleEvent

LEMMA TimerFiresTyped ==
  ASSUME Typed, NEW t \in timers, TimerFires(t)
  PROVE  Typed'
<1> USE DEF Typed
<1>1. Answering
  BY AnswerNone DEF TimerFires
<1>2. [kind |-> "JoinTimedOut", guild |-> t.guild, id |-> t.id,
       reason |-> "none"] \in Event
  BY DEF MapsTyped, Event
<1>3. events' \in Seq(Event)
  BY <1>2, AddLast DEF TimerFires, TasksTyped
<1> QED
  BY <1>1, <1>3, SameTypes
     DEF TimerFires, LoopTyped, MapsTyped, TasksTyped, NamesStarted, HasWorker,
         Started

(* A step of one worker task. *)
LEMMA WorkerStepTyped ==
  ASSUME Typed, NEW id \in Ids, NEW task \in IssuedTask, WorkerStep(id, task),
         Answering
  PROVE  Typed'
<1> USE DEF Typed
<1>1. /\ worker' \in [Ids -> IssuedTask \union {NoTask}]
      /\ \A i \in Ids : Started(i) => Started(i)'
  BY DEF WorkerStep, TasksTyped, Started, IssuedTask
<1>2. NamesStarted'
  BY <1>1, HandleTyped DEF WorkerStep, NamesStarted, HasWorker, LoopTyped
<1> QED
  BY <1>1, <1>2, SameTypes DEF WorkerStep, LoopTyped, MapsTyped, TasksTyped

LEMMA StoppingTyped ==
  ASSUME Typed, NEW id \in Ids, Started(id), NEW reason \in Reasons
  PROVE  Stopping(id, reason) \in IssuedTask
BY StartedTask DEF Stopping, IssuedTask

(* The first message of a mailbox, and what is left. *)
LEMMA MailboxTyped ==
  ASSUME Typed, NEW id \in Ids, Started(id), worker[id].mailbox # << >>
  PROVE  /\ Head(worker[id].mailbox) \in Issued \union {Shutdown}
         /\ Tail(worker[id].mailbox) \in Seq(Issued \union {Shutdown})
BY StartedTask, TakeFirst DEF IssuedTask

LEMMA WorkerTyped ==
  ASSUME Typed, NEW id \in Ids,
         \/ Connected(id) \/ ConnectFails(id) \/ HandleCommand(id)
         \/ SessionEnds(id)
  PROVE  Typed' /\ Answering
<1> USE DEF Typed
<1>1. worker[id] \in IssuedTask /\ Started(id)
  BY StartedTask DEF Connected, ConnectFails, HandleCommand, SessionEnds,
         ConnectAborted, HandlePlayback, HandleShutdown, Started
<1>2. worker[id].caller \in Issued
  BY <1>1 DEF IssuedTask
<1>3. CASE Connected(id)
  <2>1. [worker[id] EXCEPT !.at = "running"] \in IssuedTask
    BY <1>1 DEF IssuedTask
  <2>2. Answering
    BY <1>2, <1>3, AnswerOne DEF Connected, Answers
  <2> QED BY <1>3, <2>1, <2>2, WorkerStepTyped DEF Connected
<1>4. CASE ConnectFails(id)
  <2>1. Stopping(id, "ConnectFailed") \in IssuedTask
    BY <1>1, StoppingTyped DEF Reasons
  <2>2. Answering
    BY <1>2, <1>4, AnswerOne DEF ConnectFails, Answers
  <2> QED BY <1>4, <2>1, <2>2, WorkerStepTyped DEF ConnectFails
<1>5. CASE ConnectAborted(id)
  <2>1. Stopping(id, "Requested") \in IssuedTask
    BY <1>1, StoppingTyped DEF Reasons
  <2>2. [Stopping(id, "Requested") EXCEPT !.mailbox = Tail(@)] \in IssuedTask
    BY <1>1, <1>5, <2>1, MailboxTyped
       DEF ConnectAborted, IssuedTask, Stopping
  <2>3. {Head(worker[id].mailbox)} \intersect Calls \subseteq Issued
    BY <1>1, <1>5, MailboxTyped, DistinctAssumption DEF ConnectAborted
  <2>4. "Dropped" \in Answers /\ "Cancelled" \in Answers
    BY DEF Answers
  <2>5. Answering
    BY <1>2, <1>5, <2>3, <2>4, AnswerBoth DEF ConnectAborted
  <2> QED BY <1>5, <2>2, <2>5, WorkerStepTyped DEF ConnectAborted
<1>6. CASE HandlePlayback(id)
  <2> DEFINE c == Head(worker[id].mailbox)
             rest == [worker[id] EXCEPT !.mailbox = Tail(@)]
  <2>1. c \in Issued
    BY <1>1, <1>6, MailboxTyped DEF HandlePlayback
  <2>2. rest \in IssuedTask
    BY <1>1, <1>6, MailboxTyped DEF HandlePlayback, IssuedTask
  <2>3. [rest EXCEPT !.at = "stopping", !.reason = "VoiceFailed"] \in IssuedTask
    BY <2>2 DEF IssuedTask, Reasons
  <2>4. \/ WorkerStep(id, rest) /\ Answer(c, "Handled")
        \/ /\ WorkerStep(id, [rest EXCEPT !.at = "stopping",
                                          !.reason = "VoiceFailed"])
           /\ Answer(c, "Dropped")
    BY <1>6 DEF HandlePlayback
  <2>5. Answering
    BY <2>1, <2>4, AnswerOne DEF Answers
  <2> HIDE DEF rest, c
  <2> QED BY <2>2, <2>3, <2>4, <2>5, WorkerStepTyped
<1>7. CASE HandleShutdown(id)
  <2>1. Stopping(id, "Requested") \in IssuedTask
    BY <1>1, StoppingTyped DEF Reasons
  <2>2. [Stopping(id, "Requested") EXCEPT !.mailbox = Tail(@)] \in IssuedTask
    BY <1>1, <1>7, <2>1, MailboxTyped
       DEF HandleShutdown, IssuedTask, Stopping
  <2>3. Answering
    BY <1>7, AnswerNone DEF HandleShutdown
  <2> QED BY <1>7, <2>2, <2>3, WorkerStepTyped DEF HandleShutdown
<1>8. CASE SessionEnds(id)
  <2>1. PICK reason \in {"VoiceFailed", "IdleTimedOut"} :
          WorkerStep(id, Stopping(id, reason))
    BY <1>8 DEF SessionEnds
  <2>2. Stopping(id, reason) \in IssuedTask
    BY <1>1, StoppingTyped DEF Reasons
  <2>3. Answering
    BY <1>8, AnswerNone DEF SessionEnds
  <2> QED BY <2>1, <2>2, <2>3, WorkerStepTyped
<1> QED BY <1>3, <1>4, <1>5, <1>6, <1>7, <1>8 DEF HandleCommand

LEMMA SendStoppedTyped ==
  ASSUME Typed, NEW id \in Ids, SendStopped(id)
  PROVE  Typed' /\ Answering
<1> USE DEF Typed
<1>1. worker[id] \in IssuedTask /\ Started(id)
  BY StartedTask DEF SendStopped, Started
<1>2. ToSet(worker[id].mailbox) \subseteq Issued \union {Shutdown}
  BY <1>1, Elements DEF IssuedTask
<1>3. ToSet(worker[id].mailbox) \intersect Calls \subseteq Issued
  BY <1>2, DistinctAssumption
<1>4. Answering
  BY <1>3, AnswersAnswer DEF SendStopped, Answers
<1>5. [kind |-> "Stopped", guild |-> worker[id].guild, id |-> id,
       reason |-> worker[id].reason] \in Event
  BY <1>1 DEF IssuedTask, Event
<1>6. events' \in Seq(Event)
  BY <1>5, AddLast DEF SendStopped, TasksTyped
<1>7. /\ worker' \in [Ids -> IssuedTask \union {NoTask}]
      /\ \A i \in Ids : Started(i) => Started(i)'
  <2>1. [worker[id] EXCEPT !.at = "ended", !.mailbox = << >>] \in IssuedTask
    BY <1>1, EmptySeq DEF IssuedTask
  <2>2. worker' = [worker EXCEPT ![id] =
                     [worker[id] EXCEPT !.at = "ended", !.mailbox = << >>]]
    BY <1>1 DEF SendStopped, IssuedTask, TasksTyped
  <2> QED BY <2>1, <2>2 DEF TasksTyped, Started, IssuedTask
<1>8. NamesStarted'
  BY <1>7, HandleTyped DEF SendStopped, NamesStarted, HasWorker, LoopTyped
<1> QED
  BY <1>4, <1>6, <1>7, <1>8, SameTypes
     DEF SendStopped, LoopTyped, MapsTyped, TasksTyped

LEMMA CtrlCTyped ==
  ASSUME Typed, CtrlC
  PROVE  Typed' /\ Answering
<1> USE DEF Typed
<1>1. \A g \in Guilds : pending[g].caller \in Calls =>
        pending[g].caller \in Issued
  BY DistinctAssumption DEF MapsTyped, IssuedJoin, NoPending
<1>2. \A c \in Calls : c \in ToSet(control) => c \in Issued
  BY Elements DEF LoopTyped
<1>3. call' = [c \in Calls |->
                 CASE c \in ToSet(control) -> [call[c] EXCEPT !.answer = "Failed"]
                   [] \E g \in Guilds : pending[g].caller = c ->
                        [call[c] EXCEPT !.answer = "Cancelled"]
                   [] OTHER -> call[c]]
  BY DEF CtrlC
<1>4. ASSUME NEW c \in Calls
      PROVE  /\ call'[c] \in {Unissued} \union Request
             /\ call'[c].kind = call[c].kind /\ call'[c].guild = call[c].guild
             /\ call'[c].channel = call[c].channel
  <2>1. \/ call'[c] = call[c]
        \/ /\ c \in Issued
           /\ \E a \in Answers : call'[c] = [call[c] EXCEPT !.answer = a]
    BY <1>1, <1>2, <1>3 DEF Answers
  <2>2. CASE call'[c] = call[c]
    BY <2>2 DEF CallsTyped
  <2>3. ASSUME c \in Issued, NEW a \in Answers,
               call'[c] = [call[c] EXCEPT !.answer = a]
        PROVE  /\ call'[c] \in Request
               /\ call'[c].kind = call[c].kind /\ call'[c].guild = call[c].guild
               /\ call'[c].channel = call[c].channel
    BY <2>3, IssuedRequest DEF Issued, Request
  <2> QED BY <2>1, <2>2, <2>3
<1>5. Answering
  <2>1. call' = [c \in Calls |-> call'[c]]
    BY <1>3
  <2> QED BY <1>4, <2>1 DEF Answering, CallsTyped
<1>6. {workers[g].id : g \in Guilds} \ {0} \subseteq Ids
  BY HandleTyped DEF HasWorker
<1>7. LoopTyped'
  BY <1>5, <1>6, EmptySeq, SameTypes DEF CtrlC, LoopTyped
<1>8. MapsTyped'
  BY <1>5, SameTypes DEF CtrlC, MapsTyped, Handle
<1>9. TasksTyped'
  BY <1>5, SameTypes DEF CtrlC, TasksTyped
<1>10. NamesStarted'
  BY DEF CtrlC, LoopTyped, NamesStarted, HasWorker, NoHandle, Started
<1> QED BY <1>5, <1>7, <1>8, <1>9, <1>10, SameTypes

LEMMA StopTyped ==
  ASSUME Typed, Stop
  PROVE  Typed'
<1> USE DEF Typed
<1>1. Answering
  BY AnswerNone DEF Stop, ShutdownWorker, TasksJoined, CommandsJoined
<1>2. ASSUME NEW id \in Ids, ShutdownWorker(id) PROVE Typed'
  <2>1. Started(id) /\ worker[id].guild \in Guilds
    BY <1>2, StartedTask DEF ShutdownWorker, NamesStarted, IssuedTask
  <2>2. requested' \in [Guilds -> Channels \union {NoChannel}]
    BY <1>2, <2>1, DisconnectTyped DEF ShutdownWorker
  <2> QED
    BY <1>1, <1>2, <2>1, <2>2, SameTypes
       DEF ShutdownWorker, LoopTyped, MapsTyped, TasksTyped, NamesStarted,
           HasWorker, Started
<1>3. CASE TasksJoined \/ CommandsJoined
  BY <1>1, <1>3, SameTypes
     DEF TasksJoined, CommandsJoined, LoopTyped, MapsTyped, TasksTyped,
         NamesStarted, HasWorker, Started
<1> QED BY <1>2, <1>3 DEF Stop

LEMMA TypedStutter ==
  ASSUME Typed, UNCHANGED vars
  PROVE  Typed'
<1>1. Answering
  BY AnswerNone DEF Typed, vars
<1> QED
  BY <1>1, SameTypes
     DEF vars, Typed, LoopTyped, MapsTyped, TasksTyped, NamesStarted, HasWorker,
         Started

(* Typed is inductive: a response is only held, by the channel, the loop,  *)
(* the pending map, a worker or a mailbox, for a request that was issued.  *)
THEOREM TypedCorrect == Spec => []Typed
<1>1. Typed /\ [Next]_vars => Typed'
  <2> SUFFICES ASSUME Typed, [Next]_vars PROVE Typed'
    OBVIOUS
  <2>1. CASE HandleCall
    BY <2>1, JoinVoiceTyped, LeaveVoiceTyped, RoutePlaybackTyped DEF HandleCall
  <2> QED
    BY <2>1, IssueTyped, HandleEventTyped, DeliverTyped, DispatchTyped,
       TimerFiresTyped, WorkerTyped, SendStoppedTyped, CtrlCTyped, StopTyped,
       TypedStutter
       DEF Next, Ended
<1> QED BY <1>1, TypedInit, PTL DEF Spec

(* The variables of the manager have their types in every reachable state. *)
THEOREM TypeCorrect == Spec => []TypeOK
BY TypedCorrect, TypedImpliesTypeOK, PTL

------------------------------------------------------------------------------
(* Part 3: the sessions of a guild *)

(* While leave_voice waits to tell a worker, its guild has no session, and  *)
(* no guild has one once the loop was left.                                 *)
Leaving ==
  gw.at = "leave" =>
    ~ HasPending(call[gw.for].guild) /\ ~ HasWorker(call[gw.for].guild)

Closed == ~ Open => \A g \in Guilds : ~ HasPending(g) /\ ~ HasWorker(g)

Sessions == PendingXorWorker /\ SessionRequested /\ Leaving /\ Closed

LEMMA SessionsInit == Init => Sessions
BY DEF Init, Sessions, PendingXorWorker, SessionRequested, Leaving, Closed,
       HasPending, HasWorker, NoPending, NoHandle, Selecting, Open

(* Steps that leave the maps and the loop alone. *)
LEMMA SessionsFrame ==
  ASSUME Sessions, UNCHANGED << gw, pending, workers, requested >>,
         gw.at = "leave" => call'[gw.for].guild = call[gw.for].guild
  PROVE  Sessions'
BY DEF Sessions, PendingXorWorker, SessionRequested, Leaving, Closed,
       HasPending, HasWorker, Open

LEMMA SessionsQuiet ==
  ASSUME Typed, Sessions,
         \/ \E c \in Calls : Issue(c)
         \/ Ready \/ UNCHANGED vars
         \/ \E t \in timers : TimerFires(t)
         \/ \E id \in Ids : \/ Connected(id) \/ ConnectFails(id)
                            \/ HandleCommand(id) \/ SessionEnds(id)
                            \/ SendStopped(id)
  PROVE  Sessions'
<1>1. UNCHANGED << gw, pending, workers, requested >>
  BY DEF Issue, Ready, vars, TimerFires, Connected, ConnectFails, HandleCommand,
         ConnectAborted, HandlePlayback, HandleShutdown, SessionEnds,
         SendStopped, WorkerStep
<1>2. gw.at = "leave" => gw.for \in Issued
  BY DEF Typed, LoopTyped
<1>3. ASSUME NEW c \in Issued PROVE call'[c].guild = call[c].guild
  <2>1. CASE \E d \in Calls : Issue(d)
    BY <1>3, <2>1 DEF Issue, Issued, Typed, CallsTyped
  <2>2. CASE Ready \/ UNCHANGED vars \/ \E t \in timers : TimerFires(t)
    BY <2>2 DEF Ready, vars, TimerFires
  <2>3. CASE \E id \in Ids : \/ Connected(id) \/ ConnectFails(id)
                             \/ HandleCommand(id) \/ SessionEnds(id)
                             \/ SendStopped(id)
    BY <1>3, <2>3, WorkerTyped, SendStoppedTyped DEF Answering, Issued
  <2> QED BY <2>1, <2>2, <2>3
<1> QED BY <1>1, <1>2, <1>3, SessionsFrame

(* Steps that end the session of one guild, or find none. *)
LEMMA SessionEnded ==
  ASSUME Sessions, NEW g \in Guilds,
         pending'[g].id = 0, workers'[g].id = 0,
         \A h \in Guilds \ {g} : /\ pending'[h] = pending[h]
                                 /\ workers'[h] = workers[h]
                                 /\ requested'[h] = requested[h],
         gw'.at \in {"select", "route", "leave"},
         gw'.at = "leave" => call'[gw'.for].guild = g
  PROVE  Sessions'
BY DEF Sessions, PendingXorWorker, SessionRequested, Leaving, Closed,
       HasPending, HasWorker, Open

LEMMA DisconnectOther ==
  ASSUME Typed, NEW g \in Guilds, Disconnect(g) \/ UNCHANGED requested
  PROVE  \A h \in Guilds \ {g} : requested'[h] = requested[h]
BY DEF Disconnect, Typed, MapsTyped

LEMMA JoinVoiceSessions ==
  ASSUME Typed, Sessions, NEW c \in Calls, JoinVoice(c)
  PROVE  Sessions'
<1> DEFINE g == call[c].guild
<1>1. gw.at = "select" /\ g \in Guilds /\ call[c].channel \in Channels
  BY Received DEF JoinVoice, Receive, Request
<1>2. CASE JoinRefused(c, g)
  BY <1>1, <1>2, SessionsFrame DEF JoinVoice, JoinRefused
<1>3. CASE JoinRequested(c, g)
  <2>1. /\ ~ HasPending(g) /\ ~ HasWorker(g)
        /\ pending'[g].channel = call[c].channel
        /\ requested'[g] = call[c].channel
        /\ UNCHANGED << gw, workers >>
    BY <1>1, <1>3 DEF JoinVoice, JoinRequested, Typed, MapsTyped
  <2>2. \A h \in Guilds \ {g} : /\ pending'[h] = pending[h]
                                /\ requested'[h] = requested[h]
    BY <1>3 DEF JoinRequested, Typed, MapsTyped
  <2> QED
    BY <1>1, <2>1, <2>2
       DEF Sessions, PendingXorWorker, SessionRequested, Leaving, Closed,
           HasPending, HasWorker, Open
<1> QED BY <1>2, <1>3 DEF JoinVoice

LEMMA LeaveVoiceSessions ==
  ASSUME Typed, Sessions, NEW c \in Calls, LeaveVoice(c)
  PROVE  Sessions'
<1> DEFINE g == call[c].guild
<1>1. gw.at = "select" /\ g \in Guilds
  BY Received DEF LeaveVoice, Receive, Request
<1>2. CASE LeavePending(c, g)
  <2>1. \A h \in Guilds \ {g} : requested'[h] = requested[h]
    BY <1>2 DEF LeavePending, Typed, MapsTyped
  <2>2. ~ HasWorker(g) /\ UNCHANGED << gw, workers >>
    BY <1>1, <1>2 DEF LeavePending, Sessions, PendingXorWorker
  <2>3. pending'[g].id = 0 /\ \A h \in Guilds \ {g} : pending'[h] = pending[h]
    BY <1>1, <1>2 DEF LeavePending, Typed, MapsTyped, NoPending
  <2> QED
    BY <1>1, <2>1, <2>2, <2>3, SessionEnded DEF HasWorker
<1>3. CASE LeaveNothing(c, g)
  BY <1>1, <1>3, SessionsFrame DEF LeaveNothing
<1>4. CASE LeaveWorker(c, g)
  <2>1. gw'.at = "leave" /\ call'[gw'.for].guild = g
    BY <1>4 DEF LeaveWorker, Typed, LoopTyped
  <2>2. /\ pending'[g].id = 0 /\ workers'[g].id = 0
        /\ \A h \in Guilds \ {g} : /\ pending'[h] = pending[h]
                                   /\ workers'[h] = workers[h]
                                   /\ requested'[h] = requested[h]
    BY <1>1, <1>4 DEF LeaveWorker, HasPending, Typed, MapsTyped, NoHandle
  <2> QED BY <1>1, <2>1, <2>2, SessionEnded
<1> QED BY <1>2, <1>3, <1>4 DEF LeaveVoice

LEMMA RoutePlaybackSessions ==
  ASSUME Typed, Sessions, NEW c \in Calls, RoutePlayback(c)
  PROVE  Sessions'
<1>1. gw.at = "select" /\ gw'.at \in {"select", "route"}
  BY DEF RoutePlayback, Receive, Typed, LoopTyped
<1> QED
  BY <1>1 DEF RoutePlayback, Sessions, PendingXorWorker, SessionRequested,
              Leaving, Closed, HasPending, HasWorker, Open

LEMMA DeliverSessions ==
  ASSUME Typed, Sessions, Deliver
  PROVE  Sessions'
<1>1. CASE DeliverPlayback \/ DeliverShutdown
  <2>1. UNCHANGED << pending, workers, requested >>
    BY <1>1 DEF DeliverPlayback, DeliverShutdown
  <2>2. \/ gw.at = "route" /\ gw'.at = "select"
        \/ gw.at = "stop" /\ gw'.at = "drain"
    <3>1. CASE DeliverPlayback
      BY <3>1 DEF DeliverPlayback, Selecting
    <3>2. CASE DeliverShutdown
      BY <3>2 DEF DeliverShutdown, Typed, LoopTyped
    <3> QED BY <1>1, <3>1, <3>2
  <2>3. gw'.at # "leave" /\ (Open' <=> Open)
    BY <2>2 DEF Open
  <2> QED
    BY <2>1, <2>3 DEF Sessions, PendingXorWorker, SessionRequested, Leaving, Closed,
                HasPending, HasWorker
<1>2. CASE DeliverLeave
  <2> DEFINE g == call[gw.for].guild
  <2>1. gw.for \in Issued /\ gw.at = "leave" /\ gw'.at = "select"
    BY <1>2 DEF DeliverLeave, Typed, LoopTyped, Selecting
  <2>2. g \in Guilds
    BY <2>1, IssuedRequest DEF Issued, Request, Typed
  <2>3. ~ HasPending(g) /\ ~ HasWorker(g) /\ UNCHANGED << pending, workers >>
    BY <1>2, <2>1 DEF Sessions, Leaving, DeliverLeave
  <2>4. \A h \in Guilds \ {g} : requested'[h] = requested[h]
    BY <1>2 DEF DeliverLeave, Typed, MapsTyped
  <2> QED
    BY <2>1, <2>2, <2>3, <2>4, SessionEnded DEF HasPending, HasWorker
<1> QED BY <1>1, <1>2 DEF Deliver

LEMMA DispatchSessions ==
  ASSUME Typed, Sessions, NEW g \in Guilds,
         StartWorker(g) \/ ServerUnavailable(g)
  PROVE  Sessions'
<1>1. HasPending(g) /\ ~ HasWorker(g) /\ gw.at = "select" /\ UNCHANGED gw
  BY DEF StartWorker, ServerUnavailable, Sessions, PendingXorWorker
<1>2. pending'[g].id = 0 /\ \A h \in Guilds \ {g} : pending'[h] = pending[h]
  BY DEF StartWorker, ServerUnavailable, Typed, MapsTyped, NoPending
<1>3. CASE StartWorker(g)
  <2>1. /\ workers'[g].channel = pending[g].channel
        /\ \A h \in Guilds \ {g} : workers'[h] = workers[h]
        /\ UNCHANGED requested
    BY <1>3 DEF StartWorker, Typed, MapsTyped
  <2> QED
    BY <1>1, <1>2, <2>1
       DEF Sessions, PendingXorWorker, SessionRequested, Leaving, Closed,
           HasPending, HasWorker, Open
<1>4. CASE ServerUnavailable(g)
  <2>1. \A h \in Guilds \ {g} : requested'[h] = requested[h]
    BY <1>4, DisconnectOther DEF ServerUnavailable
  <2>2. UNCHANGED workers
    BY <1>4 DEF ServerUnavailable
  <2> QED BY <1>1, <1>2, <2>1, <2>2, SessionEnded DEF HasWorker
<1> QED BY <1>3, <1>4

LEMMA HandleEventSessions ==
  ASSUME Typed, Sessions, HandleEvent
  PROVE  Sessions'
<1> DEFINE e == Head(events)
           g == e.guild
<1>1. e \in Event /\ g \in Guilds /\ e.id # 0
  <2>1. events # << >> /\ events \in Seq(Event)
    BY DEF HandleEvent, JoinTimedOut, Stopped, ReceiveEvent, Typed, TasksTyped
  <2>2. e \in Event
    BY <2>1, TakeFirst
  <2> QED BY <2>2 DEF Event, Ids
<1>2. gw.at = "select" /\ UNCHANGED gw
  BY DEF HandleEvent, JoinTimedOut, Stopped, ReceiveEvent
<1>3. CASE UNCHANGED << pending, workers, requested >>
  BY <1>2, <1>3, SessionsFrame
<1>4. CASE JoinTimedOut /\ pending[g].id = e.id
  <2>1. ~ HasWorker(g) /\ UNCHANGED workers
    BY <1>1, <1>4 DEF JoinTimedOut, HasPending, Sessions, PendingXorWorker
  <2>2. pending'[g].id = 0 /\ \A h \in Guilds \ {g} : pending'[h] = pending[h]
    BY <1>1, <1>4 DEF JoinTimedOut, Typed, MapsTyped, NoPending
  <2>3. \A h \in Guilds \ {g} : requested'[h] = requested[h]
    BY <1>1, <1>4, DisconnectOther DEF JoinTimedOut
  <2> QED
    BY <1>1, <1>2, <2>1, <2>2, <2>3, SessionEnded DEF HasWorker
<1>5. CASE Stopped /\ workers[g].id = e.id
  <2>1. ~ HasPending(g) /\ UNCHANGED pending
    BY <1>1, <1>5 DEF Stopped, HasWorker, Sessions, PendingXorWorker
  <2>2. workers'[g].id = 0 /\ \A h \in Guilds \ {g} : workers'[h] = workers[h]
    BY <1>1, <1>5 DEF Stopped, Typed, MapsTyped, NoHandle
  <2>3. \A h \in Guilds \ {g} : requested'[h] = requested[h]
    BY <1>1, <1>5, DisconnectOther DEF Stopped
  <2> QED
    BY <1>1, <1>2, <2>1, <2>2, <2>3, SessionEnded DEF HasPending
<1> QED BY <1>3, <1>4, <1>5 DEF HandleEvent, JoinTimedOut, Stopped

LEMMA ShutdownSessions ==
  ASSUME Typed, Sessions, CtrlC \/ Stop
  PROVE  Sessions'
<1>1. gw'.at \in {"drain", "stop", "join", "done"}
  BY DEF CtrlC, Stop, ShutdownWorker, TasksJoined, CommandsJoined, Typed,
         LoopTyped
<1>2. \A g \in Guilds : pending'[g].id = 0 /\ workers'[g].id = 0
  <2>1. CASE CtrlC
    BY <2>1 DEF CtrlC, NoPending, NoHandle
  <2>2. CASE Stop
    BY <2>2 DEF Stop, ShutdownWorker, TasksJoined, CommandsJoined, Sessions,
                Closed, Open, HasPending, HasWorker
  <2> QED BY <2>1, <2>2
<1> QED
  BY <1>1, <1>2 DEF Sessions, PendingXorWorker, SessionRequested, Leaving,
                    Closed, HasPending, HasWorker

(* Sessions is inductive together with Typed. *)
THEOREM SessionsCorrect == Spec => []Sessions
<1>1. Typed /\ Sessions /\ [Next]_vars => Sessions'
  <2> SUFFICES ASSUME Typed, Sessions, [Next]_vars PROVE Sessions'
    OBVIOUS
  <2>1. CASE HandleCall
    BY <2>1, JoinVoiceSessions, LeaveVoiceSessions, RoutePlaybackSessions
       DEF HandleCall
  <2>2. CASE Dispatch
    BY <2>2, DispatchSessions, SessionsQuiet DEF Dispatch
  <2> QED
    BY <2>1, <2>2, SessionsQuiet, HandleEventSessions, DeliverSessions,
       ShutdownSessions
       DEF Next, Ended
<1> QED BY <1>1, SessionsInit, TypedCorrect, PTL DEF Spec

(* A guild is never both joining and connected. *)
THEOREM JoiningXorConnected == Spec => []PendingXorWorker
<1>1. Sessions => PendingXorWorker
  BY DEF Sessions
<1> QED BY <1>1, SessionsCorrect, PTL

(* No late timer, no end of an earlier session and no failed update ever   *)
(* makes Discord's view of a guild differ from its session.                *)
THEOREM SessionsUndisturbed == Spec => []SessionRequested
<1>1. Sessions => SessionRequested
  BY DEF Sessions
<1> QED BY <1>1, SessionsCorrect, PTL

------------------------------------------------------------------------------
(* Part 4: the supervision of workers *)

Stops(S) == {e \in S : e.kind = "Stopped"}

(* A Stopped event names a task of its guild that is over, and a            *)
(* generation is used once.                                                 *)
StoppedHasEnded ==
  \A e \in Stops(ToSet(events)) :
    worker[e.id].at = "ended" /\ worker[e.id].guild = e.guild

Unused == \A id \in Ids : id > nextId => worker[id] = NoTask

NoneLeft == Open => gw.left = {}

Supervised ==
  NoOrphan /\ EntryHasWorker /\ StoppedHasEnded /\ Unused /\ NoneLeft

LEMMA SupervisedInit == Init => Supervised
<1> SUFFICES ASSUME Init PROVE Supervised
  OBVIOUS
<1>1. NoOrphan /\ Unused
  BY DEF Init, NoOrphan, Unused, NoTask
<1>2. EntryHasWorker
  BY DEF Init, EntryHasWorker, HasWorker, NoHandle
<1>3. StoppedHasEnded
  <2>1. ToSet(events) = {}
    BY DEF Init, ToSet
  <2> QED BY <2>1 DEF StoppedHasEnded, Stops
<1>4. NoneLeft
  BY DEF Init, NoneLeft, Selecting
<1> QED BY <1>1, <1>2, <1>3, <1>4 DEF Supervised

(* Steps that neither touch a worker nor forget that one was told to stop. *)
LEMMA SupervisedFrame ==
  ASSUME Typed, Typed', Supervised, UNCHANGED << worker, workers >>,
         Stops(ToSet(events)') = Stops(ToSet(events)),
         nextId' >= nextId, gw'.left = gw.left, Open' => Open,
         gw.at \in {"leave", "stop"} => gw'.at = gw.at /\ gw'.to = gw.to
  PROVE  Supervised'
<1>1. NoOrphan'
  BY DEF Supervised, NoOrphan, ToldToStop
<1>2. EntryHasWorker'
  BY DEF Supervised, EntryHasWorker, HasWorker, Live, Stops
<1>3. StoppedHasEnded'
  BY DEF Supervised, StoppedHasEnded
<1>4. Unused'
  BY DEF Supervised, Unused, Typed, MapsTyped, Ids
<1>5. NoneLeft'
  BY DEF Supervised, NoneLeft
<1> QED BY <1>1, <1>2, <1>3, <1>4, <1>5 DEF Supervised

LEMMA SupervisedQuiet ==
  ASSUME Typed, Typed', Supervised, UNCHANGED << worker, workers, events >>,
         \/ \E c \in Calls : Issue(c) \/ JoinVoice(c) \/ RoutePlayback(c)
         \/ \E c \in Calls : LeaveVoice(c)
         \/ Ready \/ UNCHANGED vars \/ TasksJoined \/ CommandsJoined
         \/ \E g \in Guilds : ServerUnavailable(g)
  PROVE  Supervised'
<1>1. Stops(ToSet(events)') = Stops(ToSet(events))
  OBVIOUS
<1>2. nextId' >= nextId
  <2>1. nextId' = nextId \/ nextId' = nextId + 1
    BY DEF Issue, JoinVoice, JoinRefused, JoinRequested, RoutePlayback,
           LeaveVoice, Ready, vars, TasksJoined, CommandsJoined,
           ServerUnavailable
  <2> QED BY <2>1 DEF Typed, MapsTyped
<1>3. /\ gw'.left = gw.left /\ (Open' => Open)
      /\ gw.at \in {"leave", "stop"} => gw'.at = gw.at /\ gw'.to = gw.to
  <2>1. CASE UNCHANGED gw
    BY <2>1 DEF Open
  <2>2. CASE /\ gw.at = "select" /\ gw'.at \in {"route", "leave"}
             /\ gw'.left = gw.left
    BY <2>2 DEF Open
  <2>3. CASE TasksJoined \/ CommandsJoined
    BY <2>3 DEF TasksJoined, CommandsJoined, Typed, LoopTyped, Open
  <2>4. ASSUME NEW c \in Calls, RoutePlayback(c) \/ LeaveVoice(c)
        PROVE  \/ UNCHANGED gw
               \/ /\ gw.at = "select" /\ gw'.at \in {"route", "leave"}
                  /\ gw'.left = gw.left
    BY <2>4 DEF RoutePlayback, LeaveVoice, LeavePending, LeaveNothing,
                LeaveWorker, Receive, Typed, LoopTyped
  <2> QED
    BY <2>1, <2>2, <2>3, <2>4
       DEF Issue, JoinVoice, JoinRefused, JoinRequested, Ready, vars,
           ServerUnavailable
<1> QED BY <1>1, <1>2, <1>3, SupervisedFrame

LEMMA LeaveVoiceSupervised ==
  ASSUME Typed, Typed', Supervised, NEW c \in Calls, LeaveVoice(c)
  PROVE  Supervised'
<1> DEFINE g == call[c].guild
<1>1. gw.at = "select" /\ g \in Guilds
  BY Received DEF LeaveVoice, Receive, Request
<1>2. CASE LeavePending(c, g) \/ LeaveNothing(c, g)
  BY <1>2, SupervisedQuiet DEF LeaveVoice, LeavePending, LeaveNothing
<1>3. CASE LeaveWorker(c, g)
  <2>1. /\ gw'.at = "leave" /\ gw'.to = workers[g].id /\ gw'.left = gw.left
        /\ workers' = [workers EXCEPT ![g] = NoHandle]
        /\ UNCHANGED << worker, events, nextId >>
    BY <1>3 DEF LeaveWorker, LeaveVoice, Typed, LoopTyped
  <2>2. NoOrphan'
    <3> SUFFICES ASSUME NEW id \in Ids,
                        worker[id].at \in {"connecting", "running"}
                 PROVE  (workers[worker[id].guild].id = id \/ ToldToStop(id))'
      BY <2>1 DEF NoOrphan
    <3>1. worker[id].guild \in Guilds
      BY StartedTask DEF Started, IssuedTask
    <3>2. workers[worker[id].guild].id = id \/ ToldToStop(id)
      BY DEF Supervised, NoOrphan
    <3>3. CASE workers[worker[id].guild].id = id /\ worker[id].guild = g
      BY <2>1, <3>3 DEF ToldToStop
    <3>4. CASE workers[worker[id].guild].id = id /\ worker[id].guild # g
      BY <2>1, <3>1, <3>4 DEF Typed, MapsTyped
    <3>5. CASE ToldToStop(id)
      BY <1>1, <2>1, <3>5 DEF ToldToStop
    <3> QED BY <3>2, <3>3, <3>4, <3>5
  <2>3. EntryHasWorker'
    BY <2>1 DEF Supervised, EntryHasWorker, HasWorker, Live, NoHandle, Typed,
                MapsTyped
  <2>4. StoppedHasEnded' /\ Unused'
    BY <2>1 DEF Supervised, StoppedHasEnded, Unused
  <2>5. NoneLeft'
    BY <1>1, <2>1 DEF Supervised, NoneLeft, Open
  <2> QED BY <2>2, <2>3, <2>4, <2>5 DEF Supervised
<1> QED BY <1>2, <1>3 DEF LeaveVoice

(* What a step may do to the tasks, short of starting or ending one. *)
TaskKept(id) ==
  /\ worker'[id].guild = worker[id].guild
  /\ worker'[id].channel = worker[id].channel
  /\ worker[id] = NoTask => worker'[id] = NoTask
  /\ worker[id].at = "ended" => worker'[id].at = "ended"
  /\ Live(id) => Live(id)'
  /\ worker'[id].at \in {"connecting", "running"} =>
       /\ worker[id].at \in {"connecting", "running"}
       /\ ToldToStop(id) => ToldToStop(id)'

LEMMA TasksSupervised ==
  ASSUME Typed, Typed', Supervised, UNCHANGED << workers, events, nextId >>,
         \A id \in Ids : TaskKept(id), NoneLeft'
  PROVE  Supervised'
<1>1. NoOrphan'
  <2> SUFFICES ASSUME NEW id \in Ids,
                      worker'[id].at \in {"connecting", "running"}
               PROVE  (workers[worker[id].guild].id = id \/ ToldToStop(id))'
    BY DEF NoOrphan
  <2>1. TaskKept(id)
    OBVIOUS
  <2>2. workers[worker[id].guild].id = id \/ ToldToStop(id)
    BY <2>1 DEF TaskKept, Supervised, NoOrphan
  <2> QED BY <2>1, <2>2 DEF TaskKept
<1>2. EntryHasWorker'
  <2> SUFFICES ASSUME NEW g \in Guilds, HasWorker(g)
               PROVE  /\ worker'[workers[g].id].guild = g
                      /\ worker'[workers[g].id].channel = workers[g].channel
                      /\ \/ Live(workers[g].id)'
                         \/ \E e \in ToSet(events) :
                              e.kind = "Stopped" /\ e.id = workers[g].id
    BY DEF EntryHasWorker, HasWorker, Live
  <2>1. workers[g].id \in Ids
    BY HandleTyped
  <2>2. TaskKept(workers[g].id)
    BY <2>1
  <2> QED BY <2>1, <2>2 DEF TaskKept, Supervised, EntryHasWorker
<1>3. StoppedHasEnded'
  <2> SUFFICES ASSUME NEW e \in Stops(ToSet(events))
               PROVE  worker'[e.id].at = "ended" /\ worker'[e.id].guild = e.guild
    BY DEF StoppedHasEnded
  <2>1. e.id \in Ids
    BY Elements DEF Stops, Typed, TasksTyped, Event
  <2>2. TaskKept(e.id)
    BY <2>1
  <2> QED BY <2>2 DEF TaskKept, Supervised, StoppedHasEnded
<1>4. Unused'
  BY DEF TaskKept, Supervised, Unused
<1> QED BY <1>1, <1>2, <1>3, <1>4 DEF Supervised

LEMMA TimerFiresSupervised ==
  ASSUME Typed, Typed', Supervised, NEW t \in timers, TimerFires(t)
  PROVE  Supervised'
<1> DEFINE e == [kind |-> "JoinTimedOut", guild |-> t.guild, id |-> t.id,
                 reason |-> "none"]
<1>1. e \in Event
  BY DEF Typed, MapsTyped, Event
<1>2. events' = Append(events, e) /\ e.kind = "JoinTimedOut"
  BY DEF TimerFires
<1> HIDE DEF e
<1>3. ToSet(events') = ToSet(events) \union {e}
  BY <1>1, <1>2, AddLast DEF Typed, TasksTyped
<1>4. Stops(ToSet(events)') = Stops(ToSet(events))
  BY <1>2, <1>3 DEF Stops
<1>5. UNCHANGED << gw, workers, worker, nextId >>
  BY DEF TimerFires
<1> QED BY <1>4, <1>5, SupervisedFrame DEF Open, Typed, MapsTyped

(* The event that the loop takes off its channel. *)
LEMMA ReceivedEvent ==
  ASSUME Typed, NEW kind, ReceiveEvent(kind)
  PROVE  /\ Head(events) \in Event /\ Head(events).kind = kind
         /\ ToSet(events) = {Head(events)} \union ToSet(events')
<1>1. events # << >> /\ events \in Seq(Event) /\ events' = Tail(events)
  BY DEF ReceiveEvent, Typed, TasksTyped
<1>2. Head(events) \in Event /\ ToSet(events) = {Head(events)} \union ToSet(Tail(events))
  BY <1>1, TakeFirst
<1> QED BY <1>1, <1>2 DEF ReceiveEvent

LEMMA JoinTimedOutSupervised ==
  ASSUME Typed, Typed', Supervised, JoinTimedOut
  PROVE  Supervised'
<1>1. /\ Head(events).kind = "JoinTimedOut"
      /\ ToSet(events) = {Head(events)} \union ToSet(events')
  BY ReceivedEvent DEF JoinTimedOut
<1>2. Stops(ToSet(events)') = Stops(ToSet(events))
  BY <1>1 DEF Stops
<1>3. UNCHANGED << gw, workers, worker, nextId >>
  BY DEF JoinTimedOut
<1> QED BY <1>2, <1>3, SupervisedFrame DEF Open, Typed, MapsTyped

LEMMA StoppedSupervised ==
  ASSUME Typed, Typed', Supervised, Stopped
  PROVE  Supervised'
<1> DEFINE e == Head(events)
           g == e.guild
<1>1. /\ e \in Event /\ e.kind = "Stopped"
      /\ ToSet(events) = {e} \union ToSet(events')
  BY ReceivedEvent DEF Stopped
<1>2. e.id \in Ids /\ g \in Guilds
  BY <1>1 DEF Event
<1>3. worker[e.id].at = "ended" /\ worker[e.id].guild = g
  BY <1>1 DEF Supervised, StoppedHasEnded, Stops
<1>4. /\ UNCHANGED << gw, worker, nextId >>
      /\ workers'[g].id # e.id
      /\ \A h \in Guilds : \/ workers'[h] = workers[h]
                           \/ h = g /\ workers[g].id = e.id /\ workers'[g].id = 0
  BY <1>2 DEF Stopped, NoHandle, Typed, MapsTyped, Ids
<1> HIDE DEF e, g
<1>5. NoOrphan'
  <2> SUFFICES ASSUME NEW id \in Ids,
                      worker[id].at \in {"connecting", "running"}
               PROVE  (workers[worker[id].guild].id = id \/ ToldToStop(id))'
    BY <1>4 DEF NoOrphan
  <2>1. worker[id].guild \in Guilds
    BY StartedTask DEF Started, IssuedTask
  <2>2. workers[worker[id].guild].id = id \/ ToldToStop(id)
    BY DEF Supervised, NoOrphan
  <2>3. id # e.id
    BY <1>3
  <2> QED BY <1>4, <2>1, <2>2, <2>3 DEF ToldToStop
<1>6. EntryHasWorker'
  <2> SUFFICES ASSUME NEW h \in Guilds, HasWorker(h)'
               PROVE  /\ worker[workers'[h].id].guild = h
                      /\ worker[workers'[h].id].channel = workers'[h].channel
                      /\ \/ Live(workers'[h].id)
                         \/ \E d \in ToSet(events') :
                              d.kind = "Stopped" /\ d.id = workers'[h].id
    BY <1>4 DEF EntryHasWorker, Live
  <2>1. workers'[h] = workers[h] /\ HasWorker(h)
    BY <1>4 DEF HasWorker
  <2>2. /\ worker[workers[h].id].guild = h
        /\ worker[workers[h].id].channel = workers[h].channel
        /\ \/ Live(workers[h].id)
           \/ \E d \in ToSet(events) : d.kind = "Stopped" /\ d.id = workers[h].id
    BY <2>1 DEF Supervised, EntryHasWorker
  <2>3. workers[h].id # e.id
    BY <1>3, <1>4, <2>1, <2>2
  <2> QED BY <1>1, <2>1, <2>2, <2>3
<1>7. StoppedHasEnded'
  BY <1>1, <1>4 DEF Supervised, StoppedHasEnded, Stops
<1>8. Unused' /\ NoneLeft'
  BY <1>4 DEF Supervised, Unused, NoneLeft, Open
<1> QED BY <1>5, <1>6, <1>7, <1>8 DEF Supervised

LEMMA StartWorkerSupervised ==
  ASSUME Typed, Typed', Sessions, Supervised, NEW g \in Guilds, StartWorker(g)
  PROVE  Supervised'
<1> DEFINE new == nextId + 1
<1>1. new \in Ids /\ new > nextId /\ new # 0 /\ nextId \in Nat
  BY BoundAssumption DEF StartWorker, Typed, MapsTyped, Ids
<1>2. worker[new] = NoTask
  BY <1>1 DEF Supervised, Unused
<1>3. /\ HasPending(g) /\ ~ HasWorker(g) /\ nextId' = new
      /\ UNCHANGED << gw, events >>
  BY DEF StartWorker, Sessions, PendingXorWorker
<1>4. /\ workers'[g].id = new
      /\ workers'[g].channel = pending[g].channel
      /\ \A h \in Guilds \ {g} : workers'[h] = workers[h]
  BY DEF StartWorker, Typed, MapsTyped
<1>5. /\ worker'[new].at = "connecting" /\ worker'[new].guild = g
      /\ worker'[new].channel = pending[g].channel
      /\ \A id \in Ids \ {new} : worker'[id] = worker[id]
  BY <1>1 DEF StartWorker, NewTask, Typed, TasksTyped
<1> HIDE DEF new
<1>6. NoOrphan'
  <2> SUFFICES ASSUME NEW id \in Ids,
                      worker'[id].at \in {"connecting", "running"}
               PROVE  (workers[worker[id].guild].id = id \/ ToldToStop(id))'
    BY DEF NoOrphan
  <2>1. CASE id = new
    BY <1>4, <1>5, <2>1
  <2>2. CASE id # new
    <3>1. worker'[id] = worker[id]
      BY <1>5, <2>2
    <3>2. worker[id].guild \in Guilds
      BY <3>1, StartedTask DEF Started, IssuedTask
    <3>3. workers[worker[id].guild].id = id \/ ToldToStop(id)
      BY <3>1 DEF Supervised, NoOrphan
    <3>4. CASE workers[worker[id].guild].id = id
      BY <1>3, <1>4, <3>1, <3>2, <3>4 DEF HasWorker, Ids
    <3>5. CASE ToldToStop(id)
      BY <1>3, <3>1, <3>5 DEF ToldToStop
    <3> QED BY <3>3, <3>4, <3>5
  <2> QED BY <2>1, <2>2
<1>7. EntryHasWorker'
  <2> SUFFICES ASSUME NEW h \in Guilds, HasWorker(h)'
               PROVE  /\ worker'[workers'[h].id].guild = h
                      /\ worker'[workers'[h].id].channel = workers'[h].channel
                      /\ \/ worker'[workers'[h].id].at
                               \in {"connecting", "running", "stopping"}
                         \/ \E d \in ToSet(events) :
                              d.kind = "Stopped" /\ d.id = workers'[h].id
    BY <1>3 DEF EntryHasWorker, Live
  <2>1. CASE h = g
    BY <1>4, <1>5, <2>1
  <2>2. CASE h # g
    <3>1. workers'[h] = workers[h] /\ HasWorker(h)
      BY <1>4, <2>2 DEF HasWorker
    <3>2. workers[h].id \in Ids /\ workers[h].id # new
      BY <1>2, <3>1, HandleTyped DEF Typed, NamesStarted, Started, NoTask
    <3>3. worker'[workers[h].id] = worker[workers[h].id]
      BY <1>5, <3>2
    <3> QED BY <3>1, <3>3 DEF Supervised, EntryHasWorker, Live
  <2> QED BY <2>1, <2>2
<1>8. StoppedHasEnded'
  <2> SUFFICES ASSUME NEW e \in Stops(ToSet(events))
               PROVE  worker'[e.id].at = "ended" /\ worker'[e.id].guild = e.guild
    BY <1>3 DEF StoppedHasEnded
  <2>1. e.id \in Ids
    BY Elements DEF Stops, Typed, TasksTyped, Event
  <2>2. worker[e.id].at = "ended" /\ worker[e.id].guild = e.guild
    BY DEF Supervised, StoppedHasEnded
  <2> QED BY <1>2, <1>5, <2>1, <2>2 DEF NoTask
<1>9. Unused'
  <2> SUFFICES ASSUME NEW id \in Ids, id > new PROVE worker'[id] = NoTask
    BY <1>3 DEF Unused
  <2>1. id > nextId /\ id # new
    BY <1>1 DEF Ids, new
  <2> QED BY <1>5, <2>1 DEF Supervised, Unused
<1>10. NoneLeft'
  BY <1>3 DEF Supervised, NoneLeft, Open
<1> QED BY <1>6, <1>7, <1>8, <1>9, <1>10 DEF Supervised

(* A handler sends to the worker it waits for. *)
LEMMA SendSupervised ==
  ASSUME Typed, Typed', Supervised, NEW m \in Issued \union {Shutdown},
         NEW id \in Ids, gw.to = id, Started(id), Send(id, m),
         UNCHANGED << workers, events, nextId >>, gw'.left = gw.left,
         Open' => Open, gw.at \in {"leave", "stop"} => m = Shutdown
  PROVE  Supervised'
<1> DEFINE box == worker[id].mailbox
<1>1. worker[id] \in IssuedTask /\ box \in Seq(Issued \union {Shutdown})
  BY StartedTask DEF IssuedTask
<1>2. Append(box, m) \in Seq(Issued \union {Shutdown})
      /\ ToSet(Append(box, m)) = ToSet(box) \union {m}
  BY <1>1, AddLast
<1>3. NoneLeft'
  BY DEF Supervised, NoneLeft
<1>4. ASSUME NEW i \in Ids PROVE TaskKept(i)
  <2>1. CASE worker'[i] = worker[i] /\ (i # id \/ worker[id].at = "ended")
    BY <2>1 DEF TaskKept, Live, ToldToStop
  <2>2. CASE i = id /\ worker[id].at # "ended"
    <3>1. worker'[id] = [worker[id] EXCEPT !.mailbox = Append(box, m)]
      BY <2>2 DEF Send, Typed, TasksTyped
    <3>2. /\ worker'[id].at = worker[id].at
          /\ worker'[id].guild = worker[id].guild
          /\ worker'[id].channel = worker[id].channel
          /\ worker'[id].mailbox = Append(box, m)
      BY <1>1, <3>1 DEF IssuedTask
    <3>3. ToldToStop(id) => Shutdown \in ToSet(worker'[id].mailbox) \/ id \in gw'.left
      BY <1>2, <3>2 DEF ToldToStop
    <3>4. ToldToStop(id) => ToldToStop(id)'
      BY <3>3 DEF ToldToStop
    <3>5. worker[id] # NoTask
      BY DEF Started, NoTask
    <3> QED BY <2>2, <3>2, <3>4, <3>5 DEF TaskKept, Live
  <2>3. worker'[i] = worker[i] \/ (i = id /\ worker[id].at # "ended")
    BY DEF Send, Typed, TasksTyped
  <2> QED BY <2>1, <2>2, <2>3 DEF Send
<1> QED BY <1>3, <1>4, TasksSupervised

LEMMA DeliverSupervised ==
  ASSUME Typed, Typed', Supervised, Deliver
  PROVE  Supervised'
<1>1. gw.to \in Ids /\ Started(gw.to)
  BY DEF Deliver, DeliverPlayback, DeliverLeave, DeliverShutdown, Typed,
         LoopTyped, NamesStarted
<1>2. UNCHANGED << workers, events, nextId >>
  BY DEF Deliver, DeliverPlayback, DeliverLeave, DeliverShutdown
<1>3. CASE DeliverPlayback \/ DeliverLeave
  <2>1. gw.at \in {"route", "leave"} /\ gw' = Selecting
    BY <1>3 DEF DeliverPlayback, DeliverLeave
  <2>2. gw'.left = gw.left /\ Open
    BY <2>1 DEF Supervised, NoneLeft, Open, Selecting
  <2>3. CASE DeliverPlayback
    <3>1. gw.at = "route" /\ gw.for \in Issued /\ Send(gw.to, gw.for)
      BY <2>3 DEF DeliverPlayback, Typed, LoopTyped
    <3> QED BY <1>1, <1>2, <2>2, <3>1, SendSupervised
  <2>4. CASE DeliverLeave
    <3>1. Send(gw.to, Shutdown)
      BY <2>4 DEF DeliverLeave
    <3> QED BY <1>1, <1>2, <2>2, <3>1, SendSupervised
  <2> QED BY <1>3, <2>3, <2>4
<1>4. CASE DeliverShutdown
  <2>1. Send(gw.to, Shutdown) /\ gw'.left = gw.left /\ gw'.at = "drain"
    BY <1>4 DEF DeliverShutdown, Typed, LoopTyped
  <2> QED BY <1>1, <1>2, <2>1, SendSupervised DEF Open
<1> QED BY <1>3, <1>4 DEF Deliver

(* A worker's own steps keep a Shutdown that it has not taken. *)
LEMMA WorkerStepSupervised ==
  ASSUME Typed, Typed', Supervised, NEW id \in Ids, Started(id),
         NEW task, WorkerStep(id, task),
         task.guild = worker[id].guild, task.channel = worker[id].channel,
         worker[id].at # "ended", task.at \in {"running", "stopping"},
         task.at = "running" =>
           /\ worker[id].at \in {"connecting", "running"}
           /\ Shutdown \in ToSet(worker[id].mailbox) =>
                Shutdown \in ToSet(task.mailbox)
  PROVE  Supervised'
<1>1. UNCHANGED << gw, workers, events, nextId >>
  BY DEF WorkerStep
<1>2. worker'[id] = task /\ \A i \in Ids \ {id} : worker'[i] = worker[i]
  BY DEF WorkerStep, Typed, TasksTyped
<1>3. ASSUME NEW i \in Ids PROVE TaskKept(i)
  <2>1. CASE i # id
    BY <1>1, <1>2, <2>1 DEF TaskKept, Live, ToldToStop
  <2>2. CASE i = id
    <3>1. worker[id] # NoTask
      BY DEF Started, NoTask
    <3>2. task.at = "running" /\ ToldToStop(id) => ToldToStop(id)'
      BY <1>1, <1>2 DEF ToldToStop
    <3> QED BY <1>2, <2>2, <3>1, <3>2 DEF TaskKept, Live
  <2> QED BY <2>1, <2>2
<1>4. NoneLeft'
  BY <1>1 DEF Supervised, NoneLeft, Open
<1> QED BY <1>1, <1>3, <1>4, TasksSupervised

LEMMA WorkerSupervised ==
  ASSUME Typed, Typed', Supervised, NEW id \in Ids,
         \/ Connected(id) \/ ConnectFails(id) \/ HandleCommand(id)
         \/ SessionEnds(id)
  PROVE  Supervised'
<1>1. worker[id].at \in {"connecting", "running"}
  BY DEF Connected, ConnectFails, HandleCommand, ConnectAborted,
         HandlePlayback, HandleShutdown, SessionEnds
<1>2. worker[id] \in IssuedTask /\ Started(id)
  BY <1>1, StartedTask DEF Started
<1> DEFINE Ok(task) ==
             /\ task.guild = worker[id].guild
             /\ task.channel = worker[id].channel
             /\ task.at \in {"running", "stopping"}
             /\ task.at = "running" /\ Shutdown \in ToSet(worker[id].mailbox)
                  => Shutdown \in ToSet(task.mailbox)
<1>3. \E task : WorkerStep(id, task) /\ Ok(task)
  <2>1. CASE Connected(id)
    <3>1. WorkerStep(id, [worker[id] EXCEPT !.at = "running"])
      BY <2>1 DEF Connected
    <3> DEFINE task == [worker[id] EXCEPT !.at = "running"]
    <3>2. /\ task.guild = worker[id].guild /\ task.channel = worker[id].channel
          /\ task.at = "running" /\ task.mailbox = worker[id].mailbox
      BY <1>2 DEF IssuedTask
    <3>3. Ok(task)
      BY <3>2
    <3> HIDE DEF task, Ok
    <3> QED BY <3>1, <3>3 DEF task
  <2>2. ASSUME NEW reason PROVE Ok(Stopping(id, reason))
    BY <1>2 DEF Stopping, IssuedTask
  <2>3. CASE ConnectAborted(id) \/ HandleShutdown(id)
    <3> DEFINE task == [Stopping(id, "Requested") EXCEPT !.mailbox = Tail(@)]
    <3>1. WorkerStep(id, task)
      BY <2>3 DEF ConnectAborted, HandleShutdown
    <3>2. /\ task.guild = worker[id].guild /\ task.channel = worker[id].channel
          /\ task.at = "stopping"
      BY <1>2 DEF IssuedTask, Stopping
    <3>3. Ok(task)
      BY <3>2
    <3> HIDE DEF task, Ok
    <3> QED BY <3>1, <3>3
  <2>4. CASE HandlePlayback(id)
    <3> DEFINE rest == [worker[id] EXCEPT !.mailbox = Tail(@)]
               fails == [rest EXCEPT !.at = "stopping", !.reason = "VoiceFailed"]
    <3>1. /\ worker[id].at = "running" /\ worker[id].mailbox # << >>
          /\ Head(worker[id].mailbox) # Shutdown
          /\ WorkerStep(id, rest) \/ WorkerStep(id, fails)
      BY <2>4 DEF HandlePlayback
    <3>2. /\ rest.guild = worker[id].guild /\ rest.channel = worker[id].channel
          /\ rest.at = worker[id].at /\ rest.mailbox = Tail(worker[id].mailbox)
      BY <1>2 DEF IssuedTask
    <3>3. /\ fails.guild = worker[id].guild
          /\ fails.channel = worker[id].channel /\ fails.at = "stopping"
      BY <1>2 DEF IssuedTask
    <3>4. Shutdown \in ToSet(worker[id].mailbox)
            => Shutdown \in ToSet(Tail(worker[id].mailbox))
      BY <1>2, <3>1, TakeFirst DEF IssuedTask
    <3> HIDE DEF rest, fails
    <3>5. Ok(rest) /\ Ok(fails)
      BY <3>1, <3>2, <3>3, <3>4
    <3> HIDE DEF Ok
    <3> QED BY <3>1, <3>5
  <2> HIDE DEF Ok
  <2> QED
    BY <2>1, <2>2, <2>3, <2>4 DEF ConnectFails, SessionEnds, HandleCommand
<1> QED BY <1>1, <1>2, <1>3, WorkerStepSupervised

LEMMA SendStoppedSupervised ==
  ASSUME Typed, Typed', Supervised, NEW id \in Ids, SendStopped(id)
  PROVE  Supervised'
<1> DEFINE e == [kind |-> "Stopped", guild |-> worker[id].guild, id |-> id,
                 reason |-> worker[id].reason]
<1>1. worker[id].at = "stopping" /\ worker[id] \in IssuedTask
  BY StartedTask DEF SendStopped, Started
<1>2. e \in Event
  BY <1>1 DEF IssuedTask, Event
<1>3. /\ events' = Append(events, e) /\ e.kind = "Stopped" /\ e.id = id
      /\ e.guild = worker[id].guild
  BY DEF SendStopped
<1> HIDE DEF e
<1>4. ToSet(events') = ToSet(events) \union {e}
  BY <1>2, <1>3, AddLast DEF Typed, TasksTyped
<1>5. UNCHANGED << gw, workers, nextId >>
  BY DEF SendStopped
<1>6. /\ worker'[id].at = "ended" /\ worker'[id].guild = worker[id].guild
      /\ worker'[id].channel = worker[id].channel
      /\ \A i \in Ids \ {id} : worker'[i] = worker[i]
  BY <1>1 DEF SendStopped, Typed, TasksTyped, IssuedTask
<1>7. NoOrphan'
  <2> SUFFICES ASSUME NEW i \in Ids, worker'[i].at \in {"connecting", "running"}
               PROVE  (workers[worker[i].guild].id = i \/ ToldToStop(i))'
    BY DEF NoOrphan
  <2>1. worker'[i] = worker[i]
    BY <1>6
  <2>2. workers[worker[i].guild].id = i \/ ToldToStop(i)
    BY <2>1 DEF Supervised, NoOrphan
  <2> QED BY <1>5, <2>1, <2>2 DEF ToldToStop
<1>8. EntryHasWorker'
  <2> SUFFICES ASSUME NEW g \in Guilds, HasWorker(g)
               PROVE  /\ worker'[workers[g].id].guild = g
                      /\ worker'[workers[g].id].channel = workers[g].channel
                      /\ \/ worker'[workers[g].id].at
                               \in {"connecting", "running", "stopping"}
                         \/ \E d \in ToSet(events') :
                              d.kind = "Stopped" /\ d.id = workers[g].id
    BY <1>5 DEF EntryHasWorker, HasWorker, Live
  <2>1. workers[g].id \in Ids
    BY HandleTyped
  <2>2. /\ worker[workers[g].id].guild = g
        /\ worker[workers[g].id].channel = workers[g].channel
        /\ \/ worker[workers[g].id].at \in {"connecting", "running", "stopping"}
           \/ \E d \in ToSet(events) :
                d.kind = "Stopped" /\ d.id = workers[g].id
    BY DEF Supervised, EntryHasWorker, Live
  <2> QED BY <1>3, <1>4, <1>6, <2>1, <2>2
<1>9. StoppedHasEnded'
  <2> SUFFICES ASSUME NEW d \in ToSet(events'), d.kind = "Stopped"
               PROVE  worker'[d.id].at = "ended" /\ worker'[d.id].guild = d.guild
    BY DEF StoppedHasEnded, Stops
  <2>1. CASE d = e
    BY <1>3, <1>6, <2>1
  <2>2. CASE d \in ToSet(events)
    <3>1. d.id \in Ids
      BY <2>2, Elements DEF Typed, TasksTyped, Event
    <3>2. worker[d.id].at = "ended" /\ worker[d.id].guild = d.guild
      BY <2>2 DEF Supervised, StoppedHasEnded, Stops
    <3> QED BY <1>6, <3>1, <3>2
  <2> QED BY <1>4, <2>1, <2>2
<1>10. Unused'
  <2> SUFFICES ASSUME NEW i \in Ids, i > nextId PROVE worker'[i] = NoTask
    BY <1>5 DEF Unused
  <2>1. worker[i] = NoTask
    BY DEF Supervised, Unused
  <2> QED BY <1>1, <1>6, <2>1 DEF NoTask
<1>11. NoneLeft'
  BY <1>5 DEF Supervised, NoneLeft, Open
<1> QED BY <1>7, <1>8, <1>9, <1>10, <1>11 DEF Supervised

LEMMA ShutdownSupervised ==
  ASSUME Typed, Typed', Supervised, CtrlC \/ Stop
  PROVE  Supervised'
<1>1. CASE CtrlC
  <2>1. /\ gw.at = "select" /\ gw'.at = "drain"
        /\ gw'.left = {workers[g].id : g \in Guilds} \ {0}
        /\ \A g \in Guilds : workers'[g].id = 0
        /\ UNCHANGED << worker, events, nextId >>
    BY <1>1 DEF CtrlC, NoHandle, Typed, LoopTyped
  <2>2. NoOrphan'
    <3> SUFFICES ASSUME NEW id \in Ids,
                        worker[id].at \in {"connecting", "running"}
                 PROVE  ToldToStop(id)'
      BY <2>1 DEF NoOrphan
    <3>1. worker[id].guild \in Guilds
      BY StartedTask DEF Started, IssuedTask
    <3>2. \/ workers[worker[id].guild].id = id
          \/ Shutdown \in ToSet(worker[id].mailbox)
      BY <2>1 DEF Supervised, NoOrphan, ToldToStop, NoneLeft, Open
    <3> QED BY <2>1, <3>1, <3>2 DEF ToldToStop, Ids
  <2>3. EntryHasWorker' /\ StoppedHasEnded' /\ Unused' /\ NoneLeft'
    BY <2>1 DEF Supervised, EntryHasWorker, HasWorker, StoppedHasEnded, Unused,
                NoneLeft, Open
  <2> QED BY <2>2, <2>3 DEF Supervised
<1>2. ASSUME NEW id \in Ids, ShutdownWorker(id) PROVE Supervised'
  <2>1. /\ gw.at = "drain" /\ gw'.at = "stop" /\ gw'.to = id
        /\ gw'.left = gw.left \ {id}
        /\ UNCHANGED << worker, workers, events, nextId >>
    BY <1>2 DEF ShutdownWorker, Typed, LoopTyped
  <2>2. ASSUME NEW i \in Ids PROVE TaskKept(i)
    BY <2>1 DEF TaskKept, Live, ToldToStop
  <2>3. NoneLeft'
    BY <2>1 DEF NoneLeft, Open
  <2> QED BY <2>1, <2>2, <2>3, TasksSupervised
<1>3. CASE TasksJoined \/ CommandsJoined
  <2>1. UNCHANGED << worker, workers, events >>
    BY <1>3 DEF TasksJoined, CommandsJoined
  <2> QED BY <1>3, <2>1, SupervisedQuiet
<1> QED BY <1>1, <1>2, <1>3 DEF Stop

(* Supervised is inductive together with Typed and Sessions. *)
THEOREM SupervisedCorrect == Spec => []Supervised
<1>1. Typed /\ Typed' /\ Sessions /\ Supervised /\ [Next]_vars => Supervised'
  <2> SUFFICES ASSUME Typed, Typed', Sessions, Supervised, [Next]_vars
               PROVE  Supervised'
    OBVIOUS
  <2>1. CASE UNCHANGED << worker, workers, events >> /\
             \/ \E c \in Calls : Issue(c) \/ JoinVoice(c) \/ RoutePlayback(c)
             \/ Ready \/ UNCHANGED vars
             \/ \E g \in Guilds : ServerUnavailable(g)
    BY <2>1, SupervisedQuiet
  <2>2. CASE HandleCall
    <3>1. ASSUME NEW c \in Calls, JoinVoice(c) \/ RoutePlayback(c)
          PROVE  UNCHANGED << worker, workers, events >>
      BY <3>1 DEF JoinVoice, RoutePlayback
    <3> QED BY <2>1, <2>2, <3>1, LeaveVoiceSupervised DEF HandleCall
  <2>3. CASE \E c \in Calls : Issue(c)
    BY <2>1, <2>3 DEF Issue
  <2>4. CASE Dispatch
    <3>1. Ready \/ (\E g \in Guilds : ServerUnavailable(g)) =>
            UNCHANGED << worker, workers, events >>
      BY DEF Ready, ServerUnavailable
    <3> QED BY <2>1, <2>4, <3>1, StartWorkerSupervised DEF Dispatch
  <2>5. CASE UNCHANGED vars
    BY <2>1, <2>5 DEF vars
  <2>6. CASE HandleEvent
    BY <2>6, JoinTimedOutSupervised, StoppedSupervised DEF HandleEvent
  <2> QED
    BY <2>2, <2>3, <2>4, <2>5, <2>6, DeliverSupervised, TimerFiresSupervised,
       WorkerSupervised, SendStoppedSupervised, ShutdownSupervised
       DEF Next, Ended
<1> QED BY <1>1, SupervisedInit, TypedCorrect, SessionsCorrect, PTL DEF Spec

(* No worker is ever out of control: whoever connects or plays is the entry *)
(* of its guild, or has been told to stop.                                  *)
THEOREM NoOrphans == Spec => []NoOrphan
<1>1. Supervised => NoOrphan
  BY DEF Supervised
<1> QED BY <1>1, SupervisedCorrect, PTL

(* An entry of the worker map never names a task whose end has already been *)
(* handled: a guild cannot stay "connected" to nothing.                     *)
THEOREM EntriesHaveWorkers == Spec => []EntryHasWorker
<1>1. Supervised => EntryHasWorker
  BY DEF Supervised
<1> QED BY <1>1, SupervisedCorrect, PTL

------------------------------------------------------------------------------
(* Part 5: the timer of a pending join *)

TimedOut(S, g, id) ==
  \E e \in S : e.kind = "JoinTimedOut" /\ e.guild = g /\ e.id = id

(* Steps that add no pending join and lose neither timer nor event. *)
LEMMA TimersFrame ==
  ASSUME PendingHasTimer, timers \subseteq timers',
         ToSet(events) \subseteq ToSet(events'),
         \A g \in Guilds : HasPending(g)' => pending'[g] = pending[g]
  PROVE  PendingHasTimer'
BY DEF PendingHasTimer, HasPending

LEMMA JoinVoiceTimers ==
  ASSUME Typed, PendingHasTimer, NEW c \in Calls, JoinVoice(c)
  PROVE  PendingHasTimer'
<1> DEFINE g == call[c].guild
<1>1. g \in Guilds
  BY Received DEF JoinVoice, Request
<1>2. CASE JoinRefused(c, g)
  BY <1>2, TimersFrame DEF JoinVoice, JoinRefused
<1>3. CASE JoinRequested(c, g)
  <2>1. /\ [guild |-> g, id |-> pending'[g].id] \in timers'
        /\ \A h \in Guilds \ {g} : pending'[h] = pending[h]
        /\ timers \subseteq timers' /\ UNCHANGED events
    BY <1>1, <1>3 DEF JoinVoice, JoinRequested, Typed, MapsTyped
  <2> QED BY <2>1 DEF PendingHasTimer, HasPending
<1> QED BY <1>2, <1>3 DEF JoinVoice

LEMMA TimerFiresTimers ==
  ASSUME Typed, PendingHasTimer, NEW t \in timers, TimerFires(t)
  PROVE  PendingHasTimer'
<1> DEFINE e == [kind |-> "JoinTimedOut", guild |-> t.guild, id |-> t.id,
                 reason |-> "none"]
<1>1. e \in Event /\ t \in [guild : Guilds, id : Ids]
  BY DEF Typed, MapsTyped, Event
<1>2. /\ events' = Append(events, e) /\ timers' = timers \ {t}
      /\ UNCHANGED pending
      /\ e.kind = "JoinTimedOut" /\ e.guild = t.guild /\ e.id = t.id
  BY DEF TimerFires
<1> HIDE DEF e
<1>3. ToSet(events') = ToSet(events) \union {e}
  BY <1>1, <1>2, AddLast DEF Typed, TasksTyped
<1> SUFFICES ASSUME NEW g \in Guilds, HasPending(g)
             PROVE  \/ [guild |-> g, id |-> pending[g].id] \in timers'
                    \/ TimedOut(ToSet(events'), g, pending[g].id)
  BY <1>2 DEF PendingHasTimer, HasPending, TimedOut
<1>4. CASE TimedOut(ToSet(events), g, pending[g].id)
  BY <1>3, <1>4 DEF TimedOut
<1>5. CASE t = [guild |-> g, id |-> pending[g].id]
  BY <1>2, <1>3, <1>5 DEF TimedOut
<1>6. CASE /\ [guild |-> g, id |-> pending[g].id] \in timers
           /\ t # [guild |-> g, id |-> pending[g].id]
  BY <1>2, <1>6
<1> QED BY <1>4, <1>5, <1>6 DEF PendingHasTimer, TimedOut

(* An event is taken: a timeout that is in time clears its own join. *)
LEMMA HandleEventTimers ==
  ASSUME Typed, PendingHasTimer, HandleEvent
  PROVE  PendingHasTimer'
<1> DEFINE e == Head(events)
<1>1. e \in Event /\ ToSet(events) = {e} \union ToSet(events')
  BY ReceivedEvent DEF HandleEvent, JoinTimedOut, Stopped
<1>2. /\ UNCHANGED timers
      /\ \A g \in Guilds : HasPending(g)' => pending'[g] = pending[g]
  BY <1>1 DEF HandleEvent, JoinTimedOut, Stopped, HasPending, NoPending, Typed,
              MapsTyped, Event
<1>3. ASSUME NEW g \in Guilds, HasPending(g)', e.kind = "JoinTimedOut",
             e.guild = g, e.id = pending[g].id
      PROVE  FALSE
  BY <1>1, <1>3
     DEF HandleEvent, JoinTimedOut, Stopped, ReceiveEvent, HasPending,
         NoPending, Typed, MapsTyped, Event
<1> HIDE DEF e
<1> SUFFICES ASSUME NEW g \in Guilds, HasPending(g)'
             PROVE  \/ [guild |-> g, id |-> pending[g].id] \in timers
                    \/ TimedOut(ToSet(events'), g, pending[g].id)
  BY <1>2 DEF PendingHasTimer, HasPending, TimedOut
<1>4. \/ [guild |-> g, id |-> pending[g].id] \in timers
      \/ TimedOut(ToSet(events), g, pending[g].id)
  BY <1>2 DEF PendingHasTimer, HasPending, TimedOut
<1> QED BY <1>1, <1>3, <1>4 DEF TimedOut

LEMMA SendStoppedTimers ==
  ASSUME Typed, PendingHasTimer, NEW id \in Ids, SendStopped(id)
  PROVE  PendingHasTimer'
<1> DEFINE e == [kind |-> "Stopped", guild |-> worker[id].guild, id |-> id,
                 reason |-> worker[id].reason]
<1>1. worker[id] \in IssuedTask
  BY StartedTask DEF SendStopped, Started
<1>2. e \in Event
  BY <1>1 DEF IssuedTask, Event
<1>3. events' = Append(events, e) /\ UNCHANGED << pending, timers >>
  BY DEF SendStopped
<1> HIDE DEF e
<1>4. ToSet(events') = ToSet(events) \union {e}
  BY <1>2, <1>3, AddLast DEF Typed, TasksTyped
<1> QED BY <1>3, <1>4, TimersFrame

(* A join can always be timed out as long as it is pending, so its caller   *)
(* hears of it even if Discord never answers.                               *)
THEOREM JoinsHaveTimers == Spec => []PendingHasTimer
<1>1. Init => PendingHasTimer
  BY DEF Init, PendingHasTimer, HasPending, NoPending
<1>2. Typed /\ PendingHasTimer /\ [Next]_vars => PendingHasTimer'
  <2> SUFFICES ASSUME Typed, PendingHasTimer, [Next]_vars
               PROVE  PendingHasTimer'
    OBVIOUS
  <2>1. CASE HandleCall
    <3>1. ASSUME NEW c \in Calls, LeaveVoice(c) PROVE PendingHasTimer'
      <4>1. \A g \in Guilds : HasPending(g)' => pending'[g] = pending[g]
        BY <3>1 DEF LeaveVoice, LeavePending, LeaveNothing, LeaveWorker,
                    HasPending, NoPending, Typed, MapsTyped
      <4> QED BY <3>1, <4>1, TimersFrame DEF LeaveVoice
    <3>2. ASSUME NEW c \in Calls, RoutePlayback(c) PROVE PendingHasTimer'
      BY <3>2, TimersFrame DEF RoutePlayback
    <3> QED BY <2>1, <3>1, <3>2, JoinVoiceTimers DEF HandleCall
  <2>2. CASE Dispatch
    <3>1. ASSUME NEW g \in Guilds, StartWorker(g) \/ ServerUnavailable(g)
          PROVE  PendingHasTimer'
      <4>1. \A h \in Guilds : HasPending(h)' => pending'[h] = pending[h]
        BY <3>1 DEF StartWorker, ServerUnavailable, HasPending, NoPending,
                    Typed, MapsTyped
      <4>2. UNCHANGED << timers, events >>
        BY <3>1 DEF StartWorker, ServerUnavailable
      <4> QED BY <4>1, <4>2, TimersFrame
    <3>2. CASE Ready
      BY <3>2, TimersFrame DEF Ready
    <3> QED BY <2>2, <3>1, <3>2 DEF Dispatch
  <2>3. CASE CtrlC
    BY <2>3 DEF CtrlC, PendingHasTimer, HasPending, NoPending
  <2>4. CASE UNCHANGED << pending, timers, events >>
    BY <2>4, TimersFrame
  <2>5. CASE (\E c \in Calls : Issue(c)) \/ Deliver \/ Stop \/ UNCHANGED vars
    BY <2>4, <2>5 DEF Issue, Deliver, DeliverPlayback, DeliverLeave,
       DeliverShutdown, Stop, ShutdownWorker, TasksJoined, CommandsJoined, vars
  <2>6. ASSUME NEW id \in Ids,
               \/ Connected(id) \/ ConnectFails(id) \/ HandleCommand(id)
               \/ SessionEnds(id)
        PROVE  PendingHasTimer'
    BY <2>4, <2>6 DEF Connected, ConnectFails, HandleCommand, ConnectAborted,
       HandlePlayback, HandleShutdown, SessionEnds, WorkerStep
  <2> QED
    BY <2>1, <2>2, <2>3, <2>5, <2>6, HandleEventTimers, TimerFiresTimers,
       SendStoppedTimers
       DEF Next, Ended
<1> QED BY <1>1, <1>2, TypedCorrect, PTL DEF Spec
=============================================================================
