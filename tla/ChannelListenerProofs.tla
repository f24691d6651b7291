------------------------ MODULE ChannelListenerProofs ------------------------
(***************************************************************************)
(* Theorems about ChannelListener, for every set of channels and requests  *)
(* and every capacity.                                                     *)
(***************************************************************************)
EXTENDS ChannelListener, QueueLemmas

-----------------------------------------------------------------------------
(***************************************************************************)
(* Types                                                                   *)
(***************************************************************************)
(* Answering and dropping leave every oneshot with a value of its type.    *)
LEMMA OutcomeType ==
  ASSUME NEW out \in [Request -> Outcome], NEW R
  PROVE  /\ \A o \in Outcome : Answer(out, R, o) \in [Request -> Outcome]
         /\ Release(out, R) \in [Request -> Outcome]
BY DEF Answer, Release, Outcome, Answers

(* An attempt is counted up to the bound of its counter.                   *)
LEMMA AttemptCounted ==
  ASSUME NEW n \in {NoRejoin} \cup 0..MaxAttempts
  PROVE  /\ NextAttempt(n) \in 0..MaxAttempts /\ NextAttempt(n) >= n
         /\ NextAttempt(n) > n \/ n = MaxAttempts
         /\ 0 \in 0..MaxAttempts /\ NoRejoin \notin 0..MaxAttempts
BY BoundAssumption DEF NextAttempt, SmallerOf, NoRejoin

(* The blank of a task.                                                    *)
LEMMA BlankType ==
  /\ Blank \in TaskType
  /\ \A n \in {NoRejoin} \cup 0..MaxAttempts : [Blank EXCEPT !.rejoin = n] \in TaskType
BY DEF Blank, TaskType

(* The receivers of a join are dropped.                                    *)
LEMMA DropReceiversType ==
  ASSUME TypeOK, NEW c \in Channel, DropReceivers(c)
  PROVE  /\ receiving' \in [Channel -> RequestsOf({"join"}) \cup {NoRequest}]
         /\ pushQ' \in [Channel -> Seq(PushKind)]
<1>1. pushQ' \in [Channel -> Seq(PushKind)]
  BY EmptyQueue DEF TypeOK, DropReceivers
<1> QED BY <1>1 DEF TypeOK, DropReceivers

(* Entering a state.                                                       *)
LEMMA EnterType ==
  ASSUME TypeOK, NEW c \in Channel, NEW p \in Phase, NEW n \in {NoRejoin} \cup 0..MaxAttempts,
         NEW out \in [Request -> Outcome], Enter(c, p, n, out)
  PROVE  /\ phase' \in [Channel -> Phase] /\ task' \in [Channel -> TaskType]
         /\ outcome' \in [Request -> Outcome]
         /\ receiving' \in [Channel -> RequestsOf({"join"}) \cup {NoRequest}]
         /\ pushQ' \in [Channel -> Seq(PushKind)]
<1>1. outcome' \in [Request -> Outcome]
  <2>1. Answer(out, Waiters(c), "dropped") \in [Request -> Outcome]
    BY OutcomeType DEF Outcome, Answers
  <2> QED BY <2>1, OutcomeType DEF Enter
<1>2. phase' \in [Channel -> Phase] /\ task' \in [Channel -> TaskType]
  BY BlankType DEF TypeOK, Enter
<1>3. /\ receiving' \in [Channel -> RequestsOf({"join"}) \cup {NoRequest}]
      /\ pushQ' \in [Channel -> Seq(PushKind)]
  BY DropReceiversType DEF Enter
<1> QED BY <1>1, <1>2, <1>3

(* Waiting to rejoin.                                                      *)
LEMMA WaitToRejoinType ==
  ASSUME TypeOK, NEW c \in Channel, NEW n \in {NoRejoin} \cup 0..MaxAttempts,
         NEW out \in [Request -> Outcome], WaitToRejoin(c, n, out)
  PROVE  /\ phase' \in [Channel -> Phase] /\ task' \in [Channel -> TaskType]
         /\ outcome' \in [Request -> Outcome]
         /\ receiving' \in [Channel -> RequestsOf({"join"}) \cup {NoRequest}]
         /\ pushQ' \in [Channel -> Seq(PushKind)]
<1>1. NextAttempt(n) \in {NoRejoin} \cup 0..MaxAttempts /\ "WaitingToRejoin" \in Phase
  BY AttemptCounted DEF Phase
<1> QED BY <1>1, EnterType DEF WaitToRejoin

(* The end of the task.                                                    *)
LEMMA EndType ==
  ASSUME TypeOK, NEW c \in Channel, NEW p \in Ended, NEW out \in [Request -> Outcome],
         End(c, p, out), UNCHANGED <<socketVars, unread>>
  PROVE  TypeOK'
<1> DEFINE told == Answer(out, UserHeld(c) \cup {task[c].busy}, "dropped")
<1>1. told \in [Request -> Outcome] /\ p \in Phase
  BY OutcomeType DEF Outcome, Answers, Phase
<1>2. Enter(c, p, NoRejoin, told)
  BY DEF End
<1> HIDE DEF told
<1>3. /\ phase' \in [Channel -> Phase] /\ task' \in [Channel -> TaskType]
      /\ outcome' \in [Request -> Outcome]
      /\ receiving' \in [Channel -> RequestsOf({"join"}) \cup {NoRequest}]
      /\ pushQ' \in [Channel -> Seq(PushKind)]
  BY <1>1, <1>2, EnterType
<1>4. /\ commands' \in [Channel -> Seq(RequestsOf(UserKind))]
      /\ sends' \in [Channel -> Seq(RequestsOf({"call", "cast"}))]
      /\ stop' \in [Channel -> BOOLEAN]
  BY EmptyQueue DEF TypeOK, End
<1> QED BY <1>3, <1>4 DEF TypeOK, socketVars

(* A task whose connectivity branch fails, or is back in its select.       *)
LEMMA DeafType ==
  ASSUME TypeOK, NEW c \in Channel, NEW b \in BOOLEAN
  PROVE  [task EXCEPT ![c].deaf = b] \in [Channel -> TaskType]
<1>1. [task[c] EXCEPT !.deaf = b] \in TaskType
  BY DEF TypeOK, TaskType
<1>2. task \in [Channel -> TaskType]
  BY DEF TypeOK
<1> QED BY <1>1, <1>2

(* The task stays as it is.                                                *)
LEMMA StayType ==
  ASSUME TypeOK, NEW c \in Channel, Stay(c)
  PROVE  /\ phase' \in [Channel -> Phase] /\ task' \in [Channel -> TaskType]
         /\ receiving' \in [Channel -> RequestsOf({"join"}) \cup {NoRequest}]
         /\ pushQ' \in [Channel -> Seq(PushKind)]
BY DeafType DEF TypeOK, Stay

(* The parts of TypeOK that a step of the task has to give an argument for.*)
TaskTypes ==
  /\ outcome \in [Request -> Outcome]
  /\ receiving \in [Channel -> RequestsOf({"join"}) \cup {NoRequest}]
  /\ pushQ \in [Channel -> Seq(PushKind)]
  /\ phase \in [Channel -> Phase]
  /\ task \in [Channel -> TaskType]

(* Shutdown, and news of the socket.                                       *)
LEMMA NewsType ==
  ASSUME TypeOK, NEW c \in Channel, Shutdown(c) \/ Lagged(c) \/ ConnectivityChanged(c)
  PROVE  TypeOK'
<1>1. CASE Shutdown(c)
  <2>1. Answer(outcome, Waiters(c), "shutdown") \in [Request -> Outcome] /\ "ShuttingDown" \in Phase
    BY OutcomeType DEF TypeOK, Outcome, Answers, Phase
  <2>2. TaskTypes'
    BY <1>1, <2>1, EnterType DEF Shutdown, TaskTypes
  <2> QED BY <1>1, <2>2 DEF TypeOK, TaskTypes, Shutdown, socketVars, userVars
<1>2. CASE Lagged(c)
  <2>1. task' = [task EXCEPT ![c].deaf = TRUE]
    BY <1>2 DEF Lagged
  <2>2. task' \in [Channel -> TaskType]
    BY <2>1, DeafType
  <2>3. unread' \in [Channel -> 0..2]
    BY <1>2 DEF TypeOK, Lagged
  <2> QED BY <1>2, <2>2, <2>3 DEF TypeOK, Lagged, socketVars, userVars
<1>3. CASE ConnectivityChanged(c)
  <2>1. NewsAnswer(c) \in [Request -> Outcome] /\ outcome \in [Request -> Outcome]
    BY OutcomeType DEF TypeOK, NewsAnswer, Outcome, Answers
  <2>2. /\ "WaitingForSocketToConnect" \in Phase /\ "WaitingToJoin" \in Phase /\ "Left" \in Phase
        /\ "ShuttingDown" \in Phase
        /\ task[c].rejoin \in {NoRejoin} \cup 0..MaxAttempts /\ 0 \in 0..MaxAttempts
    BY BoundAssumption DEF Phase, TypeOK, TaskType
  <2> unread' \in [Channel -> 0..2] /\ UNCHANGED <<socketVars, userVars>>
    BY <1>3 DEF TypeOK, ConnectivityChanged
  <2>3. CASE SocketConnected(c)
    <3>1. TaskTypes'
      BY <2>1, <2>2, <2>3, EnterType, WaitToRejoinType, StayType DEF SocketConnected, TaskTypes
    <3> QED BY <3>1 DEF TypeOK, TaskTypes, socketVars, userVars
  <2>4. CASE SocketDisconnected(c)
    <3>1. TaskTypes'
      BY <2>1, <2>2, <2>4, EnterType, StayType DEF SocketDisconnected, TaskTypes
    <3> QED BY <3>1 DEF TypeOK, TaskTypes, socketVars, userVars
  <2>5. CASE SocketShutdown(c)
    <3>1. TaskTypes'
      BY <2>1, <2>2, <2>5, EnterType DEF SocketShutdown, TaskTypes
    <3> QED BY <3>1 DEF TypeOK, TaskTypes, socketVars, userVars
  <2> QED BY <1>3, <2>3, <2>4, <2>5 DEF ConnectivityChanged
<1> QED BY <1>1, <1>2, <1>3

(* The task has an answer of the socket.                                   *)
LEMMA ResultType ==
  ASSUME TypeOK, NEW c \in Channel, JoinedResult(c) \/ LeftResult(c),
         phase[c] = "Joining" => task[c].awaiting \in RequestsOf({"join"})
  PROVE  TypeOK'
<1> DEFINE r == task[c].awaiting
           told(o) == Answer(outcome, task[c].joiners, o)
<1>1. \A o \in Outcome : told(o) \in [Request -> Outcome]
  BY OutcomeType DEF TypeOK
<1>2. /\ "ok" \in Outcome /\ "error" \in Outcome /\ "rejected" \in Outcome
      /\ "disconnected" \in Outcome /\ "timeout" \in Outcome
      /\ "Joined" \in Phase /\ "Left" \in Phase /\ "Gone" \in Ended
      /\ task[c].rejoin \in {NoRejoin} \cup 0..MaxAttempts
  BY DEF Outcome, Answers, Phase, Ended, TypeOK, TaskType
<1>3. CASE JoinedResult(c)
  <2>1. CASE /\ phase' = [phase EXCEPT ![c] = "Joined"]
             /\ task' = [task EXCEPT ![c] = Blank]
             /\ outcome' = Release(told("ok"), {r})
             /\ receiving' = [receiving EXCEPT ![c] = r]
             /\ UNCHANGED <<pushQ, userVars>>
    <3>1. r \in RequestsOf({"join"})
      BY <1>3 DEF JoinedResult
    <3>2. outcome' \in [Request -> Outcome]
      <4>1. told("ok") \in [Request -> Outcome]
        BY <1>1, <1>2
      <4> HIDE DEF told
      <4> QED BY <2>1, <4>1, OutcomeType
    <3>3. phase' \in [Channel -> Phase] /\ task' \in [Channel -> TaskType]
      BY <2>1, <1>2, BlankType DEF TypeOK
    <3>4. receiving' \in [Channel -> RequestsOf({"join"}) \cup {NoRequest}]
      BY <2>1, <3>1 DEF TypeOK
    <3>5. UNCHANGED <<socketVars, unread>>
      BY <1>3 DEF JoinedResult
    <3> QED BY <2>1, <3>2, <3>3, <3>4, <3>5 DEF TypeOK, socketVars, userVars
  <2>2. CASE /\ outcome[r] \in {"rejected", "disconnected", "timeout"}
             /\ WaitToRejoin(c, task[c].rejoin, told(outcome[r]))
             /\ UNCHANGED userVars
    <3>1. told(outcome[r]) \in [Request -> Outcome]
      BY <1>1, <1>2, <2>2
    <3> HIDE DEF told, r
    <3>2. TaskTypes'
      BY <1>2, <2>2, <3>1, WaitToRejoinType DEF TaskTypes
    <3>3. UNCHANGED <<socketVars, unread>>
      BY <1>3 DEF JoinedResult
    <3> QED BY <2>2, <3>2, <3>3 DEF TypeOK, TaskTypes, socketVars, userVars
  <2>3. CASE End(c, "Gone", told("error"))
    <3>1. told("error") \in [Request -> Outcome]
      BY <1>1, <1>2
    <3>2. UNCHANGED <<socketVars, unread>>
      BY <1>3 DEF JoinedResult
    <3> HIDE DEF told
    <3> QED BY <1>2, <2>3, <3>1, <3>2, EndType
  <2> QED BY <1>3, <2>1, <2>2, <2>3 DEF JoinedResult
<1>4. CASE LeftResult(c)
  <2>1. outcome[task[c].awaiting] \in Outcome
    BY <1>4, <1>2 DEF LeftResult, AnswerReady
  <2> DEFINE out == Answer(outcome, task[c].leavers, outcome[task[c].awaiting])
  <2>2. out \in [Request -> Outcome]
    BY <2>1, OutcomeType DEF TypeOK
  <2>3. Enter(c, "Left", NoRejoin, out)
    BY <1>4 DEF LeftResult
  <2> HIDE DEF out
  <2>4. TaskTypes'
    BY <1>2, <2>2, <2>3, EnterType DEF TaskTypes
  <2> QED BY <1>4, <2>4 DEF LeftResult, TypeOK, TaskTypes, socketVars, userVars
<1> QED BY <1>3, <1>4

(* A handler with a command for the socket.                                *)
LEMMA PrepareType ==
  ASSUME TypeOK, NEW c \in Channel, NEW r \in RequestsOf(ChanKind), NEW t \in TaskType,
         Prepare(c, r, t)
  PROVE  task' \in [Channel -> TaskType]
<1>1. [t EXCEPT !.busy = r, !.deaf = FALSE] \in TaskType
  BY DEF TaskType
<1> QED BY <1>1 DEF TypeOK, Prepare

(* What a task has when it takes a command of its queue.                   *)
LEMMA TakeCommandType ==
  ASSUME TypeOK, NEW c \in Channel, NEW kind \in UserKind, TakeCommand(c, kind)
  PROVE  /\ Head(commands[c]) \in RequestsOf({kind})
         /\ commands' \in [Channel -> Seq(RequestsOf(UserKind))]
         /\ UNCHANGED <<socketVars, unread, sends, stop>>
<1>1. commands[c] \in Seq(RequestsOf(UserKind)) /\ commands[c] # <<>>
  BY DEF TypeOK, TakeCommand
<1>2. Head(commands[c]) \in RequestsOf(UserKind) /\ Tail(commands[c]) \in Seq(RequestsOf(UserKind))
  BY <1>1, QueueSteps
<1> QED BY <1>2 DEF TypeOK, TakeCommand, RequestsOf

(* A command, or the end of the sleep.                                     *)
LEMMA PreparedType ==
  ASSUME TypeOK, NEW c \in Channel, NEW r \in Request, Rejoin(c, r) \/ Join(c, r) \/ Leave(c, r)
  PROVE  TypeOK'
<1>1. task[c] \in TaskType /\ (r.kind \in ChanKind => r \in RequestsOf(ChanKind))
  BY DEF TypeOK, RequestsOf
<1>2. CASE Rejoin(c, r)
  <2>1. task' \in [Channel -> TaskType]
    BY <1>1, <1>2, PrepareType DEF Rejoin, ChanKind
  <2> QED BY <1>2, <2>1 DEF TypeOK, Rejoin, socketVars, userVars
<1>3. CASE Join(c, r)
  <2>1. /\ Head(commands[c]) \in RequestsOf({"channel_join"})
        /\ commands' \in [Channel -> Seq(RequestsOf(UserKind))]
        /\ UNCHANGED <<socketVars, unread, sends, stop>>
    BY <1>3, TakeCommandType DEF Join, UserKind
  <2> DEFINE t == [task[c] EXCEPT !.joiners = {Head(commands[c])}, !.rejoin = 0]
  <2>2. t \in TaskType
    BY <1>1, <2>1, AttemptCounted DEF TaskType
  <2>3. Prepare(c, r, t) /\ r.kind = "join" /\ UNCHANGED <<outcome, receiving, pushQ, phase>>
    BY <1>3 DEF Join
  <2> HIDE DEF t
  <2>4. task' \in [Channel -> TaskType]
    BY <1>1, <2>2, <2>3, PrepareType DEF ChanKind
  <2> QED BY <2>1, <2>3, <2>4 DEF TypeOK, socketVars
<1>4. CASE Leave(c, r)
  <2>1. /\ Head(commands[c]) \in RequestsOf({"channel_leave"})
        /\ commands' \in [Channel -> Seq(RequestsOf(UserKind))]
        /\ UNCHANGED <<socketVars, unread, sends, stop>>
    BY <1>4, TakeCommandType DEF Leave, UserKind
  <2> DEFINE t == [task[c] EXCEPT !.leavers = {Head(commands[c])}]
  <2>2. t \in TaskType
    BY <1>1, <2>1 DEF TaskType
  <2>3. Prepare(c, r, t) /\ r.kind = "leave" /\ UNCHANGED <<outcome, receiving, pushQ, phase>>
    BY <1>4 DEF Leave
  <2> HIDE DEF t
  <2>4. task' \in [Channel -> TaskType]
    BY <1>1, <2>2, <2>3, PrepareType DEF ChanKind
  <2> QED BY <2>1, <2>3, <2>4 DEF TypeOK, socketVars
<1> QED BY <1>2, <1>3, <1>4

(* A command that leaves no frame to send.                                 *)
LEMMA CommandType ==
  ASSUME TypeOK, NEW c \in Channel, JoinTooLate(c) \/ JoinAgain(c) \/ LeaveAgain(c)
  PROVE  TypeOK'
<1> DEFINE u == Head(commands[c])
<1>1. /\ "ok" \in Outcome /\ "waiting" \in Outcome /\ "dropped" \in Outcome /\ "Left" \in Phase
      /\ task[c] \in TaskType /\ 0 \in 0..MaxAttempts
  BY BoundAssumption DEF Outcome, Answers, Phase, TypeOK, TaskType
<1>2. \A o \in Outcome : Answer(outcome, {u}, o) \in [Request -> Outcome]
  BY OutcomeType DEF TypeOK
<1>3. SUFFICES ASSUME NEW kind \in UserKind, TakeCommand(c, kind),
                      u \in RequestsOf({kind}) => TaskTypes'
               PROVE  TypeOK'
  <2>1. CASE JoinTooLate(c)
    <3> DEFINE out == Answer(outcome, {u}, "dropped")
    <3>1. out \in [Request -> Outcome]
      BY <1>1, <1>2
    <3>2. TakeCommand(c, "channel_join") /\ WaitToRejoin(c, 0, out)
      BY <2>1 DEF JoinTooLate
    <3> HIDE DEF out
    <3>3. TaskTypes'
      BY <1>1, <3>1, <3>2, WaitToRejoinType DEF TaskTypes
    <3> QED BY <1>3, <3>2, <3>3 DEF UserKind
  <2>2. CASE JoinAgain(c)
    <3>1. TakeCommand(c, "channel_join")
      BY <2>2 DEF JoinAgain
    <3>2. CASE /\ task' = [task EXCEPT ![c].joiners = @ \cup {u}]
               /\ UNCHANGED <<outcome, receiving, pushQ, phase>>
      <4>1. ASSUME u \in RequestsOf({"channel_join"}) PROVE TaskTypes'
        <5>1. [task[c] EXCEPT !.joiners = @ \cup {u}] \in TaskType
          BY <1>1, <4>1 DEF TaskType
        <5> HIDE DEF u
        <5>2. task' \in [Channel -> TaskType]
          BY <3>2, <5>1 DEF TypeOK
        <5> QED BY <3>2, <5>2 DEF TypeOK, TaskTypes
      <4> QED BY <1>3, <3>1, <4>1 DEF UserKind
    <3>3. CASE \E o \in Outcome : outcome' = Answer(outcome, {u}, o) /\ Stay(c)
      <4>1. outcome' \in [Request -> Outcome]
        BY <1>2, <3>3
      <4>2. TaskTypes'
        BY <3>3, <4>1, StayType DEF TaskTypes
      <4> QED BY <1>3, <3>1, <4>2 DEF UserKind
    <3> QED BY <1>1, <2>2, <3>2, <3>3 DEF JoinAgain
  <2>3. CASE LeaveAgain(c)
    <3>1. TakeCommand(c, "channel_leave")
      BY <2>3 DEF LeaveAgain
    <3>2. CASE /\ task' = [task EXCEPT ![c] = [task[c] EXCEPT !.leavers = @ \cup {u}, !.deaf = FALSE]]
               /\ UNCHANGED <<outcome, receiving, pushQ, phase>>
      <4>1. ASSUME u \in RequestsOf({"channel_leave"}) PROVE TaskTypes'
        <5> DEFINE t == [task[c] EXCEPT !.leavers = task[c].leavers \cup {u}, !.deaf = FALSE]
        <5>1. t \in TaskType
          BY <1>1, <4>1 DEF TaskType
        <5>2. task' = [task EXCEPT ![c] = t]
          BY <3>2
        <5> HIDE DEF u, t
        <5>3. task' \in [Channel -> TaskType]
          BY <5>1, <5>2 DEF TypeOK
        <5> QED BY <3>2, <5>3 DEF TypeOK, TaskTypes
      <4> QED BY <1>3, <3>1, <4>1 DEF UserKind
    <3>3. CASE outcome' = Answer(outcome, {u}, "ok") /\ Stay(c)
      <4>1. outcome' \in [Request -> Outcome]
        BY <1>1, <1>2, <3>3
      <4>2. TaskTypes'
        BY <3>3, <4>1, StayType DEF TaskTypes
      <4> QED BY <1>3, <3>1, <4>2 DEF UserKind
    <3>4. CASE Enter(c, "Left", NoRejoin, Answer(outcome, {u}, "ok"))
      <4> DEFINE out == Answer(outcome, {u}, "ok")
      <4>1. out \in [Request -> Outcome]
        BY <1>1, <1>2
      <4>2. Enter(c, "Left", NoRejoin, out)
        BY <3>4
      <4> HIDE DEF out
      <4>3. TaskTypes'
        BY <1>1, <4>1, <4>2, EnterType DEF TaskTypes
      <4> QED BY <1>3, <3>1, <4>3 DEF UserKind
    <3> QED BY <2>3, <3>2, <3>3, <3>4 DEF LeaveAgain
  <2> QED BY <2>1, <2>2, <2>3
<1>4. /\ u \in RequestsOf({kind})
      /\ commands' \in [Channel -> Seq(RequestsOf(UserKind))]
      /\ UNCHANGED <<socketVars, unread, sends, stop>>
  BY <1>3, TakeCommandType
<1> QED BY <1>3, <1>4 DEF TypeOK, TaskTypes, socketVars

(* A call or cast is taken, or a push.                                     *)
LEMMA TrafficType ==
  ASSUME TypeOK, NEW c \in Channel, TakeSend(c) \/ PushReceived(c)
  PROVE  TypeOK'
<1>1. CASE TakeSend(c)
  <2>1. sends[c] \in Seq(RequestsOf({"call", "cast"})) /\ sends[c] # <<>> /\ task[c] \in TaskType
    BY <1>1 DEF TakeSend, TypeOK
  <2>2. /\ Head(sends[c]) \in RequestsOf({"call", "cast"})
        /\ Tail(sends[c]) \in Seq(RequestsOf({"call", "cast"}))
    BY <2>1, QueueSteps
  <2>3. Head(sends[c]) \in RequestsOf(ChanKind)
    BY <2>2 DEF RequestsOf, ChanKind
  <2>4. task' \in [Channel -> TaskType]
    BY <1>1, <2>1, <2>3, PrepareType DEF TakeSend
  <2>5. sends' \in [Channel -> Seq(RequestsOf({"call", "cast"}))]
    BY <1>1, <2>2 DEF TakeSend, TypeOK
  <2> QED BY <1>1, <2>4, <2>5 DEF TakeSend, TypeOK, socketVars
<1>2. CASE PushReceived(c)
  <2>1. UNCHANGED <<socketVars, unread, userVars>>
    BY <1>2 DEF PushReceived
  <2>2. CASE WaitToRejoin(c, 0, outcome)
    <3>1. 0 \in {NoRejoin} \cup 0..MaxAttempts /\ outcome \in [Request -> Outcome]
      BY BoundAssumption DEF TypeOK
    <3>2. TaskTypes'
      BY <2>2, <3>1, WaitToRejoinType DEF TaskTypes
    <3> QED BY <2>1, <3>2 DEF TypeOK, TaskTypes, socketVars, userVars
  <2>3. CASE /\ pushQ' = [pushQ EXCEPT ![c] = Tail(@)]
             /\ task' = [task EXCEPT ![c].deaf = FALSE]
             /\ UNCHANGED <<outcome, receiving, phase>>
    <3>1. pushQ[c] \in Seq(PushKind) /\ pushQ[c] # <<>>
      BY <1>2 DEF PushReceived, TypeOK
    <3>2. Tail(pushQ[c]) \in Seq(PushKind)
      BY <3>1, QueueSteps
    <3>3. pushQ' \in [Channel -> Seq(PushKind)]
      BY <2>3, <3>2 DEF TypeOK
    <3>4. task' \in [Channel -> TaskType]
      BY <2>3, DeafType
    <3> QED BY <2>1, <2>3, <3>3, <3>4 DEF TypeOK, socketVars, userVars
  <2> QED BY <1>2, <2>2, <2>3 DEF PushReceived
<1> QED BY <1>1, <1>2

(* The handler finds room.                                                 *)
LEMMA SubmitType ==
  ASSUME TypeOK, NEW c \in Channel, Submit(c)
  PROVE  TypeOK'
<1> DEFINE r == task[c].busy
<1>1. /\ r \in RequestsOf(ChanKind) /\ r \in Request
      /\ UNCHANGED <<closed, writing, connectivity, unread, userVars>>
      /\ task[c] \in TaskType
  BY DEF Submit, Busy, TypeOK, TaskType, RequestsOf
<1>2. \A R, o : o \in Outcome => Answer(outcome, R, o) \in [Request -> Outcome]
  BY OutcomeType DEF TypeOK
<1>3. /\ "leaving" \in Outcome /\ "joining" \in Outcome /\ "pending" \in Outcome
      /\ "Leaving" \in Phase /\ "Joining" \in Phase
  BY DEF Outcome, Answers, Phase
<1>4. CASE SubmitLeave(c)
  <2>1. r \in RequestsOf({"join", "leave"})
    BY <1>1, <1>4 DEF SubmitLeave, RequestsOf
  <2>2. chanStateQ' \in Seq(RequestsOf({"join", "leave"}))
    BY <1>4, <2>1, QueueSteps DEF SubmitLeave, TypeOK
  <2> DEFINE told == Answer(outcome, task[c].joiners, "leaving")
  <2>3. told \in [Request -> Outcome]
    BY <1>2, <1>3
  <2>4. outcome' = [Release(told, {task[c].awaiting}) EXCEPT ![r] = "pending"]
    BY <1>4 DEF SubmitLeave
  <2>5. DropReceivers(c)
    BY <1>4 DEF SubmitLeave
  <2> DEFINE t == [Blank EXCEPT !.awaiting = r, !.leavers = task[c].leavers]
  <2>6. t \in TaskType
    BY <1>1, <2>1, BlankType DEF TaskType, Blank
  <2>7. task' = [task EXCEPT ![c] = t] /\ phase' = [phase EXCEPT ![c] = "Leaving"] /\ UNCHANGED sendQ
    BY <1>4 DEF SubmitLeave
  <2> HIDE DEF told, r, t
  <2>8. outcome' \in [Request -> Outcome]
    BY <1>3, <2>3, <2>4, OutcomeType
  <2>9. task' \in [Channel -> TaskType] /\ phase' \in [Channel -> Phase]
    BY <1>3, <2>6, <2>7 DEF TypeOK
  <2> QED BY <1>1, <2>2, <2>5, <2>7, <2>8, <2>9, DropReceiversType DEF TypeOK, userVars
<1>5. CASE SubmitJoin(c)
  <2>1. r \in RequestsOf({"join", "leave"})
    BY <1>1, <1>5 DEF SubmitJoin, RequestsOf
  <2>2. chanStateQ' \in Seq(RequestsOf({"join", "leave"}))
    BY <1>5, <2>1, QueueSteps DEF SubmitJoin, TypeOK
  <2> DEFINE told == Answer(outcome, task[c].leavers, "joining")
  <2>3. told \in [Request -> Outcome]
    BY <1>2, <1>3
  <2>4. outcome' = [Release(told, {task[c].awaiting}) EXCEPT ![r] = "pending"]
    BY <1>5 DEF SubmitJoin
  <2> DEFINE t == [task[c] EXCEPT !.busy = NoRequest, !.awaiting = r, !.leavers = {}]
  <2>6. t \in TaskType
    BY <1>1, <2>1 DEF TaskType
  <2>7. /\ task' = [task EXCEPT ![c] = t] /\ phase' = [phase EXCEPT ![c] = "Joining"]
        /\ UNCHANGED <<sendQ, receiving, pushQ>>
    BY <1>5 DEF SubmitJoin
  <2> HIDE DEF told, r, t
  <2>8. outcome' \in [Request -> Outcome]
    BY <1>3, <2>3, <2>4, OutcomeType
  <2>9. task' \in [Channel -> TaskType] /\ phase' \in [Channel -> Phase]
    BY <1>3, <2>6, <2>7 DEF TypeOK
  <2> QED BY <1>1, <2>2, <2>7, <2>8, <2>9 DEF TypeOK, userVars
<1>6. CASE SubmitSend(c)
  <2>1. r \in RequestsOf({"call", "cast"})
    BY <1>1, <1>6 DEF SubmitSend, RequestsOf
  <2>2. sendQ' \in Seq(RequestsOf({"call", "cast"}))
    BY <1>6, <2>1, QueueSteps DEF SubmitSend, TypeOK
  <2> DEFINE t == [task[c] EXCEPT !.busy = NoRequest]
  <2>3. t \in TaskType
    BY <1>1 DEF TaskType
  <2>4. /\ task' = [task EXCEPT ![c] = t]
        /\ UNCHANGED <<chanStateQ, outcome, receiving, pushQ, phase>>
    BY <1>6 DEF SubmitSend
  <2> HIDE DEF r, t
  <2>5. task' \in [Channel -> TaskType]
    BY <2>3, <2>4 DEF TypeOK
  <2> QED BY <1>1, <2>2, <2>4, <2>5 DEF TypeOK, userVars
<1> QED BY <1>4, <1>5, <1>6 DEF Submit

(* The handler finds that the socket task has ended.                       *)
LEMMA SubmitFailsType ==
  ASSUME TypeOK, NEW c \in Channel, SubmitFails(c)
  PROVE  TypeOK'
<1> DEFINE r == task[c].busy
           out(R, o) == Answer(outcome, R, o)
<1>1. /\ "error" \in Outcome /\ "dropped" \in Outcome /\ "Gone" \in Ended /\ "ShuttingDown" \in Phase
      /\ task[c] \in TaskType /\ UNCHANGED <<socketVars, unread>> /\ outcome \in [Request -> Outcome]
  BY DEF Outcome, Answers, Phase, Ended, TypeOK, SubmitFails
<1>2. \A R, o : o \in Outcome => out(R, o) \in [Request -> Outcome]
  BY OutcomeType DEF TypeOK
<1>3. CASE End(c, "Gone", outcome)
  BY <1>1, <1>3, EndType
<1>4. CASE End(c, "Gone", out(task[c].leavers, "error"))
  <2>1. out(task[c].leavers, "error") \in [Request -> Outcome]
    BY <1>1, <1>2
  <2> HIDE DEF out
  <2> QED BY <1>1, <1>4, <2>1, EndType
<1>5. CASE /\ outcome' = out(task[c].leavers, "error")
           /\ task' = [task EXCEPT ![c] = [@ EXCEPT !.busy = NoRequest, !.leavers = {}]]
           /\ UNCHANGED <<receiving, pushQ, phase, userVars>>
  <2>1. outcome' \in [Request -> Outcome]
    BY <1>1, <1>2, <1>5
  <2> DEFINE t == [task[c] EXCEPT !.busy = NoRequest, !.leavers = {}]
  <2>2. t \in TaskType
    BY <1>1 DEF TaskType
  <2>3. task' = [task EXCEPT ![c] = t]
    BY <1>5
  <2> HIDE DEF t, out
  <2>4. task' \in [Channel -> TaskType]
    BY <2>2, <2>3 DEF TypeOK
  <2> QED BY <1>1, <1>5, <2>1, <2>4 DEF TypeOK, socketVars, userVars
<1>6. CASE Enter(c, "ShuttingDown", NoRejoin, out({r}, "dropped")) /\ UNCHANGED userVars
  <2>1. out({r}, "dropped") \in [Request -> Outcome]
    BY <1>1, <1>2
  <2> HIDE DEF out, r
  <2>2. TaskTypes'
    BY <1>1, <1>6, <2>1, EnterType DEF TaskTypes
  <2> QED BY <1>1, <1>6, <2>2 DEF TypeOK, TaskTypes, socketVars, userVars
<1> QED BY <1>3, <1>4, <1>5, <1>6 DEF SubmitFails

(* The channel a request of it names.                                      *)
LEMMA ChanOf ==
  ASSUME NEW r \in Request, r.kind \in ChanKind \cup UserKind
  PROVE  r.chan \in Channel
BY RequestAssumption DEF StateKind, ChanKind, UserKind

(* Users.                                                                  *)
LEMMA UsersType ==
  ASSUME TypeOK, Users
  PROVE  TypeOK'
<1>1. ASSUME NEW u \in Request, UserCommand(u)
      PROVE  TypeOK'
  <2>1. u \in RequestsOf(UserKind) /\ u.chan \in Channel /\ "pending" \in Outcome
    BY <1>1, ChanOf DEF UserCommand, RequestsOf, Outcome
  <2>2. Append(commands[u.chan], u) \in Seq(RequestsOf(UserKind))
    BY <2>1, QueueSteps DEF TypeOK
  <2>3. outcome' \in [Request -> Outcome]
    BY <1>1, <2>1 DEF UserCommand, TypeOK
  <2>4. commands' \in [Channel -> Seq(RequestsOf(UserKind))]
    BY <1>1, <2>1, <2>2 DEF UserCommand, TypeOK
  <2> QED BY <1>1, <2>3, <2>4 DEF UserCommand, TypeOK, socketVars
<1>2. ASSUME NEW u \in Request, UserSend(u)
      PROVE  TypeOK'
  <2>1. u \in RequestsOf({"call", "cast"}) /\ u.chan \in Channel /\ "pending" \in Outcome
    BY <1>2, ChanOf DEF UserSend, RequestsOf, ChanKind, Outcome
  <2>2. Append(sends[u.chan], u) \in Seq(RequestsOf({"call", "cast"}))
    BY <2>1, QueueSteps DEF TypeOK
  <2>3. outcome' \in [Request -> Outcome]
    BY <1>2, <2>1 DEF UserSend, TypeOK
  <2>4. sends' \in [Channel -> Seq(RequestsOf({"call", "cast"}))]
    BY <1>2, <2>1, <2>2 DEF UserSend, TypeOK
  <2> QED BY <1>2, <2>3, <2>4 DEF UserSend, TypeOK, socketVars
<1>3. ASSUME NEW u \in Request, UserReads(u)
      PROVE  TypeOK'
  <2>1. outcome' \in [Request -> Outcome]
    BY <1>3 DEF UserReads, TypeOK, Outcome
  <2> QED BY <1>3, <2>1 DEF UserReads, TypeOK, socketVars, userVars
<1>4. ASSUME NEW c \in Channel, UserShutdown(c)
      PROVE  TypeOK'
  <2>1. stop' \in [Channel -> BOOLEAN]
    BY <1>4 DEF UserShutdown, TypeOK
  <2> QED BY <1>4, <2>1 DEF UserShutdown, TypeOK, socketVars
<1> QED BY <1>1, <1>2, <1>3, <1>4 DEF Users

(* A value is broadcast.                                                   *)
LEMMA BroadcastType ==
  ASSUME TypeOK, NEW v \in {"Connected", "Disconnect", "Reconnect", "Shutdown"}, Broadcast(v)
  PROVE  /\ connectivity' \in {"none", "Connected", "Disconnect", "Reconnect", "Shutdown"}
         /\ unread' \in [Channel -> 0..2]
BY DEF TypeOK, Broadcast, SmallerOf

(* The socket takes a command of a channel.                                *)
LEMMA SocketTakesType ==
  ASSUME TypeOK, NEW r, SocketTakes(r)
  PROVE  /\ outcome' \in [Request -> Outcome]
         /\ connectivity' \in {"none", "Connected", "Disconnect", "Reconnect", "Shutdown"}
         /\ unread' \in [Channel -> 0..2] /\ writing' \in {"none", "state", "send"}
<1> writing' = "none"
  BY DEF SocketTakes
<1>1. /\ "ok" \in Outcome /\ "error" \in Outcome /\ "dropped" \in Outcome
      /\ "disconnected" \in Outcome
  BY DEF Outcome, Answers
<1>2. \A R, o : o \in Outcome => Answer(outcome, R, o) \in [Request -> Outcome]
  BY OutcomeType DEF TypeOK
<1>3. CASE /\ outcome' = Answer(outcome, IF r.kind \in {"leave", "cast"} THEN {r} ELSE {}, "ok")
           /\ UNCHANGED <<connectivity, unread>>
  <2>1. outcome' \in [Request -> Outcome]
    BY <1>1, <1>2, <1>3
  <2> QED BY <1>3, <2>1 DEF TypeOK
<1>4. CASE Disconnected("Reconnect",
             Answer(outcome, {r}, IF r.kind \in {"leave", "call"} THEN "error" ELSE "dropped"))
  <2> DEFINE out == Answer(outcome, {r}, IF r.kind \in {"leave", "call"} THEN "error" ELSE "dropped")
  <2>1. out \in [Request -> Outcome]
    BY <1>1, <1>2
  <2>2. Disconnected("Reconnect", out)
    BY <1>4
  <2> HIDE DEF out
  <2>3. outcome' \in [Request -> Outcome]
    BY <1>1, <2>1, <2>2, OutcomeType DEF Disconnected
  <2> QED BY <2>2, <2>3, BroadcastType DEF Disconnected
<1> QED BY <1>3, <1>4 DEF SocketTakes

(* The socket.                                                             *)
LEMMA SocketType ==
  ASSUME TypeOK, Socket
  PROVE  TypeOK'
<1>1. /\ "disconnected" \in Outcome /\ "dropped" \in Outcome /\ "ok" \in Outcome
      /\ "rejected" \in Outcome /\ "timeout" \in Outcome /\ "ShutDown" \in Phase
      /\ "WaitingToJoin" \in Phase /\ "WaitingForSocketToConnect" \in Phase
      /\ "Requested" \in Phase /\ "none" \in Phase
  BY DEF Outcome, Answers, Phase, Unspawned, Ended
<1>2. \A R, o : o \in Outcome => Answer(outcome, R, o) \in [Request -> Outcome]
  BY OutcomeType DEF TypeOK
<1>3. CASE SocketConnects
  BY <1>3, BroadcastType DEF SocketConnects, TypeOK, privateVars, userVars
<1>4. CASE SocketDisconnects
  <2>1. PICK v \in {"Disconnect", "Reconnect", "Shutdown"} : Disconnected(v, outcome)
    BY <1>4 DEF SocketDisconnects
  <2>2. outcome' \in [Request -> Outcome]
    BY <1>1, <1>2, <2>1 DEF Disconnected
  <2> QED BY <1>4, <2>1, <2>2, BroadcastType
          DEF SocketDisconnects, Disconnected, TypeOK, privateVars, userVars
<1>5. CASE SocketTakesState
  <2>1. chanStateQ' \in Seq(RequestsOf({"join", "leave"})) /\ SocketTakes(Head(chanStateQ))
    BY <1>5, QueueSteps DEF SocketTakesState, TypeOK
  <2> QED BY <1>5, <2>1, SocketTakesType DEF SocketTakesState, TypeOK, privateVars, userVars
<1>6. CASE SocketTakesSend
  <2>1. sendQ' \in Seq(RequestsOf({"call", "cast"})) /\ SocketTakes(Head(sendQ))
    BY <1>6, QueueSteps DEF SocketTakesSend, TypeOK
  <2> QED BY <1>6, <2>1, SocketTakesType DEF SocketTakesSend, TypeOK, privateVars, userVars
<1>7. CASE SocketEnds
  <2>1. outcome' \in [Request -> Outcome]
    BY <1>1, <1>2, <1>7 DEF SocketEnds
  <2>2. phase' \in [Channel -> Phase]
    BY <1>1, <1>7 DEF SocketEnds, TypeOK
  <2>3. chanStateQ' \in Seq(RequestsOf({"join", "leave"})) /\ sendQ' \in Seq(RequestsOf({"call", "cast"}))
    BY <1>7, EmptyQueue DEF SocketEnds
  <2> QED BY <1>7, <2>1, <2>2, <2>3 DEF SocketEnds, TypeOK, privateVars, userVars
<1>8. ASSUME NEW r \in Request, SocketAnswers(r)
      PROVE  TypeOK'
  <2>1. PICK o \in {"ok", "rejected", "timeout"} :
           /\ outcome' = Answer(outcome, {r}, o)
           /\ pushQ' = IF r.kind = "join" /\ o = "ok" THEN [pushQ EXCEPT ![r.chan] = <<>>] ELSE pushQ
    BY <1>8 DEF SocketAnswers
  <2>2. outcome' \in [Request -> Outcome]
    BY <1>1, <1>2, <2>1
  <2>3. pushQ' \in [Channel -> Seq(PushKind)]
    BY <2>1, EmptyQueue DEF TypeOK
  <2> QED BY <1>8, <2>2, <2>3 DEF SocketAnswers, TypeOK, socketVars, privateVars, userVars
<1>9. ASSUME NEW c \in Channel, RequestChannel(c)
      PROVE  TypeOK'
  <2>1. phase' \in [Channel -> Phase]
    BY <1>1, <1>9 DEF RequestChannel, TypeOK
  <2> QED BY <1>9, <2>1 DEF RequestChannel, TypeOK, socketVars, privateVars, userVars
<1>10. ASSUME NEW c \in Channel, SpawnChannel(c)
       PROVE  TypeOK'
  <2>1. phase' \in [Channel -> Phase] /\ unread' \in [Channel -> 0..2]
    BY <1>1, <1>10 DEF SpawnChannel, TypeOK
  <2> QED BY <1>10, <2>1 DEF SpawnChannel, TypeOK, socketVars, privateVars, userVars
<1>11. ASSUME NEW c \in Channel, NEW m \in PushKind, SocketPushes(c, m)
       PROVE  TypeOK'
  <2>1. Append(pushQ[c], m) \in Seq(PushKind)
    BY QueueSteps DEF TypeOK
  <2>2. pushQ' \in [Channel -> Seq(PushKind)]
    BY <1>11, <2>1 DEF SocketPushes, TypeOK
  <2> QED BY <1>11, <2>2 DEF SocketPushes, TypeOK, socketVars, privateVars, userVars
<1>12. CASE SocketWrites
  BY <1>12 DEF SocketWrites, TypeOK, privateVars, userVars
<1> QED BY <1>3, <1>4, <1>5, <1>6, <1>7, <1>8, <1>9, <1>10, <1>11, <1>12 DEF Socket

(* Every step, with what JoinedResult needs to know of the task.           *)
LEMMA StepType ==
  ASSUME TypeOK, [Next]_vars,
         \A c \in Channel : phase[c] = "Joining" => task[c].awaiting \in RequestsOf({"join"})
  PROVE  TypeOK'
<1>1. ASSUME NEW c \in Channel, Task(c) PROVE TypeOK'
  <2>1. ASSUME Exit(c) PROVE TypeOK'
    <3>1. End(c, "ShutDown", outcome) /\ UNCHANGED <<socketVars, unread>> /\ "ShutDown" \in Ended
      BY <2>1 DEF Exit, Ended
    <3>2. outcome \in [Request -> Outcome]
      BY DEF TypeOK
    <3> QED BY <3>1, <3>2, EndType
  <2> QED BY <1>1, <2>1, NewsType, ResultType, PreparedType, CommandType, TrafficType, SubmitType,
             SubmitFailsType DEF Task
<1>2. CASE UNCHANGED vars
  BY <1>2 DEF TypeOK, vars, socketVars, userVars
<1> QED BY <1>1, <1>2, UsersType, SocketType DEF Next
-----------------------------------------------------------------------------
(***************************************************************************)
(* The inductive invariant, a channel at a time                            *)
(***************************************************************************)
BusyWith(c, kinds) == task[c].busy # NoRequest /\ task[c].busy.kind \in kinds

(* What a task holds is about its own channel.                             *)
Own(c) ==
  /\ task[c].busy # NoRequest => task[c].busy.chan = c
  /\ task[c].awaiting # NoRequest => task[c].awaiting.chan = c
  /\ \A u \in UserHeld(c) : u.chan = c

(* A joined channel has receivers, and one that joins or leaves an answer  *)
(* to come.                                                                *)
Awaits(c) ==
  /\ phase[c] = "Joining" => task[c].awaiting \in RequestsOf({"join"})
  /\ phase[c] = "Leaving" => task[c].awaiting \in RequestsOf({"leave"})
  /\ task[c].awaiting # NoRequest => /\ phase[c] \in {"Joining", "Leaving"}
                                     /\ outcome[task[c].awaiting] # "free"
  /\ receiving[c] # NoRequest <=> phase[c] = "Joined"

(* Whom a task has to answer in each of its states, whether it counts its  *)
(* attempts, and what its handler can be about to submit.                  *)
Hands(c) ==
  /\ task[c].joiners # {} => phase[c] = "Joining" \/ BusyWith(c, {"join"})
  /\ task[c].leavers # {} => phase[c] = "Leaving" \/ BusyWith(c, {"leave"})
  /\ task[c].rejoin # NoRejoin =>
       \/ phase[c] \in {"WaitingForSocketToConnect", "WaitingToRejoin", "Joining"}
       \/ BusyWith(c, {"join"})
  /\ BusyWith(c, {"join"}) => phase[c] \in {"WaitingToJoin", "WaitingToRejoin", "Leaving", "Left"}
  /\ BusyWith(c, {"leave"}) => phase[c] \in {"Joining", "Joined"}
  /\ BusyWith(c, {"call", "cast"}) => phase[c] = "Joined"

(* Who waits on the channel is in the hands of its task, and OneUnderWay of *)
(* one channel.                                                            *)
Held(c) ==
  \A u \in RequestsOf(UserKind) : u.chan = c /\ outcome[u] = "pending" => u \in UserHeld(c)
Alone(c) ==
  \A r \in RequestsOf({"join", "leave"}) :
    r.chan = c /\ outcome[r] # "free" =>
      task[c].awaiting = r /\ receiving[c] = NoRequest

InvAt(c) == Own(c) /\ Awaits(c) /\ Hands(c) /\ Held(c) /\ Alone(c)
Inv == TypeOK /\ \A c \in Channel : InvAt(c)

-----------------------------------------------------------------------------
(***************************************************************************)
(* How steps of a task keep the invariant                                  *)
(***************************************************************************)
(* Only oneshots of the channel are different in out, and answered there.  *)
Told(c, out) ==
  /\ out \in [Request -> Outcome]
  /\ \A r \in Request :
       out[r] # outcome[r] => /\ r.chan = c /\ outcome[r] = "pending"
                              /\ out[r] \in Answers \cup {"free"}
                              /\ out[r] = "free" => r \in Unanswered

(* Nobody is told yet.                                                     *)
LEMMA NobodyTold == ASSUME TypeOK, NEW c PROVE Told(c, outcome)
BY DEF TypeOK, Told

OfChannel(c, R) == \A r \in R \cap Request : r.chan = c

(* Oneshots of the channel are told, and so are not pending any more.      *)
LEMMA OthersTold ==
  ASSUME NEW c, NEW out, Told(c, out), NEW R, OfChannel(c, R), NEW o \in Answers
  PROVE  /\ Told(c, Answer(out, R, o))
         /\ \A r \in Request : Answer(out, R, o)[r] = "pending" => out[r] = "pending" /\ r \notin R
<1> DEFINE new == Answer(out, R, o)
<1>1. new \in [Request -> Outcome]
  BY OutcomeType DEF Told, Outcome
<1>2. ASSUME NEW r \in Request
      PROVE  \/ new[r] = out[r]
             \/ r \in R /\ out[r] = "pending" /\ new[r] = IF r \in Unanswered THEN "free" ELSE o
  BY DEF Answer
<1>3. ASSUME NEW r \in Request, new[r] = "pending" PROVE out[r] = "pending" /\ r \notin R
  BY <1>3 DEF Answer, Answers
<1> HIDE DEF new
<1>4. "pending" \notin Answers \cup {"free"}
  BY DEF Answers
<1>5. Told(c, new)
  <2>1. ASSUME NEW r \in Request, new[r] # outcome[r]
        PROVE  /\ r.chan = c /\ outcome[r] = "pending" /\ new[r] \in Answers \cup {"free"}
               /\ new[r] = "free" => r \in Unanswered
    <3>1. CASE new[r] = out[r]
      BY <2>1, <3>1 DEF Told
    <3>2. CASE r \in R /\ out[r] = "pending" /\ new[r] = IF r \in Unanswered THEN "free" ELSE o
      <4>1. outcome[r] = "pending"
        BY <1>4, <3>2 DEF Told
      <4>2. o # "free"
        BY DEF Answers
      <4>3. r.chan = c
        BY <3>2 DEF OfChannel
      <4> QED BY <3>2, <4>1, <4>2, <4>3
    <3> QED BY <1>2, <3>1, <3>2
  <2> QED BY <1>1, <2>1 DEF Told
<1> QED BY <1>3, <1>5 DEF new

(* A step of the task of c.                                                *)
OnlyOf(c) ==
  /\ \A d \in Channel \ {c} :
       /\ phase'[d] = phase[d] /\ task'[d] = task[d] /\ receiving'[d] = receiving[d]
       /\ commands'[d] = commands[d] /\ sends'[d] = sends[d]
  /\ \A r \in Request : r.chan # c => outcome'[r] = outcome[r]

(* It leaves every other channel as it is.                                 *)
LEMMA Elsewhere ==
  ASSUME TypeOK, NEW c \in Channel, NEW d \in Channel, d # c, OnlyOf(c), InvAt(d)
  PROVE  InvAt(d)'
<1>1. /\ phase'[d] = phase[d] /\ task'[d] = task[d] /\ receiving'[d] = receiving[d]
      /\ UserHeld(d)' = UserHeld(d)
      /\ \A r \in Request : r.chan = d => outcome'[r] = outcome[r]
  BY DEF OnlyOf, UserHeld, Waiters
<1>2. task[d].awaiting # NoRequest => outcome'[task[d].awaiting] = outcome[task[d].awaiting]
  <2>1. task[d].awaiting # NoRequest => task[d].awaiting \in Request /\ task[d].awaiting.chan = d
    BY DEF TypeOK, TaskType, RequestsOf, InvAt, Own
  <2> QED BY <1>1, <2>1
<1>3. Own(d)'
  BY <1>1 DEF InvAt, Own
<1>4. Awaits(d)' /\ Hands(d)'
  BY <1>1, <1>2 DEF InvAt, Awaits, Hands, BusyWith
<1>5. Held(d)'
  BY <1>1 DEF InvAt, Held, RequestsOf
<1>6. Alone(d)'
  BY <1>1 DEF InvAt, Alone, RequestsOf
<1> QED BY <1>3, <1>4, <1>5, <1>6 DEF InvAt

(* Who is told is no longer free to be taken up, nor newly pending.        *)
LEMMA ToldKeeps ==
  ASSUME NEW c, NEW out, Told(c, out), NEW r \in Request
  PROVE  /\ out[r] = "pending" => outcome[r] = "pending"
         /\ out[r] # "free" => outcome[r] # "free"
         /\ r.kind \in {"join", "leave"} /\ outcome[r] # "free" =>
              out[r] # "free"
         /\ r.chan # c => out[r] = outcome[r]
BY DEF Told, Answers, Unanswered, RequestsOf

(* States without receivers or waiters.                                    *)
Settled == {"WaitingForSocketToConnect", "WaitingToJoin", "WaitingToRejoin", "Left",
            "ShuttingDown", "ShutDown", "Gone"}

(* What Enter makes of the task.                                           *)
LEMMA EnterFields ==
  ASSUME TypeOK, NEW c \in Channel, NEW p, NEW n, NEW out, Enter(c, p, n, out)
  PROVE  /\ phase'[c] = p /\ receiving'[c] = NoRequest
         /\ task'[c].rejoin = n /\ task'[c].busy = NoRequest /\ task'[c].awaiting = NoRequest
         /\ task'[c].joiners = {} /\ task'[c].leavers = {}
         /\ \A d \in Channel \ {c} :
              phase'[d] = phase[d] /\ task'[d] = task[d] /\ receiving'[d] = receiving[d]
<1>1. task'[c] = [Blank EXCEPT !.rejoin = n]
  BY DEF TypeOK, Enter
<1> QED BY <1>1 DEF TypeOK, Enter, DropReceivers, Blank

(* Whom Enter leaves pending, and what it leaves in use.                   *)
LEMMA EnterOutcome ==
  ASSUME TypeOK, NEW c \in Channel, NEW p, NEW n, NEW out, out \in [Request -> Outcome],
         Enter(c, p, n, out), NEW r \in Request
  PROVE  /\ outcome'[r] = "pending" => out[r] = "pending" /\ r \notin Waiters(c)
         /\ outcome'[r] # "free" =>
              out[r] # "free" /\ r # task[c].awaiting
         /\ r \notin Waiters(c) /\ r # task[c].awaiting => outcome'[r] = out[r]
<1> DEFINE o == Answer(out, Waiters(c), "dropped")[r]
<1>1. /\ o = "pending" => out[r] = "pending" /\ r \notin Waiters(c)
      /\ o # "free" => out[r] # "free"
      /\ r \notin Waiters(c) => o = out[r]
      /\ o \in Outcome
  BY DEF Answer, Outcome, Answers
<1>2. outcome'[r] = IF r # task[c].awaiting THEN o ELSE "free"
  BY DEF Enter, Release
<1> HIDE DEF o
<1>3. r = task[c].awaiting => outcome'[r] = "free"
  BY <1>1, <1>2 DEF Outcome
<1> QED BY <1>1, <1>2, <1>3

(* Entering such a state, whoever was told of it before.                   *)
LEMMA EnterKeeps ==
  ASSUME TypeOK, NEW c \in Channel, InvAt(c), NEW p \in Settled, NEW n, NEW out, Told(c, out),
         Enter(c, p, n, out),
         n # NoRejoin => p \in {"WaitingForSocketToConnect", "WaitingToRejoin"},
         \A d \in Channel \ {c} : commands'[d] = commands[d] /\ sends'[d] = sends[d],
         Range(commands'[c]) \cup Range(sends'[c]) \subseteq UserHeld(c),
         \A u \in RequestsOf(UserKind) : out[u] = "pending" /\ u \in UserHeld(c) =>
           u \in Waiters(c) \cup Range(commands'[c]) \cup Range(sends'[c])
  PROVE  InvAt(c)' /\ OnlyOf(c)
<1>1. /\ phase'[c] = p /\ receiving'[c] = NoRequest
      /\ task'[c].rejoin = n /\ task'[c].busy = NoRequest /\ task'[c].awaiting = NoRequest
      /\ task'[c].joiners = {} /\ task'[c].leavers = {}
      /\ \A d \in Channel \ {c} :
           phase'[d] = phase[d] /\ task'[d] = task[d] /\ receiving'[d] = receiving[d]
  BY EnterFields
<1>2. UserHeld(c)' = Range(commands'[c]) \cup Range(sends'[c])
  BY <1>1 DEF UserHeld, Waiters
<1>3. out \in [Request -> Outcome]
  BY DEF Told
<1>4. \A r \in Request :
        /\ outcome'[r] = "pending" => out[r] = "pending" /\ r \notin Waiters(c)
        /\ outcome'[r] # "free" =>
             out[r] # "free" /\ r # task[c].awaiting
        /\ r \notin Waiters(c) /\ r # task[c].awaiting => outcome'[r] = out[r]
  BY <1>3, EnterOutcome
<1>5. Own(c)'
  BY <1>1, <1>2 DEF InvAt, Own
<1>6. Awaits(c)' /\ Hands(c)'
  BY <1>1 DEF Awaits, Hands, BusyWith, Settled
<1>7. Held(c)'
  <2>1. ASSUME NEW u \in RequestsOf(UserKind), u.chan = c, outcome'[u] = "pending"
        PROVE  u \in UserHeld(c)'
    <3>1. u \in Request
      BY DEF RequestsOf
    <3>2. out[u] = "pending" /\ u \notin Waiters(c) /\ outcome[u] = "pending"
      BY <1>4, <2>1, <3>1, ToldKeeps
    <3>3. u \in UserHeld(c)
      BY <2>1, <3>2 DEF InvAt, Held
    <3> QED BY <1>2, <3>2, <3>3
  <2> QED BY <2>1 DEF Held
<1>8. Alone(c)'
  <2>1. ASSUME NEW r \in RequestsOf({"join", "leave"}), r.chan = c,
               outcome'[r] # "free"
        PROVE  FALSE
    <3>1. r \in Request
      BY DEF RequestsOf
    <3>2. outcome[r] # "free" /\ r # task[c].awaiting
      BY <1>4, <2>1, <3>1, ToldKeeps
    <3> QED BY <2>1, <3>2 DEF InvAt, Alone
  <2> QED BY <2>1 DEF Alone
<1>9. \A r \in Request : r.chan # c => outcome'[r] = outcome[r]
  <2>1. ASSUME NEW r \in Request, r.chan # c PROVE outcome'[r] = outcome[r]
    <3>1. r \notin Waiters(c) /\ r # task[c].awaiting
      BY <2>1, RequestAssumption DEF InvAt, Own, UserHeld
    <3> QED BY <1>4, <2>1, <3>1, ToldKeeps
  <2> QED BY <2>1
<1> QED BY <1>1, <1>5, <1>6, <1>7, <1>8, <1>9 DEF InvAt, OnlyOf

(* Entering such a state by a step that leaves the queues of users alone.  *)
LEMMA EnterOnly ==
  ASSUME TypeOK, NEW c \in Channel, InvAt(c), NEW p \in Settled, NEW n, NEW out, Told(c, out),
         Enter(c, p, n, out), UNCHANGED <<commands, sends>>,
         n # NoRejoin => p \in {"WaitingForSocketToConnect", "WaitingToRejoin"}
  PROVE  InvAt(c)' /\ OnlyOf(c)
<1>1. Range(commands'[c]) \cup Range(sends'[c]) \subseteq UserHeld(c)
  BY DEF UserHeld
<1>2. \A u \in RequestsOf(UserKind) : out[u] = "pending" /\ u \in UserHeld(c) =>
        u \in Waiters(c) \cup Range(commands'[c]) \cup Range(sends'[c])
  BY DEF UserHeld
<1> QED BY <1>1, <1>2, EnterKeeps

(* What is told to those whom the task holds.                              *)
LEMMA HeldTold ==
  ASSUME NEW c \in Channel, InvAt(c), NEW out, Told(c, out), NEW o \in Answers,
         NEW R \in SUBSET (UserHeld(c) \cup {task[c].busy})
  PROVE  /\ Told(c, Answer(out, R, o))
         /\ \A r \in Request : Answer(out, R, o)[r] = "pending" => out[r] = "pending" /\ r \notin R
<1>1. OfChannel(c, R)
  BY RequestAssumption DEF InvAt, Own, OfChannel
<1> QED BY <1>1, OthersTold

(* The end of the task.                                                    *)
LEMMA EndKeeps ==
  ASSUME TypeOK, NEW c \in Channel, InvAt(c), NEW p \in Ended, NEW out, Told(c, out),
         End(c, p, out)
  PROVE  InvAt(c)' /\ OnlyOf(c)
<1> DEFINE R == UserHeld(c) \cup {task[c].busy}
           new == Answer(out, R, "dropped")
<1>1. /\ Told(c, new)
      /\ \A r \in Request : new[r] = "pending" => r \notin R
  BY HeldTold DEF Answers
<1>2. Enter(c, p, NoRejoin, new) /\ p \in Settled
  BY DEF End, Ended, Settled
<1>3. /\ commands'[c] = <<>> /\ sends'[c] = <<>>
      /\ \A d \in Channel \ {c} : commands'[d] = commands[d] /\ sends'[d] = sends[d]
  BY DEF End, TypeOK
<1>4. Range(commands'[c]) \cup Range(sends'[c]) = {}
  BY <1>3, EmptyElements
<1>5. \A u \in RequestsOf(UserKind) : ~(new[u] = "pending" /\ u \in UserHeld(c))
  BY <1>1 DEF RequestsOf
<1> HIDE DEF new
<1> QED BY <1>1, <1>2, <1>3, <1>4, <1>5, EnterKeeps

(* A command is taken: it is held by the handler alone.                    *)
LEMMA TakenHeld ==
  ASSUME TypeOK, NEW c \in Channel, NEW kind \in UserKind, TakeCommand(c, kind)
  PROVE  /\ Head(commands[c]) \in RequestsOf({kind}) /\ Head(commands[c]) \in UserHeld(c)
         /\ Range(commands[c]) = {Head(commands[c])} \cup Range(commands'[c])
         /\ sends' = sends
         /\ \A d \in Channel \ {c} : commands'[d] = commands[d]
         /\ task[c].busy = NoRequest
<1>1. commands[c] \in Seq(RequestsOf(UserKind)) /\ commands[c] # <<>>
  BY DEF TypeOK, TakeCommand
<1>2. commands'[c] = Tail(commands[c]) /\ \A d \in Channel \ {c} : commands'[d] = commands[d]
  BY DEF TypeOK, TakeCommand
<1>3. Range(commands[c]) = {Head(commands[c])} \cup Range(commands'[c])
  BY <1>1, <1>2, QueueElements
<1>4. Head(commands[c]) \in RequestsOf({kind})
  BY TakeCommandType
<1> QED BY <1>2, <1>3, <1>4 DEF TakeCommand, UserHeld, Selecting, Busy

(* Entering such a state with a command in hand, whose caller is told.     *)
LEMMA EnterTaken ==
  ASSUME TypeOK, NEW c \in Channel, InvAt(c), NEW kind \in UserKind, TakeCommand(c, kind),
         NEW p \in Settled, NEW n, NEW o \in Answers,
         Enter(c, p, n, Answer(outcome, {Head(commands[c])}, o)),
         n # NoRejoin => p \in {"WaitingForSocketToConnect", "WaitingToRejoin"}
  PROVE  InvAt(c)' /\ OnlyOf(c)
<1> DEFINE u == Head(commands[c])
           out == Answer(outcome, {u}, o)
<1>1. /\ u \in UserHeld(c) /\ sends' = sends
      /\ Range(commands[c]) = {u} \cup Range(commands'[c])
      /\ \A d \in Channel \ {c} : commands'[d] = commands[d]
  BY TakenHeld
<1>2. Told(c, out) /\ \A r \in Request : out[r] = "pending" => r # u
  BY <1>1, NobodyTold, HeldTold
<1>3. Enter(c, p, n, out)
  OBVIOUS
<1> HIDE DEF out, u
<1>4. Range(commands'[c]) \cup Range(sends'[c]) \subseteq UserHeld(c)
  BY <1>1 DEF UserHeld
<1>5. \A v \in RequestsOf(UserKind) : out[v] = "pending" /\ v \in UserHeld(c) =>
        v \in Waiters(c) \cup Range(commands'[c]) \cup Range(sends'[c])
  BY <1>1, <1>2 DEF UserHeld, RequestsOf
<1> QED BY <1>1, <1>2, <1>3, <1>4, <1>5, EnterKeeps

(* A step that keeps the state of the task, its receivers and what it      *)
(* waits for, and passes on or answers the commands it has in hand.        *)
LEMMA KeepKeeps ==
  ASSUME TypeOK, NEW c \in Channel, InvAt(c), Told(c, outcome'),
         phase' = phase, receiving' = receiving, task'[c].awaiting = task[c].awaiting,
         \A d \in Channel \ {c} :
           task'[d] = task[d] /\ commands'[d] = commands[d] /\ sends'[d] = sends[d],
         Own(c)', Hands(c)',
         \A u \in RequestsOf(UserKind) : outcome'[u] = "pending" /\ u \in UserHeld(c) => u \in UserHeld(c)'
  PROVE  InvAt(c)' /\ OnlyOf(c)
<1>1. \A r \in Request :
        /\ outcome'[r] = "pending" => outcome[r] = "pending"
        /\ outcome'[r] # "free" => outcome[r] # "free"
        /\ r.kind \in {"join", "leave"} /\ outcome[r] # "free" =>
             outcome'[r] # "free"
        /\ r.chan # c => outcome'[r] = outcome[r]
  BY ToldKeeps
<1>2. task[c].awaiting # NoRequest =>
        task[c].awaiting \in Request /\ task[c].awaiting.kind \in {"join", "leave"}
  BY DEF TypeOK, TaskType, RequestsOf
<1>3. Awaits(c)'
  BY <1>1, <1>2 DEF InvAt, Awaits
<1>4. Held(c)'
  BY <1>1 DEF InvAt, Held, RequestsOf
<1>5. Alone(c)'
  BY <1>1 DEF InvAt, Alone, RequestsOf
<1> QED BY <1>1, <1>3, <1>4, <1>5 DEF InvAt, OnlyOf

(* What a task keeps when its select starts over.                          *)
LEMMA StayFields ==
  ASSUME TypeOK, NEW c \in Channel, NEW b, task' = [task EXCEPT ![c].deaf = b]
  PROVE  /\ task'[c].rejoin = task[c].rejoin /\ task'[c].busy = task[c].busy
         /\ task'[c].awaiting = task[c].awaiting
         /\ task'[c].joiners = task[c].joiners /\ task'[c].leavers = task[c].leavers
         /\ \A d \in Channel \ {c} : task'[d] = task[d]
<1>1. task'[c] = [task[c] EXCEPT !.deaf = b]
  BY DEF TypeOK
<1> QED BY <1>1 DEF TypeOK, TaskType

(* The select starts over, and nothing else happens.                       *)
LEMMA StayKeeps ==
  ASSUME TypeOK, NEW c \in Channel, InvAt(c), NEW b, task' = [task EXCEPT ![c].deaf = b],
         UNCHANGED <<phase, receiving, commands, sends, outcome>>
  PROVE  InvAt(c)' /\ OnlyOf(c)
<1>1. /\ task'[c].rejoin = task[c].rejoin /\ task'[c].busy = task[c].busy
      /\ task'[c].awaiting = task[c].awaiting
      /\ task'[c].joiners = task[c].joiners /\ task'[c].leavers = task[c].leavers
      /\ \A d \in Channel \ {c} : task'[d] = task[d]
  BY StayFields
<1>2. UserHeld(c)' = UserHeld(c)
  BY <1>1 DEF UserHeld, Waiters
<1>3. Own(c)' /\ Hands(c)'
  BY <1>1, <1>2 DEF InvAt, Own, Hands, BusyWith
<1>4. Told(c, outcome')
  BY NobodyTold
<1> QED BY <1>1, <1>2, <1>3, <1>4, KeepKeeps

(* The select starts over, and the caller of a command is told.            *)
LEMMA StayTaken ==
  ASSUME TypeOK, NEW c \in Channel, InvAt(c), NEW kind \in UserKind, TakeCommand(c, kind),
         NEW o \in Answers, outcome' = Answer(outcome, {Head(commands[c])}, o), Stay(c)
  PROVE  InvAt(c)' /\ OnlyOf(c)
<1> DEFINE u == Head(commands[c])
<1>1. /\ task'[c].rejoin = task[c].rejoin /\ task'[c].busy = task[c].busy
      /\ task'[c].awaiting = task[c].awaiting
      /\ task'[c].joiners = task[c].joiners /\ task'[c].leavers = task[c].leavers
      /\ \A d \in Channel \ {c} : task'[d] = task[d]
  BY StayFields DEF Stay
<1>2. /\ u \in UserHeld(c) /\ sends' = sends
      /\ Range(commands[c]) = {u} \cup Range(commands'[c])
      /\ \A d \in Channel \ {c} : commands'[d] = commands[d]
  BY TakenHeld
<1>3. Told(c, outcome') /\ \A r \in Request : outcome'[r] = "pending" => r # u
  BY <1>2, NobodyTold, HeldTold
<1> HIDE DEF u
<1>4. UserHeld(c) = {u} \cup UserHeld(c)'
  BY <1>1, <1>2 DEF UserHeld, Waiters
<1>5. Own(c)' /\ Hands(c)'
  BY <1>1, <1>4 DEF InvAt, Own, Hands, BusyWith, Stay
<1>6. \A v \in RequestsOf(UserKind) :
        outcome'[v] = "pending" /\ v \in UserHeld(c) => v \in UserHeld(c)'
  BY <1>3, <1>4 DEF RequestsOf
<1>7. phase' = phase /\ receiving' = receiving
  BY DEF Stay
<1> QED BY <1>1, <1>2, <1>3, <1>5, <1>6, <1>7, KeepKeeps

-----------------------------------------------------------------------------
(***************************************************************************)
(* The invariant, an action at a time                                      *)
(***************************************************************************)
(* Shutdown, and news of the socket.                                       *)
LEMMA NewsKeeps ==
  ASSUME TypeOK, NEW c \in Channel, InvAt(c), Shutdown(c) \/ Lagged(c) \/ ConnectivityChanged(c)
  PROVE  InvAt(c)' /\ OnlyOf(c)
<1>1. Told(c, outcome)
  BY NobodyTold
<1>2. CASE Shutdown(c)
  <2> DEFINE out == Answer(outcome, Waiters(c), "shutdown")
  <2>1. Told(c, out)
    BY <1>1, HeldTold DEF UserHeld, Answers
  <2>2. /\ Enter(c, "ShuttingDown", NoRejoin, out) /\ UNCHANGED <<commands, sends>>
        /\ "ShuttingDown" \in Settled
    BY <1>2 DEF Shutdown, userVars, Settled
  <2> HIDE DEF out
  <2> QED BY <2>1, <2>2, EnterOnly
<1>3. CASE Lagged(c)
  BY <1>3, StayKeeps DEF Lagged, userVars
<1>4. CASE ConnectivityChanged(c)
  <2> DEFINE out == NewsAnswer(c)
  <2>1. Told(c, out)
    BY <1>1, HeldTold DEF NewsAnswer, UserHeld, Waiters, Answers
  <2>2. UNCHANGED <<commands, sends>>
    BY <1>4 DEF ConnectivityChanged, userVars
  <2> HIDE DEF out
  <2>3. ASSUME NEW p \in Settled, NEW n, NEW o, o \in {outcome, out}, Enter(c, p, n, o),
               n # NoRejoin => p \in {"WaitingForSocketToConnect", "WaitingToRejoin"}
        PROVE  InvAt(c)' /\ OnlyOf(c)
    <3>1. Told(c, o)
      BY <1>1, <2>1, <2>3
    <3> QED BY <2>2, <2>3, <3>1, EnterOnly
  <2>4. ASSUME NEW n, WaitToRejoin(c, n, outcome) PROVE InvAt(c)' /\ OnlyOf(c)
    <3>1. Enter(c, "WaitingToRejoin", NextAttempt(n), outcome) /\ "WaitingToRejoin" \in Settled
      BY <2>4 DEF WaitToRejoin, Settled
    <3> QED BY <1>1, <2>2, <3>1, EnterOnly
  <2>5. ASSUME Stay(c), UNCHANGED outcome PROVE InvAt(c)' /\ OnlyOf(c)
    BY <2>2, <2>5, StayKeeps DEF Stay
  <2>6. /\ "WaitingToJoin" \in Settled /\ "WaitingForSocketToConnect" \in Settled
        /\ "Left" \in Settled /\ "ShuttingDown" \in Settled
    BY DEF Settled
  <2>7. CASE SocketConnected(c)
    BY <2>3, <2>4, <2>5, <2>6, <2>7 DEF SocketConnected, out
  <2>8. CASE SocketDisconnected(c)
    BY <2>3, <2>5, <2>6, <2>8 DEF SocketDisconnected, out
  <2>9. CASE SocketShutdown(c)
    BY <2>3, <2>6, <2>9 DEF SocketShutdown, out
  <2> QED BY <1>4, <2>7, <2>8, <2>9 DEF ConnectivityChanged
<1> QED BY <1>2, <1>3, <1>4

(* An answer of the socket.                                                *)
LEMMA ResultKeeps ==
  ASSUME TypeOK, NEW c \in Channel, InvAt(c), JoinedResult(c) \/ LeftResult(c)
  PROVE  InvAt(c)' /\ OnlyOf(c)
<1> DEFINE r == task[c].awaiting
           told(o) == Answer(outcome, task[c].joiners, o)
<1>1. \A o \in Answers : /\ Told(c, told(o))
                         /\ \A u \in Request : told(o)[u] = "pending" =>
                              outcome[u] = "pending" /\ u \notin task[c].joiners
  BY NobodyTold, HeldTold DEF UserHeld, Waiters
<1>2. Told(c, Answer(outcome, task[c].leavers, outcome[r])) \/ outcome[r] \notin Answers
  BY NobodyTold, HeldTold DEF UserHeld, Waiters
<1>3. CASE JoinedResult(c)
  <2>1. phase[c] = "Joining" /\ task[c].busy = NoRequest /\ "ok" \in Answers /\ "error" \in Answers
    BY <1>3 DEF JoinedResult, Selecting, Busy, Answers
  <2>2. CASE /\ phase' = [phase EXCEPT ![c] = "Joined"]
             /\ task' = [task EXCEPT ![c] = Blank]
             /\ outcome' = Release(told("ok"), {r})
             /\ receiving' = [receiving EXCEPT ![c] = r]
             /\ UNCHANGED <<pushQ, userVars>>
    <3>1. r \in RequestsOf({"join"}) /\ r \in Request /\ r # NoRequest /\ task[c].leavers = {}
      BY <2>1, RequestAssumption DEF InvAt, Awaits, Hands, BusyWith, RequestsOf
    <3>2. /\ phase'[c] = "Joined" /\ task'[c] = Blank /\ receiving'[c] = r
          /\ commands' = commands /\ sends' = sends
          /\ \A d \in Channel \ {c} :
               phase'[d] = phase[d] /\ task'[d] = task[d] /\ receiving'[d] = receiving[d]
      BY <2>2 DEF TypeOK, userVars
    <3>3. /\ task'[c].rejoin = NoRejoin /\ task'[c].busy = NoRequest /\ task'[c].awaiting = NoRequest
          /\ task'[c].joiners = {} /\ task'[c].leavers = {}
      BY <3>2 DEF Blank
    <3>4. UserHeld(c) = task[c].joiners \cup UserHeld(c)'
      BY <3>1, <3>2, <3>3 DEF UserHeld, Waiters
    <3> DEFINE out == told("ok")
    <3>5. Told(c, out) /\ \A u \in Request : out[u] = "pending" => u \notin task[c].joiners
      BY <1>1, <2>1
    <3>6. outcome' = Release(out, {r}) /\ out \in [Request -> Outcome]
      BY <2>2, <3>5 DEF Told
    <3> HIDE DEF out, told
    <3>7. \A u \in Request : /\ outcome'[u] = "pending" => out[u] = "pending"
                             /\ u # r => outcome'[u] = out[u]
                             /\ u = r => outcome'[u] = "free"
      BY <3>6 DEF Release, Outcome
    <3> HIDE DEF r
    <3>8. Own(c)'
      BY <3>3, <3>4 DEF InvAt, Own
    <3>9. Awaits(c)' /\ Hands(c)'
      BY <3>1, <3>2, <3>3 DEF Awaits, Hands, BusyWith
    <3>10. Held(c)'
      <4>1. ASSUME NEW u \in RequestsOf(UserKind), u.chan = c, outcome'[u] = "pending"
            PROVE  u \in UserHeld(c)'
        <5>1. u \in Request
          BY DEF RequestsOf
        <5>2. out[u] = "pending" /\ u \notin task[c].joiners /\ outcome[u] = "pending"
          BY <3>5, <3>7, <4>1, <5>1, ToldKeeps
        <5>3. u \in UserHeld(c)
          BY <4>1, <5>2 DEF InvAt, Held
        <5> QED BY <3>4, <5>2, <5>3
      <4> QED BY <4>1 DEF Held
    <3>11. Alone(c)'
      <4>1. ASSUME NEW u \in RequestsOf({"join", "leave"}), u.chan = c,
                   outcome'[u] # "free"
            PROVE  FALSE
        <5>1. u \in Request
          BY DEF RequestsOf
        <5>2. u # r /\ outcome[u] # "free"
          BY <3>5, <3>7, <4>1, <5>1, ToldKeeps
        <5> QED BY <4>1, <5>2 DEF InvAt, Alone, r
      <4> QED BY <4>1 DEF Alone
    <3>12. \A u \in Request : u.chan # c => outcome'[u] = outcome[u]
      <4>1. r.chan = c
        BY <3>1 DEF InvAt, Own, r
      <4> QED BY <3>5, <3>7, <4>1, ToldKeeps
    <3> QED BY <3>2, <3>8, <3>9, <3>10, <3>11, <3>12 DEF InvAt, OnlyOf
  <2>3. CASE /\ outcome[r] \in {"rejected", "disconnected", "timeout"}
             /\ WaitToRejoin(c, task[c].rejoin, told(outcome[r]))
             /\ UNCHANGED userVars
    <3>1. outcome[r] \in Answers
      BY <2>3 DEF Answers
    <3> DEFINE out == told(outcome[r])
    <3>2. Told(c, out)
      BY <1>1, <3>1
    <3>3. /\ Enter(c, "WaitingToRejoin", NextAttempt(task[c].rejoin), out)
          /\ UNCHANGED <<commands, sends>> /\ "WaitingToRejoin" \in Settled
      BY <2>3 DEF WaitToRejoin, userVars, Settled
    <3> HIDE DEF out
    <3> QED BY <3>2, <3>3, EnterOnly
  <2>4. CASE End(c, "Gone", told("error"))
    <3> DEFINE out == told("error")
    <3>1. Told(c, out) /\ End(c, "Gone", out) /\ "Gone" \in Ended
      BY <1>1, <2>1, <2>4 DEF Ended
    <3> HIDE DEF out
    <3> QED BY <3>1, EndKeeps
  <2> QED BY <1>3, <2>2, <2>3, <2>4 DEF JoinedResult
<1>4. CASE LeftResult(c)
  <2> DEFINE out == Answer(outcome, task[c].leavers, outcome[r])
  <2>1. outcome[r] \in Answers
    BY <1>4 DEF LeftResult, AnswerReady, Answers
  <2>2. Told(c, out)
    BY <1>2, <2>1
  <2>3. Enter(c, "Left", NoRejoin, out) /\ UNCHANGED <<commands, sends>> /\ "Left" \in Settled
    BY <1>4 DEF LeftResult, userVars, Settled
  <2> HIDE DEF out
  <2> QED BY <2>2, <2>3, EnterOnly
<1> QED BY <1>3, <1>4

(* What Prepare makes of the task.                                         *)
LEMMA PrepareFields ==
  ASSUME TypeOK, NEW c \in Channel, NEW r, NEW t \in TaskType, Prepare(c, r, t)
  PROVE  /\ task'[c].rejoin = t.rejoin /\ task'[c].busy = r /\ task'[c].awaiting = t.awaiting
         /\ task'[c].joiners = t.joiners /\ task'[c].leavers = t.leavers
         /\ \A d \in Channel \ {c} : task'[d] = task[d]
<1>1. task'[c] = [t EXCEPT !.busy = r, !.deaf = FALSE]
  BY DEF TypeOK, Prepare
<1> QED BY <1>1 DEF TypeOK, TaskType, Prepare

(* A command of the user, or the end of the sleep, has a join or a leave   *)
(* prepared: nobody waits yet in the state the command is taken in.        *)
LEMMA PreparedKeeps ==
  ASSUME TypeOK, NEW c \in Channel, InvAt(c), NEW r \in Request,
         Rejoin(c, r) \/ Join(c, r) \/ Leave(c, r)
  PROVE  InvAt(c)' /\ OnlyOf(c)
<1>1. task[c] \in TaskType /\ r # NoRequest
  BY RequestAssumption DEF TypeOK
<1>2. outcome' = outcome /\ phase' = phase /\ receiving' = receiving /\ task[c].busy = NoRequest
  BY DEF Rejoin, Join, Leave, TakeCommand, Selecting, Busy
<1>3. Told(c, outcome')
  BY <1>2, NobodyTold
<1>4. CASE Rejoin(c, r)
  <2>1. /\ task'[c].rejoin = task[c].rejoin /\ task'[c].busy = r
        /\ task'[c].awaiting = task[c].awaiting
        /\ task'[c].joiners = task[c].joiners /\ task'[c].leavers = task[c].leavers
        /\ \A d \in Channel \ {c} : task'[d] = task[d]
    BY <1>1, <1>4, PrepareFields DEF Rejoin
  <2>2. commands' = commands /\ sends' = sends /\ r.kind = "join" /\ r.chan = c
        /\ phase[c] = "WaitingToRejoin"
    BY <1>4 DEF Rejoin, userVars
  <2>3. UserHeld(c)' = UserHeld(c)
    BY <2>1, <2>2 DEF UserHeld, Waiters
  <2>4. Own(c)' /\ Hands(c)'
    BY <1>1, <1>2, <2>1, <2>2, <2>3 DEF InvAt, Own, Hands, BusyWith
  <2> QED BY <1>2, <1>3, <2>1, <2>2, <2>3, <2>4, KeepKeeps
<1>5. CASE Join(c, r)
  <2> DEFINE u == Head(commands[c])
             t == [task[c] EXCEPT !.joiners = {u}, !.rejoin = 0]
  <2>1. /\ u \in RequestsOf({"channel_join"}) /\ u \in UserHeld(c) /\ sends' = sends
        /\ Range(commands[c]) = {u} \cup Range(commands'[c])
        /\ \A d \in Channel \ {c} : commands'[d] = commands[d]
    BY <1>5, TakenHeld DEF Join, UserKind
  <2>2. t \in TaskType
    BY <1>1, <2>1, AttemptCounted DEF TaskType
  <2>3. Prepare(c, r, t) /\ r.kind = "join" /\ r.chan = c
        /\ phase[c] \in {"WaitingToJoin", "Leaving", "Left"}
    BY <1>5 DEF Join
  <2>4. t.rejoin = 0 /\ t.awaiting = task[c].awaiting /\ t.joiners = {u} /\ t.leavers = task[c].leavers
    BY <1>1 DEF TaskType
  <2> HIDE DEF t, u
  <2>5. /\ task'[c].rejoin = 0 /\ task'[c].busy = r /\ task'[c].awaiting = task[c].awaiting
        /\ task'[c].joiners = {u} /\ task'[c].leavers = task[c].leavers
        /\ \A d \in Channel \ {c} : task'[d] = task[d]
    BY <2>2, <2>3, <2>4, PrepareFields
  <2>6. task[c].joiners = {}
    BY <1>2, <2>3 DEF InvAt, Hands, BusyWith
  <2>7. UserHeld(c)' = UserHeld(c)
    BY <2>1, <2>5, <2>6 DEF UserHeld, Waiters
  <2>8. Own(c)' /\ Hands(c)'
    BY <1>1, <1>2, <2>3, <2>5, <2>7 DEF InvAt, Own, Hands, BusyWith
  <2> QED BY <1>2, <1>3, <2>1, <2>5, <2>7, <2>8, KeepKeeps
<1>6. CASE Leave(c, r)
  <2> DEFINE u == Head(commands[c])
             t == [task[c] EXCEPT !.leavers = {u}]
  <2>1. /\ u \in RequestsOf({"channel_leave"}) /\ u \in UserHeld(c) /\ sends' = sends
        /\ Range(commands[c]) = {u} \cup Range(commands'[c])
        /\ \A d \in Channel \ {c} : commands'[d] = commands[d]
    BY <1>6, TakenHeld DEF Leave, UserKind
  <2>2. t \in TaskType
    BY <1>1, <2>1 DEF TaskType
  <2>3. Prepare(c, r, t) /\ r.kind = "leave" /\ r.chan = c /\ phase[c] \in {"Joining", "Joined"}
    BY <1>6 DEF Leave
  <2>4. /\ t.rejoin = task[c].rejoin /\ t.awaiting = task[c].awaiting
        /\ t.joiners = task[c].joiners /\ t.leavers = {u}
    BY <1>1 DEF TaskType
  <2> HIDE DEF t, u
  <2>5. /\ task'[c].rejoin = task[c].rejoin /\ task'[c].busy = r
        /\ task'[c].awaiting = task[c].awaiting
        /\ task'[c].joiners = task[c].joiners /\ task'[c].leavers = {u}
        /\ \A d \in Channel \ {c} : task'[d] = task[d]
    BY <2>2, <2>3, <2>4, PrepareFields
  <2>6. task[c].leavers = {}
    BY <1>2, <2>3 DEF InvAt, Hands, BusyWith
  <2>7. UserHeld(c)' = UserHeld(c)
    BY <2>1, <2>5, <2>6 DEF UserHeld, Waiters
  <2>8. Own(c)' /\ Hands(c)'
    BY <1>1, <1>2, <2>3, <2>5, <2>7 DEF InvAt, Own, Hands, BusyWith
  <2> QED BY <1>2, <1>3, <2>1, <2>5, <2>7, <2>8, KeepKeeps
<1> QED BY <1>4, <1>5, <1>6

(* A command that leaves no frame to send.                                 *)
LEMMA CommandKeeps ==
  ASSUME TypeOK, NEW c \in Channel, InvAt(c), JoinTooLate(c) \/ JoinAgain(c) \/ LeaveAgain(c)
  PROVE  InvAt(c)' /\ OnlyOf(c)
<1> DEFINE u == Head(commands[c])
<1>1. /\ "ok" \in Answers /\ "waiting" \in Answers /\ "dropped" \in Answers
      /\ "Left" \in Settled /\ "WaitingToRejoin" \in Settled
      /\ "channel_join" \in UserKind /\ "channel_leave" \in UserKind
  BY DEF Answers, Settled, UserKind
<1>2. CASE JoinTooLate(c)
  <2>1. /\ TakeCommand(c, "channel_join")
        /\ Enter(c, "WaitingToRejoin", NextAttempt(0), Answer(outcome, {u}, "dropped"))
    BY <1>2 DEF JoinTooLate, WaitToRejoin
  <2> QED BY <1>1, <2>1, EnterTaken
<1>3. CASE JoinAgain(c)
  <2>1. TakeCommand(c, "channel_join")
    BY <1>3 DEF JoinAgain
  <2>2. CASE /\ phase[c] = "Joining"
             /\ task' = [task EXCEPT ![c].joiners = @ \cup {u}]
             /\ UNCHANGED <<outcome, receiving, pushQ, phase>>
    <3>1. /\ u \in UserHeld(c) /\ sends' = sends
          /\ Range(commands[c]) = {u} \cup Range(commands'[c])
          /\ \A d \in Channel \ {c} : commands'[d] = commands[d]
          /\ task[c].busy = NoRequest
      BY <1>1, <2>1, TakenHeld
    <3>2. task'[c] = [task[c] EXCEPT !.joiners = task[c].joiners \cup {u}]
      BY <2>2 DEF TypeOK
    <3>3. /\ task'[c].rejoin = task[c].rejoin /\ task'[c].busy = task[c].busy
          /\ task'[c].awaiting = task[c].awaiting
          /\ task'[c].joiners = task[c].joiners \cup {u} /\ task'[c].leavers = task[c].leavers
          /\ \A d \in Channel \ {c} : task'[d] = task[d]
      BY <2>2, <3>2 DEF TypeOK, TaskType
    <3> HIDE DEF u
    <3>4. UserHeld(c)' = UserHeld(c)
      BY <3>1, <3>3 DEF UserHeld, Waiters
    <3>5. Own(c)' /\ Hands(c)'
      BY <2>2, <3>1, <3>3, <3>4 DEF InvAt, Own, Hands, BusyWith
    <3>6. Told(c, outcome')
      BY <2>2, NobodyTold
    <3> QED BY <2>2, <3>1, <3>3, <3>4, <3>5, <3>6, KeepKeeps
  <2>3. CASE \E o \in Answers : outcome' = Answer(outcome, {u}, o) /\ Stay(c)
    BY <1>1, <2>1, <2>3, StayTaken
  <2> QED BY <1>1, <1>3, <2>2, <2>3 DEF JoinAgain
<1>4. CASE LeaveAgain(c)
  <2>1. TakeCommand(c, "channel_leave")
    BY <1>4 DEF LeaveAgain
  <2>2. CASE outcome' = Answer(outcome, {u}, "ok") /\ Stay(c)
    BY <1>1, <2>1, <2>2, StayTaken
  <2>3. CASE Enter(c, "Left", NoRejoin, Answer(outcome, {u}, "ok"))
    BY <1>1, <2>1, <2>3, EnterTaken
  <2>4. CASE /\ phase[c] = "Leaving"
             /\ task' = [task EXCEPT ![c] =
                           [task[c] EXCEPT !.leavers = @ \cup {u}, !.deaf = FALSE]]
             /\ UNCHANGED <<outcome, receiving, pushQ, phase>>
    <3>1. /\ u \in UserHeld(c) /\ sends' = sends
          /\ Range(commands[c]) = {u} \cup Range(commands'[c])
          /\ \A d \in Channel \ {c} : commands'[d] = commands[d]
          /\ task[c].busy = NoRequest
      BY <1>1, <2>1, TakenHeld
    <3>2. task'[c] = [task[c] EXCEPT !.leavers = task[c].leavers \cup {u}, !.deaf = FALSE]
      BY <2>4 DEF TypeOK
    <3>3. /\ task'[c].rejoin = task[c].rejoin /\ task'[c].busy = task[c].busy
          /\ task'[c].awaiting = task[c].awaiting
          /\ task'[c].joiners = task[c].joiners /\ task'[c].leavers = task[c].leavers \cup {u}
          /\ \A d \in Channel \ {c} : task'[d] = task[d]
      BY <2>4, <3>2 DEF TypeOK, TaskType
    <3> HIDE DEF u
    <3>4. UserHeld(c)' = UserHeld(c)
      BY <3>1, <3>3 DEF UserHeld, Waiters
    <3>5. Own(c)' /\ Hands(c)'
      BY <2>4, <3>1, <3>3, <3>4 DEF InvAt, Own, Hands, BusyWith
    <3>6. Told(c, outcome')
      BY <2>4, NobodyTold
    <3> QED BY <2>4, <3>1, <3>3, <3>4, <3>5, <3>6, KeepKeeps
  <2> QED BY <1>4, <2>2, <2>3, <2>4 DEF LeaveAgain
<1> QED BY <1>2, <1>3, <1>4

(* A call or cast is taken, or a push.                                     *)
LEMMA TrafficKeeps ==
  ASSUME TypeOK, NEW c \in Channel, InvAt(c), TakeSend(c) \/ PushReceived(c)
  PROVE  InvAt(c)' /\ OnlyOf(c)
<1>1. CASE TakeSend(c)
  <2> DEFINE u == Head(sends[c])
  <2>1. sends[c] \in Seq(RequestsOf({"call", "cast"})) /\ sends[c] # <<>> /\ task[c] \in TaskType
    BY <1>1 DEF TypeOK, TakeSend
  <2>2. /\ sends'[c] = Tail(sends[c]) /\ \A d \in Channel \ {c} : sends'[d] = sends[d]
        /\ commands' = commands /\ outcome' = outcome /\ phase' = phase /\ receiving' = receiving
        /\ phase[c] = "Joined" /\ task[c].busy = NoRequest /\ Prepare(c, u, task[c])
    BY <1>1 DEF TypeOK, TakeSend, Selecting, Busy
  <2>3. u \in RequestsOf({"call", "cast"}) /\ Range(sends[c]) = {u} \cup Range(sends'[c])
    BY <2>1, <2>2, QueueSteps, QueueElements
  <2> HIDE DEF u
  <2>4. /\ task'[c].rejoin = task[c].rejoin /\ task'[c].busy = u
        /\ task'[c].awaiting = task[c].awaiting
        /\ task'[c].joiners = task[c].joiners /\ task'[c].leavers = task[c].leavers
        /\ \A d \in Channel \ {c} : task'[d] = task[d]
    BY <2>1, <2>2, PrepareFields
  <2>5. UserHeld(c) = {u} \cup UserHeld(c)'
    BY <2>2, <2>3, <2>4 DEF UserHeld, Waiters
  <2>6. Own(c)' /\ Hands(c)'
    BY <2>2, <2>3, <2>4, <2>5, RequestAssumption DEF InvAt, Own, Hands, BusyWith, RequestsOf
  <2>7. \A v \in RequestsOf(UserKind) : v # u
    BY <2>3 DEF RequestsOf, UserKind
  <2>8. Told(c, outcome')
    BY <2>2, NobodyTold
  <2> QED BY <2>2, <2>4, <2>5, <2>6, <2>7, <2>8, KeepKeeps
<1>2. CASE PushReceived(c)
  <2>1. UNCHANGED <<commands, sends>> /\ Told(c, outcome) /\ "WaitingToRejoin" \in Settled
    BY <1>2, NobodyTold DEF PushReceived, userVars, Settled
  <2>2. CASE WaitToRejoin(c, 0, outcome)
    BY <2>1, <2>2, EnterOnly DEF WaitToRejoin
  <2>3. CASE task' = [task EXCEPT ![c].deaf = FALSE] /\ UNCHANGED <<outcome, receiving, phase>>
    BY <2>1, <2>3, StayKeeps
  <2> QED BY <1>2, <2>2, <2>3 DEF PushReceived
<1> QED BY <1>1, <1>2

(* A join or a leave is submitted: the task awaits its answer instead of   *)
(* the one before, and those whom it interrupts are told.                  *)
LEMMA SubmittedKeeps ==
  ASSUME TypeOK, NEW c \in Channel, InvAt(c), NEW r \in RequestsOf({"join", "leave"}), r.chan = c,
         NEW out, Told(c, out),
         outcome' = [Release(out, {task[c].awaiting}) EXCEPT ![r] = "pending"],
         task'[c].awaiting = r, receiving'[c] = NoRequest,
         phase'[c] = IF r.kind = "join" THEN "Joining" ELSE "Leaving",
         \A d \in Channel \ {c} :
           phase'[d] = phase[d] /\ task'[d] = task[d] /\ receiving'[d] = receiving[d],
         commands' = commands, sends' = sends,
         Own(c)', Hands(c)',
         \A u \in RequestsOf(UserKind) : out[u] = "pending" /\ u \in UserHeld(c) => u \in UserHeld(c)'
  PROVE  InvAt(c)' /\ OnlyOf(c)
<1>1. r \in Request /\ r.kind \in {"join", "leave"} /\ (r.kind = "join" <=> r \in RequestsOf({"join"}))
      /\ (r.kind = "leave" <=> r \in RequestsOf({"leave"}))
  BY DEF RequestsOf
<1>2. out \in [Request -> Outcome]
  BY DEF Told
<1>3. outcome'[r] = "pending"
  BY <1>1 DEF Release
<1>4. \A u \in Request : u # r =>
        /\ outcome'[u] = "pending" => out[u] = "pending"
        /\ u # task[c].awaiting => outcome'[u] = out[u]
        /\ u = task[c].awaiting => outcome'[u] = "free"
  BY <1>2 DEF Release, Outcome
<1>5. \A u \in Request :
        /\ out[u] = "pending" => outcome[u] = "pending"
        /\ out[u] # "free" => outcome[u] # "free"
        /\ u.chan # c => out[u] = outcome[u]
  BY ToldKeeps
<1>6. Awaits(c)'
  BY <1>1, <1>3 DEF Awaits
<1>7. Held(c)'
  <2>1. ASSUME NEW u \in RequestsOf(UserKind), u.chan = c, outcome'[u] = "pending"
        PROVE  u \in UserHeld(c)'
    <3>1. u \in Request /\ u # r
      BY <1>1 DEF RequestsOf, UserKind
    <3>2. out[u] = "pending" /\ outcome[u] = "pending"
      BY <1>4, <2>1, <3>1, <1>5
    <3> QED BY <2>1, <3>2 DEF InvAt, Held
  <2> QED BY <2>1 DEF Held
<1>8. Alone(c)'
  <2>1. ASSUME NEW u \in RequestsOf({"join", "leave"}), u.chan = c,
               outcome'[u] # "free", u # r
        PROVE  FALSE
    <3>1. u \in Request
      BY DEF RequestsOf
    <3>2. u # task[c].awaiting /\ outcome[u] # "free"
      BY <1>4, <2>1, <3>1, <1>5
    <3> QED BY <2>1, <3>2 DEF InvAt, Alone
  <2> QED BY <2>1 DEF Alone
<1>9. ASSUME NEW u \in Request, u.chan # c PROVE outcome'[u] = outcome[u]
  <2>1. u # r /\ u # task[c].awaiting
    BY <1>9, RequestAssumption DEF InvAt, Own
  <2> QED BY <1>4, <1>9, <2>1, <1>5
<1> QED BY <1>6, <1>7, <1>8, <1>9 DEF InvAt, OnlyOf

(* The handler finds room.                                                 *)
LEMMA SubmitKeeps ==
  ASSUME TypeOK, NEW c \in Channel, InvAt(c), Submit(c)
  PROVE  InvAt(c)' /\ OnlyOf(c)
<1> DEFINE r == task[c].busy
           told(R, o) == Answer(outcome, R, o)
<1>1. /\ r # NoRequest /\ r \in Request /\ r.chan = c /\ commands' = commands /\ sends' = sends
      /\ task[c] \in TaskType
  BY DEF Submit, Busy, TypeOK, TaskType, RequestsOf, InvAt, Own, userVars
<1>2. \A R \in SUBSET Waiters(c), o \in Answers :
        /\ Told(c, told(R, o))
        /\ \A u \in Request : told(R, o)[u] = "pending" => outcome[u] = "pending" /\ u \notin R
  BY NobodyTold, HeldTold DEF UserHeld
<1>3. task[c].joiners \in SUBSET Waiters(c) /\ task[c].leavers \in SUBSET Waiters(c)
      /\ "leaving" \in Answers /\ "joining" \in Answers
  BY DEF Waiters, Answers
<1>4. CASE SubmitLeave(c)
  <2> DEFINE out == told(task[c].joiners, "leaving")
  <2>1. Told(c, out) /\ \A u \in Request : out[u] = "pending" => u \notin task[c].joiners
    BY <1>2, <1>3
  <2>2. /\ r.kind = "leave" /\ DropReceivers(c)
        /\ outcome' = [Release(out, {task[c].awaiting}) EXCEPT ![r] = "pending"]
        /\ phase' = [phase EXCEPT ![c] = "Leaving"]
        /\ task' = [task EXCEPT ![c] = [Blank EXCEPT !.awaiting = r, !.leavers = task[c].leavers]]
    BY <1>4 DEF SubmitLeave
  <2> HIDE DEF out, told, r
  <2>3. task'[c] = [Blank EXCEPT !.awaiting = r, !.leavers = task[c].leavers]
    BY <2>2 DEF TypeOK
  <2>4. /\ task'[c].rejoin = NoRejoin /\ task'[c].busy = NoRequest /\ task'[c].awaiting = r
        /\ task'[c].joiners = {} /\ task'[c].leavers = task[c].leavers
        /\ phase'[c] = "Leaving" /\ receiving'[c] = NoRequest
        /\ \A d \in Channel \ {c} :
             phase'[d] = phase[d] /\ task'[d] = task[d] /\ receiving'[d] = receiving[d]
    BY <2>2, <2>3 DEF TypeOK, DropReceivers, Blank
  <2>5. UserHeld(c) = task[c].joiners \cup UserHeld(c)'
    BY <1>1, <2>4 DEF UserHeld, Waiters
  <2>6. Own(c)' /\ Hands(c)'
    BY <1>1, <2>4, <2>5 DEF InvAt, Own, Hands, BusyWith
  <2>7. \A u \in RequestsOf(UserKind) : out[u] = "pending" /\ u \in UserHeld(c) => u \in UserHeld(c)'
    BY <2>1, <2>5 DEF RequestsOf
  <2>8. r \in RequestsOf({"join", "leave"})
    BY <1>1, <2>2 DEF RequestsOf
  <2> QED BY <1>1, <2>1, <2>2, <2>4, <2>6, <2>7, <2>8, SubmittedKeeps
<1>5. CASE SubmitJoin(c)
  <2> DEFINE out == told(task[c].leavers, "joining")
  <2>1. Told(c, out) /\ \A u \in Request : out[u] = "pending" => u \notin task[c].leavers
    BY <1>2, <1>3
  <2>2. /\ r.kind = "join" /\ receiving' = receiving
        /\ outcome' = [Release(out, {task[c].awaiting}) EXCEPT ![r] = "pending"]
        /\ phase' = [phase EXCEPT ![c] = "Joining"]
        /\ task' = [task EXCEPT ![c] =
                      [@ EXCEPT !.busy = NoRequest, !.awaiting = r, !.leavers = {}]]
    BY <1>5 DEF SubmitJoin
  <2>3. phase[c] # "Joined" /\ receiving[c] = NoRequest
    BY <1>1, <2>2 DEF InvAt, Hands, Awaits, BusyWith
  <2> HIDE DEF out, told, r
  <2>4. task'[c] = [task[c] EXCEPT !.busy = NoRequest, !.awaiting = r, !.leavers = {}]
    BY <2>2 DEF TypeOK
  <2>5. /\ task'[c].rejoin = task[c].rejoin /\ task'[c].busy = NoRequest /\ task'[c].awaiting = r
        /\ task'[c].joiners = task[c].joiners /\ task'[c].leavers = {}
        /\ phase'[c] = "Joining" /\ receiving'[c] = NoRequest
        /\ \A d \in Channel \ {c} :
             phase'[d] = phase[d] /\ task'[d] = task[d] /\ receiving'[d] = receiving[d]
    BY <1>1, <2>2, <2>3, <2>4 DEF TypeOK, TaskType
  <2>6. UserHeld(c) = task[c].leavers \cup UserHeld(c)'
    BY <1>1, <2>5 DEF UserHeld, Waiters
  <2>7. Own(c)' /\ Hands(c)'
    BY <1>1, <2>5, <2>6 DEF InvAt, Own, Hands, BusyWith
  <2>8. \A u \in RequestsOf(UserKind) : out[u] = "pending" /\ u \in UserHeld(c) => u \in UserHeld(c)'
    BY <2>1, <2>6 DEF RequestsOf
  <2>9. r \in RequestsOf({"join", "leave"})
    BY <1>1, <2>2 DEF RequestsOf
  <2> QED BY <1>1, <2>1, <2>2, <2>5, <2>7, <2>8, <2>9, SubmittedKeeps
<1>6. CASE SubmitSend(c)
  <2>1. /\ r.kind \in {"call", "cast"} /\ outcome' = outcome
        /\ receiving' = receiving /\ phase' = phase
        /\ task'[c] = [task[c] EXCEPT !.busy = NoRequest]
        /\ \A d \in Channel \ {c} : task'[d] = task[d]
    BY <1>6 DEF SubmitSend, TypeOK
  <2>2. /\ task'[c].rejoin = task[c].rejoin /\ task'[c].busy = NoRequest
        /\ task'[c].awaiting = task[c].awaiting
        /\ task'[c].joiners = task[c].joiners /\ task'[c].leavers = task[c].leavers
    BY <1>1, <2>1 DEF TaskType
  <2>3. UserHeld(c)' = UserHeld(c)
    BY <1>1, <2>2 DEF UserHeld, Waiters
  <2>4. Own(c)' /\ Hands(c)'
    BY <1>1, <2>1, <2>2, <2>3 DEF InvAt, Own, Hands, BusyWith
  <2>5. Told(c, outcome')
    BY <2>1, NobodyTold
  <2> QED BY <1>1, <2>1, <2>2, <2>3, <2>4, <2>5, KeepKeeps
<1> QED BY <1>4, <1>5, <1>6 DEF Submit

(* The handler finds that the socket task has ended.                       *)
LEMMA SubmitFailsKeeps ==
  ASSUME TypeOK, NEW c \in Channel, InvAt(c), SubmitFails(c)
  PROVE  InvAt(c)' /\ OnlyOf(c)
<1> DEFINE r == task[c].busy
           told(R, o) == Answer(outcome, R, o)
<1>1. task[c].busy # NoRequest /\ task[c] \in TaskType
  BY DEF SubmitFails, Busy, TypeOK
<1>2. \A R \in SUBSET (UserHeld(c) \cup {r}), o \in Answers :
        /\ Told(c, told(R, o))
        /\ \A u \in Request : told(R, o)[u] = "pending" => outcome[u] = "pending" /\ u \notin R
  BY NobodyTold, HeldTold
<1>3. /\ task[c].leavers \in SUBSET (UserHeld(c) \cup {r}) /\ {r} \in SUBSET (UserHeld(c) \cup {r})
      /\ "error" \in Answers /\ "dropped" \in Answers /\ "Gone" \in Ended
      /\ "ShuttingDown" \in Settled /\ Told(c, outcome)
  BY NobodyTold DEF UserHeld, Waiters, Answers, Ended, Settled
<1>4. CASE End(c, "Gone", outcome)
  BY <1>3, <1>4, EndKeeps
<1>5. CASE End(c, "Gone", told(task[c].leavers, "error"))
  <2> DEFINE out == told(task[c].leavers, "error")
  <2>1. Told(c, out) /\ End(c, "Gone", out)
    BY <1>2, <1>3, <1>5
  <2> HIDE DEF out
  <2> QED BY <1>3, <2>1, EndKeeps
<1>6. CASE /\ r.kind = "leave"
           /\ outcome' = told(task[c].leavers, "error")
           /\ task' = [task EXCEPT ![c] = [@ EXCEPT !.busy = NoRequest, !.leavers = {}]]
           /\ UNCHANGED <<receiving, pushQ, phase, userVars>>
  <2>1. Told(c, outcome') /\ \A u \in Request : outcome'[u] = "pending" => u \notin task[c].leavers
    BY <1>2, <1>3, <1>6
  <2>2. /\ task'[c] = [task[c] EXCEPT !.busy = NoRequest, !.leavers = {}]
        /\ \A d \in Channel \ {c} : task'[d] = task[d]
        /\ phase' = phase /\ receiving' = receiving /\ commands' = commands /\ sends' = sends
    BY <1>6 DEF TypeOK, userVars
  <2>3. /\ task'[c].rejoin = task[c].rejoin /\ task'[c].busy = NoRequest
        /\ task'[c].awaiting = task[c].awaiting
        /\ task'[c].joiners = task[c].joiners /\ task'[c].leavers = {}
    BY <1>1, <2>2 DEF TaskType
  <2>4. UserHeld(c) = task[c].leavers \cup UserHeld(c)'
    BY <2>2, <2>3 DEF UserHeld, Waiters
  <2>5. Own(c)' /\ Hands(c)'
    BY <1>1, <1>6, <2>2, <2>3, <2>4 DEF InvAt, Own, Hands, BusyWith
  <2>6. \A u \in RequestsOf(UserKind) :
          outcome'[u] = "pending" /\ u \in UserHeld(c) => u \in UserHeld(c)'
    BY <2>1, <2>4 DEF RequestsOf
  <2> QED BY <2>1, <2>2, <2>3, <2>5, <2>6, KeepKeeps
<1>7. CASE Enter(c, "ShuttingDown", NoRejoin, told({r}, "dropped")) /\ UNCHANGED userVars
  <2> DEFINE out == told({r}, "dropped")
  <2>1. Told(c, out)
    BY <1>2, <1>3
  <2>2. Enter(c, "ShuttingDown", NoRejoin, out) /\ UNCHANGED <<commands, sends>>
    BY <1>7 DEF userVars
  <2> HIDE DEF out
  <2> QED BY <1>3, <2>1, <2>2, EnterOnly
<1> QED BY <1>4, <1>5, <1>6, <1>7 DEF SubmitFails

(* The task, as a whole.                                                   *)
LEMMA TaskKeeps ==
  ASSUME TypeOK, NEW c \in Channel, InvAt(c), Task(c)
  PROVE  InvAt(c)' /\ OnlyOf(c)
<1>1. ASSUME Exit(c) PROVE InvAt(c)' /\ OnlyOf(c)
  BY <1>1, NobodyTold, EndKeeps DEF Exit, Ended
<1> QED BY <1>1, NewsKeeps, ResultKeeps, PreparedKeeps, CommandKeeps, TrafficKeeps, SubmitKeeps,
           SubmitFailsKeeps DEF Task

(* Steps of users and of the socket keep tasks and receivers, put commands *)
(* into queues, and make no join or leave free or taken.                   *)
Outside(c) ==
  /\ task' = task /\ receiving' = receiving
  /\ phase'[c] = phase[c] \/ (phase[c] \in Unspawned /\ phase'[c] \notin {"Joining", "Leaving", "Joined"})
  /\ UserHeld(c) \subseteq UserHeld(c)' /\ \A u \in UserHeld(c)' : u.chan = c
  /\ \A r \in RequestsOf({"join", "leave"}) :
       outcome'[r] = "free" <=> outcome[r] = "free"
  /\ \A u \in RequestsOf(UserKind) :
       u.chan = c /\ outcome'[u] = "pending" => outcome[u] = "pending" \/ u \in UserHeld(c)'

(* And so they keep the invariant.                                         *)
LEMMA OutsideKeeps ==
  ASSUME TypeOK, NEW c \in Channel, InvAt(c), Outside(c)
  PROVE  InvAt(c)'
<1>1. task[c].awaiting # NoRequest => task[c].awaiting \in RequestsOf({"join", "leave"})
  BY DEF TypeOK, TaskType
<1>2. Own(c)'
  BY DEF Outside, InvAt, Own
<1>3. Hands(c)'
  <2>1. task[c].busy # NoRequest => task[c].busy.kind \in {"join", "leave", "call", "cast"}
    BY DEF TypeOK, TaskType, RequestsOf, ChanKind
  <2> QED BY <2>1 DEF Outside, InvAt, Hands, BusyWith, Unspawned
<1>4. Awaits(c)'
  BY <1>1 DEF Outside, InvAt, Awaits, Unspawned
<1>5. Held(c)'
  BY DEF Outside, InvAt, Held
<1>6. Alone(c)'
  BY DEF Outside, InvAt, Alone
<1> QED BY <1>2, <1>3, <1>4, <1>5, <1>6 DEF InvAt

(* Users.                                                                  *)
LEMMA UsersKeep ==
  ASSUME TypeOK, NEW c \in Channel, InvAt(c), Users
  PROVE  InvAt(c)'
<1>1. ASSUME NEW u \in Request, UserCommand(u)
      PROVE  InvAt(c)'
  <2>1. u \in RequestsOf(UserKind) /\ u.chan \in Channel /\ u.kind \notin {"join", "leave"}
    BY <1>1, ChanOf DEF UserCommand, RequestsOf, UserKind
  <2>2. commands' = [commands EXCEPT ![u.chan] = Append(@, u)]
        /\ outcome' = [outcome EXCEPT ![u] = "pending"]
        /\ UNCHANGED <<receiving, phase, task, sends>>
    BY <1>1 DEF UserCommand
  <2>3. \A d \in Channel : Range(commands'[d]) = Range(commands[d]) \cup (IF d = u.chan THEN {u} ELSE {})
    <3>1. commands[u.chan] \in Seq(RequestsOf(UserKind))
      BY <2>1 DEF TypeOK
    <3>2. Range(Append(commands[u.chan], u)) = Range(commands[u.chan]) \cup {u}
      BY <2>1, <3>1, QueueElements
    <3> QED BY <2>1, <2>2, <3>2 DEF TypeOK
  <2>4. \A d \in Channel : UserHeld(d)' = UserHeld(d) \cup (IF d = u.chan THEN {u} ELSE {})
    BY <2>2, <2>3 DEF UserHeld, Waiters
  <2>5. /\ UserHeld(c) \subseteq UserHeld(c)' /\ u \in UserHeld(u.chan)'
        /\ \A v \in UserHeld(c)' : v.chan = c
    BY <2>1, <2>4 DEF InvAt, Own
  <2>6. \A r \in Request : r # u => outcome'[r] = outcome[r]
    BY <2>2 DEF TypeOK
  <2>7. \A r \in RequestsOf({"join", "leave"}) : outcome'[r] = outcome[r]
    BY <2>1, <2>6 DEF RequestsOf
  <2>8. \A v \in RequestsOf(UserKind) :
          v.chan = c /\ outcome'[v] = "pending" => outcome[v] = "pending" \/ v \in UserHeld(c)'
    BY <2>5, <2>6 DEF RequestsOf
  <2>9. Outside(c)
    BY <2>2, <2>5, <2>7, <2>8 DEF Outside
  <2> QED BY <2>9, OutsideKeeps
<1>2. ASSUME NEW u \in Request, UserSend(u)
      PROVE  InvAt(c)'
  <2>1. u \in RequestsOf({"call", "cast"}) /\ u.chan \in Channel
        /\ u \notin RequestsOf(UserKind) /\ u.kind \notin {"join", "leave"}
    BY <1>2, ChanOf DEF UserSend, RequestsOf, UserKind, ChanKind
  <2>2. sends' = [sends EXCEPT ![u.chan] = Append(@, u)]
        /\ outcome' = [outcome EXCEPT ![u] = "pending"]
        /\ UNCHANGED <<receiving, phase, task, commands>>
    BY <1>2 DEF UserSend
  <2>3. \A d \in Channel : Range(sends'[d]) = Range(sends[d]) \cup (IF d = u.chan THEN {u} ELSE {})
    <3>1. sends[u.chan] \in Seq(RequestsOf({"call", "cast"}))
      BY <2>1 DEF TypeOK
    <3>2. Range(Append(sends[u.chan], u)) = Range(sends[u.chan]) \cup {u}
      BY <2>1, <3>1, QueueElements
    <3> QED BY <2>1, <2>2, <3>2 DEF TypeOK
  <2>4. \A d \in Channel : UserHeld(d)' = UserHeld(d) \cup (IF d = u.chan THEN {u} ELSE {})
    BY <2>2, <2>3 DEF UserHeld, Waiters
  <2>5. UserHeld(c) \subseteq UserHeld(c)' /\ \A v \in UserHeld(c)' : v.chan = c
    BY <2>1, <2>4 DEF InvAt, Own
  <2>6. \A r \in Request : r # u => outcome'[r] = outcome[r]
    BY <2>2 DEF TypeOK
  <2>7. /\ \A r \in RequestsOf({"join", "leave"}) : outcome'[r] = outcome[r]
        /\ \A v \in RequestsOf(UserKind) : outcome'[v] = outcome[v]
    BY <2>1, <2>6 DEF RequestsOf
  <2>8. Outside(c)
    BY <2>2, <2>5, <2>7 DEF Outside
  <2> QED BY <2>8, OutsideKeeps
<1>3. ASSUME NEW u \in Request, UserReads(u)
      PROVE  InvAt(c)'
  <2>1. /\ UNCHANGED <<receiving, phase, task, commands, sends>>
        /\ u.kind \notin {"join", "leave"}
        /\ \A r \in Request : r # u => outcome'[r] = outcome[r]
        /\ outcome'[u] # "pending"
    BY <1>3 DEF UserReads, userVars, UserKind, TypeOK
  <2>2. UserHeld(c)' = UserHeld(c) /\ \A v \in UserHeld(c) : v.chan = c
    BY <2>1 DEF UserHeld, Waiters, InvAt, Own
  <2>3. \A r \in RequestsOf({"join", "leave"}) : outcome'[r] = outcome[r]
    BY <2>1 DEF RequestsOf
  <2>4. \A v \in RequestsOf(UserKind) : outcome'[v] = "pending" => outcome[v] = "pending"
    BY <2>1 DEF RequestsOf
  <2>5. Outside(c)
    BY <2>1, <2>2, <2>3, <2>4 DEF Outside
  <2> QED BY <2>5, OutsideKeeps
<1>4. ASSUME NEW d \in Channel, UserShutdown(d)
      PROVE  InvAt(c)'
  <2>1. UNCHANGED <<receiving, phase, task, commands, sends, outcome>>
    BY <1>4 DEF UserShutdown
  <2>2. UserHeld(c)' = UserHeld(c) /\ \A v \in UserHeld(c) : v.chan = c
    BY <2>1 DEF UserHeld, Waiters, InvAt, Own
  <2>3. Outside(c)
    BY <2>1, <2>2 DEF Outside
  <2> QED BY <2>3, OutsideKeeps
<1> QED BY <1>1, <1>2, <1>3, <1>4 DEF Users

(* What the socket tells: commands of channels to it are answered.         *)
ToldBySocket(out) ==
  /\ out \in [Request -> Outcome]
  /\ \A r \in Request :
       out[r] # outcome[r] => /\ r.kind \in ChanKind
                              /\ outcome[r] = "pending" /\ out[r] \in Answers \cup {"free"}
                              /\ out[r] = "free" => r \in Unanswered

(* It tells some more.                                                     *)
LEMMA SocketTells ==
  ASSUME NEW out, ToldBySocket(out), NEW R, R \cap Request \subseteq RequestsOf(ChanKind),
         NEW o \in Answers
  PROVE  ToldBySocket(Answer(out, R, o))
<1> DEFINE new == Answer(out, R, o)
<1>1. new \in [Request -> Outcome]
  BY OutcomeType DEF ToldBySocket, Outcome
<1>2. \A r \in Request :
        \/ new[r] = out[r]
        \/ /\ r.kind \in ChanKind /\ out[r] = "pending"
           /\ new[r] = IF r \in Unanswered THEN "free" ELSE o
  BY DEF Answer, RequestsOf
<1>3. "pending" \notin Answers \cup {"free"} /\ o # "free"
  BY DEF Answers
<1> HIDE DEF new
<1>4. ASSUME NEW r \in Request, new[r] # outcome[r]
      PROVE  /\ r.kind \in ChanKind
             /\ outcome[r] = "pending" /\ new[r] \in Answers \cup {"free"}
             /\ new[r] = "free" => r \in Unanswered
  <2>1. CASE new[r] = out[r]
    BY <1>4, <2>1 DEF ToldBySocket
  <2>2. CASE /\ r.kind \in ChanKind /\ out[r] = "pending"
             /\ new[r] = IF r \in Unanswered THEN "free" ELSE o
    <3>1. outcome[r] = "pending"
      BY <1>3, <2>2 DEF ToldBySocket
    <3> QED BY <1>3, <2>2, <3>1
  <2> QED BY <1>2, <2>1, <2>2
<1>5. \A r \in Request :
        new[r] # outcome[r] => /\ r.kind \in ChanKind
                               /\ outcome[r] = "pending" /\ new[r] \in Answers \cup {"free"}
                               /\ new[r] = "free" => r \in Unanswered
  BY <1>4
<1>6. ToldBySocket(new)
  BY <1>1, <1>5 DEF ToldBySocket
<1> QED BY <1>6 DEF new

(* What the socket tells, in any of its steps.                             *)
LEMMA SocketTold ==
  ASSUME TypeOK, Socket
  PROVE  ToldBySocket(outcome')
<1>1. ToldBySocket(outcome)
  BY DEF TypeOK, ToldBySocket
<1>2. /\ "disconnected" \in Answers /\ "dropped" \in Answers /\ "ok" \in Answers
      /\ "rejected" \in Answers /\ "timeout" \in Answers /\ "error" \in Answers
  BY DEF Answers
<1>3. Sent \subseteq RequestsOf(ChanKind)
  BY DEF Sent, RequestsOf, ChanKind
<1>4. ASSUME NEW r \in RequestsOf(ChanKind), SocketTakes(r) PROVE ToldBySocket(outcome')
  <2> DEFINE out == Answer(outcome, {r}, IF r.kind \in {"leave", "call"} THEN "error" ELSE "dropped")
  <2>1. CASE outcome' = Answer(outcome, IF r.kind \in {"leave", "cast"} THEN {r} ELSE {}, "ok")
    BY <1>1, <1>2, <2>1, SocketTells
  <2>2. CASE Disconnected("Reconnect", out)
    <3>1. ToldBySocket(out)
      BY <1>1, <1>2, SocketTells
    <3>2. outcome' = Answer(out, Sent, "disconnected")
      BY <2>2 DEF Disconnected
    <3> HIDE DEF out
    <3>3. ToldBySocket(Answer(out, Sent, "disconnected"))
      BY <1>2, <1>3, <3>1, SocketTells
    <3> QED BY <3>2, <3>3
  <2> QED BY <1>4, <2>1, <2>2 DEF SocketTakes
<1>5. ASSUME NEW r, SocketAnswers(r) PROVE ToldBySocket(outcome')
  <2>1. PICK o \in {"ok", "rejected", "timeout"} : outcome' = Answer(outcome, {r}, o)
    BY <1>5 DEF SocketAnswers
  <2>2. {r} \cap Request \subseteq RequestsOf(ChanKind)
    BY <1>3, <1>5 DEF SocketAnswers
  <2> QED BY <1>1, <1>2, <2>1, <2>2, SocketTells
<1>6. ASSUME SocketDisconnects PROVE ToldBySocket(outcome')
  <2>1. outcome' = Answer(outcome, Sent, "disconnected")
    BY <1>6 DEF SocketDisconnects, Disconnected
  <2>2. ToldBySocket(Answer(outcome, Sent, "disconnected"))
    BY <1>1, <1>2, <1>3, SocketTells
  <2> QED BY <2>1, <2>2
<1>7. ASSUME SocketEnds PROVE ToldBySocket(outcome')
  <2> DEFINE R == Sent \cup Range(chanStateQ) \cup Range(sendQ)
  <2>1. Range(chanStateQ) \subseteq RequestsOf({"join", "leave"})
        /\ Range(sendQ) \subseteq RequestsOf({"call", "cast"})
    BY QueueKind DEF TypeOK
  <2>2. R \subseteq RequestsOf(ChanKind)
    BY <1>3, <2>1 DEF RequestsOf, ChanKind
  <2>3. outcome' = Answer(outcome, R, "dropped")
    BY <1>7 DEF SocketEnds
  <2> HIDE DEF R
  <2>4. ToldBySocket(Answer(outcome, R, "dropped"))
    BY <1>1, <1>2, <2>2, SocketTells
  <2> QED BY <2>3, <2>4
<1>8. ASSUME SocketTakesState \/ SocketTakesSend PROVE ToldBySocket(outcome')
  <2>1. CASE SocketTakesState
    <3>1. Head(chanStateQ) \in RequestsOf({"join", "leave"}) /\ SocketTakes(Head(chanStateQ))
      BY <2>1, QueueSteps DEF SocketTakesState, TypeOK
    <3>2. Head(chanStateQ) \in RequestsOf(ChanKind)
      BY <3>1 DEF RequestsOf, ChanKind
    <3> QED BY <1>4, <3>1, <3>2
  <2>2. CASE SocketTakesSend
    <3>1. Head(sendQ) \in RequestsOf({"call", "cast"}) /\ SocketTakes(Head(sendQ))
      BY <2>2, QueueSteps DEF SocketTakesSend, TypeOK
    <3>2. Head(sendQ) \in RequestsOf(ChanKind)
      BY <3>1 DEF RequestsOf, ChanKind
    <3> QED BY <1>4, <3>1, <3>2
  <2> QED BY <1>8, <2>1, <2>2
<1>9. ASSUME UNCHANGED outcome PROVE ToldBySocket(outcome')
  BY <1>1, <1>9
<1> QED BY <1>5, <1>6, <1>7, <1>8, <1>9
        DEF Socket, SocketWrites, SocketConnects, RequestChannel, SpawnChannel, SocketPushes

(* The socket keeps what is private to the tasks.                          *)
LEMMA SocketLeaves ==
  ASSUME TypeOK, Socket
  PROVE  /\ UNCHANGED <<task, receiving, commands, sends>>
         /\ \A c \in Channel :
              phase'[c] = phase[c] \/ (phase[c] \in Unspawned /\ phase'[c] \notin {"Joining", "Leaving", "Joined"})
<1>1. ASSUME SocketWrites \/ SocketConnects \/ SocketDisconnects \/ SocketTakesState \/ SocketTakesSend
      PROVE  UNCHANGED <<phase, task, receiving, commands, sends>>
  BY <1>1 DEF SocketWrites, SocketConnects, SocketDisconnects, SocketTakesState, SocketTakesSend, privateVars, userVars
<1>2. ASSUME NEW r, SocketAnswers(r)
      PROVE  UNCHANGED <<phase, task, receiving, commands, sends>>
  BY <1>2 DEF SocketAnswers, privateVars, userVars
<1>3. ASSUME NEW c, NEW m, SocketPushes(c, m)
      PROVE  UNCHANGED <<phase, task, receiving, commands, sends>>
  BY <1>3 DEF SocketPushes, privateVars, userVars
<1>4. ASSUME SocketEnds
      PROVE  /\ UNCHANGED <<task, receiving, commands, sends>>
             /\ \A c \in Channel : phase'[c] = phase[c] \/ (phase[c] \in Unspawned /\ phase'[c] = "none")
  BY <1>4 DEF SocketEnds, privateVars, userVars, Unspawned
<1>5. ASSUME NEW d \in Channel, RequestChannel(d) \/ SpawnChannel(d)
      PROVE  /\ UNCHANGED <<task, receiving, commands, sends>>
             /\ \A c \in Channel :
                  phase'[c] = phase[c] \/ (phase[c] \in Unspawned /\ phase'[c] \notin {"Joining", "Leaving", "Joined"})
  <2>1. PICK p \in {"Requested", "ShutDown", "WaitingToJoin", "WaitingForSocketToConnect"} :
          phase[d] \in Unspawned /\ phase' = [phase EXCEPT ![d] = p]
    BY <1>5 DEF RequestChannel, SpawnChannel, Unspawned
  <2>2. UNCHANGED <<task, receiving, commands, sends>>
    BY <1>5 DEF RequestChannel, SpawnChannel, privateVars, userVars
  <2> QED BY <2>1, <2>2 DEF TypeOK
<1> QED BY <1>1, <1>2, <1>3, <1>4, <1>5 DEF Socket

(* The socket.                                                             *)
LEMMA SocketKeeps ==
  ASSUME TypeOK, NEW c \in Channel, InvAt(c), Socket
  PROVE  InvAt(c)'
<1>1. ToldBySocket(outcome')
  BY SocketTold
<1>2. /\ UNCHANGED <<task, receiving, commands, sends>>
      /\ phase'[c] = phase[c] \/ (phase[c] \in Unspawned /\ phase'[c] \notin {"Joining", "Leaving", "Joined"})
  BY SocketLeaves
<1>3. UserHeld(c)' = UserHeld(c) /\ \A u \in UserHeld(c) : u.chan = c
  BY <1>2 DEF UserHeld, Waiters, InvAt, Own
<1>4. \A r \in RequestsOf({"join", "leave"}) :
        outcome'[r] = "free" <=> outcome[r] = "free"
  BY <1>1 DEF ToldBySocket, RequestsOf, Answers, Unanswered
<1>5. \A u \in RequestsOf(UserKind) : outcome'[u] = "pending" => outcome[u] = "pending"
  BY <1>1 DEF ToldBySocket, RequestsOf, Answers
<1>6. Outside(c)
  BY <1>2, <1>3, <1>4, <1>5 DEF Outside
<1> QED BY <1>6, OutsideKeeps

-----------------------------------------------------------------------------
(***************************************************************************)
(* Theorems                                                                *)
(***************************************************************************)
(* A channel that does not exist yet holds nothing.                        *)
LEMMA InitInv == Init => Inv
<1> SUFFICES ASSUME Init PROVE Inv
  OBVIOUS
<1>1. TypeOK
  <2>1. <<>> \in Seq(RequestsOf({"join", "leave"})) /\ <<>> \in Seq(RequestsOf({"call", "cast"}))
        /\ <<>> \in Seq(RequestsOf(UserKind)) /\ <<>> \in Seq(PushKind)
    BY EmptyQueue
  <2>2. /\ chanStateQ = <<>> /\ sendQ = <<>> /\ connectivity = "none"
        /\ unread \in [Channel -> 0..2]
    BY DEF Init
  <2>3. closed \in BOOLEAN /\ writing \in {"none", "state", "send"}
    BY DEF Init
  <2>4. stop \in [Channel -> BOOLEAN]
    BY Zenon DEF Init
  <2>5. outcome \in [Request -> Outcome] /\ phase \in [Channel -> Phase]
    BY DEF Init, Outcome, Phase, Unspawned
  <2>6. task \in [Channel -> TaskType]
    BY BlankType DEF Init
  <2>7. /\ receiving \in [Channel -> RequestsOf({"join"}) \cup {NoRequest}]
        /\ pushQ \in [Channel -> Seq(PushKind)]
        /\ commands \in [Channel -> Seq(RequestsOf(UserKind))]
        /\ sends \in [Channel -> Seq(RequestsOf({"call", "cast"}))]
    BY <2>1 DEF Init
  <2> QED BY <2>1, <2>2, <2>3, <2>4, <2>5, <2>6, <2>7 DEF TypeOK
<1>2. ASSUME NEW c \in Channel PROVE InvAt(c)
  <2>1. /\ phase[c] = "none" /\ task[c] = Blank /\ receiving[c] = NoRequest
        /\ commands[c] = <<>> /\ sends[c] = <<>> /\ \A r \in Request : outcome[r] = "free"
    BY DEF Init
  <2>2. /\ task[c].rejoin = NoRejoin /\ task[c].busy = NoRequest /\ task[c].awaiting = NoRequest
        /\ task[c].joiners = {} /\ task[c].leavers = {}
    BY <2>1 DEF Blank
  <2>3. UserHeld(c) = {}
    BY <2>1, <2>2, EmptyElements DEF UserHeld, Waiters
  <2>4. Own(c) /\ Awaits(c) /\ Hands(c)
    BY <2>1, <2>2, <2>3 DEF Own, Awaits, Hands, BusyWith
  <2>5. Held(c) /\ Alone(c)
    BY <2>1 DEF Held, Alone, RequestsOf
  <2> QED BY <2>4, <2>5 DEF InvAt
<1> QED BY <1>1, <1>2 DEF Inv

(* Every step keeps the invariant: of one channel, because of what the     *)
(* step does, and of the others, because it leaves them alone.             *)
LEMMA InvStep == Inv /\ [Next]_vars => Inv'
<1> SUFFICES ASSUME Inv, [Next]_vars PROVE Inv'
  OBVIOUS
<1>1. TypeOK /\ \A c \in Channel : InvAt(c)
  BY DEF Inv
<1>2. TypeOK'
  <2>1. \A c \in Channel : phase[c] = "Joining" => task[c].awaiting \in RequestsOf({"join"})
    BY <1>1 DEF InvAt, Awaits
  <2> QED BY <1>1, <2>1, StepType
<1>3. ASSUME NEW d \in Channel, Task(d), NEW c \in Channel PROVE InvAt(c)'
  <2>1. InvAt(d)' /\ OnlyOf(d)
    BY <1>1, <1>3, TaskKeeps
  <2>2. CASE c = d
    BY <2>1, <2>2
  <2>3. CASE c # d
    BY <1>1, <2>1, <2>3, Elsewhere
  <2> QED BY <2>2, <2>3
<1>4. ASSUME Users \/ Socket, NEW c \in Channel PROVE InvAt(c)'
  BY <1>1, <1>4, UsersKeep, SocketKeeps
<1>5. ASSUME UNCHANGED vars, NEW c \in Channel PROVE InvAt(c)'
  <2>1. UNCHANGED <<phase, task, receiving, outcome, commands, sends>>
    BY <1>5 DEF vars, userVars
  <2>2. UserHeld(c)' = UserHeld(c) /\ \A u \in UserHeld(c) : u.chan = c
    BY <1>1, <2>1 DEF UserHeld, Waiters, InvAt, Own
  <2>3. Outside(c)
    BY <2>1, <2>2 DEF Outside
  <2> QED BY <1>1, <2>3, OutsideKeeps
<1>6. \A c \in Channel : InvAt(c)'
  BY <1>3, <1>4, <1>5 DEF Next
<1> QED BY <1>2, <1>6 DEF Inv

(* The invariant holds in every state.                                     *)
LEMMA InvAlways == Spec => []Inv
BY InitInv, InvStep, PTL DEF Spec

(* How often a rejoin was tried, before and after a step.                  *)
Counted(c) ==
  task[c].rejoin # NoRejoin /\ task'[c].rejoin # NoRejoin =>
    \/ task'[c].rejoin = NextAttempt(task[c].rejoin)
    \/ task'[c].rejoin = task[c].rejoin /\ ~(phase[c] = "Joining" /\ phase'[c] = "WaitingToRejoin")

(* A task counts on while it goes on rejoining: it starts from the first   *)
(* attempt only in states that have no count.                              *)
LEMMA TaskCounts ==
  ASSUME TypeOK, NEW c \in Channel, InvAt(c), Task(c)
  PROVE  Counted(c)
<1>1. task[c] \in TaskType /\ Hands(c)
  BY DEF TypeOK, InvAt
<1>2. ASSUME NEW p, NEW n, NEW out, Enter(c, p, n, out) PROVE task'[c].rejoin = n
  BY <1>2, EnterFields
<1>3. ASSUME NEW p, NEW out, Enter(c, p, NoRejoin, out) PROVE Counted(c)
  BY <1>2, <1>3 DEF Counted
<1>4. ASSUME NEW p, NEW out, End(c, p, out) PROVE Counted(c)
  BY <1>3, <1>4 DEF End
<1>5. ASSUME NEW out, WaitToRejoin(c, task[c].rejoin, out) PROVE Counted(c)
  BY <1>2, <1>5 DEF WaitToRejoin, Counted
<1>6. ASSUME NEW b, task' = [task EXCEPT ![c].deaf = b], phase' = phase PROVE Counted(c)
  BY <1>6, StayFields DEF Counted
<1>7. task[c].busy = NoRequest /\ phase[c] \in {"WaitingToJoin", "Joined", "Leaving", "Left"} =>
        Counted(c)
  BY <1>1 DEF Hands, BusyWith, Counted
<1>8. ASSUME Shutdown(c) \/ Exit(c) PROVE Counted(c)
  BY <1>3, <1>4, <1>8 DEF Shutdown, Exit
<1>9. ASSUME Lagged(c) PROVE Counted(c)
  BY <1>6, <1>9 DEF Lagged
<1>10. ASSUME ConnectivityChanged(c) PROVE Counted(c)
  <2>1. task[c].busy = NoRequest
    BY <1>10 DEF ConnectivityChanged, Selecting, Busy
  <2>2. CASE SocketConnected(c)
    BY <1>3, <1>5, <1>6, <1>7, <2>1, <2>2 DEF SocketConnected, Stay
  <2>3. CASE SocketDisconnected(c)
    <3>1. CASE phase[c] = "WaitingForSocketToConnect" /\ Stay(c)
      BY <1>6, <3>1 DEF Stay
    <3>2. CASE phase[c] = "WaitingToRejoin"
      <4>1. PICK n \in {NoRejoin, task[c].rejoin} :
              Enter(c, "WaitingForSocketToConnect", n, NewsAnswer(c))
        BY <2>3, <3>2 DEF SocketDisconnected
      <4> QED BY <1>2, <3>2, <4>1 DEF Counted
    <3>3. CASE phase[c] \notin {"Joined", "WaitingToRejoin", "WaitingForSocketToConnect"}
      <4>1. Enter(c, "WaitingForSocketToConnect", NoRejoin, NewsAnswer(c))
        BY <2>3, <3>3 DEF SocketDisconnected
      <4> QED BY <1>3, <4>1
    <3> QED BY <1>7, <2>1, <2>3, <3>1, <3>2, <3>3 DEF SocketDisconnected
  <2>4. CASE SocketShutdown(c)
    BY <1>3, <2>4 DEF SocketShutdown
  <2> QED BY <1>10, <2>2, <2>3, <2>4 DEF ConnectivityChanged
<1>11. ASSUME JoinedResult(c) PROVE Counted(c)
  <2>1. CASE task' = [task EXCEPT ![c] = Blank]
    <3>1. task'[c].rejoin = NoRejoin
      BY <2>1 DEF TypeOK, Blank
    <3> QED BY <3>1 DEF Counted
  <2> QED BY <1>4, <1>5, <1>11, <2>1 DEF JoinedResult
<1>12. ASSUME LeftResult(c) PROVE Counted(c)
  BY <1>3, <1>12 DEF LeftResult
<1>13. ASSUME NEW r, Rejoin(c, r) \/ Leave(c, r) PROVE Counted(c)
  <2>1. task'[c].rejoin = task[c].rejoin
    <3>1. CASE Rejoin(c, r)
      BY <1>1, <3>1, PrepareFields DEF Rejoin
    <3>2. CASE Leave(c, r)
      <4> DEFINE t == [task[c] EXCEPT !.leavers = {Head(commands[c])}]
      <4>1. Prepare(c, r, t) /\ TakeCommand(c, "channel_leave")
        BY <3>2 DEF Leave
      <4>2. Head(commands[c]) \in RequestsOf({"channel_leave"})
        BY <4>1, TakeCommandType DEF UserKind
      <4>3. t \in TaskType /\ t.rejoin = task[c].rejoin
        BY <1>1, <4>2 DEF TaskType
      <4> HIDE DEF t
      <4> QED BY <4>1, <4>3, PrepareFields
    <3> QED BY <1>13, <3>1, <3>2
  <2>2. phase' = phase
    BY <1>13 DEF Rejoin, Leave
  <2> QED BY <2>1, <2>2 DEF Counted
<1>14. ASSUME JoinTooLate(c) \/ \E r \in Request : Join(c, r) PROVE Counted(c)
  BY <1>7, <1>14 DEF JoinTooLate, Join, TakeCommand, Selecting, Busy
<1>15. ASSUME JoinAgain(c) PROVE Counted(c)
  <2>1. CASE /\ task' = [task EXCEPT ![c].joiners = @ \cup {Head(commands[c])}]
             /\ phase' = phase
    <3>1. task'[c].rejoin = task[c].rejoin
      BY <1>1, <2>1 DEF TypeOK, TaskType
    <3> QED BY <2>1, <3>1 DEF Counted
  <2> QED BY <1>6, <1>15, <2>1 DEF JoinAgain, Stay
<1>16. ASSUME LeaveAgain(c) PROVE Counted(c)
  <2>1. CASE phase[c] = "Leaving"
    BY <1>7, <1>16, <2>1 DEF LeaveAgain, TakeCommand, Selecting, Busy
  <2> QED BY <1>3, <1>6, <1>16, <2>1 DEF LeaveAgain, Stay
<1>17. ASSUME TakeSend(c) \/ PushReceived(c) PROVE Counted(c)
  BY <1>7, <1>17 DEF TakeSend, PushReceived, Selecting, Busy
<1>18. ASSUME Submit(c) PROVE Counted(c)
  <2>1. CASE SubmitLeave(c)
    <3>1. task'[c].rejoin = NoRejoin
      BY <2>1 DEF SubmitLeave, TypeOK, Blank
    <3> QED BY <3>1 DEF Counted
  <2>2. CASE SubmitJoin(c) \/ SubmitSend(c)
    <3>1. task'[c].rejoin = task[c].rejoin
      <4>1. \/ task'[c] = [task[c] EXCEPT !.busy = NoRequest, !.awaiting = task[c].busy, !.leavers = {}]
            \/ task'[c] = [task[c] EXCEPT !.busy = NoRequest]
        BY <2>2 DEF SubmitJoin, SubmitSend, TypeOK
      <4> QED BY <1>1, <4>1 DEF TaskType
    <3>2. phase' = phase \/ phase' = [phase EXCEPT ![c] = "Joining"]
      BY <2>2 DEF SubmitJoin, SubmitSend
    <3>3. ~(phase[c] = "Joining" /\ phase'[c] = "WaitingToRejoin")
      BY <3>2 DEF TypeOK
    <3> QED BY <3>1, <3>3 DEF Counted
  <2> QED BY <1>18, <2>1, <2>2 DEF Submit
<1>19. ASSUME SubmitFails(c) PROVE Counted(c)
  <2>1. CASE task' = [task EXCEPT ![c] = [@ EXCEPT !.busy = NoRequest, !.leavers = {}]] /\ phase' = phase
    <3>1. task'[c].rejoin = task[c].rejoin
      BY <1>1, <2>1 DEF TypeOK, TaskType
    <3> QED BY <2>1, <3>1 DEF Counted
  <2> QED BY <1>3, <1>4, <1>19, <2>1 DEF SubmitFails
<1> QED BY <1>8, <1>9, <1>10, <1>11, <1>12, <1>13, <1>14, <1>15, <1>16, <1>17, <1>18, <1>19 DEF Task

(* Rejoins back off: attempts are counted on as long as a channel goes on  *)
(* rejoining.                                                              *)
THEOREM AttemptsKeepCounting == Spec => RejoinBacksOff
<1> DEFINE BacksOff == \A c \in Channel : NoRejoin \notin {task[c].rejoin, task'[c].rejoin} =>
             /\ task'[c].rejoin >= task[c].rejoin
             /\ phase[c] = "Joining" /\ phase'[c] = "WaitingToRejoin" =>
                  task'[c].rejoin > task[c].rejoin \/ task[c].rejoin = MaxAttempts
<1>1. ASSUME Inv, [Next]_vars PROVE BacksOff
  <2>1. TypeOK /\ \A c \in Channel : InvAt(c)
    BY <1>1 DEF Inv
  <2>2. ASSUME NEW c \in Channel PROVE Counted(c)
    <3>1. ASSUME NEW d \in Channel, Task(d) PROVE Counted(c)
      <4>1. CASE d = c
        BY <2>1, <3>1, <4>1, TaskCounts
      <4>2. CASE d # c
        <5>1. task'[c] = task[c] /\ phase'[c] = phase[c]
          BY <2>1, <3>1, <4>2, TaskKeeps DEF OnlyOf
        <5> QED BY <5>1 DEF Counted
      <4> QED BY <4>1, <4>2
    <3>2. ASSUME Users PROVE Counted(c)
      <4>1. task' = task /\ phase' = phase
        BY <3>2 DEF Users, UserCommand, UserSend, UserReads, UserShutdown
      <4> QED BY <4>1 DEF Counted
    <3>3. ASSUME Socket PROVE Counted(c)
      <4>1. task' = task /\ (phase'[c] = phase[c] \/ phase[c] \in Unspawned)
        BY <2>1, <3>3, SocketLeaves
      <4> QED BY <4>1 DEF Counted, Unspawned
    <3>4. ASSUME UNCHANGED vars PROVE Counted(c)
      BY <3>4 DEF vars, Counted
    <3> QED BY <1>1, <3>1, <3>2, <3>3, <3>4 DEF Next
  <2>3. ASSUME NEW c \in Channel, NoRejoin \notin {task[c].rejoin, task'[c].rejoin}
        PROVE  /\ task'[c].rejoin >= task[c].rejoin
               /\ phase[c] = "Joining" /\ phase'[c] = "WaitingToRejoin" =>
                    task'[c].rejoin > task[c].rejoin \/ task[c].rejoin = MaxAttempts
    <3>1. task[c].rejoin \in 0..MaxAttempts
      BY <2>1, <2>3 DEF TypeOK, TaskType
    <3>2. Counted(c)
      BY <2>2
    <3> QED BY <2>3, <3>1, <3>2, BoundAssumption DEF Counted, NextAttempt, SmallerOf
  <2> QED BY <2>3
<1>2. Inv /\ [Next]_vars => [BacksOff]_vars
  BY <1>1
<1> QED BY <1>2, InvAlways, PTL DEF Spec, RejoinBacksOff, BacksOff

(* No caller that waits on c is left without an answer by out.             *)
Spares(c, out) ==
  \A u \in RequestsOf(UserKind) :
    outcome[u] = "pending" => out[u] # "dropped" /\ (u \in Waiters(c) => out[u] # "pending")

(* A join that comes too late is the one way to drop a caller and run on:  *)
(* it drops its own caller, and those of the leave it was to interrupt.    *)
TooLate(c, u) ==
  /\ phase'[c] = "WaitingToRejoin"
  /\ IF u.kind = "channel_join" THEN u \in Range(commands[c]) ELSE phase[c] = "Leaving"
Spared(c) ==
  \A u \in RequestsOf(UserKind) :
    u.chan = c /\ outcome[u] = "pending" /\ outcome'[u] = "dropped" =>
      phase'[c] \in Ended \/ TooLate(c, u)

(* A caller who is answered is answered.                                   *)
LEMMA AnswerSpares ==
  ASSUME TypeOK, NEW c \in Channel, NEW R, NEW o \in Answers \ {"dropped"}
  PROVE  /\ \A u \in RequestsOf(UserKind) :
              outcome[u] = "pending" => Answer(outcome, R, o)[u] # "dropped"
         /\ Waiters(c) \subseteq R => Spares(c, Answer(outcome, R, o))
<1> DEFINE new == Answer(outcome, R, o)
<1>1. \A u \in RequestsOf(UserKind) :
        outcome[u] = "pending" => new[u] = IF u \in R THEN o ELSE "pending"
  BY DEF Answer, RequestsOf, Unanswered, UserKind
<1>2. o # "pending"
  BY DEF Answers
<1> HIDE DEF new
<1>3. \A u \in RequestsOf(UserKind) : outcome[u] = "pending" => new[u] # "dropped"
  BY <1>1
<1>4. Waiters(c) \subseteq R => Spares(c, new)
  BY <1>1, <1>2 DEF Spares
<1> QED BY <1>3, <1>4 DEF new

(* Entering a state tells callers nothing but what out tells them, and     *)
(* drops who waits.                                                        *)
LEMMA EnterDrops ==
  ASSUME TypeOK, NEW c \in Channel, NEW p, NEW n, NEW out, Enter(c, p, n, out),
         NEW u \in RequestsOf(UserKind), outcome'[u] = "dropped"
  PROVE  out[u] = "dropped" \/ (u \in Waiters(c) /\ out[u] = "pending")
<1>1. u \in Request /\ u # task[c].awaiting
  BY RequestAssumption DEF TypeOK, TaskType, RequestsOf, UserKind
<1> DEFINE o == Answer(out, Waiters(c), "dropped")[u]
<1>2. outcome'[u] = o
  BY <1>1 DEF Enter, Release
<1>3. o = out[u] \/ (u \in Waiters(c) /\ out[u] = "pending")
  BY <1>1 DEF Answer
<1> HIDE DEF o
<1> QED BY <1>2, <1>3

(* Entering a state with every caller told before.                         *)
LEMMA EnterSpares ==
  ASSUME TypeOK, NEW c \in Channel, NEW p, NEW n, NEW out, Spares(c, out), Enter(c, p, n, out)
  PROVE  Spared(c)
<1>1. ASSUME NEW u \in RequestsOf(UserKind), outcome[u] = "pending", outcome'[u] = "dropped"
      PROVE  FALSE
  <2>1. out[u] = "dropped" \/ (u \in Waiters(c) /\ out[u] = "pending")
    BY <1>1, EnterDrops
  <2> QED BY <1>1, <2>1 DEF Spares
<1> QED BY <1>1 DEF Spared

(* A caller of join or leave gets an answer as long as the task runs, or a *)
(* join comes too late.                                                    *)
LEMMA TaskSpares ==
  ASSUME TypeOK, NEW c \in Channel, InvAt(c), Task(c)
  PROVE  Spared(c)
<1>1. task[c] \in TaskType /\ Hands(c)
  BY DEF TypeOK, InvAt
<1>2. ASSUME NEW p \in Ended, NEW out, End(c, p, out) PROVE Spared(c)
  <2>1. phase'[c] = p
    BY <1>2, EnterFields DEF End
  <2> QED BY <2>1 DEF Spared
<1>3. outcome' = outcome => Spared(c)
  BY DEF Spared
<1>4. ASSUME NEW R, NEW o \in Answers \ {"dropped"}, outcome' = Answer(outcome, R, o)
      PROVE  Spared(c)
  BY <1>4, AnswerSpares DEF Spared
<1>5. ASSUME Waiters(c) = {}, NEW p, NEW n, Enter(c, p, n, outcome) PROVE Spared(c)
  <2>1. Spares(c, outcome)
    BY <1>5 DEF Spares
  <2> QED BY <1>5, <2>1, EnterSpares
<1>6. ASSUME NEW R, NEW o \in Answers \ {"dropped"}, NEW p, NEW n,
             Enter(c, p, n, Answer(outcome, R, o)), Waiters(c) \subseteq R
      PROVE  Spared(c)
  <2>1. Spares(c, Answer(outcome, R, o))
    BY <1>6, AnswerSpares
  <2> QED BY <1>6, <2>1, EnterSpares
<1>7. /\ "ok" \in Answers \ {"dropped"} /\ "shutdown" \in Answers \ {"dropped"}
      /\ "error" \in Answers \ {"dropped"} /\ "waiting" \in Answers \ {"dropped"}
      /\ "leaving" \in Answers \ {"dropped"} /\ "joining" \in Answers \ {"dropped"}
      /\ "rejected" \in Answers \ {"dropped"} /\ "disconnected" \in Answers \ {"dropped"}
      /\ "timeout" \in Answers \ {"dropped"}
      /\ "ShutDown" \in Ended /\ "Gone" \in Ended /\ "dropped" \in Answers
  BY DEF Answers, Ended
<1>8. task[c].busy = NoRequest => /\ phase[c] # "Leaving" => task[c].leavers = {}
                                  /\ phase[c] # "Joining" => task[c].joiners = {}
  BY <1>1 DEF Hands, BusyWith
<1>9. task[c].busy = NoRequest => /\ phase[c] # "Joining" => Waiters(c) = task[c].leavers
                                  /\ phase[c] # "Leaving" => Waiters(c) = task[c].joiners
                                  /\ phase[c] \notin {"Joining", "Leaving"} => Waiters(c) = {}
  BY <1>8 DEF Waiters
<1>10. ASSUME Shutdown(c) \/ Exit(c) PROVE Spared(c)
  BY <1>2, <1>6, <1>7, <1>10 DEF Shutdown, Exit
<1>11. ASSUME ConnectivityChanged(c) PROVE Spared(c)
  <2>1. task[c].busy = NoRequest /\ phase[c] # "Joining"
    BY <1>11 DEF ConnectivityChanged, Selecting, Busy, NewsReady, NewsPhase, CommandPhase
  <2>2. ASSUME NEW p, NEW n, Enter(c, p, n, NewsAnswer(c)) PROVE Spared(c)
    BY <1>6, <1>7, <1>9, <2>1, <2>2 DEF NewsAnswer
  <2>3. CASE SocketConnected(c)
    <3>1. ASSUME phase[c] # "Leaving", NEW p, NEW n, Enter(c, p, n, outcome) PROVE Spared(c)
      BY <1>5, <1>9, <2>1, <3>1
    <3> QED BY <1>3, <2>2, <2>3, <3>1 DEF SocketConnected, WaitToRejoin
  <2>4. CASE SocketDisconnected(c)
    BY <1>3, <2>2, <2>4 DEF SocketDisconnected
  <2>5. CASE SocketShutdown(c)
    BY <2>2, <2>5 DEF SocketShutdown
  <2> QED BY <1>11, <2>3, <2>4, <2>5 DEF ConnectivityChanged
<1>12. ASSUME JoinedResult(c) PROVE Spared(c)
  <2>1. Waiters(c) = task[c].joiners
    BY <1>9, <1>12 DEF JoinedResult, Selecting, Busy
  <2>2. CASE outcome' = Release(Answer(outcome, task[c].joiners, "ok"), {task[c].awaiting})
    <3>1. ASSUME NEW u \in RequestsOf(UserKind), outcome[u] = "pending"
          PROVE  outcome'[u] # "dropped"
      <4>1. u \in Request /\ u # task[c].awaiting
        BY <1>1, RequestAssumption DEF TaskType, RequestsOf, UserKind
      <4> DEFINE new == Answer(outcome, task[c].joiners, "ok")
      <4>2. new[u] # "dropped"
        BY <1>7, <3>1, AnswerSpares
      <4> HIDE DEF new
      <4>3. outcome'[u] = new[u]
        BY <2>2, <4>1 DEF Release, new
      <4> QED BY <4>2, <4>3
    <3> QED BY <3>1 DEF Spared
  <2>3. ASSUME NEW o \in {"rejected", "disconnected", "timeout"},
               WaitToRejoin(c, task[c].rejoin, Answer(outcome, task[c].joiners, o))
        PROVE  Spared(c)
    BY <1>6, <1>7, <2>1, <2>3 DEF WaitToRejoin
  <2> QED BY <1>2, <1>7, <1>12, <2>2, <2>3 DEF JoinedResult
<1>13. ASSUME LeftResult(c) PROVE Spared(c)
  <2>1. PICK o \in {"ok", "error"} : Enter(c, "Left", NoRejoin, Answer(outcome, task[c].leavers, o))
    BY <1>13 DEF LeftResult, AnswerReady
  <2>2. Waiters(c) = task[c].leavers
    BY <1>9, <1>13 DEF LeftResult, Selecting, Busy
  <2> QED BY <1>6, <1>7, <2>1, <2>2
<1>14. ASSUME JoinTooLate(c) PROVE Spared(c)
  <2> DEFINE h == Head(commands[c])
             out == Answer(outcome, {h}, "dropped")
  <2>1. TakeCommand(c, "channel_join") /\ Enter(c, "WaitingToRejoin", NextAttempt(0), out)
        /\ phase[c] \in {"WaitingToJoin", "Leaving", "Left"}
    BY <1>14 DEF JoinTooLate, WaitToRejoin
  <2>2. h \in RequestsOf({"channel_join"}) /\ task[c].busy = NoRequest
    BY <2>1, TakenHeld DEF UserKind
  <2>3. h \in Range(commands[c])
    <3>1. commands[c] \in Seq(RequestsOf(UserKind)) /\ commands[c] # <<>>
      BY <2>1 DEF TakeCommand, TypeOK
    <3> QED BY <3>1, QueueElements
  <2>4. phase'[c] = "WaitingToRejoin"
    BY <2>1, EnterFields
  <2>5. ASSUME NEW u \in RequestsOf(UserKind), outcome[u] = "pending", outcome'[u] = "dropped"
        PROVE  TooLate(c, u)
    <3>1. out[u] = "dropped" \/ u \in Waiters(c)
      BY <2>1, <2>5, EnterDrops
    <3>2. CASE u = h
      BY <2>2, <2>3, <2>4, <3>2 DEF TooLate, RequestsOf
    <3>3. CASE u # h
      <4>1. out[u] # "dropped"
        BY <2>5, <3>3 DEF Answer, RequestsOf
      <4>2. u \in task[c].leavers /\ phase[c] = "Leaving"
        BY <1>8, <2>1, <2>2, <3>1, <4>1 DEF Waiters
      <4>3. u.kind = "channel_leave"
        BY <1>1, <4>2 DEF TaskType, RequestsOf
      <4> QED BY <2>4, <4>2, <4>3 DEF TooLate
    <3> QED BY <3>2, <3>3
  <2> QED BY <2>5 DEF Spared
<1>15. ASSUME JoinAgain(c) PROVE Spared(c)
  BY <1>3, <1>4, <1>7, <1>15 DEF JoinAgain
<1>16. ASSUME LeaveAgain(c) PROVE Spared(c)
  <2>1. CASE phase[c] = "WaitingToRejoin"
    <3>1. Waiters(c) = {}
      BY <1>9, <1>16, <2>1 DEF LeaveAgain, TakeCommand, Selecting, Busy
    <3> QED BY <1>6, <1>7, <1>16, <2>1, <3>1 DEF LeaveAgain
  <2> QED BY <1>3, <1>4, <1>7, <1>16, <2>1 DEF LeaveAgain
<1>17. ASSUME TakeSend(c) \/ PushReceived(c) PROVE Spared(c)
  <2>1. CASE WaitToRejoin(c, 0, outcome)
    BY <1>5, <1>9, <1>17, <2>1 DEF TakeSend, PushReceived, Selecting, Busy, WaitToRejoin
  <2> QED BY <1>3, <1>17, <2>1 DEF TakeSend, PushReceived
<1>18. ASSUME Lagged(c) \/ \E r \in Request : Rejoin(c, r) \/ Join(c, r) \/ Leave(c, r)
       PROVE  Spared(c)
  BY <1>3, <1>18 DEF Lagged, Rejoin, Join, Leave
<1>19. ASSUME Submit(c) PROVE Spared(c)
  <2>1. ASSUME NEW R, NEW o \in Answers \ {"dropped"},
               outcome' = [Release(Answer(outcome, R, o), {task[c].awaiting})
                             EXCEPT ![task[c].busy] = "pending"]
        PROVE  Spared(c)
    <3>1. ASSUME NEW u \in RequestsOf(UserKind), outcome[u] = "pending"
          PROVE  outcome'[u] # "dropped"
      <4>1. u \in Request /\ u # task[c].busy /\ u # task[c].awaiting
        BY <1>1, RequestAssumption DEF TaskType, RequestsOf, ChanKind, UserKind
      <4> DEFINE new == Answer(outcome, R, o)
      <4>2. new[u] # "dropped"
        BY <2>1, <3>1, AnswerSpares
      <4> HIDE DEF new
      <4>3. outcome'[u] = new[u]
        BY <2>1, <4>1 DEF Release, new
      <4> QED BY <4>2, <4>3
    <3> QED BY <3>1 DEF Spared
  <2> QED BY <1>3, <1>7, <1>19, <2>1 DEF Submit, SubmitLeave, SubmitJoin, SubmitSend
<1>20. ASSUME SubmitFails(c) PROVE Spared(c)
  <2> DEFINE r == task[c].busy
  <2>1. CASE r.kind \in {"call", "cast"} /\ Enter(c, "ShuttingDown", NoRejoin, Answer(outcome, {r}, "dropped"))
    <3>1. Waiters(c) = {}
      BY <1>1, <1>20, <2>1 DEF SubmitFails, Busy, Hands, BusyWith, Waiters
    <3>2. \A u \in RequestsOf(UserKind) : Answer(outcome, {r}, "dropped")[u] = outcome[u]
      BY <2>1 DEF Answer, RequestsOf, UserKind
    <3>3. Spares(c, Answer(outcome, {r}, "dropped"))
      BY <3>1, <3>2 DEF Spares
    <3> QED BY <2>1, <3>3, EnterSpares
  <2> QED BY <1>2, <1>4, <1>7, <1>20, <2>1 DEF SubmitFails
<1> QED BY <1>10, <1>11, <1>12, <1>13, <1>14, <1>15, <1>16, <1>17, <1>18, <1>19, <1>20 DEF Task

(* No step but of the task of its channel drops a caller.                  *)
LEMMA CallersAreTold ==
  ASSUME Inv, [Next]_vars, NEW u \in RequestsOf(UserKind),
         outcome[u] = "pending", outcome'[u] = "dropped"
  PROVE  phase'[u.chan] \in Ended \/ TooLate(u.chan, u)
<1>1. TypeOK /\ \A c \in Channel : InvAt(c)
  BY DEF Inv
<1>2. u \in Request /\ u.kind \in UserKind /\ u.chan \in Channel
  BY ChanOf DEF RequestsOf
<1>3. ASSUME NEW c \in Channel, Task(c) PROVE c = u.chan /\ Spared(c)
  <2>1. OnlyOf(c)
    BY <1>1, <1>3, TaskKeeps
  <2>2. c = u.chan
    BY <1>2, <2>1 DEF OnlyOf
  <2> QED BY <1>1, <1>3, <2>2, TaskSpares
<1>4. ~Users
  <2>1. \A v \in Request : ~(outcome' = [outcome EXCEPT ![v] = "pending"])
        /\ ~(outcome' = [outcome EXCEPT ![v] = "free"])
    BY <1>1, <1>2 DEF TypeOK
  <2> QED BY <2>1 DEF Users, UserCommand, UserSend, UserReads, UserShutdown
<1>5. ~Socket
  BY <1>1, <1>2, SocketTold DEF ToldBySocket, ChanKind, UserKind
<1>6. ~UNCHANGED vars
  BY DEF vars
<1> QED BY <1>3, <1>4, <1>5, <1>6 DEF Next, Spared

(* A caller of join gets an answer as long as the task of the channel runs,*)
(* unless the task takes its command up too late.                          *)
THEOREM JoinersAreTold == Spec => JoinersTold
<1> DEFINE Tells == \A u \in RequestsOf({"channel_join"}) :
             outcome[u] = "pending" /\ outcome'[u] = "dropped" =>
               \/ phase'[u.chan] \in Ended
               \/ u \in Range(commands[u.chan]) /\ phase'[u.chan] = "WaitingToRejoin"
<1>1. ASSUME Inv, [Next]_vars PROVE Tells
  <2>1. ASSUME NEW u \in RequestsOf({"channel_join"}), outcome[u] = "pending", outcome'[u] = "dropped"
        PROVE  \/ phase'[u.chan] \in Ended
               \/ u \in Range(commands[u.chan]) /\ phase'[u.chan] = "WaitingToRejoin"
    <3>1. u \in RequestsOf(UserKind) /\ u.kind = "channel_join"
      BY DEF RequestsOf, UserKind
    <3> QED BY <1>1, <2>1, <3>1, CallersAreTold DEF TooLate
  <2> QED BY <2>1
<1>2. Inv /\ [Next]_vars => [Tells]_vars
  BY <1>1
<1> QED BY <1>2, InvAlways, PTL DEF Spec, JoinersTold, Tells

(* A caller of leave gets an answer as long as the task of the channel     *)
(* runs, unless a join that came too late took the place of the leave.     *)
THEOREM LeaversAreTold == Spec => LeaversTold
<1> DEFINE Tells == \A u \in RequestsOf({"channel_leave"}) :
             outcome[u] = "pending" /\ outcome'[u] = "dropped" =>
               \/ phase'[u.chan] \in Ended
               \/ phase[u.chan] = "Leaving" /\ phase'[u.chan] = "WaitingToRejoin"
<1>1. ASSUME Inv, [Next]_vars PROVE Tells
  <2>1. ASSUME NEW u \in RequestsOf({"channel_leave"}), outcome[u] = "pending", outcome'[u] = "dropped"
        PROVE  \/ phase'[u.chan] \in Ended
               \/ phase[u.chan] = "Leaving" /\ phase'[u.chan] = "WaitingToRejoin"
    <3>1. u \in RequestsOf(UserKind) /\ u.kind = "channel_leave"
      BY DEF RequestsOf, UserKind
    <3> QED BY <1>1, <2>1, <3>1, CallersAreTold DEF TooLate
  <2> QED BY <2>1
<1>2. Inv /\ [Next]_vars => [Tells]_vars
  BY <1>1
<1> QED BY <1>2, InvAlways, PTL DEF Spec, LeaversTold, Tells

(* The state of the tasks, and of what they exchange with users and the    *)
(* socket, is what the types of the code say.                              *)
THEOREM TypeCorrect == Spec => []TypeOK
<1>1. Inv => TypeOK
  BY DEF Inv
<1> QED BY <1>1, InvAlways, PTL

-----------------------------------------------------------------------------
(***************************************************************************)
(* What a channel waits for                                                *)
(***************************************************************************)
(* A join or leave that is not answered is held by a running socket task,  *)
(* a leave in its queue; a leave is dropped by the end of that task only.  *)
Live(r) ==
  /\ outcome[r] = "pending" => ~closed /\ (r.kind = "leave" => r \in Range(chanStateQ))
  /\ outcome[r] \in {"free", "pending", "ok"}
                    \cup IF r.kind = "join" THEN {"rejected", "disconnected", "timeout", "dropped"}
                         ELSE {"error"} \cup IF closed THEN {"dropped"} ELSE {}
AllLive == \A r \in RequestsOf({"join", "leave"}) : Live(r)

(* Joins and leaves are left alone, or their oneshots given up.            *)
Aside(out) == \A r \in RequestsOf({"join", "leave"}) : out[r] \in {outcome[r], "free"}

(* Users and calls are told.                                               *)
LEMMA AnswerAside ==
  ASSUME NEW out, Aside(out), NEW R, NEW o,
         \A r \in R \cap RequestsOf({"join", "leave"}) : outcome[r] # "pending"
  PROVE  Aside(Answer(out, R, o))
BY DEF Aside, Answer, RequestsOf

(* Entering a state.                                                       *)
LEMMA EnterAside ==
  ASSUME TypeOK, NEW c \in Channel, NEW p, NEW n, NEW out, Aside(out), Enter(c, p, n, out)
  PROVE  Aside(outcome')
<1> DEFINE told == Answer(out, Waiters(c), "dropped")
<1>1. Waiters(c) \cap RequestsOf({"join", "leave"}) = {}
  BY DEF Waiters, TypeOK, TaskType, RequestsOf
<1>2. Aside(told)
  BY <1>1, AnswerAside
<1>3. outcome' = Release(told, {task[c].awaiting})
  BY DEF Enter
<1> HIDE DEF told
<1> QED BY <1>2, <1>3 DEF Aside, Release, RequestsOf

(* Whom a task holds is no join or leave, and what its handler is about to *)
(* submit is none that is under way.                                       *)
LEMMA HandsAside ==
  ASSUME TypeOK, NEW c \in Channel, InvAt(c)
  PROVE  /\ commands[c] # <<>> => Head(commands[c]) \notin RequestsOf({"join", "leave"})
         /\ UserHeld(c) \cap RequestsOf({"join", "leave"}) = {}
         /\ task[c].busy \in RequestsOf({"join", "leave"}) => outcome[task[c].busy] # "pending"
<1>1. /\ task[c] \in TaskType /\ commands[c] \in Seq(RequestsOf(UserKind))
      /\ sends[c] \in Seq(RequestsOf({"call", "cast"}))
  BY DEF TypeOK
<1>2. UserHeld(c) \cap RequestsOf({"join", "leave"}) = {}
  <2>1. Range(commands[c]) \subseteq RequestsOf(UserKind)
        /\ Range(sends[c]) \subseteq RequestsOf({"call", "cast"})
    BY <1>1, QueueKind
  <2> QED BY <1>1, <2>1 DEF UserHeld, Waiters, TaskType, RequestsOf, UserKind
<1>3. commands[c] # <<>> => Head(commands[c]) \notin RequestsOf({"join", "leave"})
  BY <1>1, QueueSteps DEF RequestsOf, UserKind
<1>4. ASSUME task[c].busy \in RequestsOf({"join", "leave"}), outcome[task[c].busy] = "pending"
      PROVE  FALSE
  <2>1. task[c].busy # NoRequest /\ task[c].busy \in Request
    BY <1>4, RequestAssumption DEF RequestsOf
  <2>2. task[c].awaiting = task[c].busy
    BY <1>4, <2>1 DEF InvAt, Alone, Own
  <2>3. \/ phase[c] = "Joining" /\ task[c].busy.kind = "join"
        \/ phase[c] = "Leaving" /\ task[c].busy.kind = "leave"
    BY <2>1, <2>2 DEF InvAt, Awaits, RequestsOf
  <2> QED BY <2>1, <2>3 DEF InvAt, Hands, BusyWith
<1> QED BY <1>2, <1>3, <1>4

(* The end of the task.                                                    *)
LEMMA EndAside ==
  ASSUME TypeOK, NEW c \in Channel, InvAt(c), NEW p, NEW out, Aside(out), End(c, p, out)
  PROVE  Aside(outcome')
<1> DEFINE told == Answer(out, UserHeld(c) \cup {task[c].busy}, "dropped")
<1>1. Aside(told)
  BY HandsAside, AnswerAside
<1>2. Enter(c, p, NoRejoin, told)
  BY DEF End
<1> HIDE DEF told
<1> QED BY <1>1, <1>2, EnterAside

(* A task makes a join or leave pending when it puts its command into the  *)
(* queue of a running socket task, and answers none.                       *)
LEMMA TaskAside ==
  ASSUME TypeOK, NEW c \in Channel, InvAt(c), Task(c)
  PROVE  /\ closed' = closed
         /\ \/ Aside(outcome') /\ (chanStateQ' = chanStateQ \/ Submit(c))
            \/ Submit(c)
<1>1. /\ Waiters(c) \subseteq UserHeld(c) /\ task[c].joiners \subseteq Waiters(c)
      /\ task[c].leavers \subseteq Waiters(c) /\ Aside(outcome)
  BY DEF UserHeld, Waiters, Aside
<1>2. ASSUME NEW R, R \subseteq Waiters(c), NEW o PROVE Aside(Answer(outcome, R, o))
  BY <1>1, <1>2, HandsAside, AnswerAside
<1>3. ASSUME commands[c] # <<>>, NEW o PROVE Aside(Answer(outcome, {Head(commands[c])}, o))
  BY <1>1, <1>3, HandsAside, AnswerAside
<1>4. ASSUME Shutdown(c) \/ Exit(c) PROVE Aside(outcome')
  BY <1>1, <1>2, <1>4, EnterAside, EndAside DEF Shutdown, Exit
<1>5. ASSUME ConnectivityChanged(c) PROVE Aside(outcome')
  <2>1. ASSUME NEW p, NEW n, Enter(c, p, n, NewsAnswer(c)) PROVE Aside(outcome')
    BY <1>1, <1>2, <2>1, EnterAside DEF NewsAnswer
  <2>2. ASSUME NEW p, NEW n, Enter(c, p, n, outcome) PROVE Aside(outcome')
    BY <1>1, <2>2, EnterAside
  <2> QED BY <1>1, <1>5, <2>1, <2>2
          DEF ConnectivityChanged, SocketConnected, SocketDisconnected, SocketShutdown, WaitToRejoin
<1>6. ASSUME JoinedResult(c) PROVE Aside(outcome')
  <2> DEFINE told(o) == Answer(outcome, task[c].joiners, o)
  <2>1. \A o : Aside(told(o))
    BY <1>1, <1>2
  <2>2. CASE outcome' = Release(told("ok"), {task[c].awaiting})
    <3>1. Aside(told("ok"))
      BY <2>1
    <3> HIDE DEF told
    <3> QED BY <2>2, <3>1 DEF Aside, Release, RequestsOf
  <2>3. ASSUME NEW o, WaitToRejoin(c, task[c].rejoin, told(o)) PROVE Aside(outcome')
    <3>1. Aside(told(o))
      BY <2>1
    <3> HIDE DEF told
    <3> QED BY <2>3, <3>1, EnterAside DEF WaitToRejoin
  <2>4. CASE End(c, "Gone", told("error"))
    <3>1. Aside(told("error"))
      BY <2>1
    <3> HIDE DEF told
    <3> QED BY <2>4, <3>1, EndAside
  <2> QED BY <1>6, <2>2, <2>3, <2>4 DEF JoinedResult
<1>7. ASSUME LeftResult(c) PROVE Aside(outcome')
  <2> DEFINE out == Answer(outcome, task[c].leavers, outcome[task[c].awaiting])
  <2>1. Aside(out) /\ Enter(c, "Left", NoRejoin, out)
    BY <1>1, <1>2, <1>7 DEF LeftResult
  <2> HIDE DEF out
  <2> QED BY <2>1, EnterAside
<1>8. ASSUME JoinTooLate(c) \/ JoinAgain(c) \/ LeaveAgain(c) PROVE Aside(outcome')
  <2>1. commands[c] # <<>>
    BY <1>8 DEF JoinTooLate, JoinAgain, LeaveAgain, TakeCommand
  <2>2. ASSUME NEW o, NEW p, NEW n, Enter(c, p, n, Answer(outcome, {Head(commands[c])}, o))
        PROVE  Aside(outcome')
    <3> DEFINE out == Answer(outcome, {Head(commands[c])}, o)
    <3>1. Aside(out) /\ Enter(c, p, n, out)
      BY <1>3, <2>1, <2>2
    <3> HIDE DEF out
    <3> QED BY <3>1, EnterAside
  <2>3. ASSUME NEW o, outcome' = Answer(outcome, {Head(commands[c])}, o) PROVE Aside(outcome')
    BY <1>3, <2>1, <2>3
  <2> QED BY <1>1, <1>8, <2>2, <2>3 DEF JoinTooLate, JoinAgain, LeaveAgain, WaitToRejoin
<1>9. ASSUME TakeSend(c) \/ PushReceived(c) PROVE Aside(outcome')
  <2>1. ASSUME WaitToRejoin(c, 0, outcome) PROVE Aside(outcome')
    BY <1>1, <2>1, EnterAside DEF WaitToRejoin
  <2> QED BY <1>1, <1>9, <2>1 DEF TakeSend, PushReceived
<1>10. ASSUME Lagged(c) \/ \E r \in Request : Rejoin(c, r) \/ Join(c, r) \/ Leave(c, r)
       PROVE  Aside(outcome')
  BY <1>1, <1>10 DEF Lagged, Rejoin, Join, Leave
<1>11. ASSUME SubmitFails(c) PROVE Aside(outcome')
  <2>1. ASSUME NEW o, End(c, "Gone", Answer(outcome, task[c].leavers, o)) PROVE Aside(outcome')
    <3> DEFINE out == Answer(outcome, task[c].leavers, o)
    <3>1. Aside(out) /\ End(c, "Gone", out)
      BY <1>1, <1>2, <2>1
    <3> HIDE DEF out
    <3> QED BY <3>1, EndAside
  <2>2. ASSUME Enter(c, "ShuttingDown", NoRejoin, Answer(outcome, {task[c].busy}, "dropped"))
        PROVE  Aside(outcome')
    <3> DEFINE out == Answer(outcome, {task[c].busy}, "dropped")
    <3>1. Aside(out)
      BY <1>1, HandsAside, AnswerAside
    <3>2. Enter(c, "ShuttingDown", NoRejoin, out)
      BY <2>2
    <3> HIDE DEF out
    <3> QED BY <3>1, <3>2, EnterAside
  <2>3. ASSUME End(c, "Gone", outcome) PROVE Aside(outcome')
    BY <1>1, <2>3, EndAside
  <2> QED BY <1>1, <1>2, <1>11, <2>1, <2>2, <2>3 DEF SubmitFails
<1>12. ~Submit(c) => UNCHANGED <<closed, chanStateQ>>
  BY DEF Task, Shutdown, Exit, Lagged, ConnectivityChanged, JoinedResult, LeftResult, Rejoin, Join,
         JoinTooLate, JoinAgain, Leave, LeaveAgain, TakeCommand, TakeSend, PushReceived, SubmitFails,
         socketVars
<1>13. Submit(c) => closed' = closed
  BY DEF Submit
<1> QED BY <1>4, <1>5, <1>6, <1>7, <1>8, <1>9, <1>10, <1>11, <1>12, <1>13 DEF Task

(* Submitting.                                                             *)
LEMMA SubmitLive ==
  ASSUME TypeOK, NEW c \in Channel, Submit(c), NEW r \in RequestsOf({"join", "leave"}), Live(r)
  PROVE  Live(r)'
<1>1. ~closed /\ closed' = closed
  BY DEF Submit
<1>2. task[c] \in TaskType /\ chanStateQ \in Seq(RequestsOf({"join", "leave"})) /\ r \in Request
  BY DEF TypeOK, RequestsOf
<1>3. CASE SubmitSend(c)
  BY <1>1, <1>3 DEF SubmitSend, Live
<1>4. task[c].busy # NoRequest
  BY DEF Submit, Busy
<1>5. task[c].busy.kind \in {"join", "leave"} => task[c].busy \in RequestsOf({"join", "leave"})
  BY <1>2, <1>4 DEF TaskType, RequestsOf
<1>6. CASE SubmitLeave(c) \/ SubmitJoin(c)
  <2>1. /\ task[c].busy \in RequestsOf({"join", "leave"})
        /\ chanStateQ' = Append(chanStateQ, task[c].busy)
    BY <1>5, <1>6 DEF SubmitLeave, SubmitJoin
  <2>2. Range(chanStateQ') = Range(chanStateQ) \cup {task[c].busy}
    BY <1>2, <2>1, QueueElements
  <2>3. r \notin task[c].joiners \cup task[c].leavers
    BY <1>2 DEF TaskType, RequestsOf
  <2>4. outcome'[r] = IF r = task[c].busy THEN "pending"
                      ELSE IF r = task[c].awaiting THEN "free" ELSE outcome[r]
    <3>1. CASE SubmitLeave(c)
      BY <1>2, <2>3, <3>1 DEF SubmitLeave, Release, Answer
    <3>2. CASE SubmitJoin(c)
      BY <1>2, <2>3, <3>2 DEF SubmitJoin, Release, Answer
    <3> QED BY <1>6, <3>1, <3>2
  <2> QED BY <1>1, <2>2, <2>4 DEF Live
<1> QED BY <1>3, <1>6 DEF Submit

(* What the socket tells ends the wait of a join or leave.                 *)
LEMMA SocketLive ==
  ASSUME TypeOK, \A c \in Channel : InvAt(c), AllLive, Socket
  PROVE  AllLive'
<1> SUFFICES ASSUME NEW r \in RequestsOf({"join", "leave"}) PROVE Live(r)'
  BY DEF AllLive
<1>1. /\ Live(r) /\ r \in Request /\ r \notin Unanswered
      /\ r.kind \in {"join", "leave"} /\ (r \in Sent => r.kind = "join")
  BY DEF AllLive, RequestsOf, Unanswered, Sent
<1>2. chanStateQ \in Seq(RequestsOf({"join", "leave"})) /\ sendQ \in Seq(RequestsOf({"call", "cast"}))
  BY DEF TypeOK
<1>3. ASSUME UNCHANGED <<closed, chanStateQ, outcome>> PROVE Live(r)'
  BY <1>1, <1>3 DEF Live
<1>4. ASSUME UNCHANGED <<closed, chanStateQ>>, outcome' = Answer(outcome, Sent, "disconnected")
      PROVE  Live(r)'
  BY <1>1, <1>4 DEF Live, Answer
<1>5. ASSUME NEW h, SocketTakes(h)
      PROVE  outcome'[r] \in {outcome[r]}
               \cup IF outcome[r] = "pending"
                    THEN (IF r = h THEN {"ok", IF r.kind = "join" THEN "dropped" ELSE "error"} ELSE {})
                         \cup (IF r.kind = "join" THEN {"disconnected"} ELSE {})
                    ELSE {}
  <2>1. CASE outcome' = Answer(outcome, IF h.kind \in {"leave", "cast"} THEN {h} ELSE {}, "ok")
    BY <1>1, <2>1 DEF Answer
  <2>2. CASE outcome' = Answer(Answer(outcome, {h}, IF h.kind \in {"leave", "call"} THEN "error" ELSE "dropped"),
                               Sent, "disconnected")
    BY <1>1, <2>2 DEF Answer
  <2> QED BY <1>5, <2>1, <2>2 DEF SocketTakes, Disconnected
<1>6. CASE SocketTakesState
  <2> DEFINE h == Head(chanStateQ)
  <2>1. /\ ~closed /\ closed' = closed /\ chanStateQ' = Tail(chanStateQ) /\ SocketTakes(h)
        /\ Range(chanStateQ) = {h} \cup Range(Tail(chanStateQ))
    BY <1>2, <1>6, QueueElements DEF SocketTakesState, Online
  <2>2. CASE r.kind = "leave" /\ r = h
    <3>1. outcome'[r] # "pending"
      <4>1. outcome' = Answer(outcome, {h}, "ok")
            \/ outcome' = Answer(Answer(outcome, {h}, "error"), Sent, "disconnected")
        BY <2>1, <2>2 DEF SocketTakes, Disconnected
      <4> QED BY <1>1, <2>2, <4>1 DEF Answer
    <3> QED BY <1>1, <1>5, <2>1, <2>2, <3>1 DEF Live
  <2>3. CASE r.kind = "join" \/ r # h
    BY <1>1, <1>5, <2>1, <2>3 DEF Live
  <2> QED BY <1>1, <2>2, <2>3
<1>7. CASE SocketTakesSend
  <2>1. Head(sendQ) \in RequestsOf({"call", "cast"}) /\ SocketTakes(Head(sendQ))
        /\ UNCHANGED <<closed, chanStateQ>>
    BY <1>2, <1>7, QueueSteps DEF SocketTakesSend
  <2>2. r # Head(sendQ)
    BY <2>1 DEF RequestsOf
  <2> QED BY <1>1, <1>5, <2>1, <2>2 DEF Live
<1>8. ASSUME NEW q, SocketAnswers(q) PROVE Live(r)'
  <2>1. /\ UNCHANGED <<closed, chanStateQ>> /\ q \in Sent
        /\ \E o \in {"ok", "rejected", "timeout"} : outcome' = Answer(outcome, {q}, o)
    BY <1>8 DEF SocketAnswers, socketVars
  <2> QED BY <1>1, <2>1 DEF Live, Answer
<1>9. CASE SocketEnds
  <2>1. closed' = TRUE
        /\ outcome' = Answer(outcome, Sent \cup Range(chanStateQ) \cup Range(sendQ), "dropped")
    BY <1>9 DEF SocketEnds
  <2>2. outcome[r] = "pending" => r \in Sent \cup Range(chanStateQ)
    <3>1. r \notin InTheirHands \/ outcome[r] # "pending"
      <4>1. ASSUME NEW c \in Channel PROVE r \notin UserHeld(c) /\ (r = task[c].busy => outcome[r] # "pending")
        <5>1. UserHeld(c) \cap RequestsOf({"join", "leave"}) = {}
              /\ (task[c].busy \in RequestsOf({"join", "leave"}) => outcome[task[c].busy] # "pending")
          BY HandsAside
        <5> QED BY <5>1
      <4> QED BY <4>1 DEF InTheirHands
    <3>2. r \notin Range(sendQ)
      BY <1>2, QueueKind DEF RequestsOf
    <3> QED BY <1>1, <3>1, <3>2 DEF Live, Sent, RequestsOf
  <2> QED BY <1>1, <2>1, <2>2 DEF Live, Answer
<1>10. CASE SocketDisconnects
  BY <1>4, <1>10 DEF SocketDisconnects, Disconnected
<1>11. ASSUME \/ SocketWrites \/ SocketConnects
              \/ \E c \in Channel : RequestChannel(c) \/ SpawnChannel(c) \/ \E m \in PushKind : SocketPushes(c, m)
       PROVE  Live(r)'
  BY <1>3, <1>11 DEF SocketWrites, SocketConnects, RequestChannel, SpawnChannel, SocketPushes, socketVars
<1> QED BY <1>6, <1>7, <1>8, <1>9, <1>10, <1>11 DEF Socket

(* A join or leave that waits goes on to have its answer to come.          *)
LEMMA LiveStep == Inv /\ AllLive /\ [Next]_vars => AllLive'
<1> SUFFICES ASSUME Inv, AllLive, [Next]_vars, NEW r \in RequestsOf({"join", "leave"})
             PROVE  Live(r)'
  BY DEF AllLive
<1>1. TypeOK /\ (\A c \in Channel : InvAt(c)) /\ Live(r) /\ r \in Request
  BY DEF Inv, AllLive, RequestsOf
<1>2. ASSUME NEW c \in Channel, Task(c) PROVE Live(r)'
  <2>1. CASE Submit(c)
    BY <1>1, <2>1, SubmitLive
  <2>2. CASE ~Submit(c)
    <3>1. UNCHANGED <<closed, chanStateQ>> /\ outcome'[r] \in {outcome[r], "free"}
      BY <1>1, <1>2, <2>2, TaskAside DEF Aside
    <3> QED BY <1>1, <3>1 DEF Live
  <2> QED BY <2>1, <2>2
<1>3. CASE Users
  <2>1. UNCHANGED <<closed, chanStateQ>> /\ outcome'[r] = outcome[r]
    BY <1>1, <1>3 DEF Users, UserCommand, UserSend, UserReads, UserShutdown, socketVars, TypeOK,
                      RequestsOf, UserKind
  <2> QED BY <1>1, <2>1 DEF Live
<1>4. CASE Socket
  BY <1>1, <1>4, SocketLive DEF AllLive
<1>5. CASE UNCHANGED vars
  BY <1>1, <1>5 DEF vars, socketVars, Live
<1> QED BY <1>2, <1>3, <1>4, <1>5 DEF Next

(* It has, in every state.                                                 *)
LEMMA LiveAlways == Spec => []AllLive
<1>1. Init => AllLive
  BY DEF Init, AllLive, Live, RequestsOf
<1> QED BY <1>1, LiveStep, InvAlways, PTL DEF Spec

(* A channel that joins or leaves has a oneshot that a running socket task *)
(* is to answer, or that is answered so as to end the wait, but for a      *)
(* leave that the end of the socket task dropped; and callers wait only    *)
(* then.                                                                   *)
THEOREM WaitingEnds == Spec => []WaitsForLiveAnswer
<1>1. Inv /\ AllLive => WaitsForLiveAnswer
  <2> SUFFICES ASSUME Inv, AllLive, NEW c \in Channel
               PROVE  /\ phase[c] \in {"Joining", "Leaving"} =>
                           /\ task[c].awaiting # NoRequest
                           /\ \/ outcome[task[c].awaiting] = "pending" /\ ~closed
                              \/ outcome[task[c].awaiting] = "dropped" /\ closed
                              \/ /\ phase[c] = "Joining"
                                 /\ outcome[task[c].awaiting] \in
                                      {"ok", "rejected", "disconnected", "timeout", "dropped"}
                              \/ phase[c] = "Leaving" /\ outcome[task[c].awaiting] \in {"ok", "error"}
                      /\ task[c].joiners # {} => phase[c] = "Joining" \/ Busy(c)
                      /\ task[c].leavers # {} => phase[c] = "Leaving" \/ Busy(c)
    BY DEF WaitsForLiveAnswer
  <2>1. Awaits(c) /\ Hands(c)
    BY DEF Inv, InvAt
  <2>2. NoRequest \notin RequestsOf({"join"}) \cup RequestsOf({"leave"})
    BY RequestAssumption DEF RequestsOf
  <2>3. ASSUME phase[c] \in {"Joining", "Leaving"}
        PROVE  /\ Live(task[c].awaiting) /\ outcome[task[c].awaiting] # "free"
               /\ task[c].awaiting.kind = IF phase[c] = "Joining" THEN "join" ELSE "leave"
    BY <2>1, <2>2, <2>3 DEF Awaits, AllLive, RequestsOf
  <2>4. ASSUME phase[c] = "Joining"
        PROVE  \/ outcome[task[c].awaiting] = "pending" /\ ~closed
               \/ outcome[task[c].awaiting] \in {"ok", "rejected", "disconnected", "timeout", "dropped"}
    BY <2>3, <2>4 DEF Live
  <2>5. ASSUME phase[c] = "Leaving"
        PROVE  \/ outcome[task[c].awaiting] = "pending" /\ ~closed
               \/ outcome[task[c].awaiting] \in {"ok", "error"}
               \/ outcome[task[c].awaiting] = "dropped" /\ closed
    BY <2>3, <2>5 DEF Live
  <2>6. phase[c] \in {"Joining", "Leaving"} => task[c].awaiting # NoRequest
    BY <2>1, <2>2 DEF Awaits
  <2> QED BY <2>1, <2>4, <2>5, <2>6 DEF Hands, BusyWith, Busy
<1> QED BY <1>1, LiveAlways, InvAlways, PTL

(* A channel has at most one join or leave under way at the socket, and    *)
(* none beside a join that it has the receivers of.                        *)
THEOREM OneAtATime == Spec => []OneUnderWay
<1>1. Inv => OneUnderWay
  <2> SUFFICES ASSUME Inv, NEW r \in RequestsOf({"join", "leave"}),
                      outcome[r] # "free"
               PROVE  task[r.chan].awaiting = r /\ receiving[r.chan] = NoRequest
    BY DEF OneUnderWay
  <2>1. r.chan \in Channel
    BY ChanOf DEF RequestsOf, ChanKind
  <2> QED BY <2>1 DEF Inv, InvAt, Alone
<1> QED BY <1>1, InvAlways, PTL
=============================================================================
