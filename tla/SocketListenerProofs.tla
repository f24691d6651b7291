----------------------- MODULE SocketListenerProofs -----------------------
(***************************************************************************)
(* Theorems about SocketListener, for every set of channels and requests,  *)
(* every queue capacity and every reconnect strategy.                      *)
(***************************************************************************)
EXTENDS SocketListener, QueueLemmas

(* Answering leaves every oneshot with a value of its type.                *)
LEMMA AnswerType ==
  ASSUME NEW out \in [Request -> Outcome], NEW R, NEW o \in Outcome
  PROVE  Answer(out, R, o) \in [Request -> Outcome]
BY DEF Answer, Outcome

(* A broadcast keeps the connectivity variables typed.                     *)
LEMMA BroadcastType ==
  ASSUME TypeOK, NEW v \in {"Connected", "Disconnect", "Reconnect", "Shutdown"}, Broadcast(v)
  PROVE  /\ connectivity' \in {"none", "Connected", "Disconnect", "Reconnect", "Shutdown"}
         /\ unread' \in [Channel -> 0..2]
BY DEF TypeOK, SharedTypeOK, Broadcast, SmallerOf

LEMMA EmptyMapsType == EmptyMaps => MapTypeOK'
<1> SUFFICES ASSUME EmptyMaps PROVE MapTypeOK'
  OBVIOUS
<1>1. sent' \in [Channel -> SUBSET RequestsOf(ChanKind)]
  BY DEF EmptyMaps
<1>2. QED
  BY <1>1 DEF EmptyMaps, MapTypeOK

LEMMA InitType == Init => TypeOK
<1> SUFFICES ASSUME Init PROVE TypeOK
  OBVIOUS
<1>1. QueueTypeOK
  BY EmptyQueue DEF Init, QueueTypeOK
<1>2. TaskTypeOK
  BY BoundAssumption DEF Init, TaskTypeOK, SocketState
<1>3. MapTypeOK
  <2>1. sent \in [Channel -> SUBSET RequestsOf(ChanKind)]
    BY DEF Init
  <2>2. QED BY <2>1 DEF Init, MapTypeOK
<1>4. SharedTypeOK
  <2>1. pushQ \in [Channel -> Seq(PushKind)]
    BY EmptyQueue DEF Init
  <2>2. QED BY <2>1 DEF Init, SharedTypeOK, Outcome, Phase, Unspawned
<1>5. QED BY <1>1, <1>2, <1>3, <1>4 DEF TypeOK

LEMMA SendDisconnectedType ==
  ASSUME TypeOK, NEW out \in [Request -> Outcome],
         NEW v \in {"Disconnect", "Reconnect", "Shutdown"},
         SendDisconnected(out, v)
  PROVE  /\ MapTypeOK'
         /\ connectivity' \in {"none", "Connected", "Disconnect", "Reconnect", "Shutdown"}
         /\ unread' \in [Channel -> 0..2]
         /\ outcome' \in [Request -> Outcome]
<1>1. "disconnected" \in Outcome
  BY DEF Outcome, Answers
<1>2. QED
  BY <1>1, EmptyMapsType, BroadcastType, AnswerType DEF SendDisconnected

LEMMA WaitToReconnectType ==
  ASSUME TypeOK, NEW out \in [Request -> Outcome], WaitToReconnectConnected(out)
  PROVE  /\ MapTypeOK'
         /\ connectivity' \in {"none", "Connected", "Disconnect", "Reconnect", "Shutdown"}
         /\ unread' \in [Channel -> 0..2]
         /\ outcome' \in [Request -> Outcome]
         /\ pc' = "publish" /\ state' \in SocketState
         /\ attempts' \in 0..MaxAttempts /\ delay' \in Nat
<1> USE DEF WaitToReconnectConnected
<1>1. SendDisconnected(out, "Reconnect")
  OBVIOUS
<1>2. attempts' \in 0..MaxAttempts /\ delay' \in Nat /\ state' \in SocketState
  BY BoundAssumption DEF SleepMultiplier, SmallerOf, SocketState
<1>3. QED
  BY <1>1, <1>2, SendDisconnectedType

(* A handler begins to wait for the peer: nothing changes but where the    *)
(* task is.                                                                *)
Waits == Close \/ WriteState \/ WriteSend \/ Heartbeat \/ Pong \/ AnswerClose

LEMMA WaitsKeep ==
  ASSUME Waits
  PROVE  /\ pc = "select" /\ state = "Connected" /\ pc' \in Writing
         /\ UNCHANGED <<state, status, serving, attempts, delay, stateQ, spawnQ, chanStateQ,
                        sendQ, joins, timers, joined, replies, heartbeat, sent, connectivity,
                        unread, outcome, receiving, phase, pushQ, blocked>>
<1>1. PICK w \in Writing : Await(w)
  BY DEF Waits, Close, WriteState, WriteSend, Heartbeat, Pong, AnswerClose, Writing
<1> QED
  BY <1>1 DEF Await, Online, AtSelect, backVars, queueVars, connVars, castVars, chanVars, pushVars

LEMMA WaitsType == ASSUME TypeOK, Waits PROVE TypeOK'
BY WaitsKeep DEF TypeOK, TaskTypeOK, QueueTypeOK, MapTypeOK, SharedTypeOK

(* Connect answers its command, or serves it: the head of a queue of state commands. *)
LEMMA ConnectType == ASSUME TypeOK, Connect PROVE TypeOK'
<1>1. TaskTypeOK'
  BY QueueSteps, BoundAssumption DEF TypeOK, TaskTypeOK, Connect, TakeStateCommand, QueueTypeOK, backVars, RequestsOf
<1>2. QueueTypeOK'
  BY QueueSteps DEF TypeOK, QueueTypeOK, Connect, TakeStateCommand
<1>3. MapTypeOK'
  BY DEF TypeOK, MapTypeOK, Connect, connVars
<1>4. SharedTypeOK'
  <2>1. \A o \in {"ok", "waiting"} : Answer(outcome, {Head(stateQ)}, o) \in [Request -> Outcome]
    BY AnswerType DEF TypeOK, SharedTypeOK, Outcome, Answers
  <2> QED
    BY <2>1 DEF TypeOK, SharedTypeOK, Connect, TakeStateCommand, castVars, chanVars, pushVars
<1> QED
  BY <1>1, <1>2, <1>3, <1>4 DEF TypeOK

LEMMA DisconnectType == ASSUME TypeOK, Disconnect PROVE TypeOK'
<1>1. TaskTypeOK'
  BY DEF TypeOK, TaskTypeOK, Disconnect, TakeStateCommand, backVars, SocketState
<1>2. QueueTypeOK'
  BY QueueSteps DEF TypeOK, QueueTypeOK, Disconnect, TakeStateCommand
<1>3. Answer(outcome, {Head(stateQ)}, "ok") \in [Request -> Outcome]
  BY AnswerType DEF TypeOK, SharedTypeOK, Outcome, Answers
<1>4. MapTypeOK'
  BY <1>3, SendDisconnectedType DEF TypeOK, MapTypeOK, Disconnect, connVars
<1>5. SharedTypeOK'
  BY <1>3, SendDisconnectedType DEF TypeOK, SharedTypeOK, Disconnect, TakeStateCommand, castVars, chanVars, pushVars
<1> QED
  BY <1>1, <1>2, <1>3, <1>4, <1>5 DEF TypeOK

LEMMA ShutdownType == ASSUME TypeOK, Shutdown PROVE TypeOK'
<1>1. TaskTypeOK'
  BY DEF TypeOK, TaskTypeOK, Shutdown, TakeStateCommand, backVars, SocketState
<1>2. QueueTypeOK'
  BY QueueSteps DEF TypeOK, QueueTypeOK, Shutdown, TakeStateCommand
<1>3. Answer(outcome, {Head(stateQ)}, "ok") \in [Request -> Outcome]
  BY AnswerType DEF TypeOK, SharedTypeOK, Outcome, Answers
<1>4. MapTypeOK'
  BY <1>3, SendDisconnectedType DEF TypeOK, MapTypeOK, Shutdown, connVars
<1>5. SharedTypeOK'
  BY <1>3, SendDisconnectedType DEF TypeOK, SharedTypeOK, Shutdown, TakeStateCommand, castVars, chanVars, pushVars
<1> QED
  BY <1>1, <1>2, <1>3, <1>4, <1>5 DEF TypeOK

LEMMA ReconnectType == ASSUME TypeOK, Reconnect PROVE TypeOK'
<1>1. TaskTypeOK'
  BY DEF TypeOK, TaskTypeOK, Reconnect, backVars
<1>2. QueueTypeOK'
  BY DEF TypeOK, QueueTypeOK, Reconnect, queueVars
<1>3. MapTypeOK'
  BY DEF TypeOK, MapTypeOK, Reconnect, connVars
<1>4. SharedTypeOK'
  BY DEF TypeOK, SharedTypeOK, Reconnect, castVars, chanVars, pushVars
<1> QED
  BY <1>1, <1>2, <1>3, <1>4 DEF TypeOK

LEMMA SocketConnectOkType == ASSUME TypeOK, SocketConnectOk PROVE TypeOK'
<1>1. TaskTypeOK'
  BY BoundAssumption DEF TypeOK, TaskTypeOK, SocketConnectOk, SocketState
<1>2. QueueTypeOK'
  BY DEF TypeOK, QueueTypeOK, SocketConnectOk, queueVars
<1>3. MapTypeOK'
  BY EmptyMapsType DEF TypeOK, MapTypeOK, SocketConnectOk
<1>4. SharedTypeOK'
  BY AnswerType, BroadcastType DEF TypeOK, SharedTypeOK, SocketConnectOk, chanVars, pushVars, Outcome, Answers
<1> QED
  BY <1>1, <1>2, <1>3, <1>4 DEF TypeOK

(* The reconnect sleeps are one of five multiples of connect_timeout.      *)
LEMMA SleepMultiplierValues ==
  ASSUME NEW n \in Nat
  PROVE  SleepMultiplier(n) \in {0, 1, 2, 5, 10}
<1>1. SmallerOf(n, 4) \in 0..4
  BY DEF SmallerOf
<1>2. \A i \in 0..4 : <<0, 1, 2, 5, 10>>[i + 1] \in {0, 1, 2, 5, 10}
  <2> SUFFICES ASSUME NEW i \in 0..4 PROVE <<0, 1, 2, 5, 10>>[i + 1] \in {0, 1, 2, 5, 10}
    OBVIOUS
  <2>1. i = 0 \/ i = 1 \/ i = 2 \/ i = 3 \/ i = 4
    OBVIOUS
  <2> QED
    BY <2>1
<1> QED
  BY <1>1, <1>2 DEF SleepMultiplier

LEMMA SocketConnectErrorType == ASSUME TypeOK, SocketConnectError PROVE TypeOK'
<1>1. SleepAfterFailure(attempts) \in Nat
  BY SleepMultiplierValues, StrategyAssumption DEF TypeOK, TaskTypeOK, SleepAfterFailure
<1>2. NextAttempt(attempts) \in 0..MaxAttempts
  BY BoundAssumption DEF TypeOK, TaskTypeOK, NextAttempt, SmallerOf
<1>3. TaskTypeOK'
  BY <1>1, <1>2 DEF TypeOK, TaskTypeOK, SocketConnectError, SocketState
<1>4. QueueTypeOK'
  BY DEF TypeOK, QueueTypeOK, SocketConnectError, queueVars
<1>5. MapTypeOK'
  BY DEF TypeOK, MapTypeOK, SocketConnectError, connVars
<1>6. SharedTypeOK'
  BY AnswerType DEF TypeOK, SharedTypeOK, SocketConnectError, castVars, chanVars, pushVars, ConnectErrors, Outcome, Answers
<1> QED
  BY <1>1, <1>2, <1>3, <1>4, <1>5, <1>6 DEF TypeOK

LEMMA PublishType == ASSUME TypeOK, Publish PROVE TypeOK'
<1>1. TaskTypeOK'
  BY DEF TypeOK, TaskTypeOK, Publish, backVars
<1>2. QueueTypeOK'
  BY DEF TypeOK, QueueTypeOK, Publish, queueVars
<1>3. MapTypeOK'
  BY DEF TypeOK, MapTypeOK, Publish, connVars
<1>4. SharedTypeOK'
  BY DEF TypeOK, SharedTypeOK, Publish, castVars, chanVars, pushVars
<1> QED
  BY <1>1, <1>2, <1>3, <1>4 DEF TypeOK

(* What the task holds is dropped with it.                                 *)
LEMMA DropEverythingType ==
  ASSUME TypeOK, DropEverything
  PROVE  QueueTypeOK' /\ MapTypeOK' /\ SharedTypeOK'
<1>1. QueueTypeOK'
  BY EmptyQueue DEF DropEverything, QueueTypeOK
<1>2. MapTypeOK'
  BY EmptyMapsType DEF DropEverything
<1>3. SharedTypeOK'
  BY AnswerType DEF TypeOK, SharedTypeOK, DropEverything, castVars, pushVars, Outcome, Answers, Phase, Unspawned
<1> QED
  BY <1>1, <1>2, <1>3

LEMMA ExitType == ASSUME TypeOK, Exit \/ Dropped PROVE TypeOK'
<1>1. TaskTypeOK'
  BY DEF TypeOK, TaskTypeOK, Exit, Dropped, ShutDown, DropEverything, backVars, SocketState
<1>2. QueueTypeOK' /\ MapTypeOK' /\ SharedTypeOK'
  BY DropEverythingType DEF TypeOK, Exit, Dropped, ShutDown
<1> QED
  BY <1>1, <1>2 DEF TypeOK

LEMMA FatalSocketErrorType == ASSUME TypeOK, FatalSocketError PROVE TypeOK'
<1>1. TaskTypeOK'
  BY DEF TypeOK, TaskTypeOK, FatalSocketError, DropEverything, backVars
<1>2. QueueTypeOK' /\ MapTypeOK' /\ SharedTypeOK'
  BY DropEverythingType DEF TypeOK, FatalSocketError
<1> QED
  BY <1>1, <1>2 DEF TypeOK

(* The channel spawned is the head of a queue of channels. *)
LEMMA SpawnChannelType == ASSUME TypeOK, SpawnChannel PROVE TypeOK'
<1>1. TaskTypeOK'
  BY DEF TypeOK, TaskTypeOK, SpawnChannel, backVars
<1>2. QueueTypeOK'
  BY QueueSteps DEF TypeOK, QueueTypeOK, SpawnChannel
<1>3. MapTypeOK'
  BY DEF TypeOK, MapTypeOK, SpawnChannel, connVars
<1>4. SharedTypeOK'
  BY QueueSteps DEF TypeOK, SharedTypeOK, SpawnChannel, QueueTypeOK, pushVars, Phase, Ended
<1> QED
  BY <1>1, <1>2, <1>3, <1>4 DEF TypeOK

(* Only its own channel gets a frame, and the task is back in its select.  *)
LEMMA FrameSentType ==
  ASSUME TypeOK, NEW kind \in ChanKind, NEW r \in RequestsOf({kind}), FrameSent(r)
  PROVE  sent' \in [Channel -> SUBSET RequestsOf(ChanKind)] /\ pc' = "select"
<1>1. r \in RequestsOf(ChanKind)
  BY DEF RequestsOf
<1>2. sent \in [Channel -> SUBSET RequestsOf(ChanKind)]
  BY DEF TypeOK, MapTypeOK
<1> QED
  BY <1>1, <1>2 DEF FrameSent

(* A request of a channel names one.                                       *)
LEMMA RequestChan ==
  ASSUME NEW kind \in ChanKind, NEW r \in RequestsOf({kind})
  PROVE  r \in Request /\ r.kind = kind /\ r.chan \in Channel
BY RequestAssumption DEF RequestsOf, ChanKind, StateKind, UserKind

LEMMA StartJoinType == ASSUME TypeOK, StartJoin PROVE TypeOK'
<1> DEFINE r == Head(chanStateQ)
<1>1. chanStateQ \in Seq(RequestsOf({"join", "leave"})) /\ chanStateQ # <<>> /\ r.kind = "join"
  BY DEF TypeOK, QueueTypeOK, StartJoin, TakeChannelStateCommand
<1>2. r \in RequestsOf({"join"})
  BY <1>1, QueueSteps DEF RequestsOf
<1>3. QueueTypeOK'
  BY QueueSteps DEF TypeOK, QueueTypeOK, StartJoin, TakeChannelStateCommand
<1>4. CASE FrameSent(r) /\ UNCHANGED <<state, backVars, castVars>> /\ joins' = [joins EXCEPT ![r.chan] = r]
          /\ outcome' = Answer(outcome, {joins[r.chan]}, "dropped") /\ ArmTimeout(r)
          /\ UNCHANGED <<joined, replies, heartbeat>>
  <2>1. sent' \in [Channel -> SUBSET RequestsOf(ChanKind)] /\ pc' = "select"
    BY <1>2, <1>4, FrameSentType DEF ChanKind
  <2>2. TaskTypeOK'
    BY <1>4, <2>1 DEF TypeOK, TaskTypeOK, StartJoin, TakeChannelStateCommand, backVars
  <2>3. MapTypeOK'
    BY <1>2, <1>4, <2>1, RequestChan DEF TypeOK, MapTypeOK, ArmTimeout, ChanKind
  <2>4. SharedTypeOK'
    BY <1>4, AnswerType DEF TypeOK, SharedTypeOK, StartJoin, TakeChannelStateCommand, castVars, chanVars, pushVars, Outcome, Answers
  <2> QED
    BY <1>3, <2>2, <2>3, <2>4 DEF TypeOK
<1>5. CASE WaitToReconnectConnected(Answer(outcome, {r}, "dropped"))
  <2>1. Answer(outcome, {r}, "dropped") \in [Request -> Outcome]
    BY AnswerType DEF TypeOK, SharedTypeOK, Outcome, Answers
  <2>2. TaskTypeOK'
    BY <1>5, <2>1, WaitToReconnectType DEF TypeOK, TaskTypeOK, StartJoin, TakeChannelStateCommand
  <2>3. MapTypeOK' /\ SharedTypeOK'
    BY <1>5, <2>1, WaitToReconnectType DEF TypeOK, SharedTypeOK, StartJoin, TakeChannelStateCommand, chanVars, pushVars
  <2> QED
    BY <1>3, <2>2, <2>3 DEF TypeOK
<1> QED
  BY <1>4, <1>5 DEF StartJoin

LEMMA LeaveType == ASSUME TypeOK, Leave PROVE TypeOK'
<1> DEFINE r == Head(chanStateQ)
<1>1. chanStateQ \in Seq(RequestsOf({"join", "leave"})) /\ chanStateQ # <<>> /\ r.kind = "leave"
  BY DEF TypeOK, QueueTypeOK, Leave, TakeChannelStateCommand
<1>2. r \in RequestsOf({"leave"})
  BY <1>1, QueueSteps DEF RequestsOf
<1>3. QueueTypeOK'
  BY QueueSteps DEF TypeOK, QueueTypeOK, Leave, TakeChannelStateCommand
<1>4. CASE FrameSent(r) /\ UNCHANGED <<state, backVars, castVars>> /\ joined' = [joined EXCEPT ![r.chan] = NoRequest]
          /\ outcome' = Answer(outcome, {r}, "ok")
          /\ UNCHANGED <<joins, timers, replies, heartbeat>>
  <2>1. sent' \in [Channel -> SUBSET RequestsOf(ChanKind)] /\ pc' = "select"
    BY <1>2, <1>4, FrameSentType DEF ChanKind
  <2>2. TaskTypeOK'
    BY <1>4, <2>1 DEF TypeOK, TaskTypeOK, Leave, TakeChannelStateCommand, backVars
  <2>3. MapTypeOK'
    BY <1>2, <1>4, <2>1, RequestChan DEF TypeOK, MapTypeOK
  <2>4. SharedTypeOK'
    BY <1>4, AnswerType DEF TypeOK, SharedTypeOK, Leave, TakeChannelStateCommand, castVars, chanVars, pushVars, Outcome, Answers
  <2> QED
    BY <1>3, <2>2, <2>3, <2>4 DEF TypeOK
<1>5. CASE WaitToReconnectConnected(Answer(outcome, {r}, "error"))
  <2>1. Answer(outcome, {r}, "error") \in [Request -> Outcome]
    BY AnswerType DEF TypeOK, SharedTypeOK, Outcome, Answers
  <2>2. TaskTypeOK'
    BY <1>5, <2>1, WaitToReconnectType DEF TypeOK, TaskTypeOK, Leave, TakeChannelStateCommand
  <2>3. MapTypeOK' /\ SharedTypeOK'
    BY <1>5, <2>1, WaitToReconnectType DEF TypeOK, SharedTypeOK, Leave, TakeChannelStateCommand, chanVars, pushVars
  <2> QED
    BY <1>3, <2>2, <2>3 DEF TypeOK
<1> QED
  BY <1>4, <1>5 DEF Leave

LEMMA CallType == ASSUME TypeOK, Call PROVE TypeOK'
<1> DEFINE r == Head(sendQ)
<1>1. sendQ \in Seq(RequestsOf({"call", "cast"})) /\ sendQ # <<>> /\ r.kind = "call"
  BY DEF TypeOK, QueueTypeOK, Call, TakeSendCommand
<1>2. r \in RequestsOf({"call"})
  BY <1>1, QueueSteps DEF RequestsOf
<1>3. QueueTypeOK'
  BY QueueSteps DEF TypeOK, QueueTypeOK, Call, TakeSendCommand
<1>4. CASE FrameSent(r) /\ UNCHANGED <<state, backVars, castVars>> /\ replies' = replies \cup {r}
          /\ UNCHANGED <<joins, timers, joined, heartbeat, outcome>>
  <2>1. sent' \in [Channel -> SUBSET RequestsOf(ChanKind)] /\ pc' = "select"
    BY <1>2, <1>4, FrameSentType DEF ChanKind
  <2>2. TaskTypeOK'
    BY <1>4, <2>1 DEF TypeOK, TaskTypeOK, Call, TakeSendCommand, backVars
  <2>3. MapTypeOK'
    BY <1>2, <1>4, <2>1, RequestChan DEF TypeOK, MapTypeOK
  <2>4. SharedTypeOK'
    BY <1>4, AnswerType DEF TypeOK, SharedTypeOK, Call, TakeSendCommand, castVars, chanVars, pushVars, Outcome, Answers
  <2> QED
    BY <1>3, <2>2, <2>3, <2>4 DEF TypeOK
<1>5. CASE WaitToReconnectConnected(Answer(outcome, {r}, "error"))
  <2>1. Answer(outcome, {r}, "error") \in [Request -> Outcome]
    BY AnswerType DEF TypeOK, SharedTypeOK, Outcome, Answers
  <2>2. TaskTypeOK'
    BY <1>5, <2>1, WaitToReconnectType DEF TypeOK, TaskTypeOK, Call, TakeSendCommand
  <2>3. MapTypeOK' /\ SharedTypeOK'
    BY <1>5, <2>1, WaitToReconnectType DEF TypeOK, SharedTypeOK, Call, TakeSendCommand, chanVars, pushVars
  <2> QED
    BY <1>3, <2>2, <2>3 DEF TypeOK
<1> QED
  BY <1>4, <1>5 DEF Call

LEMMA CastType == ASSUME TypeOK, Cast PROVE TypeOK'
<1> DEFINE r == Head(sendQ)
<1>1. sendQ \in Seq(RequestsOf({"call", "cast"})) /\ sendQ # <<>> /\ r.kind = "cast"
  BY DEF TypeOK, QueueTypeOK, Cast, TakeSendCommand
<1>2. r \in RequestsOf({"cast"})
  BY <1>1, QueueSteps DEF RequestsOf
<1>3. QueueTypeOK'
  BY QueueSteps DEF TypeOK, QueueTypeOK, Cast, TakeSendCommand
<1>4. CASE FrameSent(r) /\ UNCHANGED <<state, backVars, castVars>> /\ outcome' = Answer(outcome, {r}, "ok")
          /\ UNCHANGED <<joins, timers, joined, replies, heartbeat>>
  <2>1. sent' \in [Channel -> SUBSET RequestsOf(ChanKind)] /\ pc' = "select"
    BY <1>2, <1>4, FrameSentType DEF ChanKind
  <2>2. TaskTypeOK'
    BY <1>4, <2>1 DEF TypeOK, TaskTypeOK, Cast, TakeSendCommand, backVars
  <2>3. MapTypeOK'
    BY <1>2, <1>4, <2>1, RequestChan DEF TypeOK, MapTypeOK
  <2>4. SharedTypeOK'
    BY <1>4, AnswerType DEF TypeOK, SharedTypeOK, Cast, TakeSendCommand, castVars, chanVars, pushVars, Outcome, Answers
  <2> QED
    BY <1>3, <2>2, <2>3, <2>4 DEF TypeOK
<1>5. CASE WaitToReconnectConnected(Answer(outcome, {r}, "dropped"))
  <2>1. Answer(outcome, {r}, "dropped") \in [Request -> Outcome]
    BY AnswerType DEF TypeOK, SharedTypeOK, Outcome, Answers
  <2>2. TaskTypeOK'
    BY <1>5, <2>1, WaitToReconnectType DEF TypeOK, TaskTypeOK, Cast, TakeSendCommand
  <2>3. MapTypeOK' /\ SharedTypeOK'
    BY <1>5, <2>1, WaitToReconnectType DEF TypeOK, SharedTypeOK, Cast, TakeSendCommand, chanVars, pushVars
  <2> QED
    BY <1>3, <2>2, <2>3 DEF TypeOK
<1> QED
  BY <1>4, <1>5 DEF Cast

LEMMA JoinTimedOutType == ASSUME TypeOK, NEW r \in Request, JoinTimedOut(r) PROVE TypeOK'
<1>1. TaskTypeOK'
  BY DEF TypeOK, TaskTypeOK, JoinTimedOut, backVars
<1>2. QueueTypeOK'
  BY DEF TypeOK, QueueTypeOK, JoinTimedOut, queueVars
<1>3. MapTypeOK'
  BY DEF TypeOK, MapTypeOK, JoinTimedOut
<1>4. SharedTypeOK'
  BY AnswerType DEF TypeOK, SharedTypeOK, JoinTimedOut, castVars, chanVars, pushVars, Outcome, Answers
<1> QED
  BY <1>1, <1>2, <1>3, <1>4 DEF TypeOK

(* The answered frame leaves those of its channel.                         *)
LEMMA AnsweredFrameType ==
  ASSUME TypeOK, NEW c \in Channel, NEW r, sent' = [sent EXCEPT ![c] = @ \ {r}]
  PROVE  sent' \in [Channel -> SUBSET RequestsOf(ChanKind)]
BY DEF TypeOK, MapTypeOK

LEMMA ReplyType ==
  ASSUME TypeOK, NEW c \in Channel, NEW r \in Request, Reply(c, r)
  PROVE  TypeOK'
<1>1. TaskTypeOK' /\ QueueTypeOK'
  BY DEF TypeOK, TaskTypeOK, QueueTypeOK, Reply, backVars, queueVars
<1>2. sent' \in [Channel -> SUBSET RequestsOf(ChanKind)]
  BY AnsweredFrameType DEF Reply
<1>3. UNCHANGED <<timers, heartbeat, castVars, chanVars, blocked>>
  BY DEF Reply
<1>4. PICK s \in {"ok", "rejected"} : HandleReply(c, r, s)
  BY DEF Reply
<1>5. CASE FinishJoin(c, s)
  <2>1. MapTypeOK'
    BY <1>2, <1>3, <1>5 DEF TypeOK, MapTypeOK, FinishJoin
  <2>2. pushQ' \in [Channel -> Seq(PushKind)]
    BY <1>5, EmptyQueue DEF TypeOK, SharedTypeOK, FinishJoin
  <2>3. SharedTypeOK'
    BY <1>3, <1>5, <2>2, AnswerType
    DEF TypeOK, SharedTypeOK, FinishJoin, castVars, chanVars, Outcome, Answers
  <2> QED
    BY <1>1, <2>1, <2>3 DEF TypeOK
<1>6. CASE /\ replies' = replies \ {r}
           /\ outcome' = Answer(outcome, {r} \cap replies, s)
           /\ UNCHANGED <<joins, joined, pushQ>>
  <2>1. MapTypeOK'
    BY <1>2, <1>3, <1>6 DEF TypeOK, MapTypeOK
  <2>2. SharedTypeOK'
    BY <1>3, <1>6, AnswerType DEF TypeOK, SharedTypeOK, castVars, chanVars, Outcome, Answers
  <2> QED
    BY <1>1, <2>1, <2>2 DEF TypeOK
<1> QED
  BY <1>4, <1>5, <1>6 DEF HandleReply

LEMMA NoReplyType ==
  ASSUME TypeOK, NEW c \in Channel, NEW r \in Request, NoReply(c, r)
  PROVE  TypeOK'
<1>1. sent' \in [Channel -> SUBSET RequestsOf(ChanKind)]
  BY AnsweredFrameType DEF TypeOK, NoReply
<1>2. TaskTypeOK'
  BY DEF TypeOK, TaskTypeOK, NoReply, backVars
<1>3. QueueTypeOK'
  BY DEF TypeOK, QueueTypeOK, NoReply, queueVars
<1>4. MapTypeOK'
  BY <1>1 DEF TypeOK, MapTypeOK, NoReply
<1>5. SharedTypeOK'
  BY DEF TypeOK, SharedTypeOK, NoReply, castVars, chanVars, pushVars
<1> QED
  BY <1>1, <1>2, <1>3, <1>4, <1>5 DEF TypeOK

(* A push is added to a queue of pushes.                                   *)
LEMMA PushedType ==
  ASSUME TypeOK, NEW c \in Channel, NEW m \in PushKind,
         pushQ' = [pushQ EXCEPT ![c] = Append(@, m)]
  PROVE  pushQ' \in [Channel -> Seq(PushKind)]
<1>1. pushQ \in [Channel -> Seq(PushKind)]
  BY DEF TypeOK, SharedTypeOK
<1>2. Append(pushQ[c], m) \in Seq(PushKind)
  BY <1>1, QueueSteps
<1> QED
  BY <1>1, <1>2

LEMMA HandlePushType == ASSUME TypeOK, NEW c \in Channel, NEW m \in PushKind, HandlePush(c, m) PROVE TypeOK'
<1>1. pushQ' \in [Channel -> Seq(PushKind)]
  BY PushedType DEF TypeOK, SharedTypeOK, HandlePush
<1>2. blocked' \in {<<>>} \cup (Channel \X PushKind)
  BY DEF TypeOK, SharedTypeOK, HandlePush
<1>3. TaskTypeOK'
  BY DEF TypeOK, TaskTypeOK, HandlePush, backVars
<1>4. QueueTypeOK'
  BY DEF TypeOK, QueueTypeOK, HandlePush, queueVars
<1>5. MapTypeOK'
  BY DEF TypeOK, MapTypeOK, HandlePush, connVars
<1>6. SharedTypeOK'
  BY <1>1, <1>2 DEF TypeOK, SharedTypeOK, HandlePush, castVars, chanVars
<1> QED
  BY <1>1, <1>2, <1>3, <1>4, <1>5, <1>6 DEF TypeOK

LEMMA ConnectionLostType == ASSUME TypeOK, ConnectionLost PROVE TypeOK'
<1>1. outcome \in [Request -> Outcome]
  BY DEF TypeOK, SharedTypeOK
<1>2. TaskTypeOK'
  BY <1>1, WaitToReconnectType DEF TypeOK, TaskTypeOK, ConnectionLost
<1>3. QueueTypeOK'
  BY DEF TypeOK, QueueTypeOK, ConnectionLost, queueVars
<1>4. MapTypeOK'
  BY <1>1, WaitToReconnectType DEF TypeOK, MapTypeOK, ConnectionLost
<1>5. SharedTypeOK'
  BY <1>1, WaitToReconnectType DEF TypeOK, SharedTypeOK, ConnectionLost, chanVars, pushVars
<1> QED
  BY <1>1, <1>2, <1>3, <1>4, <1>5 DEF TypeOK

LEMMA WrittenType == ASSUME TypeOK, Written PROVE TypeOK'
<1>1. outcome \in [Request -> Outcome]
  BY DEF TypeOK, SharedTypeOK
<1>2. UNCHANGED <<status, serving, queueVars, chanVars, pushVars>>
  BY DEF Written
<1>3. QueueTypeOK'
  BY <1>2 DEF TypeOK, QueueTypeOK, queueVars
<1>4. CASE /\ heartbeat' = (heartbeat \/ pc = "writing_heartbeat")
           /\ pc' = "select"
           /\ UNCHANGED <<state, backVars, joins, timers, joined, replies, sent, castVars, outcome>>
  <2>1. heartbeat' \in BOOLEAN
    BY <1>4, Zenon
  <2>2. TaskTypeOK'
    BY <1>2, <1>4 DEF TypeOK, TaskTypeOK, backVars
  <2>3. MapTypeOK'
    BY <1>4, <2>1 DEF TypeOK, MapTypeOK
  <2>4. SharedTypeOK'
    BY <1>2, <1>4 DEF TypeOK, SharedTypeOK, castVars, chanVars, pushVars
  <2> QED
    BY <1>3, <2>2, <2>3, <2>4 DEF TypeOK
<1>5. CASE WaitToReconnectConnected(outcome)
  <2>1. TaskTypeOK'
    BY <1>1, <1>2, <1>5, WaitToReconnectType DEF TypeOK, TaskTypeOK
  <2>2. MapTypeOK' /\ SharedTypeOK'
    BY <1>1, <1>2, <1>5, WaitToReconnectType DEF TypeOK, SharedTypeOK, chanVars, pushVars
  <2> QED
    BY <1>3, <2>1, <2>2 DEF TypeOK
<1> QED
  BY <1>4, <1>5 DEF Written

LEMMA HeartbeatReplyType == ASSUME TypeOK, HeartbeatReply PROVE TypeOK'
<1>1. TaskTypeOK'
  BY DEF TypeOK, TaskTypeOK, HeartbeatReply, backVars
<1>2. QueueTypeOK'
  BY DEF TypeOK, QueueTypeOK, HeartbeatReply, queueVars
<1>3. MapTypeOK'
  BY DEF TypeOK, MapTypeOK, HeartbeatReply
<1>4. SharedTypeOK'
  BY DEF TypeOK, SharedTypeOK, HeartbeatReply, castVars, chanVars, pushVars
<1> QED
  BY <1>1, <1>2, <1>3, <1>4 DEF TypeOK

-----------------------------------------------------------------------------
LEMMA ReleaseType ==
  ASSUME TypeOK, NEW R
  PROVE  Release(outcome, R) \in [Request -> Outcome]
BY DEF TypeOK, SharedTypeOK, Release, Outcome, Answers

LEMMA DropReceiversType ==
  ASSUME TypeOK, NEW c \in Channel, DropReceivers(c)
  PROVE  /\ receiving' \in [Channel -> RequestsOf({"join"}) \cup {NoRequest}]
         /\ pushQ' \in [Channel -> Seq(PushKind)]
<1>1. pushQ' \in [Channel -> Seq(PushKind)]
  BY EmptyQueue DEF TypeOK, SharedTypeOK, DropReceivers
<1> QED
  BY <1>1 DEF TypeOK, SharedTypeOK, DropReceivers

(* The steps of the users and the channel tasks leave the socket's own     *)
(* variables alone.                                                        *)
LEMMA SubmitStateType == ASSUME TypeOK, NEW r \in Request, SubmitState(r) PROVE TypeOK'
<1>1. TaskTypeOK' /\ MapTypeOK'
  BY DEF TypeOK, TaskTypeOK, MapTypeOK, socketVars, backVars, connVars, SubmitState
<1>2. QueueTypeOK'
  BY QueueSteps DEF TypeOK, QueueTypeOK, SubmitState, RequestsOf
<1>3. SharedTypeOK'
  BY DEF TypeOK, SharedTypeOK, SubmitState, socketVars, castVars, chanVars, Outcome
<1> QED
  BY <1>1, <1>2, <1>3 DEF TypeOK

LEMMA SubmitJoinType == ASSUME TypeOK, NEW r \in Request, SubmitJoin(r) PROVE TypeOK'
<1>1. TaskTypeOK' /\ MapTypeOK'
  BY DEF TypeOK, TaskTypeOK, MapTypeOK, socketVars, backVars, connVars, SubmitJoin
<1>2. QueueTypeOK'
  BY QueueSteps DEF TypeOK, QueueTypeOK, SubmitJoin, RequestsOf
<1>3. outcome' \in [Request -> Outcome]
  BY ReleaseType DEF SubmitJoin, Outcome
<1>4. SharedTypeOK'
  BY <1>3 DEF TypeOK, SharedTypeOK, SubmitJoin, socketVars, castVars, chanVars
<1> QED
  BY <1>1, <1>2, <1>3, <1>4 DEF TypeOK

LEMMA SubmitLeaveType == ASSUME TypeOK, NEW r \in Request, SubmitLeave(r) PROVE TypeOK'
<1>1. TaskTypeOK' /\ MapTypeOK'
  BY DEF TypeOK, TaskTypeOK, MapTypeOK, socketVars, backVars, connVars, SubmitLeave
<1>2. QueueTypeOK'
  BY QueueSteps DEF TypeOK, QueueTypeOK, SubmitLeave, RequestsOf
<1>3. outcome' \in [Request -> Outcome]
  BY ReleaseType DEF SubmitLeave, Outcome
<1>4. r.chan \in Channel
  BY RequestAssumption DEF SubmitLeave, StateKind
<1>5. SharedTypeOK'
  BY <1>3, <1>4, DropReceiversType DEF TypeOK, SharedTypeOK, SubmitLeave, socketVars, castVars
<1> QED
  BY <1>1, <1>2, <1>3, <1>4, <1>5 DEF TypeOK

LEMMA SubmitSendType == ASSUME TypeOK, NEW r \in Request, SubmitSend(r) PROVE TypeOK'
<1>1. TaskTypeOK' /\ MapTypeOK'
  BY DEF TypeOK, TaskTypeOK, MapTypeOK, socketVars, backVars, connVars, SubmitSend
<1>2. QueueTypeOK'
  BY QueueSteps DEF TypeOK, QueueTypeOK, SubmitSend, RequestsOf
<1>3. SharedTypeOK'
  BY DEF TypeOK, SharedTypeOK, SubmitSend, socketVars, castVars, chanVars, Outcome
<1> QED
  BY <1>1, <1>2, <1>3 DEF TypeOK

LEMMA TakeAnswerType == ASSUME TypeOK, NEW r \in Request, TakeAnswer(r) PROVE TypeOK'
<1>1. TaskTypeOK' /\ MapTypeOK'
  BY DEF TypeOK, TaskTypeOK, MapTypeOK, socketVars, backVars, connVars, TakeAnswer
<1>2. QueueTypeOK'
  BY DEF TypeOK, QueueTypeOK, TakeAnswer, queueVars
<1>3. SharedTypeOK'
  BY DEF TypeOK, SharedTypeOK, TakeAnswer, socketVars, castVars, RequestsOf, Outcome
<1> QED
  BY <1>1, <1>2, <1>3 DEF TypeOK

LEMMA GiveUpType == ASSUME TypeOK, NEW r \in Request, GiveUp(r) PROVE TypeOK'
<1>1. TaskTypeOK' /\ MapTypeOK'
  BY DEF TypeOK, TaskTypeOK, MapTypeOK, socketVars, backVars, connVars, GiveUp
<1>2. QueueTypeOK'
  BY DEF TypeOK, QueueTypeOK, GiveUp, queueVars
<1>3. SharedTypeOK'
  BY DEF TypeOK, SharedTypeOK, GiveUp, socketVars, castVars, chanVars, Outcome
<1> QED
  BY <1>1, <1>2, <1>3 DEF TypeOK

LEMMA RequestChannelType == ASSUME TypeOK, NEW c \in Channel, RequestChannel(c) PROVE TypeOK'
<1>1. TaskTypeOK' /\ MapTypeOK'
  BY DEF TypeOK, TaskTypeOK, MapTypeOK, socketVars, backVars, connVars, RequestChannel
<1>2. QueueTypeOK'
  BY QueueSteps DEF TypeOK, QueueTypeOK, RequestChannel
<1>3. SharedTypeOK'
  BY DEF TypeOK, SharedTypeOK, RequestChannel, socketVars, castVars, Phase, Unspawned
<1> QED
  BY <1>1, <1>2, <1>3 DEF TypeOK

LEMMA ForgoType == ASSUME TypeOK, NEW c \in Channel, Forgo(c) PROVE TypeOK'
<1>1. TaskTypeOK' /\ MapTypeOK'
  BY DEF TypeOK, TaskTypeOK, MapTypeOK, socketVars, backVars, connVars, Forgo
<1>2. QueueTypeOK'
  BY DEF TypeOK, QueueTypeOK, Forgo, queueVars
<1>3. phase' \in [Channel -> Phase]
  BY DEF TypeOK, SharedTypeOK, Forgo, Phase, Ended
<1>4. SharedTypeOK'
  BY <1>3, ReleaseType, DropReceiversType DEF TypeOK, SharedTypeOK, Forgo, socketVars, castVars
<1> QED
  BY <1>1, <1>2, <1>4 DEF TypeOK

LEMMA ReceivePushType == ASSUME TypeOK, NEW c \in Channel, ReceivePush(c) PROVE TypeOK'
<1>1. TaskTypeOK' /\ MapTypeOK'
  BY DEF TypeOK, TaskTypeOK, MapTypeOK, socketVars, backVars, connVars, ReceivePush
<1>2. QueueTypeOK'
  BY DEF TypeOK, QueueTypeOK, ReceivePush, queueVars
<1>3. Tail(pushQ[c]) \in Seq(PushKind)
  BY QueueSteps DEF TypeOK, SharedTypeOK, ReceivePush
<1>4. SharedTypeOK'
  BY <1>3 DEF TypeOK, SharedTypeOK, ReceivePush, socketVars, castVars, chanVars
<1> QED
  BY <1>1, <1>2, <1>3, <1>4 DEF TypeOK

LEMMA ReadConnectivityType == ASSUME TypeOK, NEW c \in Channel, ReadConnectivity(c) PROVE TypeOK'
<1>1. TaskTypeOK' /\ MapTypeOK'
  BY DEF TypeOK, TaskTypeOK, MapTypeOK, socketVars, backVars, connVars, ReadConnectivity
<1>2. QueueTypeOK'
  BY DEF TypeOK, QueueTypeOK, ReadConnectivity, queueVars
<1>3. outcome' \in [Request -> Outcome]
  BY ReleaseType DEF TypeOK, SharedTypeOK, ReadConnectivity
<1>4. /\ receiving' \in [Channel -> RequestsOf({"join"}) \cup {NoRequest}]
      /\ pushQ' \in [Channel -> Seq(PushKind)]
  BY DropReceiversType DEF TypeOK, SharedTypeOK, ReadConnectivity
<1>5. unread' \in [Channel -> 0..2]
  BY DEF TypeOK, SharedTypeOK, ReadConnectivity
<1>6. UNCHANGED <<connectivity, phase, blocked>>
  BY DEF ReadConnectivity, socketVars
<1> QED
  BY <1>1, <1>2, <1>3, <1>4, <1>5, <1>6 DEF TypeOK, SharedTypeOK

-----------------------------------------------------------------------------
(***************************************************************************)
(* Type correctness needs to know what a blocked handler waits for.        *)
(***************************************************************************)
BlockedWhilePushing == pc = "pushing" => blocked # <<>>

LEMMA PushUnblockedType ==
  ASSUME TypeOK, BlockedWhilePushing, PushUnblocked
  PROVE  TypeOK'
<1>1. blocked[1] \in Channel /\ blocked[2] \in PushKind
  BY DEF TypeOK, SharedTypeOK, BlockedWhilePushing, PushUnblocked
<1>2. pushQ' \in [Channel -> Seq(PushKind)]
  <2>1. pushQ \in [Channel -> Seq(PushKind)]
    BY DEF TypeOK, SharedTypeOK
  <2>2. Append(pushQ[blocked[1]], blocked[2]) \in Seq(PushKind)
    BY <1>1, <2>1, QueueSteps
  <2> QED
    BY <2>1, <2>2 DEF PushUnblocked
<1>3. TaskTypeOK' /\ QueueTypeOK' /\ MapTypeOK'
  BY DEF TypeOK, TaskTypeOK, QueueTypeOK, MapTypeOK, PushUnblocked, backVars, queueVars, connVars
<1>4. SharedTypeOK'
  BY <1>2 DEF TypeOK, SharedTypeOK, PushUnblocked, castVars, chanVars
<1> QED
  BY <1>3, <1>4 DEF TypeOK

LEMMA BlockedStep ==
  ASSUME BlockedWhilePushing, [Next]_vars
  PROVE  BlockedWhilePushing'
<1>1. CASE Listener
  BY <1>1 DEF BlockedWhilePushing, Listener, Connect, Disconnect, Shutdown, TakeStateCommand,
    Reconnect, SocketConnectOk, SocketConnectError, Publish, Exit, Dropped, ShutDown, DropEverything,
    SpawnChannel, StartJoin, Leave, TakeChannelStateCommand, Call, Cast, TakeSendCommand,
    WaitToReconnectConnected, JoinTimedOut, PushUnblocked, Written, FrameSent, pushVars,
    Online, Polling, AtSelect, Close, WriteState, WriteSend, Heartbeat, Pong, AnswerClose, Await, Resumed
<1>2. CASE Network
  <2>1. ASSUME NEW c \in Channel, NEW r \in Request, Reply(c, r) \/ NoReply(c, r)
        PROVE  UNCHANGED <<pc, blocked>>
    BY <2>1 DEF Reply, NoReply, pushVars
  <2>2. ASSUME NEW c \in Channel, NEW m \in PushKind, HandlePush(c, m)
        PROVE  BlockedWhilePushing'
    <3>1. \/ pc' = pc /\ blocked' = blocked
          \/ blocked' = <<c, m>>
      BY <2>2 DEF HandlePush
    <3>2. <<c, m>> # <<>>
      OBVIOUS
    <3> QED
      BY <3>1, <3>2 DEF BlockedWhilePushing
  <2>3. CASE ConnectionLost \/ FatalSocketError
    BY <2>3 DEF BlockedWhilePushing, ConnectionLost, FatalSocketError, WaitToReconnectConnected,
      DropEverything
  <2>4. CASE HeartbeatReply
    BY <2>4 DEF BlockedWhilePushing, HeartbeatReply, pushVars
  <2> QED
    BY <1>2, <2>1, <2>2, <2>3, <2>4 DEF BlockedWhilePushing, Network
<1>3. CASE Clients
  BY <1>3 DEF BlockedWhilePushing, Clients, SubmitState, SubmitJoin, SubmitLeave, SubmitSend,
    TakeAnswer, GiveUp, RequestChannel, Forgo, ReceivePush, ReadConnectivity, socketVars
<1>4. CASE UNCHANGED vars
  BY <1>4 DEF BlockedWhilePushing, vars, pushVars
<1> QED
  BY <1>1, <1>2, <1>3, <1>4 DEF Next

LEMMA TypeStep ==
  ASSUME TypeOK, BlockedWhilePushing, [Next]_vars
  PROVE  TypeOK'
<1>1. CASE Listener
  BY <1>1, ConnectType, DisconnectType, ShutdownType, ReconnectType, SocketConnectOkType,
     SocketConnectErrorType, PublishType, ExitType, SpawnChannelType, StartJoinType,
     LeaveType, CallType, CastType, JoinTimedOutType, PushUnblockedType, WaitsType, WrittenType
  DEF Listener, Waits
<1>2. CASE Network
  BY <1>2, ReplyType, NoReplyType, HandlePushType, ConnectionLostType, FatalSocketErrorType,
     HeartbeatReplyType
  DEF Network
<1>3. CASE Clients
  BY <1>3, SubmitStateType, SubmitJoinType, SubmitLeaveType, SubmitSendType, TakeAnswerType,
     GiveUpType, RequestChannelType, ForgoType, ReceivePushType, ReadConnectivityType
  DEF Clients
<1>4. CASE UNCHANGED vars
  BY <1>4 DEF TypeOK, TaskTypeOK, QueueTypeOK, MapTypeOK, SharedTypeOK, vars, connVars,
    queueVars, backVars, chanVars, pushVars, castVars
<1> QED
  BY <1>1, <1>2, <1>3, <1>4 DEF Next

(* Every variable of the socket task keeps its type, for every instance:   *)
(* the queues hold commands of their kind, the maps joins and calls.       *)
THEOREM TypeCorrect == Spec => []TypeOK
<1>1. Init => TypeOK /\ BlockedWhilePushing
  BY InitType DEF Init, BlockedWhilePushing
<1>2. TypeOK /\ BlockedWhilePushing /\ [Next]_vars => (TypeOK /\ BlockedWhilePushing)'
  BY TypeStep, BlockedStep
<1> QED
  BY <1>1, <1>2, PTL DEF Spec

-----------------------------------------------------------------------------
(***************************************************************************)
(* Registrations die with their connection, and oneshots are kept.         *)
(***************************************************************************)
(* A connect command is served while connecting, which no connection is.   *)
ServingWhileConnecting ==
  /\ pc # "connecting" => serving = NoRequest
  /\ pc = "connecting" => state # "Connected"

LEMMA ScopedStep ==
  ASSUME RegistrationsScoped, ServingWhileConnecting, [Next]_vars
  PROVE  RegistrationsScoped' /\ ServingWhileConnecting'
<1> USE DEF RegistrationsScoped, ServingWhileConnecting
<1>1. CASE Connect \/ Disconnect \/ Shutdown
  BY <1>1 DEF Connect, Disconnect, Shutdown, TakeStateCommand, SendDisconnected, EmptyMaps,
    connVars, backVars, Polling, AtSelect, PollingState, Resumed
<1>2. CASE Reconnect \/ SocketConnectOk \/ SocketConnectError \/ Publish \/ Exit \/ Dropped
  BY <1>2 DEF Reconnect, SocketConnectOk, SocketConnectError, Publish, Exit, Dropped, ShutDown, DropEverything,
    EmptyMaps, connVars, AtSelect
<1>3. CASE SpawnChannel \/ StartJoin \/ Leave \/ Call \/ Cast \/ Written
  BY <1>3 DEF SpawnChannel, StartJoin, Leave, TakeChannelStateCommand, Call, Cast,
    TakeSendCommand, Written, WaitToReconnectConnected, SendDisconnected, EmptyMaps,
    connVars, Polling, AtSelect, Resumed, FrameSent
<1>4. CASE \E r \in Request : JoinTimedOut(r)
  BY <1>4 DEF JoinTimedOut, Online, AtSelect
<1>5. CASE PushUnblocked
  BY <1>5 DEF PushUnblocked, connVars
<1>6. CASE Network
  BY <1>6 DEF Network, Reply, NoReply, HandlePush, ConnectionLost, FatalSocketError,
    HeartbeatReply, WaitToReconnectConnected, SendDisconnected, DropEverything, EmptyMaps,
    connVars, Online, AtSelect, Resumed
<1>7. CASE Clients
  BY <1>7 DEF Clients, SubmitState, SubmitJoin, SubmitLeave, SubmitSend, TakeAnswer, GiveUp,
    RequestChannel, Forgo, ReceivePush, ReadConnectivity, socketVars, connVars
<1>8. CASE UNCHANGED vars
  BY <1>8 DEF vars, connVars
<1>9. CASE Waits
  BY <1>9, WaitsKeep DEF Writing
<1> QED
  BY <1>1, <1>2, <1>3, <1>4, <1>5, <1>6, <1>7, <1>8, <1>9 DEF Next, Listener, Waits

(* No join, join timer, joined channel or reply outlives the connection it *)
(* was registered on, whatever ends that connection.                       *)
THEOREM RegistrationsDieWithConnection == Spec => []RegistrationsScoped
<1>1. Init => RegistrationsScoped /\ ServingWhileConnecting
  BY DEF Init, RegistrationsScoped, ServingWhileConnecting
<1>2. RegistrationsScoped /\ ServingWhileConnecting /\ [Next]_vars
        => (RegistrationsScoped /\ ServingWhileConnecting)'
  BY ScopedStep
<1> QED
  BY <1>1, <1>2, PTL DEF Spec

-----------------------------------------------------------------------------
(***************************************************************************)
(* Dropped oneshots.                                                       *)
(***************************************************************************)
LEMMA DroppedStep ==
  ASSUME TypeOK, DroppedOnlyAtExit, [Next]_vars
  PROVE  DroppedOnlyAtExit'
<1> USE DEF DroppedOnlyAtExit, RequestsOf, Answer, StateKind
<1>0. /\ outcome \in [Request -> Outcome]
      /\ \A c \in Channel : joins[c] # NoRequest => joins[c].kind = "join"
  BY DEF TypeOK, SharedTypeOK, MapTypeOK
<1>1. CASE Connect \/ Disconnect \/ Shutdown
  BY <1>1, <1>0 DEF Connect, Disconnect, Shutdown, TakeStateCommand, SendDisconnected,
    Polling, AtSelect, Resumed
<1>2. CASE Reconnect \/ SocketConnectOk \/ SocketConnectError \/ Publish \/ Exit \/ Dropped
  BY <1>2, <1>0 DEF Reconnect, SocketConnectOk, SocketConnectError, Publish, Exit,
    Dropped, ShutDown, DropEverything, ConnectErrors, AtSelect
<1>3. CASE StartJoin
  <2> DEFINE r == Head(chanStateQ)
  <2>1. r \in RequestsOf({"join"}) /\ r.chan \in Channel
    <3>1. chanStateQ \in Seq(RequestsOf({"join", "leave"})) /\ chanStateQ # <<>> /\ r.kind = "join"
      BY <1>3 DEF TypeOK, QueueTypeOK, StartJoin, TakeChannelStateCommand
    <3>2. r \in RequestsOf({"join"})
      BY <3>1, QueueSteps
    <3> QED
      BY <3>2, RequestChan DEF ChanKind
  <2>2. joins[r.chan] \in RequestsOf({"join"}) \cup {NoRequest} /\ NoRequest \notin Request
    BY <2>1, RequestAssumption DEF TypeOK, MapTypeOK
  <2>3. \A q \in RequestsOf(StateKind \cup {"leave", "call"}) : q # r /\ q # joins[r.chan]
    BY <1>0, <2>1, <2>2
  <2> QED
    BY <1>3, <1>0, <2>3 DEF StartJoin, TakeChannelStateCommand,
      WaitToReconnectConnected, SendDisconnected, Resumed
<1>4. CASE SpawnChannel \/ Leave \/ Call \/ Cast \/ Written
  BY <1>4, <1>0 DEF SpawnChannel, Leave, TakeChannelStateCommand, Call, Cast,
    TakeSendCommand, Written, WaitToReconnectConnected, SendDisconnected, Polling, AtSelect, Resumed
<1>5. CASE \E r \in Request : JoinTimedOut(r)
  BY <1>5, <1>0 DEF JoinTimedOut, Online, AtSelect
<1>6. CASE PushUnblocked
  BY <1>6, <1>0 DEF PushUnblocked
<1>7. CASE \E c \in Channel, r \in Request : Reply(c, r)
  BY <1>7, <1>0 DEF Reply, HandleReply, FinishJoin, Online, AtSelect
<1>8. CASE Network /\ ~\E c \in Channel, r \in Request : Reply(c, r)
  BY <1>8, <1>0 DEF Network, NoReply, HandlePush, ConnectionLost, FatalSocketError,
    HeartbeatReply, WaitToReconnectConnected, SendDisconnected, DropEverything, Online, AtSelect,
    Resumed
<1>9. CASE Clients
  BY <1>9, <1>0 DEF Clients, SubmitState, SubmitJoin, SubmitLeave, SubmitSend, TakeAnswer, GiveUp,
    RequestChannel, Forgo, ReceivePush, ReadConnectivity, socketVars, Answers, Release
<1>10. CASE UNCHANGED vars
  BY <1>10 DEF vars
<1>11. CASE Waits
  BY <1>11, WaitsKeep
<1> QED
  BY <1>1, <1>2, <1>3, <1>4, <1>5, <1>6, <1>7, <1>8, <1>9, <1>10, <1>11 DEF Next, Listener, Waits

(* While the task runs it drops no oneshot of connect, disconnect,         *)
(* shutdown, leave or call: a caller that sees one dropped may wait for    *)
(* the end of the task, as Socket and the channel tasks do.                *)
THEOREM CallersDroppedOnlyAtExit == Spec => []DroppedOnlyAtExit
<1>1. Init => DroppedOnlyAtExit
  BY DEF Init, DroppedOnlyAtExit, RequestsOf
<1>2. TypeOK /\ DroppedOnlyAtExit /\ [Next]_vars => DroppedOnlyAtExit'
  BY DroppedStep
<1> QED
  BY <1>1, <1>2, TypeCorrect, PTL DEF Spec

-----------------------------------------------------------------------------
(***************************************************************************)
(* The sender of a oneshot that somebody waits on is somewhere in the      *)
(* task's hands, so that what a step takes out of them it answers or drops.*)
(***************************************************************************)
NoWaiterLost == \A r \in Request : outcome[r] = "pending" => r \in Held

(* What a step that answers the requests of A must keep.                   *)
LEMMA WaitersKept ==
  ASSUME NoWaiterLost, NEW A,
         \A r \in Request : outcome'[r] = "pending" => outcome[r] = "pending" /\ r \notin A,
         Held \cap Request \subseteq A \cup Held'
  PROVE  NoWaiterLost'
BY DEF NoWaiterLost

(* The end of a connection answers every join and call it has.             *)
LEMMA DisconnectedAnswers ==
  ASSUME NEW out, NEW v, NEW A, SendDisconnected(out, v),
         \A r \in Request : out[r] = "pending" => outcome[r] = "pending" /\ r \notin A
  PROVE  \A r \in Request : outcome'[r] = "pending" =>
           outcome[r] = "pending" /\ r \notin A \cup PendingJoins \cup replies
BY DEF SendDisconnected, Answer

LEMMA StateCommandKeeps ==
  ASSUME TypeOK, RegistrationsScoped, ServingWhileConnecting, NoWaiterLost,
         Connect \/ Disconnect \/ Shutdown
  PROVE  NoWaiterLost'
<1> DEFINE h == Head(stateQ)
<1>1. /\ stateQ \in Seq(RequestsOf(StateKind)) /\ stateQ # <<>> /\ stateQ' = Tail(stateQ)
      /\ UNCHANGED <<chanStateQ, sendQ>> /\ pc # "connecting"
  BY DEF TypeOK, QueueTypeOK, Connect, Disconnect, Shutdown, TakeStateCommand, Polling, AtSelect,
    Resumed
<1>2. QueuedRequests \subseteq QueuedRequests' \cup {h}
  BY <1>1, QueueElements DEF QueuedRequests
<1>3. \A r \in Request : \A o \in {"ok", "waiting"} :
        Answer(outcome, {h}, o)[r] = "pending" => outcome[r] = "pending" /\ r \notin {h}
  BY DEF Answer
<1>4. CASE UNCHANGED connVars /\ serving' = h /\ UNCHANGED outcome
  <2>1. Held \cap Request \subseteq Held'
    BY <1>1, <1>2, <1>4, RequestAssumption
    DEF Held, PendingJoins, connVars, ServingWhileConnecting
  <2> QED
    BY <1>4, <2>1 DEF NoWaiterLost
<1>5. CASE /\ UNCHANGED <<connVars, serving>>
           /\ \E o \in {"ok", "waiting"} : outcome' = Answer(outcome, {h}, o)
  <2>1. Held \subseteq {h} \cup Held'
    BY <1>2, <1>5 DEF Held, PendingJoins, connVars
  <2> QED
    BY <1>3, <1>5, <2>1, WaitersKept
<1>6. CASE /\ UNCHANGED serving
           /\ \E v \in {"Disconnect", "Shutdown"} : SendDisconnected(Answer(outcome, {h}, "ok"), v)
  <2>1. Held \subseteq ({h} \cup PendingJoins \cup replies) \cup Held'
    BY <1>2, <1>6 DEF Held
  <2>2. \A r \in Request : outcome'[r] = "pending" =>
           outcome[r] = "pending" /\ r \notin {h} \cup PendingJoins \cup replies
    BY <1>3, <1>6, DisconnectedAnswers
  <2> QED
    BY <2>1, <2>2, WaitersKept
<1> QED
  BY <1>4, <1>5, <1>6 DEF Connect, Disconnect, Shutdown

LEMMA ConnectionKeeps ==
  ASSUME TypeOK, RegistrationsScoped, ServingWhileConnecting, NoWaiterLost,
         Reconnect \/ SocketConnectOk \/ SocketConnectError \/ Publish
  PROVE  NoWaiterLost'
<1>1. UNCHANGED queueVars
  BY DEF Reconnect, SocketConnectOk, SocketConnectError, Publish
<1>2. QueuedRequests' = QueuedRequests
  BY <1>1 DEF queueVars, QueuedRequests
<1>3. CASE Reconnect \/ Publish
  <2>1. UNCHANGED <<outcome, connVars, serving>>
    BY <1>3 DEF Reconnect, Publish
  <2>2. Held' = Held
    BY <1>2, <2>1 DEF Held, PendingJoins, connVars
  <2> QED
    BY <2>1, <2>2 DEF NoWaiterLost
<1>4. CASE SocketConnectOk \/ SocketConnectError
  <2>1. \A r \in Request : outcome'[r] = "pending" => outcome[r] = "pending" /\ r \notin {serving}
    BY <1>4 DEF SocketConnectOk, SocketConnectError, ConnectErrors, Answer
  <2>2. PendingJoins = {} /\ replies = {}
    BY <1>4 DEF SocketConnectOk, SocketConnectError, ServingWhileConnecting, RegistrationsScoped,
      PendingJoins
  <2>3. Held \subseteq {serving} \cup Held'
    BY <1>2, <2>2 DEF Held
  <2> QED
    BY <2>1, <2>3, WaitersKept
<1> QED
  BY <1>3, <1>4

LEMMA DropEverythingKeeps ==
  ASSUME NoWaiterLost, DropEverything
  PROVE  NoWaiterLost'
BY DEF NoWaiterLost, DropEverything, Answer

(* The oneshot of a command taken from a queue moves to a map or is        *)
(* answered; a join that is displaced is dropped.                          *)
LEMMA ChannelCommandKeeps ==
  ASSUME TypeOK, NoWaiterLost, StartJoin \/ Leave
  PROVE  NoWaiterLost'
<1> DEFINE h == Head(chanStateQ)
<1>1. /\ chanStateQ \in Seq(RequestsOf({"join", "leave"})) /\ chanStateQ # <<>>
      /\ chanStateQ' = Tail(chanStateQ) /\ UNCHANGED <<stateQ, sendQ, serving>>
  BY DEF TypeOK, QueueTypeOK, StartJoin, Leave, TakeChannelStateCommand
<1>2. QueuedRequests \subseteq QueuedRequests' \cup {h}
  BY <1>1, QueueElements DEF QueuedRequests
<1>3. CASE /\ joins' = [joins EXCEPT ![h.chan] = h] /\ UNCHANGED replies
           /\ outcome' = Answer(outcome, {joins[h.chan]}, "dropped")
  <2>1. h.chan \in Channel
    <3>1. h \in RequestsOf({"join", "leave"})
      BY <1>1, QueueSteps
    <3> QED
      BY <3>1, RequestAssumption DEF RequestsOf, StateKind
  <2>2. \A c \in Channel : joins'[c] = IF c = h.chan THEN h ELSE joins[c]
    BY <1>3 DEF TypeOK, MapTypeOK
  <2>3. PendingJoins \subseteq {joins[h.chan]} \cup PendingJoins'
    BY <2>1, <2>2 DEF PendingJoins
  <2>4. h \in PendingJoins' \cup {NoRequest}
    BY <2>1, <2>2 DEF PendingJoins
  <2>5. Held \cap Request \subseteq {joins[h.chan]} \cup Held'
    BY <1>1, <1>2, <1>3, <2>3, <2>4, RequestAssumption DEF Held
  <2>6. \A r \in Request : outcome'[r] = "pending" =>
          outcome[r] = "pending" /\ r \notin {joins[h.chan]}
    BY <1>3 DEF Answer
  <2> QED
    BY <2>5, <2>6, WaitersKept
<1>4. CASE /\ UNCHANGED <<joins, replies>>
           /\ outcome' = Answer(outcome, {h}, "ok")
  <2>1. Held \subseteq {h} \cup Held'
    BY <1>1, <1>2, <1>4 DEF Held, PendingJoins
  <2>2. \A r \in Request : outcome'[r] = "pending" => outcome[r] = "pending" /\ r \notin {h}
    BY <1>4 DEF Answer
  <2> QED
    BY <2>1, <2>2, WaitersKept
<1>5. CASE \E o \in {"dropped", "error"} : WaitToReconnectConnected(Answer(outcome, {h}, o))
  <2>1. PICK o \in {"dropped", "error"} : SendDisconnected(Answer(outcome, {h}, o), "Reconnect")
    BY <1>5 DEF WaitToReconnectConnected
  <2>2. \A r \in Request : Answer(outcome, {h}, o)[r] = "pending" =>
          outcome[r] = "pending" /\ r \notin {h}
    BY <2>1 DEF Answer
  <2>3. \A r \in Request : outcome'[r] = "pending" =>
           outcome[r] = "pending" /\ r \notin {h} \cup PendingJoins \cup replies
    BY <2>1, <2>2, DisconnectedAnswers
  <2>4. Held \subseteq ({h} \cup PendingJoins \cup replies) \cup Held'
    BY <1>1, <1>2 DEF Held
  <2> QED
    BY <2>3, <2>4, WaitersKept
<1> QED
  BY <1>3, <1>4, <1>5 DEF StartJoin, Leave, connVars

LEMMA SendCommandKeeps ==
  ASSUME TypeOK, NoWaiterLost, Call \/ Cast
  PROVE  NoWaiterLost'
<1> DEFINE h == Head(sendQ)
<1>1. /\ sendQ \in Seq(RequestsOf({"call", "cast"})) /\ sendQ # <<>>
      /\ sendQ' = Tail(sendQ) /\ UNCHANGED <<stateQ, chanStateQ, serving>>
  BY DEF TypeOK, QueueTypeOK, Call, Cast, TakeSendCommand
<1>2. QueuedRequests \subseteq QueuedRequests' \cup {h}
  BY <1>1, QueueElements DEF QueuedRequests
<1>3. CASE replies' = replies \cup {h} /\ UNCHANGED <<joins, outcome>>
  <2>1. Held \subseteq Held'
    BY <1>1, <1>2, <1>3 DEF Held, PendingJoins
  <2> QED
    BY <1>3, <2>1 DEF NoWaiterLost
<1>4. CASE UNCHANGED <<joins, replies>> /\ outcome' = Answer(outcome, {h}, "ok")
  <2>1. Held \subseteq {h} \cup Held'
    BY <1>1, <1>2, <1>4 DEF Held, PendingJoins
  <2>2. \A r \in Request : outcome'[r] = "pending" => outcome[r] = "pending" /\ r \notin {h}
    BY <1>4 DEF Answer
  <2> QED
    BY <2>1, <2>2, WaitersKept
<1>5. CASE \E o \in {"dropped", "error"} : WaitToReconnectConnected(Answer(outcome, {h}, o))
  <2>1. PICK o \in {"dropped", "error"} : SendDisconnected(Answer(outcome, {h}, o), "Reconnect")
    BY <1>5 DEF WaitToReconnectConnected
  <2>2. \A r \in Request : Answer(outcome, {h}, o)[r] = "pending" =>
          outcome[r] = "pending" /\ r \notin {h}
    BY <2>1 DEF Answer
  <2>3. \A r \in Request : outcome'[r] = "pending" =>
           outcome[r] = "pending" /\ r \notin {h} \cup PendingJoins \cup replies
    BY <2>1, <2>2, DisconnectedAnswers
  <2>4. Held \subseteq ({h} \cup PendingJoins \cup replies) \cup Held'
    BY <1>1, <1>2 DEF Held
  <2> QED
    BY <2>3, <2>4, WaitersKept
<1> QED
  BY <1>3, <1>4, <1>5 DEF Call, Cast, connVars

LEMMA JoinTimedOutKeeps ==
  ASSUME TypeOK, NoWaiterLost, NEW t \in Request, JoinTimedOut(t)
  PROVE  NoWaiterLost'
<1>1. /\ UNCHANGED <<queueVars, serving, replies>>
      /\ outcome' = Answer(outcome, {joins[t.chan]}, "timeout")
      /\ joins' = [joins EXCEPT ![t.chan] = NoRequest]
  BY DEF JoinTimedOut
<1>2. PendingJoins \subseteq {joins[t.chan]} \cup PendingJoins'
  BY <1>1 DEF TypeOK, MapTypeOK, PendingJoins
<1>3. Held \subseteq {joins[t.chan]} \cup Held'
  BY <1>1, <1>2 DEF Held, QueuedRequests, queueVars
<1>4. \A r \in Request : outcome'[r] = "pending" =>
        outcome[r] = "pending" /\ r \notin {joins[t.chan]}
  BY <1>1 DEF Answer
<1> QED
  BY <1>3, <1>4, WaitersKept

LEMMA ReplyKeeps ==
  ASSUME TypeOK, NoWaiterLost, NEW c \in Channel, NEW f \in Request, Reply(c, f)
  PROVE  NoWaiterLost'
<1>1. UNCHANGED <<queueVars, serving>>
  BY DEF Reply
<1>2. QueuedRequests' = QueuedRequests
  BY <1>1 DEF QueuedRequests, queueVars
<1>3. PICK s \in {"ok", "rejected"} : HandleReply(c, f, s)
  BY DEF Reply
<1>4. CASE FinishJoin(c, s)
  <2>1. PendingJoins \subseteq {joins[c]} \cup PendingJoins'
    BY <1>4 DEF TypeOK, MapTypeOK, PendingJoins, FinishJoin
  <2>2. Held \subseteq {joins[c]} \cup Held'
    BY <1>1, <1>2, <1>4, <2>1 DEF Held, FinishJoin
  <2>3. \A r \in Request : outcome'[r] = "pending" =>
          outcome[r] = "pending" /\ r \notin {joins[c]}
    BY <1>4 DEF FinishJoin, Answer
  <2> QED
    BY <2>2, <2>3, WaitersKept
<1>5. CASE /\ replies' = replies \ {f} /\ UNCHANGED joins
           /\ outcome' = Answer(outcome, {f} \cap replies, s)
  <2>1. Held \subseteq ({f} \cap replies) \cup Held'
    BY <1>1, <1>2, <1>5 DEF Held, PendingJoins
  <2>2. \A r \in Request : outcome'[r] = "pending" =>
          outcome[r] = "pending" /\ r \notin {f} \cap replies
    BY <1>5 DEF Answer
  <2> QED
    BY <2>1, <2>2, WaitersKept
<1> QED
  BY <1>3, <1>4, <1>5 DEF HandleReply

(* A connection lost while no command is being handled.                    *)
LEMMA ConnectionLostKeeps ==
  ASSUME NoWaiterLost, WaitToReconnectConnected(outcome), UNCHANGED <<queueVars, serving>>
  PROVE  NoWaiterLost'
<1>1. SendDisconnected(outcome, "Reconnect")
  BY DEF WaitToReconnectConnected
<1>2. \A r \in Request : outcome'[r] = "pending" =>
        outcome[r] = "pending" /\ r \notin PendingJoins \cup replies
  BY <1>1 DEF SendDisconnected, Answer
<1>3. Held \subseteq (PendingJoins \cup replies) \cup Held'
  BY DEF Held, QueuedRequests, queueVars
<1> QED
  BY <1>2, <1>3, WaitersKept

(* Steps that hold what was held and put nothing new on hold.              *)
LEMMA QuietKeeps ==
  ASSUME NoWaiterLost, UNCHANGED <<stateQ, chanStateQ, sendQ, serving, joins, replies>>,
         \A r \in Request : outcome'[r] = "pending" => outcome[r] = "pending"
  PROVE  NoWaiterLost'
BY DEF NoWaiterLost, Held, QueuedRequests, PendingJoins

(* A request is pending from when it is in a queue.                        *)
LEMMA SubmitKeeps ==
  ASSUME TypeOK, NoWaiterLost, NEW r \in Request,
         SubmitState(r) \/ SubmitJoin(r) \/ SubmitLeave(r) \/ SubmitSend(r)
  PROVE  NoWaiterLost'
<1>1. \A q \in Request : outcome'[q] = "pending" => outcome[q] = "pending" \/ q = r
  BY DEF SubmitState, SubmitJoin, SubmitLeave, SubmitSend, TypeOK, SharedTypeOK, Release
<1>2. UNCHANGED <<serving, joins, replies>>
  BY DEF SubmitState, SubmitJoin, SubmitLeave, SubmitSend, socketVars, connVars
<1>3. QueuedRequests \cup {r} \subseteq QueuedRequests'
  <2>1. CASE SubmitState(r)
    <3>1. stateQ \in Seq(RequestsOf(StateKind)) /\ r \in RequestsOf(StateKind)
      BY <2>1 DEF SubmitState, TypeOK, QueueTypeOK, RequestsOf
    <3>2. Range(stateQ') = Range(stateQ) \cup {r}
      BY <2>1, <3>1, QueueElements DEF SubmitState
    <3> QED
      BY <2>1, <3>2 DEF SubmitState, QueuedRequests
  <2>2. CASE SubmitJoin(r) \/ SubmitLeave(r)
    <3>1. chanStateQ \in Seq(RequestsOf({"join", "leave"})) /\ r \in RequestsOf({"join", "leave"})
      BY <2>2 DEF SubmitJoin, SubmitLeave, TypeOK, QueueTypeOK, RequestsOf
    <3>2. chanStateQ' = Append(chanStateQ, r)
      BY <2>2 DEF SubmitJoin, SubmitLeave
    <3>3. Range(Append(chanStateQ, r)) = Range(chanStateQ) \cup {r}
      BY <3>1, QueueElements
    <3> QED
      BY <2>2, <3>2, <3>3 DEF SubmitJoin, SubmitLeave, QueuedRequests
  <2>3. CASE SubmitSend(r)
    <3>1. sendQ \in Seq(RequestsOf({"call", "cast"})) /\ r \in RequestsOf({"call", "cast"})
      BY <2>3 DEF SubmitSend, TypeOK, QueueTypeOK, RequestsOf
    <3>2. Range(sendQ') = Range(sendQ) \cup {r}
      BY <2>3, <3>1, QueueElements DEF SubmitSend
    <3> QED
      BY <2>3, <3>2 DEF SubmitSend, QueuedRequests
  <2> QED
    BY <2>1, <2>2, <2>3
<1> QED
  BY <1>1, <1>2, <1>3 DEF NoWaiterLost, Held, PendingJoins

LEMMA WaiterStep ==
  ASSUME TypeOK, RegistrationsScoped, ServingWhileConnecting, NoWaiterLost, [Next]_vars
  PROVE  NoWaiterLost'
<1>1. CASE Listener
  <2>1. CASE SpawnChannel \/ PushUnblocked
    <3>1. UNCHANGED <<stateQ, chanStateQ, sendQ, serving, joins, replies, outcome>>
      BY <2>1 DEF SpawnChannel, PushUnblocked, queueVars, connVars
    <3> QED
      BY <3>1, QuietKeeps
  <2>2. CASE Exit \/ Dropped
    BY <2>2, DropEverythingKeeps DEF Exit, Dropped, ShutDown
  <2>3. CASE Written
    <3>1. CASE WaitToReconnectConnected(outcome)
      BY <2>3, <3>1, ConnectionLostKeeps DEF Written
    <3>2. CASE UNCHANGED <<joins, replies, outcome>>
      <4>1. UNCHANGED <<stateQ, chanStateQ, sendQ, serving>>
        BY <2>3 DEF Written, queueVars
      <4> QED
        BY <3>2, <4>1, QuietKeeps
    <3> QED
      BY <2>3, <3>1, <3>2 DEF Written
  <2>4. CASE Waits
    BY <2>4, WaitsKeep, QuietKeeps
  <2> QED
    BY <1>1, <2>1, <2>2, <2>3, <2>4, StateCommandKeeps, ConnectionKeeps, ChannelCommandKeeps,
       SendCommandKeeps, JoinTimedOutKeeps
    DEF Listener, Waits
<1>2. CASE Network
  <2>1. CASE ConnectionLost
    BY <2>1, ConnectionLostKeeps DEF ConnectionLost
  <2>2. CASE FatalSocketError
    BY <2>2, DropEverythingKeeps DEF FatalSocketError
  <2>3. CASE \/ HeartbeatReply
             \/ \E c \in Channel : \/ \E r \in Request : NoReply(c, r)
                                   \/ \E m \in PushKind : HandlePush(c, m)
    <3>1. UNCHANGED <<stateQ, chanStateQ, sendQ, serving, joins, replies, outcome>>
      BY <2>3 DEF HeartbeatReply, NoReply, HandlePush, connVars, queueVars
    <3> QED
      BY <3>1, QuietKeeps
  <2> QED
    BY <1>2, <2>1, <2>2, <2>3, ReplyKeeps DEF Network
<1>3. CASE Clients
  <2>1. ASSUME NEW r \in Request, TakeAnswer(r) \/ GiveUp(r) PROVE NoWaiterLost'
    <3>1. outcome \in [Request -> Outcome]
      BY DEF TypeOK, SharedTypeOK
    <3>2. outcome' = [outcome EXCEPT ![r] = "free"]
      BY <2>1 DEF TakeAnswer, GiveUp
    <3>3. \A q \in Request : outcome'[q] = "pending" => outcome[q] = "pending"
      BY <3>1, <3>2
    <3>4. UNCHANGED <<stateQ, chanStateQ, sendQ, serving, joins, replies>>
      BY <2>1 DEF TakeAnswer, GiveUp, socketVars, connVars, queueVars
    <3> QED
      BY <3>3, <3>4, QuietKeeps
  <2>2. ASSUME NEW c \in Channel,
               RequestChannel(c) \/ Forgo(c) \/ ReceivePush(c) \/ ReadConnectivity(c)
        PROVE  NoWaiterLost'
    <3>1. \A q \in Request : outcome'[q] = "pending" => outcome[q] = "pending"
      BY <2>2 DEF RequestChannel, Forgo, ReceivePush, ReadConnectivity, Release, queueVars
    <3>2. UNCHANGED <<stateQ, chanStateQ, sendQ, serving, joins, replies>>
      BY <2>2 DEF RequestChannel, Forgo, ReceivePush, ReadConnectivity, socketVars, connVars, queueVars
    <3> QED
      BY <3>1, <3>2, QuietKeeps
  <2> QED
    BY <1>3, <2>1, <2>2, SubmitKeeps DEF Clients
<1>4. CASE UNCHANGED vars
  BY <1>4, QuietKeeps DEF vars, connVars, queueVars
<1> QED
  BY <1>1, <1>2, <1>3, <1>4 DEF Next

(* A oneshot that is waited on is in a queue, in a map or being served.    *)
LEMMA WaitersAreHeld == Spec => []NoWaiterLost
<1>1. Init => RegistrationsScoped /\ ServingWhileConnecting /\ NoWaiterLost
  BY DEF Init, RegistrationsScoped, ServingWhileConnecting, NoWaiterLost
<1>2. /\ TypeOK /\ RegistrationsScoped /\ ServingWhileConnecting /\ NoWaiterLost /\ [Next]_vars
      => (RegistrationsScoped /\ ServingWhileConnecting /\ NoWaiterLost)'
  BY ScopedStep, WaiterStep
<1> QED
  BY <1>1, <1>2, TypeCorrect, PTL DEF Spec

-----------------------------------------------------------------------------
(***************************************************************************)
(* Joins and calls belong to their channel.                                *)
(***************************************************************************)
FramesOf(c) == {r \in RequestsOf(ChanKind) : r.chan = c}

OwnChannel ==
  /\ \A c \in Channel : /\ joins[c] # NoRequest => joins[c].chan = c
                        /\ joined[c] # NoRequest => joined[c].chan = c
  /\ \A c \in Channel : sent[c] \subseteq FramesOf(c)

(* A frame is sent for the channel that asked for it.                      *)
LEMMA OwnFrameSent ==
  ASSUME TypeOK, OwnChannel, NEW kind \in ChanKind, NEW r \in RequestsOf({kind}), FrameSent(r)
  PROVE  \A c \in Channel : sent'[c] \subseteq FramesOf(c)
<1>1. r \in FramesOf(r.chan) /\ r.chan \in Channel
  BY RequestChan DEF FramesOf, RequestsOf
<1>2. \A c \in Channel : sent'[c] = IF c = r.chan THEN sent[c] \cup {r} ELSE sent[c]
  BY DEF FrameSent, TypeOK, MapTypeOK
<1> QED
  BY <1>1, <1>2 DEF OwnChannel

LEMMA OwnFrameAnswered ==
  ASSUME TypeOK, OwnChannel, NEW c \in Channel, NEW r, sent' = [sent EXCEPT ![c] = @ \ {r}]
  PROVE  \A d \in Channel : sent'[d] \subseteq FramesOf(d)
<1>1. \A d \in Channel : sent'[d] = IF d = c THEN sent[c] \ {r} ELSE sent[d]
  BY DEF TypeOK, MapTypeOK
<1> QED
  BY <1>1 DEF OwnChannel

LEMMA EmptyMapsOwn == EmptyMaps => OwnChannel'
BY DEF EmptyMaps, OwnChannel

(* The command a handler takes is of the kind it takes.                    *)
LEMMA TakenCommand ==
  ASSUME TypeOK
  PROVE  /\ \A kind \in {"join", "leave"} : TakeChannelStateCommand(kind)
              => Head(chanStateQ) \in RequestsOf({kind}) /\ Head(chanStateQ).chan \in Channel
         /\ \A kind \in {"call", "cast"} : TakeSendCommand(kind)
              => Head(sendQ) \in RequestsOf({kind}) /\ Head(sendQ).chan \in Channel
<1>1. ASSUME NEW kind \in {"join", "leave"}, TakeChannelStateCommand(kind)
      PROVE  Head(chanStateQ) \in RequestsOf({kind}) /\ Head(chanStateQ).chan \in Channel
  <2>1. Head(chanStateQ) \in RequestsOf({"join", "leave"}) /\ Head(chanStateQ).kind = kind
    BY <1>1, QueueSteps DEF TypeOK, QueueTypeOK, TakeChannelStateCommand
  <2>2. Head(chanStateQ) \in RequestsOf({kind})
    BY <2>1 DEF RequestsOf
  <2> QED
    BY <2>2, RequestChan DEF ChanKind
<1>2. ASSUME NEW kind \in {"call", "cast"}, TakeSendCommand(kind)
      PROVE  Head(sendQ) \in RequestsOf({kind}) /\ Head(sendQ).chan \in Channel
  <2>1. Head(sendQ) \in RequestsOf({"call", "cast"}) /\ Head(sendQ).kind = kind
    BY <1>2, QueueSteps DEF TypeOK, QueueTypeOK, TakeSendCommand
  <2>2. Head(sendQ) \in RequestsOf({kind})
    BY <2>1 DEF RequestsOf
  <2> QED
    BY <2>2, RequestChan DEF ChanKind
<1> QED
  BY <1>1, <1>2

LEMMA OwnChannelStep ==
  ASSUME TypeOK, OwnChannel, JoinsHaveDeadlines, [Next]_vars
  PROVE  OwnChannel' /\ JoinsHaveDeadlines'
<1>1. ASSUME UNCHANGED <<joins, joined, timers, sent>> PROVE OwnChannel' /\ JoinsHaveDeadlines'
  BY <1>1 DEF OwnChannel, JoinsHaveDeadlines
<1>2. ASSUME EmptyMaps PROVE OwnChannel' /\ JoinsHaveDeadlines'
  <2>1. JoinsHaveDeadlines'
    BY <1>2 DEF EmptyMaps, JoinsHaveDeadlines
  <2> QED
    BY <1>2, <2>1, EmptyMapsOwn
<1>3. CASE StartJoin
  <2> DEFINE r == Head(chanStateQ)
  <2>1. r \in RequestsOf({"join"}) /\ r.chan \in Channel
    BY <1>3, TakenCommand DEF StartJoin
  <2>2. CASE joins' = [joins EXCEPT ![r.chan] = r] /\ joined' = joined /\ ArmTimeout(r) /\ FrameSent(r)
    <3>1. \A c \in Channel : sent'[c] \subseteq FramesOf(c)
      BY <2>1, <2>2, OwnFrameSent DEF ChanKind
    <3>2. \A c \in Channel : joins'[c] = IF c = r.chan THEN r ELSE joins[c]
      BY <2>2 DEF TypeOK, MapTypeOK
    <3>3. OwnChannel'
      BY <2>2, <3>1, <3>2 DEF OwnChannel
    <3>4. JoinsHaveDeadlines'
      BY <2>2, <3>2 DEF JoinsHaveDeadlines, ArmTimeout
    <3> QED
      BY <3>3, <3>4
  <2>3. CASE EmptyMaps
    BY <1>2, <2>3
  <2> QED
    BY <1>3, <2>2, <2>3 DEF StartJoin, WaitToReconnectConnected, SendDisconnected
<1>4. CASE Leave \/ Call \/ Cast
  <2>1. CASE EmptyMaps
    BY <1>2, <2>1
  <2>2. CASE /\ UNCHANGED <<joins, timers>>
             /\ joined' = joined \/ joined' = [joined EXCEPT ![Head(chanStateQ).chan] = NoRequest]
             /\ \E kind \in ChanKind : \E r \in RequestsOf({kind}) : FrameSent(r)
    <3>1. \A c \in Channel : sent'[c] \subseteq FramesOf(c)
      BY <2>2, OwnFrameSent
    <3>2. \A c \in Channel : joined'[c] \in {joined[c], NoRequest}
      BY <2>2 DEF TypeOK, MapTypeOK
    <3> QED
      BY <2>2, <3>1, <3>2 DEF OwnChannel, JoinsHaveDeadlines
  <2> QED
    BY <1>4, <2>1, <2>2, TakenCommand
    DEF Leave, Call, Cast, WaitToReconnectConnected, SendDisconnected, ChanKind
<1>5. CASE \E t \in Request : JoinTimedOut(t)
  <2>1. PICK t \in Request : JoinTimedOut(t)
    BY <1>5
  <2>2. /\ \A c \in Channel : joins'[c] = IF c = t.chan THEN NoRequest ELSE joins[c]
        /\ timers' = timers \ {t} /\ sent' = sent /\ joined' = joined
    BY <2>1 DEF JoinTimedOut, TypeOK, MapTypeOK
  <2> QED
    BY <2>2 DEF OwnChannel, JoinsHaveDeadlines
<1>6. CASE \E c \in Channel, r \in Request : Reply(c, r) \/ NoReply(c, r)
  <2>1. PICK c \in Channel, r \in Request : Reply(c, r) \/ NoReply(c, r)
    BY <1>6
  <2>2. /\ timers' = timers
        /\ joins' = joins \/ joins' = [joins EXCEPT ![c] = NoRequest]
        /\ joined' = joined \/ joined' = [joined EXCEPT ![c] = joins[c]]
        /\ sent' = [sent EXCEPT ![c] = @ \ {r}]
    BY <2>1 DEF Reply, NoReply, HandleReply, FinishJoin
  <2>3. \A d \in Channel : /\ joins'[d] \in {joins[d], NoRequest}
                           /\ joined'[d] \in {joined[d], joins[d]}
    BY <2>2 DEF TypeOK, MapTypeOK
  <2>4. \A d \in Channel : sent'[d] \subseteq FramesOf(d)
    BY <2>2, OwnFrameAnswered
  <2> QED
    BY <2>2, <2>3, <2>4 DEF OwnChannel, JoinsHaveDeadlines
<1>7. CASE Disconnect \/ Shutdown \/ SocketConnectOk \/ Exit \/ Dropped \/ FatalSocketError
           \/ ConnectionLost
  <2>1. EmptyMaps \/ UNCHANGED <<joins, joined, timers, sent>>
    BY <1>7 DEF Disconnect, Shutdown, SocketConnectOk, Exit, Dropped, ShutDown, FatalSocketError,
      ConnectionLost, DropEverything, WaitToReconnectConnected, SendDisconnected, connVars
  <2> QED
    BY <1>1, <1>2, <2>1
<1>8. CASE Connect \/ Reconnect \/ SocketConnectError \/ Publish \/ SpawnChannel
           \/ PushUnblocked \/ HeartbeatReply
           \/ \E c \in Channel : \E m \in PushKind : HandlePush(c, m)
  BY <1>1, <1>8 DEF Connect, Reconnect, SocketConnectError, Publish, SpawnChannel,
    PushUnblocked, HeartbeatReply, HandlePush, connVars
<1>9. CASE Clients \/ UNCHANGED vars
  BY <1>1, <1>9 DEF Clients, SubmitState, SubmitJoin, SubmitLeave, SubmitSend, TakeAnswer, GiveUp,
    RequestChannel, Forgo, ReceivePush, ReadConnectivity, socketVars, connVars, vars
<1>10. CASE Written
  <2>1. EmptyMaps \/ UNCHANGED <<joins, joined, timers, sent>>
    BY <1>10 DEF Written, WaitToReconnectConnected, SendDisconnected
  <2> QED
    BY <1>1, <1>2, <2>1
<1>11. CASE Waits
  BY <1>1, <1>11, WaitsKeep
<1> QED
  BY <1>3, <1>4, <1>5, <1>6, <1>7, <1>8, <1>9, <1>10, <1>11 DEF Next, Listener, Network, Waits

LEMMA OwnChannelInit == Init => OwnChannel /\ JoinsHaveDeadlines
BY DEF Init, OwnChannel, JoinsHaveDeadlines

(* Every join the task waits for has a timer of its own under way, however *)
(* many joins a channel starts on a connection.                            *)
THEOREM EveryJoinHasDeadline == Spec => []JoinsHaveDeadlines
<1>1. TypeOK /\ OwnChannel /\ JoinsHaveDeadlines /\ [Next]_vars
        => (OwnChannel /\ JoinsHaveDeadlines)'
  BY OwnChannelStep
<1> QED
  BY <1>1, OwnChannelInit, TypeCorrect, PTL DEF Spec

-----------------------------------------------------------------------------
(***************************************************************************)
(* Calls are answered by the replies to them.                              *)
(***************************************************************************)
CallAnswered(r) == outcome[r] = "pending" /\ outcome'[r] \in {"ok", "rejected"}

LEMMA CallStep ==
  ASSUME TypeOK, OwnChannel, Next, NEW r \in RequestsOf({"call"}), CallAnswered(r)
  PROVE  r \in sent[r.chan] /\ r \notin sent'[r.chan]
<1> USE DEF CallAnswered, Answer
<1>0. r \in Request /\ r.kind = "call"
  BY DEF RequestsOf
<1>1. CASE Connect \/ Disconnect \/ Shutdown
  <2>1. Head(stateQ).kind # "call"
    BY <1>1 DEF Connect, Disconnect, Shutdown, TakeStateCommand
  <2> QED
    BY <1>0, <1>1, <2>1 DEF Connect, Disconnect, Shutdown, SendDisconnected
<1>2. CASE Reconnect \/ SocketConnectOk \/ SocketConnectError \/ Publish \/ Exit \/ Dropped
  <2>1. serving # r
    BY <1>0, RequestAssumption DEF TypeOK, TaskTypeOK, RequestsOf
  <2> QED
    BY <1>0, <1>2, <2>1 DEF Reconnect, SocketConnectOk, SocketConnectError, ConnectErrors,
      Publish, Exit, Dropped, ShutDown, DropEverything
<1>3. CASE StartJoin \/ Leave
  <2>1. Head(chanStateQ).kind # "call"
    BY <1>3 DEF StartJoin, Leave, TakeChannelStateCommand
  <2> QED
    BY <1>0, <1>3, <2>1 DEF StartJoin, Leave, WaitToReconnectConnected, SendDisconnected
<1>4. CASE Cast
  <2>1. Head(sendQ).kind # "call"
    BY <1>4 DEF Cast, TakeSendCommand
  <2> QED
    BY <1>0, <1>4, <2>1 DEF Cast, WaitToReconnectConnected, SendDisconnected
<1>5. CASE SpawnChannel \/ Call \/ PushUnblocked \/ Written \/ \E t \in Request : JoinTimedOut(t)
  BY <1>0, <1>5 DEF SpawnChannel, Call, PushUnblocked, Written, JoinTimedOut,
    WaitToReconnectConnected, SendDisconnected
<1>6. CASE \E c \in Channel, f \in Request : Reply(c, f)
  <2>1. PICK c \in Channel, f \in Request, s \in {"ok", "rejected"} :
          f \in sent[c] /\ HandleReply(c, f, s) /\ sent' = [sent EXCEPT ![c] = @ \ {f}]
    BY <1>6 DEF Reply
  <2>2. ~FinishJoin(c, s)
    <3>1. joins[c] # r
      BY <1>0, RequestAssumption DEF TypeOK, MapTypeOK, RequestsOf
    <3> QED
      BY <1>0, <3>1 DEF FinishJoin
  <2>3. r = f
    BY <1>0, <2>1, <2>2 DEF HandleReply
  <2>4. f.chan = c
    BY <2>1 DEF OwnChannel, FramesOf
  <2> QED
    BY <2>1, <2>3, <2>4 DEF TypeOK, MapTypeOK
<1>7. CASE Network /\ ~\E c \in Channel, f \in Request : Reply(c, f)
  BY <1>0, <1>7 DEF Network, NoReply, HandlePush, ConnectionLost, FatalSocketError,
    HeartbeatReply, WaitToReconnectConnected, SendDisconnected, DropEverything
<1>8. CASE Clients
  <2>1. outcome \in [Request -> Outcome]
    BY DEF TypeOK, SharedTypeOK
  <2> QED
    BY <1>0, <1>8, <2>1 DEF Clients, SubmitState, SubmitJoin, SubmitLeave, SubmitSend, TakeAnswer,
      GiveUp, RequestChannel, Forgo, ReceivePush, ReadConnectivity, Answers, Release
<1>9. CASE Waits
  BY <1>9, WaitsKeep
<1> QED
  BY <1>1, <1>2, <1>3, <1>4, <1>5, <1>6, <1>7, <1>8, <1>9 DEF Next, Listener, Waits

(* A call that is answered with a payload or an error of the server has    *)
(* the server's answer to its own frame, never to another frame's.         *)
THEOREM CallsAnsweredByOwnReply == Spec => CallAnsweredByOwnReply
<1>1. TypeOK /\ OwnChannel /\ [Next]_vars =>
        [\A r \in RequestsOf({"call"}) :
           outcome[r] = "pending" /\ outcome'[r] \in {"ok", "rejected"}
             => r \in sent[r.chan] /\ r \notin sent'[r.chan]]_vars
  BY CallStep DEF CallAnswered
<1>2. TypeOK /\ OwnChannel /\ JoinsHaveDeadlines /\ [Next]_vars
        => (OwnChannel /\ JoinsHaveDeadlines)'
  BY OwnChannelStep
<1> QED
  BY <1>1, <1>2, OwnChannelInit, TypeCorrect, PTL DEF Spec, CallAnsweredByOwnReply

-----------------------------------------------------------------------------
(***************************************************************************)
(* The published status.                                                   *)
(***************************************************************************)
LEMMA StatusStep ==
  ASSUME StatusFollowsState, [Next]_vars
  PROVE  StatusFollowsState'
<1> USE DEF StatusFollowsState
<1>1. CASE Connect \/ Disconnect \/ Shutdown
  BY <1>1 DEF Connect, Disconnect, Shutdown, TakeStateCommand, Polling, AtSelect
<1>2. CASE Reconnect \/ SocketConnectOk \/ SocketConnectError \/ Publish \/ Exit \/ Dropped
  BY <1>2 DEF Reconnect, SocketConnectOk, SocketConnectError, Publish, Exit, Dropped, ShutDown,
    DropEverything, AtSelect
<1>3. CASE SpawnChannel \/ StartJoin \/ Leave \/ Call \/ Cast \/ Written
           \/ \E r \in Request : JoinTimedOut(r)
  BY <1>3 DEF SpawnChannel, StartJoin, Leave, TakeChannelStateCommand, Call, Cast,
    TakeSendCommand, Written, JoinTimedOut, WaitToReconnectConnected, FrameSent, Resumed
<1>4. CASE PushUnblocked
  BY <1>4 DEF PushUnblocked
<1>5. CASE Network
  BY <1>5 DEF Network, Reply, NoReply, HandlePush, ConnectionLost, FatalSocketError,
    HeartbeatReply, WaitToReconnectConnected, DropEverything, Online, AtSelect
<1>6. CASE Clients \/ UNCHANGED vars
  BY <1>6 DEF Clients, SubmitState, SubmitJoin, SubmitLeave, SubmitSend, TakeAnswer, GiveUp,
    RequestChannel, Forgo, ReceivePush, ReadConnectivity, socketVars, vars
<1>7. CASE Waits
  BY <1>7, WaitsKeep
<1> QED
  BY <1>1, <1>2, <1>3, <1>4, <1>5, <1>6, <1>7 DEF Next, Listener, Waits

(* But for the end of an iteration that changed the state, the status      *)
(* users see is the state of the task: whenever it selects, connects or    *)
(* waits in a handler, and when it has ended.                              *)
THEOREM StatusIsCurrent == Spec => []StatusFollowsState
<1>1. Init => StatusFollowsState
  BY DEF Init, StatusFollowsState
<1> QED
  BY <1>1, StatusStep, PTL DEF Spec

-----------------------------------------------------------------------------
(***************************************************************************)
(* What the task broadcasts, and its retries.                              *)
(***************************************************************************)
(* The connectivity last broadcast says whether the task is connected; it  *)
(* waits with a push only while it is, and connects only while it is not.  *)
ConnectivityFollows ==
  /\ pc # "exited" => /\ state = "Connected" <=> connectivity = "Connected"
                      /\ connectivity = "Shutdown" => state = "ShuttingDown"
  /\ pc = "pushing" => state = "Connected"
  /\ pc = "connecting" => state \in {"NeverConnected", "Disconnected", "WaitingToReconnect"}

LEMMA ConnectivityStep ==
  ASSUME ConnectivityFollows, [Next]_vars
  PROVE  ConnectivityFollows'
<1> USE DEF ConnectivityFollows, Broadcast
<1>1. CASE Connect \/ Disconnect \/ Shutdown
  BY <1>1 DEF Connect, Disconnect, Shutdown, TakeStateCommand, SendDisconnected, castVars,
    Polling, AtSelect, PollingState, backVars, Resumed
<1>2. CASE Reconnect \/ SocketConnectOk \/ SocketConnectError \/ Publish \/ Exit \/ Dropped
  BY <1>2 DEF Reconnect, SocketConnectOk, SocketConnectError, Publish, Exit, Dropped, ShutDown,
    DropEverything, castVars, AtSelect
<1>3. CASE SpawnChannel \/ StartJoin \/ Leave \/ Call \/ Cast \/ Written
           \/ \E r \in Request : JoinTimedOut(r)
  BY <1>3 DEF SpawnChannel, StartJoin, Leave, TakeChannelStateCommand, Call, Cast,
    TakeSendCommand, Written, JoinTimedOut, WaitToReconnectConnected, SendDisconnected, castVars,
    Polling, Online, AtSelect, FrameSent, Resumed
<1>4. CASE PushUnblocked \/ Network
  BY <1>4 DEF PushUnblocked, Network, Reply, NoReply, HandlePush, ConnectionLost,
    FatalSocketError, HeartbeatReply, WaitToReconnectConnected, SendDisconnected,
    DropEverything, castVars, Online, AtSelect, Resumed
<1>5. CASE Clients \/ UNCHANGED vars
  BY <1>5 DEF Clients, SubmitState, SubmitJoin, SubmitLeave, SubmitSend, TakeAnswer, GiveUp,
    RequestChannel, Forgo, ReceivePush, ReadConnectivity, socketVars, castVars, vars
<1>6. CASE Waits
  BY <1>6, WaitsKeep DEF Writing
<1> QED
  BY <1>1, <1>2, <1>3, <1>4, <1>5, <1>6 DEF Next, Listener, Waits

LEMMA ConnectivityInit == Init => ConnectivityFollows
BY DEF Init, ConnectivityFollows

(* The sleep under way is the one of the attempt that was counted last,    *)
(* unless no more attempts can be counted.                                 *)
BackingOff ==
  state = "WaitingToReconnect" /\ pc # "exited" =>
    /\ attempts \in 1..MaxAttempts
    /\ attempts < MaxAttempts => delay = SleepMultiplier(attempts - 1)

LEMMA BackingOffStep ==
  ASSUME ~HasStrategy, TypeOK, BackingOff, [Next]_vars
  PROVE  BackingOff'
<1> USE DEF BackingOff
<1>0. attempts \in 0..MaxAttempts /\ MaxAttempts \in Nat \ {0}
  BY BoundAssumption DEF TypeOK, TaskTypeOK
<1>1. ASSUME UNCHANGED <<state, backVars>>, pc # "exited" PROVE BackingOff'
  BY <1>1 DEF backVars
<1>2. ASSUME \E out : WaitToReconnectConnected(out) PROVE BackingOff'
  BY <1>0, <1>2 DEF WaitToReconnectConnected
<1>3. CASE Connect \/ Disconnect \/ Shutdown
  BY <1>1, <1>3 DEF Connect, Disconnect, Shutdown, TakeStateCommand, backVars, Polling, AtSelect,
    Resumed
<1>4. CASE Reconnect \/ SocketConnectOk \/ Publish \/ Exit \/ Dropped \/ SpawnChannel
  BY <1>1, <1>4 DEF Reconnect, SocketConnectOk, Publish, Exit, Dropped, ShutDown, DropEverything,
    SpawnChannel, backVars, Polling, AtSelect
<1>5. CASE SocketConnectError
  <2>1. delay' = SleepMultiplier(attempts) /\ attempts' = SmallerOf(attempts + 1, MaxAttempts)
    BY <1>5 DEF SocketConnectError, SleepAfterFailure, NextAttempt
  <2>2. /\ attempts' \in 1..MaxAttempts
        /\ attempts' < MaxAttempts => attempts = attempts' - 1
    BY <1>0, <2>1 DEF SmallerOf
  <2> QED
    BY <2>1, <2>2
<1>6. CASE StartJoin \/ Leave \/ Call \/ Cast \/ Written \/ \E r \in Request : JoinTimedOut(r)
  BY <1>1, <1>2, <1>6 DEF StartJoin, Leave, TakeChannelStateCommand, Call, Cast,
    TakeSendCommand, Written, JoinTimedOut, Online, AtSelect, backVars, Resumed
<1>7. CASE PushUnblocked \/ Network
  BY <1>1, <1>2, <1>7 DEF PushUnblocked, Network, Reply, NoReply, HandlePush, ConnectionLost,
    FatalSocketError, HeartbeatReply, DropEverything, Online, AtSelect, backVars
<1>8. CASE Clients \/ UNCHANGED vars
  BY <1>8 DEF Clients, SubmitState, SubmitJoin, SubmitLeave, SubmitSend, TakeAnswer, GiveUp,
    RequestChannel, Forgo, ReceivePush, ReadConnectivity, socketVars, backVars, vars
<1>9. CASE Waits
  BY <1>1, <1>9, WaitsKeep DEF backVars
<1> QED
  BY <1>3, <1>4, <1>5, <1>6, <1>7, <1>8, <1>9 DEF Next, Listener, Waits

(* Without a strategy of the user's, every reconnect that fails is         *)
(* followed by a longer sleep, until the last multiplier is reached and    *)
(* for good after that: for every limit on the attempts that are counted   *)
(* that lets the last multiplier be reached, as u16::MAX does.             *)
THEOREM ReconnectsBackOff ==
  ASSUME ~HasStrategy, MaxAttempts >= 4
  PROVE  Spec => BackoffGrows
<1>1. Init => BackingOff
  BY DEF Init, BackingOff
<1>2. TypeOK /\ BackingOff /\ [Next]_vars => BackingOff'
  BY BackingOffStep
<1>3. TypeOK /\ BackingOff /\ [Next]_vars =>
        [pc = "connecting" /\ pc' # "connecting" /\ {state, state'} = {"WaitingToReconnect"}
           => delay' > delay \/ delay' = SleepMultiplier(4)]_vars
  <2> SUFFICES ASSUME TypeOK, BackingOff, Next, pc = "connecting", pc' # "connecting",
                      state = "WaitingToReconnect", state' = "WaitingToReconnect"
               PROVE  delay' > delay \/ delay' = SleepMultiplier(4)
    OBVIOUS
  <2>1. SocketConnectError
    BY WaitsKeep DEF Next, Listener, Connect, Disconnect, Shutdown, TakeStateCommand, Reconnect,
      SocketConnectOk, Publish, Exit, Dropped, SpawnChannel, StartJoin, Leave,
      TakeChannelStateCommand, Call, Cast, TakeSendCommand, JoinTimedOut, PushUnblocked,
      Waits, Written, Resumed, Network, Reply, NoReply, HandlePush, ConnectionLost, FatalSocketError,
      HeartbeatReply, Clients, SubmitState, SubmitJoin, SubmitLeave, SubmitSend, TakeAnswer, GiveUp,
      RequestChannel, Forgo, ReceivePush, ReadConnectivity, socketVars, Polling, Online, AtSelect
  <2>2. delay' = SleepMultiplier(attempts)
    BY <2>1 DEF SocketConnectError, SleepAfterFailure
  <2>3. attempts \in 1..MaxAttempts /\ MaxAttempts \in Nat
    BY BoundAssumption DEF BackingOff
  <2>4. CASE attempts >= 4
    BY <2>2, <2>3, <2>4 DEF SleepMultiplier, SmallerOf
  <2>5. CASE attempts < 4
    <3>1. delay = SleepMultiplier(attempts - 1)
      BY <2>3, <2>5 DEF BackingOff
    <3>2. CASE attempts = 1
      BY <2>2, <3>1, <3>2 DEF SleepMultiplier, SmallerOf
    <3>3. CASE attempts = 2
      BY <2>2, <3>1, <3>3 DEF SleepMultiplier, SmallerOf
    <3>4. CASE attempts = 3
      BY <2>2, <3>1, <3>4 DEF SleepMultiplier, SmallerOf
    <3> QED
      BY <2>3, <2>5, <3>2, <3>3, <3>4
  <2> QED
    BY <2>3, <2>4, <2>5
<1> QED
  BY <1>1, <1>2, <1>3, TypeCorrect, PTL DEF Spec, BackoffGrows

-----------------------------------------------------------------------------
(***************************************************************************)
(* What the queues hold, they hold once.                                   *)
(***************************************************************************)
(* A channel that is to be spawned waits once, and has not been spawned.   *)
SpawnOrder ==
  /\ IsInjective(spawnQ)
  /\ \A c \in Range(spawnQ) : phase[c] = "Requested"

(* A call or cast waits once, and a call no more once it is sent.          *)
SendOrder ==
  /\ IsInjective(sendQ)
  /\ replies \cap Range(sendQ) = {}

(* A join or leave waits once, and a join no more once it is sent.         *)
CommandOrder ==
  /\ IsInjective(chanStateQ)
  /\ \A c \in Channel : joins[c] \notin Range(chanStateQ)

LEMMA EmptyInjective == IsInjective(<<>>)
BY DEF IsInjective

LEMMA SpawnOrderStep ==
  ASSUME TypeOK, SpawnOrder, [Next]_vars
  PROVE  SpawnOrder'
<1> USE DEF SpawnOrder
<1>0. /\ spawnQ \in Seq(Channel) /\ phase \in [Channel -> Phase]
      /\ Range(spawnQ) \subseteq Channel
  BY QueueKind DEF TypeOK, QueueTypeOK, SharedTypeOK
<1>1. ASSUME UNCHANGED <<spawnQ, phase>> PROVE SpawnOrder'
  BY <1>1
<1>2. CASE Exit \/ Dropped \/ FatalSocketError
  BY <1>2, EmptyInjective, EmptyElements DEF Exit, Dropped, ShutDown, FatalSocketError, DropEverything
<1>3. CASE SpawnChannel
  <2>1. spawnQ # <<>> /\ spawnQ' = Tail(spawnQ)
    BY <1>3 DEF SpawnChannel
  <2>2. /\ IsInjective(Tail(spawnQ)) /\ Head(spawnQ) \notin Range(Tail(spawnQ))
        /\ Range(Tail(spawnQ)) \subseteq Range(spawnQ)
    BY <1>0, <2>1, QueueApart, QueueElements
  <2>3. \A c \in Channel : c # Head(spawnQ) => phase'[c] = phase[c]
    BY <1>0, <1>3 DEF SpawnChannel
  <2> QED
    BY <1>0, <2>1, <2>2, <2>3
<1>4. ASSUME NEW c \in Channel, RequestChannel(c) PROVE SpawnOrder'
  <2>1. phase[c] = "none" /\ spawnQ' = Append(spawnQ, c) /\ phase' = [phase EXCEPT ![c] = "Requested"]
    BY <1>4 DEF RequestChannel
  <2>2. IsInjective(Append(spawnQ, c)) /\ Range(Append(spawnQ, c)) = Range(spawnQ) \cup {c}
    BY <1>0, <2>1, QueueApart, QueueElements
  <2> QED
    BY <1>0, <2>1, <2>2
<1>5. ASSUME NEW c \in Channel, Forgo(c) PROVE SpawnOrder'
  <2>1. spawnQ' = spawnQ /\ phase[c] # "Requested"
    BY <1>5 DEF Forgo, Spawned, Unspawned, queueVars
  <2>2. \A d \in Channel : d # c => phase'[d] = phase[d]
    BY <1>0, <1>5 DEF Forgo
  <2> QED
    BY <1>0, <2>1, <2>2
<1>6. CASE Connect \/ Disconnect \/ Shutdown \/ Reconnect \/ SocketConnectOk \/ SocketConnectError
           \/ Publish \/ StartJoin \/ Leave \/ Call \/ Cast \/ PushUnblocked \/ Written
           \/ \E r \in Request : JoinTimedOut(r)
  BY <1>1, <1>6 DEF Connect, Disconnect, Shutdown, TakeStateCommand, Reconnect, SocketConnectOk,
    SocketConnectError, Publish, StartJoin, Leave, TakeChannelStateCommand, Call, Cast,
    TakeSendCommand, PushUnblocked, Written, JoinTimedOut, queueVars, chanVars
<1>7. CASE Network /\ ~FatalSocketError
  BY <1>1, <1>7 DEF Network, Reply, NoReply, HandlePush, ConnectionLost, HeartbeatReply,
    queueVars, chanVars
<1>8. CASE Clients /\ ~\E c \in Channel : RequestChannel(c) \/ Forgo(c)
  BY <1>1, <1>8 DEF Clients, SubmitState, SubmitJoin, SubmitLeave, SubmitSend, TakeAnswer, GiveUp,
    ReceivePush, ReadConnectivity, queueVars, chanVars
<1>9. CASE UNCHANGED vars
  BY <1>1, <1>9 DEF vars, queueVars, chanVars
<1>10. CASE Waits
  BY <1>1, <1>10, WaitsKeep
<1> QED
  BY <1>2, <1>3, <1>4, <1>5, <1>6, <1>7, <1>8, <1>9, <1>10
  DEF Next, Listener, Network, Clients, Waits

LEMMA SendOrderStep ==
  ASSUME TypeOK, SendOrder, [Next]_vars
  PROVE  SendOrder'
<1> USE DEF SendOrder
<1>0. sendQ \in Seq(RequestsOf({"call", "cast"}))
  BY DEF TypeOK, QueueTypeOK
<1>1. ASSUME sendQ' = sendQ, replies' \subseteq replies PROVE SendOrder'
  BY <1>1
<1>2. ASSUME sendQ # <<>>, sendQ' = Tail(sendQ), replies' \subseteq replies \cup {Head(sendQ)}
      PROVE  SendOrder'
  <2>1. /\ IsInjective(Tail(sendQ)) /\ Head(sendQ) \notin Range(Tail(sendQ))
        /\ Range(Tail(sendQ)) \subseteq Range(sendQ)
    BY <1>0, <1>2, QueueApart, QueueElements
  <2> QED
    BY <1>2, <2>1
<1>3. CASE Exit \/ Dropped \/ FatalSocketError
  BY <1>3, EmptyInjective, EmptyElements DEF Exit, Dropped, ShutDown, FatalSocketError, DropEverything
<1>4. CASE Call \/ Cast
  BY <1>2, <1>4 DEF Call, Cast, TakeSendCommand, WaitToReconnectConnected, SendDisconnected, EmptyMaps
<1>5. ASSUME NEW r \in Request, SubmitSend(r) PROVE SendOrder'
  <2>1. /\ r \in RequestsOf({"call", "cast"}) /\ r \notin replies /\ r \notin Range(sendQ)
        /\ sendQ' = Append(sendQ, r) /\ replies' = replies
    BY <1>5 DEF SubmitSend, Fresh, Held, QueuedRequests, RequestsOf, socketVars, connVars
  <2>2. IsInjective(Append(sendQ, r)) /\ Range(Append(sendQ, r)) = Range(sendQ) \cup {r}
    BY <1>0, <2>1, QueueApart, QueueElements
  <2> QED
    BY <2>1, <2>2
<1>6. CASE Connect \/ Disconnect \/ Shutdown \/ Reconnect \/ SocketConnectOk \/ SocketConnectError
           \/ Publish \/ SpawnChannel \/ StartJoin \/ Leave \/ PushUnblocked \/ Written
           \/ \E r \in Request : JoinTimedOut(r)
  BY <1>1, <1>6 DEF Connect, Disconnect, Shutdown, TakeStateCommand, Reconnect, SocketConnectOk,
    SocketConnectError, Publish, SpawnChannel, StartJoin, Leave, TakeChannelStateCommand,
    PushUnblocked, Written, JoinTimedOut, WaitToReconnectConnected, SendDisconnected, EmptyMaps,
    queueVars, connVars
<1>7. CASE Network /\ ~FatalSocketError
  BY <1>1, <1>7 DEF Network, Reply, HandleReply, FinishJoin, NoReply, HandlePush, ConnectionLost,
    HeartbeatReply, WaitToReconnectConnected, SendDisconnected, EmptyMaps, queueVars, connVars
<1>8. CASE Clients /\ ~\E r \in Request : SubmitSend(r)
  BY <1>1, <1>8 DEF Clients, SubmitState, SubmitJoin, SubmitLeave, TakeAnswer, GiveUp,
    RequestChannel, Forgo, ReceivePush, ReadConnectivity, queueVars, socketVars, connVars
<1>9. CASE UNCHANGED vars
  BY <1>1, <1>9 DEF vars, queueVars, connVars
<1>10. CASE Waits
  BY <1>1, <1>10, WaitsKeep
<1> QED
  BY <1>3, <1>4, <1>5, <1>6, <1>7, <1>8, <1>9, <1>10 DEF Next, Listener, Network, Clients, Waits

-----------------------------------------------------------------------------
(***************************************************************************)
(* What a channel asked last is what its socket does last for it.          *)
(***************************************************************************)
ChannelCommands == RequestsOf({"join", "leave"})

(* The channel waits for r, or holds what r was answered with.             *)
Last(r) == outcome[r] # "free" \/ receiving[r.chan] = r

(* A channel has one such join or leave, no longer both awaits and has it, *)
(* and the queue holds none of the channel's behind it.                    *)
OneLast ==
  /\ \A r, q \in ChannelCommands : Last(r) /\ Last(q) /\ r.chan = q.chan => r = q
  /\ \A c \in Channel : receiving[c] # NoRequest =>
       receiving[c].chan = c /\ outcome[receiving[c]] = "free"

LastIsLast ==
  \A r \in ChannelCommands : Last(r) => Trails(r, chanStateQ, OfChannel(r.chan))

(* A join that has been answered is neither pending nor waits to be sent.  *)
AnsweredOnce ==
  \A r \in RequestsOf({"join"}) : Last(r) /\ outcome[r] # "pending" =>
    joins[r.chan] = NoRequest /\ r \notin Range(chanStateQ)

LastInv == CommandOrder /\ OneLast /\ LastIsLast /\ AnsweredOnce

(* The steps that put nothing into the queue of joins and leaves.          *)
OnlyTaken == \/ chanStateQ' = chanStateQ
             \/ chanStateQ # <<>> /\ chanStateQ' = Tail(chanStateQ)
             \/ chanStateQ' = <<>>

LEMMA TrailsNothing == \A x, D : Trails(x, <<>>, D)
BY DEF Trails

LEMMA OnlyTakenKeeps ==
  ASSUME TypeOK, CommandOrder, OnlyTaken
  PROVE  /\ IsInjective(chanStateQ') /\ Range(chanStateQ') \subseteq Range(chanStateQ)
         /\ \A x, D : Trails(x, chanStateQ, D) => Trails(x, chanStateQ', D)
<1>0. chanStateQ \in Seq(ChannelCommands)
  BY DEF TypeOK, QueueTypeOK, ChannelCommands
<1>1. CASE chanStateQ # <<>> /\ chanStateQ' = Tail(chanStateQ)
  <2>1. IsInjective(Tail(chanStateQ)) /\ Range(Tail(chanStateQ)) \subseteq Range(chanStateQ)
    BY <1>0, <1>1, QueueApart, QueueElements DEF CommandOrder
  <2>2. \A x, D : Trails(x, chanStateQ, D) => Trails(x, Tail(chanStateQ), D)
    BY <1>0, <1>1, TrailsTaken
  <2> QED
    BY <1>1, <2>1, <2>2
<1>2. CASE chanStateQ' = <<>>
  BY <1>2, EmptyInjective, EmptyElements, TrailsNothing
<1> QED
  BY <1>1, <1>2 DEF OnlyTaken, CommandOrder

(* A step that takes nothing for last that was not keeps the order; it     *)
(* keeps the rest when what it answers is no longer pending at the task.   *)
LEMMA LastKept ==
  ASSUME TypeOK, LastInv, OnlyTaken,
         \A r \in ChannelCommands : Last(r)' => Last(r)
  PROVE  LastIsLast' /\ \A r, q \in ChannelCommands : Last(r)' /\ Last(q)' /\ r.chan = q.chan => r = q
BY OnlyTakenKeeps DEF LastInv, OneLast, LastIsLast

LEMMA LastKeptWithJoins ==
  ASSUME TypeOK, LastInv, OnlyTaken,
         \A r \in ChannelCommands : Last(r)' => Last(r),
         \A c \in Channel : joins'[c] \in {joins[c], NoRequest},
         \A r \in RequestsOf({"join"}) : Last(r)' /\ outcome'[r] # "pending" =>
           \/ outcome[r] # "pending"
           \/ joins'[r.chan] = NoRequest /\ r \notin Range(chanStateQ')
  PROVE  CommandOrder' /\ LastIsLast' /\ AnsweredOnce'
<1>1. IsInjective(chanStateQ') /\ Range(chanStateQ') \subseteq Range(chanStateQ)
  BY OnlyTakenKeeps DEF LastInv
<1>2. NoRequest \notin Range(chanStateQ)
  BY QueueKind, RequestAssumption DEF TypeOK, QueueTypeOK, RequestsOf
<1>3. CommandOrder'
  BY <1>1, <1>2 DEF LastInv, CommandOrder
<1>4. LastIsLast'
  BY LastKept
<1>5. AnsweredOnce'
  <2> SUFFICES ASSUME NEW r \in RequestsOf({"join"}), Last(r)', outcome'[r] # "pending"
               PROVE  joins'[r.chan] = NoRequest /\ r \notin Range(chanStateQ')
    BY DEF AnsweredOnce
  <2>1. r \in ChannelCommands /\ r.chan \in Channel
    BY RequestChan DEF ChannelCommands, RequestsOf, ChanKind
  <2>2. CASE outcome[r] # "pending"
    <3>1. joins[r.chan] = NoRequest /\ r \notin Range(chanStateQ)
      BY <2>1, <2>2 DEF LastInv, AnsweredOnce
    <3> QED
      BY <1>1, <2>1, <3>1
  <2> QED
    BY <2>2
<1> QED
  BY <1>3, <1>4, <1>5

(* What an answer does to the oneshot of a join or leave.                  *)
LEMMA CommandAnswer ==
  ASSUME NEW out, NEW R, NEW o, NEW r \in ChannelCommands
  PROVE  Answer(out, R, o)[r] = IF r \in R /\ out[r] = "pending" THEN o ELSE out[r]
BY DEF Answer, ChannelCommands, RequestsOf, Unanswered

(* A step of the task that answers commands of channels, or none.          *)
Answering(R) ==
  /\ \A r \in ChannelCommands : outcome'[r] # outcome[r] =>
       r \in R /\ outcome[r] = "pending" /\ outcome'[r] # "free"
  /\ receiving' = receiving /\ OnlyTaken

LEMMA AnsweringKeeps ==
  ASSUME TypeOK, LastInv, NEW R, Answering(R),
         \A c \in Channel : joins'[c] \in {joins[c], NoRequest},
         \A r \in RequestsOf({"join"}) \cap R : joins'[r.chan] = NoRequest /\ r \notin Range(chanStateQ')
  PROVE  LastInv'
<1>1. \A r \in ChannelCommands : Last(r)' => Last(r)
  BY DEF Answering, Last
<1>2. CommandOrder' /\ LastIsLast' /\ AnsweredOnce'
  <2>1. RequestsOf({"join"}) \subseteq ChannelCommands
    BY DEF RequestsOf, ChannelCommands
  <2> QED
    BY <1>1, <2>1, LastKeptWithJoins DEF Answering
<1>3. \A r, q \in ChannelCommands : Last(r)' /\ Last(q)' /\ r.chan = q.chan => r = q
  BY <1>1, LastKept DEF Answering
<1>4. \A c \in Channel : receiving'[c] # NoRequest =>
        receiving'[c].chan = c /\ outcome'[receiving'[c]] = "free"
  <2> SUFFICES ASSUME NEW c \in Channel, receiving[c] # NoRequest
               PROVE  receiving[c].chan = c /\ outcome'[receiving[c]] = "free"
    BY DEF Answering
  <2>1. receiving[c].chan = c /\ outcome[receiving[c]] = "free"
    BY DEF LastInv, OneLast
  <2>2. receiving[c] \in ChannelCommands
    BY DEF TypeOK, SharedTypeOK, ChannelCommands, RequestsOf
  <2> QED
    BY <2>1, <2>2 DEF Answering
<1> QED
  BY <1>2, <1>3, <1>4 DEF LastInv, OneLast

(* A step that does not touch the oneshots of channels, nor their joins.   *)
LEMMA QuietLast ==
  ASSUME TypeOK, LastInv, UNCHANGED <<chanStateQ, receiving>>,
         \A r \in ChannelCommands : outcome'[r] = outcome[r],
         \A c \in Channel : joins'[c] \in {joins[c], NoRequest}
  PROVE  LastInv'
<1>1. Answering({})
  BY DEF Answering, OnlyTaken
<1> QED
  BY <1>1, AnsweringKeeps

(* The end of a connection, with the command that could not be sent.       *)
LEMMA DisconnectingKeeps ==
  ASSUME TypeOK, LastInv, NEW out, NEW A, NEW v, SendDisconnected(out, v),
         receiving' = receiving, OnlyTaken,
         \A r \in ChannelCommands : out[r] # outcome[r] =>
           r \in A /\ outcome[r] = "pending" /\ out[r] # "free",
         RequestsOf({"join"}) \cap A \cap Range(chanStateQ') = {}
  PROVE  LastInv'
<1> DEFINE R == A \cup PendingJoins
<1>1. EmptyMaps /\ outcome' = Answer(out, PendingJoins \cup replies, "disconnected")
  BY DEF SendDisconnected
<1>2. \A r \in ChannelCommands : r \notin replies
  BY DEF TypeOK, MapTypeOK, ChannelCommands, RequestsOf
<1>3. Answering(R)
  BY <1>1, <1>2, CommandAnswer DEF Answering
<1>4. \A c \in Channel : joins'[c] = NoRequest
  BY <1>1 DEF EmptyMaps
<1>5. PendingJoins \cap Range(chanStateQ') = {}
  BY OnlyTakenKeeps DEF PendingJoins, LastInv, CommandOrder
<1>6. \A r \in RequestsOf({"join"}) : r.chan \in Channel
  BY RequestChan DEF ChanKind
<1> QED
  BY <1>3, <1>4, <1>5, <1>6, AnsweringKeeps

LEMMA StateCommandLast ==
  ASSUME TypeOK, LastInv, Connect \/ Disconnect \/ Shutdown
  PROVE  LastInv'
<1>1. stateQ \in Seq(RequestsOf(StateKind)) /\ stateQ # <<>> /\ UNCHANGED <<chanStateQ, receiving>>
  BY DEF TypeOK, QueueTypeOK, Connect, Disconnect, Shutdown, TakeStateCommand, chanVars
<1>2. Head(stateQ) \notin ChannelCommands
  BY <1>1, QueueSteps DEF ChannelCommands, RequestsOf, StateKind
<1>3. \A o : \A r \in ChannelCommands : Answer(outcome, {Head(stateQ)}, o)[r] = outcome[r]
  BY <1>2, CommandAnswer
<1>4. CASE UNCHANGED joins /\ (outcome' = outcome \/ \E o : outcome' = Answer(outcome, {Head(stateQ)}, o))
  BY <1>1, <1>3, <1>4, QuietLast
<1>5. CASE \E v : SendDisconnected(Answer(outcome, {Head(stateQ)}, "ok"), v)
  <2>1. OnlyTaken
    BY <1>1 DEF OnlyTaken
  <2>2. PICK v : SendDisconnected(Answer(outcome, {Head(stateQ)}, "ok"), v)
    BY <1>5
  <2>3. \A r \in ChannelCommands : Answer(outcome, {Head(stateQ)}, "ok")[r] # outcome[r] =>
          /\ r \in {} /\ outcome[r] = "pending"
          /\ Answer(outcome, {Head(stateQ)}, "ok")[r] # "free"
    BY <1>3
  <2>4. RequestsOf({"join"}) \cap {} \cap Range(chanStateQ') = {}
    OBVIOUS
  <2> QED
    BY <1>1, <2>1, <2>2, <2>3, <2>4, DisconnectingKeeps
<1> QED
  BY <1>4, <1>5 DEF Connect, Disconnect, Shutdown, connVars

LEMMA ConnectionLast ==
  ASSUME TypeOK, LastInv,
         Reconnect \/ SocketConnectOk \/ SocketConnectError \/ Publish \/ SpawnChannel
  PROVE  LastInv'
<1>1. UNCHANGED <<chanStateQ, receiving>>
  BY DEF Reconnect, SocketConnectOk, SocketConnectError, Publish, SpawnChannel, queueVars, chanVars
<1>2. serving \notin ChannelCommands
  BY RequestAssumption DEF TypeOK, TaskTypeOK, ChannelCommands, RequestsOf
<1>3. \A o : \A r \in ChannelCommands : Answer(outcome, {serving}, o)[r] = outcome[r]
  BY <1>2, CommandAnswer
<1>4. \A r \in ChannelCommands : outcome'[r] = outcome[r]
  BY <1>3 DEF Reconnect, SocketConnectOk, SocketConnectError, Publish, SpawnChannel
<1>5. \A c \in Channel : joins'[c] \in {joins[c], NoRequest}
  BY DEF Reconnect, SocketConnectOk, SocketConnectError, Publish, SpawnChannel, EmptyMaps, connVars
<1> QED
  BY <1>1, <1>4, <1>5, QuietLast

LEMMA DropEverythingLast ==
  ASSUME TypeOK, LastInv, DropEverything
  PROVE  LastInv'
<1>1. Answering(Held)
  BY CommandAnswer DEF DropEverything, Answering, OnlyTaken
<1>2. \A c \in Channel : joins'[c] = NoRequest
  BY DEF DropEverything, EmptyMaps
<1>3. \A r \in RequestsOf({"join"}) : r.chan \in Channel
  BY RequestChan DEF ChanKind
<1>4. Range(chanStateQ') = {}
  BY EmptyElements DEF DropEverything
<1> QED
  BY <1>1, <1>2, <1>3, <1>4, AnsweringKeeps

(* A join that displaces one displaces none that a channel waits for.      *)
LEMMA DisplacedJoin ==
  ASSUME TypeOK, OwnChannel, LastInv, TakeChannelStateCommand("join"),
         NEW q \in ChannelCommands, Last(q), q.chan = Head(chanStateQ).chan
  PROVE  q \in Range(chanStateQ)
<1> DEFINE h == Head(chanStateQ)
<1>1. chanStateQ \in Seq(ChannelCommands) /\ chanStateQ # <<>>
  BY DEF TypeOK, QueueTypeOK, ChannelCommands, TakeChannelStateCommand
<1>2. h \in OfChannel(q.chan)
  BY <1>1, QueueSteps DEF OfChannel, ChannelCommands
<1>3. h = q \/ q \in Range(Tail(chanStateQ))
  BY <1>1, <1>2, TrailsTaken DEF LastInv, LastIsLast
<1> QED
  BY <1>1, <1>3, QueueElements

LEMMA NoneDisplaced ==
  ASSUME TypeOK, OwnChannel, LastInv, TakeChannelStateCommand("join"),
         NEW q \in ChannelCommands, outcome[q] = "pending"
  PROVE  q # joins[Head(chanStateQ).chan]
<1> SUFFICES ASSUME q = joins[Head(chanStateQ).chan] PROVE FALSE
  OBVIOUS
<1>1. Head(chanStateQ).chan \in Channel
  BY TakenCommand
<1>2. q # NoRequest /\ Last(q)
  BY RequestAssumption DEF ChannelCommands, RequestsOf, Last
<1>3. q.chan = Head(chanStateQ).chan
  BY <1>1, <1>2 DEF OwnChannel
<1>4. q \in Range(chanStateQ)
  BY <1>2, <1>3, DisplacedJoin
<1> QED
  BY <1>1, <1>4 DEF LastInv, CommandOrder

LEMMA StartJoinLast ==
  ASSUME TypeOK, OwnChannel, LastInv, StartJoin
  PROVE  LastInv'
<1> DEFINE r == Head(chanStateQ)
<1>1. /\ TakeChannelStateCommand("join")
      /\ chanStateQ \in Seq(ChannelCommands) /\ chanStateQ # <<>> /\ chanStateQ' = Tail(chanStateQ)
      /\ receiving' = receiving
  BY DEF TypeOK, QueueTypeOK, ChannelCommands, StartJoin, TakeChannelStateCommand, chanVars
<1>2. r \in RequestsOf({"join"}) /\ r.chan \in Channel /\ r \in ChannelCommands
  BY <1>1, TakenCommand DEF ChannelCommands, RequestsOf
<1>3. /\ r \notin Range(Tail(chanStateQ)) /\ IsInjective(Tail(chanStateQ))
      /\ Range(Tail(chanStateQ)) \subseteq Range(chanStateQ)
  BY <1>1, QueueApart, QueueElements DEF LastInv, CommandOrder
<1>4. OnlyTaken
  BY <1>1 DEF OnlyTaken
<1>5. CASE WaitToReconnectConnected(Answer(outcome, {r}, "dropped"))
  <2>1. SendDisconnected(Answer(outcome, {r}, "dropped"), "Reconnect")
    BY <1>5 DEF WaitToReconnectConnected
  <2>2. \A q \in ChannelCommands : Answer(outcome, {r}, "dropped")[q] # outcome[q] =>
          q \in {r} /\ outcome[q] = "pending" /\ Answer(outcome, {r}, "dropped")[q] # "free"
    BY CommandAnswer
  <2> QED
    BY <1>1, <1>3, <1>4, <2>1, <2>2, DisconnectingKeeps
<1>6. CASE /\ joins' = [joins EXCEPT ![r.chan] = r]
           /\ outcome' = Answer(outcome, {joins[r.chan]}, "dropped")
  <2>1. \A c \in Channel : joins'[c] = IF c = r.chan THEN r ELSE joins[c]
    BY <1>2, <1>6 DEF TypeOK, MapTypeOK
  <2>2. \A q \in ChannelCommands : outcome'[q] = outcome[q]
    BY <1>1, <1>6, CommandAnswer, NoneDisplaced
  <2>3. \A q \in ChannelCommands : Last(q)' <=> Last(q)
    BY <1>1, <2>2 DEF Last
  <2>4. CommandOrder'
    BY <1>1, <1>3, <2>1 DEF LastInv, CommandOrder
  <2>5. AnsweredOnce'
    <3> SUFFICES ASSUME NEW q \in RequestsOf({"join"}), Last(q), outcome[q] # "pending"
                 PROVE  joins'[q.chan] = NoRequest /\ q \notin Range(chanStateQ')
      <4>1. RequestsOf({"join"}) \subseteq ChannelCommands
        BY DEF ChannelCommands, RequestsOf
      <4> QED
        BY <2>2, <2>3, <4>1 DEF AnsweredOnce
    <3>1. q \in ChannelCommands /\ q.chan \in Channel
      BY RequestChan DEF ChannelCommands, RequestsOf, ChanKind
    <3>2. joins[q.chan] = NoRequest /\ q \notin Range(chanStateQ)
      BY DEF LastInv, AnsweredOnce
    <3>3. q.chan # r.chan
      BY <1>1, <3>1, <3>2, DisplacedJoin
    <3> QED
      BY <1>1, <1>3, <2>1, <3>1, <3>2, <3>3
  <2>6. LastIsLast' /\ \A q, s \in ChannelCommands : Last(q)' /\ Last(s)' /\ q.chan = s.chan => q = s
    BY <1>4, <2>3, LastKept
  <2>7. \A c \in Channel : receiving'[c] # NoRequest =>
          receiving'[c].chan = c /\ outcome'[receiving'[c]] = "free"
    <3>1. \A c \in Channel : receiving[c] # NoRequest => receiving[c] \in ChannelCommands
      BY DEF TypeOK, SharedTypeOK, ChannelCommands, RequestsOf
    <3> QED
      BY <1>1, <2>2, <3>1 DEF LastInv, OneLast
  <2> QED
    BY <2>4, <2>5, <2>6, <2>7 DEF LastInv, OneLast
<1> QED
  BY <1>5, <1>6 DEF StartJoin

LEMMA LeaveLast ==
  ASSUME TypeOK, LastInv, Leave
  PROVE  LastInv'
<1> DEFINE r == Head(chanStateQ)
<1>1. /\ chanStateQ # <<>> /\ chanStateQ' = Tail(chanStateQ) /\ receiving' = receiving /\ OnlyTaken
      /\ r \in RequestsOf({"leave"})
  BY TakenCommand DEF Leave, TakeChannelStateCommand, chanVars, OnlyTaken
<1>2. \A o : \A q \in ChannelCommands :
        Answer(outcome, {r}, o)[q] # outcome[q] => q \in {r} /\ outcome[q] = "pending"
          /\ Answer(outcome, {r}, o)[q] = o
  BY CommandAnswer
<1>3. RequestsOf({"join"}) \cap {r} = {}
  BY <1>1 DEF RequestsOf
<1>4. CASE UNCHANGED joins /\ outcome' = Answer(outcome, {r}, "ok")
  <2>1. Answering({r})
    BY <1>1, <1>2, <1>4 DEF Answering
  <2> QED
    BY <1>3, <1>4, <2>1, AnsweringKeeps
<1>5. CASE WaitToReconnectConnected(Answer(outcome, {r}, "error"))
  <2>1. SendDisconnected(Answer(outcome, {r}, "error"), "Reconnect")
    BY <1>5 DEF WaitToReconnectConnected
  <2>2. \A q \in ChannelCommands : Answer(outcome, {r}, "error")[q] # outcome[q] =>
          q \in {r} /\ outcome[q] = "pending" /\ Answer(outcome, {r}, "error")[q] # "free"
    BY <1>2
  <2> QED
    BY <1>1, <1>3, <2>1, <2>2, DisconnectingKeeps
<1> QED
  BY <1>4, <1>5 DEF Leave

LEMMA LossLast ==
  ASSUME TypeOK, LastInv, NEW out, WaitToReconnectConnected(out), UNCHANGED <<chanStateQ, receiving>>,
         \A r \in ChannelCommands : out[r] = outcome[r]
  PROVE  LastInv'
<1>1. SendDisconnected(out, "Reconnect") /\ OnlyTaken
  BY DEF WaitToReconnectConnected, OnlyTaken
<1>2. \A r \in ChannelCommands : out[r] # outcome[r] =>
        r \in {} /\ outcome[r] = "pending" /\ out[r] # "free"
  OBVIOUS
<1>3. RequestsOf({"join"}) \cap {} \cap Range(chanStateQ') = {}
  OBVIOUS
<1> QED
  BY <1>1, <1>2, <1>3, DisconnectingKeeps

LEMMA SendCommandLast ==
  ASSUME TypeOK, LastInv, Call \/ Cast
  PROVE  LastInv'
<1> DEFINE r == Head(sendQ)
<1>1. UNCHANGED <<chanStateQ, receiving>>
  BY DEF Call, Cast, TakeSendCommand, chanVars
<1>2. r \notin ChannelCommands
  BY DEF Call, Cast, TakeSendCommand, ChannelCommands, RequestsOf
<1>3. \A o : \A q \in ChannelCommands : Answer(outcome, {r}, o)[q] = outcome[q]
  BY <1>2, CommandAnswer
<1>4. CASE \E o : WaitToReconnectConnected(Answer(outcome, {r}, o))
  <2>1. PICK o : WaitToReconnectConnected(Answer(outcome, {r}, o))
    BY <1>4
  <2> QED
    BY <1>1, <1>3, <2>1, LossLast
<1>5. CASE UNCHANGED joins /\ (outcome' = outcome \/ outcome' = Answer(outcome, {r}, "ok"))
  BY <1>1, <1>3, <1>5, QuietLast
<1> QED
  BY <1>4, <1>5 DEF Call, Cast

(* The join that is answered, or that runs out of time, is no longer joins'.*)
LEMMA EndedJoinLast ==
  ASSUME TypeOK, OwnChannel, LastInv, NEW c \in Channel, NEW o \in Answers,
         joins' = [joins EXCEPT ![c] = NoRequest], outcome' = Answer(outcome, {joins[c]}, o),
         UNCHANGED <<chanStateQ, receiving>>
  PROVE  LastInv'
<1>1. \A d \in Channel : joins'[d] = IF d = c THEN NoRequest ELSE joins[d]
  BY DEF TypeOK, MapTypeOK
<1>2. Answering({joins[c]})
  BY CommandAnswer DEF Answering, OnlyTaken, Answers
<1>3. \A r \in RequestsOf({"join"}) \cap {joins[c]} :
        joins'[r.chan] = NoRequest /\ r \notin Range(chanStateQ')
  BY <1>1, RequestAssumption DEF OwnChannel, RequestsOf, LastInv, CommandOrder
<1> QED
  BY <1>1, <1>2, <1>3, AnsweringKeeps

LEMMA JoinTimedOutLast ==
  ASSUME TypeOK, OwnChannel, LastInv, NEW r \in Request, JoinTimedOut(r)
  PROVE  LastInv'
<1>1. r.chan \in Channel
  <2>1. r \in RequestsOf({"join"})
    BY DEF JoinTimedOut, TypeOK, MapTypeOK
  <2> QED
    BY <2>1, RequestChan DEF ChanKind
<1>2. UNCHANGED <<chanStateQ, receiving>> /\ "timeout" \in Answers
  BY DEF JoinTimedOut, queueVars, chanVars, Answers
<1> QED
  BY <1>1, <1>2, EndedJoinLast DEF JoinTimedOut

LEMMA ReplyLast ==
  ASSUME TypeOK, OwnChannel, LastInv, NEW c \in Channel, NEW f \in Request, Reply(c, f)
  PROVE  LastInv'
<1>1. UNCHANGED <<chanStateQ, receiving>> /\ {"ok", "rejected"} \subseteq Answers
  BY DEF Reply, queueVars, chanVars, Answers
<1>2. PICK s \in {"ok", "rejected"} : HandleReply(c, f, s)
  BY DEF Reply
<1>3. CASE FinishJoin(c, s)
  BY <1>1, <1>3, EndedJoinLast DEF FinishJoin
<1>4. CASE UNCHANGED joins /\ outcome' = Answer(outcome, {f} \cap replies, s)
  <2>1. \A r \in ChannelCommands : r \notin replies
    BY DEF TypeOK, MapTypeOK, ChannelCommands, RequestsOf
  <2>2. \A r \in ChannelCommands : outcome'[r] = outcome[r]
    BY <1>4, <2>1, CommandAnswer
  <2> QED
    BY <1>1, <1>4, <2>2, QuietLast
<1> QED
  BY <1>2, <1>3, <1>4 DEF HandleReply

LEMMA SubmittedLast ==
  ASSUME TypeOK, LastInv, NEW r \in ChannelCommands, Fresh(r),
         chanStateQ' = Append(chanStateQ, r), UNCHANGED joins,
         outcome' = [Release(outcome, OfChannel(r.chan)) EXCEPT ![r] = "pending"],
         receiving'[r.chan] = NoRequest,
         \A c \in Channel : c # r.chan => receiving'[c] = receiving[c]
  PROVE  LastInv'
<1>0. chanStateQ \in Seq(ChannelCommands) /\ outcome \in [Request -> Outcome]
  BY DEF TypeOK, QueueTypeOK, SharedTypeOK, ChannelCommands
<1>1. /\ r \in Request /\ r \notin Range(chanStateQ) /\ \A c \in Channel : joins[c] # r
      /\ r # NoRequest
  BY RequestAssumption DEF ChannelCommands, RequestsOf, Fresh, Held, QueuedRequests, PendingJoins
<1>2. \A q \in ChannelCommands : q.chan \in Channel /\ q # NoRequest /\ q \in OfChannel(q.chan)
  BY RequestChan, RequestAssumption DEF ChannelCommands, RequestsOf, ChanKind, OfChannel
<1>3. /\ IsInjective(chanStateQ') /\ Range(chanStateQ') = Range(chanStateQ) \cup {r}
  BY <1>0, <1>1, QueueApart, QueueElements DEF LastInv, CommandOrder
<1>4. \A q \in ChannelCommands :
        /\ q.chan = r.chan => (Last(q)' <=> q = r)
        /\ q.chan # r.chan => (Last(q)' <=> Last(q)) /\ outcome'[q] = outcome[q]
        /\ outcome'[r] = "pending"
  BY <1>0, <1>1, <1>2 DEF Last, Release, ChannelCommands, RequestsOf, OfChannel
<1>5. CommandOrder'
  BY <1>1, <1>3 DEF LastInv, CommandOrder
<1>6. \A q, s \in ChannelCommands : Last(q)' /\ Last(s)' /\ q.chan = s.chan => q = s
  BY <1>4 DEF LastInv, OneLast
<1>7. \A c \in Channel : receiving'[c] # NoRequest =>
        receiving'[c].chan = c /\ outcome'[receiving'[c]] = "free"
  <2>1. \A c \in Channel : receiving[c] # NoRequest => receiving[c] \in ChannelCommands
    BY DEF TypeOK, SharedTypeOK, ChannelCommands, RequestsOf
  <2> QED
    BY <1>4, <2>1 DEF LastInv, OneLast
<1>8. LastIsLast'
  <2>1. Trails(r, chanStateQ', OfChannel(r.chan))
    BY <1>0, TrailsAppended
  <2>2. ASSUME NEW q \in ChannelCommands, q.chan # r.chan, Last(q)
        PROVE  Trails(q, chanStateQ', OfChannel(q.chan))
    <3>1. r \notin OfChannel(q.chan)
      BY <2>2 DEF OfChannel
    <3>2. Trails(q, chanStateQ, OfChannel(q.chan))
      BY <2>2 DEF LastInv, LastIsLast
    <3> QED
      BY <1>0, <3>1, <3>2, TrailsAppended
  <2>3. \A c : OfChannel(c)' = OfChannel(c)
    BY DEF OfChannel, RequestsOf
  <2> QED
    BY <1>4, <2>1, <2>2, <2>3 DEF LastIsLast
<1>9. AnsweredOnce'
  <2>1. RequestsOf({"join"}) \subseteq ChannelCommands
    BY DEF RequestsOf, ChannelCommands
  <2> QED
    BY <1>2, <1>3, <1>4, <2>1 DEF LastInv, AnsweredOnce
<1> QED
  BY <1>5, <1>6, <1>7, <1>8, <1>9 DEF LastInv, OneLast

LEMMA SubmitLast ==
  ASSUME TypeOK, LastInv, NEW r \in Request, SubmitJoin(r) \/ SubmitLeave(r)
  PROVE  LastInv'
<1>1. r \in ChannelCommands /\ r.chan \in Channel
  <2>1. r \in ChannelCommands
    BY DEF SubmitJoin, SubmitLeave, ChannelCommands, RequestsOf
  <2> QED
    BY <2>1, RequestChan DEF ChannelCommands, ChanKind, RequestsOf
<1>2. /\ Fresh(r) /\ chanStateQ' = Append(chanStateQ, r) /\ UNCHANGED joins
      /\ outcome' = [Release(outcome, OfChannel(r.chan)) EXCEPT ![r] = "pending"]
  BY DEF SubmitJoin, SubmitLeave, socketVars, connVars
<1>3. receiving'[r.chan] = NoRequest /\ \A c \in Channel : c # r.chan => receiving'[c] = receiving[c]
  BY <1>1 DEF SubmitJoin, SubmitLeave, Idle, DropReceivers, chanVars, TypeOK, SharedTypeOK
<1> QED
  BY <1>1, <1>2, <1>3, SubmittedLast

LEMMA TakeAnswerLast ==
  ASSUME TypeOK, LastInv, NEW r \in Request, TakeAnswer(r)
  PROVE  LastInv'
<1>1. /\ outcome[r] \in Answers /\ outcome[r] # "pending" /\ outcome[r] # "free"
      /\ \A q \in Request : outcome'[q] = IF q = r THEN "free" ELSE outcome[q]
      /\ UNCHANGED <<joins, chanStateQ>> /\ OnlyTaken
  BY DEF TakeAnswer, TypeOK, SharedTypeOK, Answers, socketVars, connVars, queueVars, OnlyTaken
<1>2. r.kind = "join" => r \in RequestsOf({"join"}) /\ r.chan \in Channel
  BY RequestChan DEF RequestsOf, ChanKind
<1>3. /\ \A c \in Channel : \/ receiving'[c] = receiving[c]
                            \/ receiving'[c] = r /\ c = r.chan /\ r \in ChannelCommands
  BY <1>2 DEF TakeAnswer, TypeOK, SharedTypeOK, ChannelCommands, RequestsOf
<1>4. \A q \in ChannelCommands : q.chan \in Channel /\ q \in Request
  BY RequestChan DEF ChannelCommands, RequestsOf, ChanKind
<1>5. \A q \in ChannelCommands : Last(q)' => Last(q)
  BY <1>1, <1>3, <1>4 DEF Last
<1>6. \A q \in RequestsOf({"join"}) : Last(q)' /\ outcome'[q] # "pending" => outcome[q] # "pending"
  BY <1>1 DEF RequestsOf
<1>7. \A c \in Channel : receiving'[c] # NoRequest =>
        receiving'[c].chan = c /\ outcome'[receiving'[c]] = "free"
  <2>1. \A c \in Channel : receiving[c] # NoRequest => receiving[c] \in Request
    BY DEF TypeOK, SharedTypeOK, RequestsOf
  <2> QED
    BY <1>1, <1>3, <2>1 DEF LastInv, OneLast
<1>8. CommandOrder' /\ LastIsLast' /\ AnsweredOnce'
  BY <1>1, <1>5, <1>6, LastKeptWithJoins
<1>9. \A q, s \in ChannelCommands : Last(q)' /\ Last(s)' /\ q.chan = s.chan => q = s
  BY <1>1, <1>5, LastKept
<1> QED
  BY <1>7, <1>8, <1>9 DEF LastInv, OneLast

(* A channel forgets its last join or leave.                               *)
LEMMA ReleasedLast ==
  ASSUME TypeOK, LastInv, NEW c \in Channel, Forgo(c) \/ ReadConnectivity(c)
  PROVE  LastInv'
<1>0. UNCHANGED <<joins, chanStateQ>> /\ OnlyTaken
  BY DEF Forgo, ReadConnectivity, socketVars, connVars, queueVars, OnlyTaken
<1>1. CASE UNCHANGED <<outcome, receiving>>
  BY <1>0, <1>1, QuietLast
<1>2. CASE outcome' = Release(outcome, OfChannel(c)) /\ DropReceivers(c)
  <2>1. /\ \A q \in Request : outcome'[q] = IF q \in OfChannel(c) THEN "free" ELSE outcome[q]
        /\ \A d \in Channel : receiving'[d] = IF d = c THEN NoRequest ELSE receiving[d]
    BY <1>2 DEF Release, DropReceivers, TypeOK, SharedTypeOK
  <2>2. \A q \in ChannelCommands : /\ q.chan \in Channel /\ q \in Request /\ q # NoRequest
                                   /\ q \in OfChannel(c) <=> q.chan = c
    BY RequestChan, RequestAssumption DEF ChannelCommands, RequestsOf, ChanKind, OfChannel
  <2>3. \A q \in ChannelCommands : Last(q)' => Last(q) /\ outcome'[q] = outcome[q]
    BY <2>1, <2>2 DEF Last
  <2>4. \A d \in Channel : receiving'[d] # NoRequest =>
          receiving'[d].chan = d /\ outcome'[receiving'[d]] = "free"
    <3>1. \A d \in Channel : receiving[d] # NoRequest => receiving[d] \in Request
      BY DEF TypeOK, SharedTypeOK, RequestsOf
    <3> QED
      BY <2>1, <3>1 DEF LastInv, OneLast
  <2>5. CommandOrder' /\ LastIsLast' /\ AnsweredOnce'
    <3>1. RequestsOf({"join"}) \subseteq ChannelCommands
      BY DEF RequestsOf, ChannelCommands
    <3> QED
      BY <1>0, <2>3, <3>1, LastKeptWithJoins
  <2>6. \A q, s \in ChannelCommands : Last(q)' /\ Last(s)' /\ q.chan = s.chan => q = s
    BY <1>0, <2>3, LastKept
  <2> QED
    BY <2>4, <2>5, <2>6 DEF LastInv, OneLast
<1> QED
  BY <1>1, <1>2 DEF Forgo, ReadConnectivity

LEMMA LastStep ==
  ASSUME TypeOK, OwnChannel, LastInv, [Next]_vars
  PROVE  LastInv'
<1>1. CASE Exit \/ Dropped \/ FatalSocketError
  BY <1>1, DropEverythingLast DEF Exit, Dropped, ShutDown, FatalSocketError
<1>2. CASE \/ PushUnblocked \/ HeartbeatReply
           \/ \E c \in Channel : \/ \E r \in Request : NoReply(c, r)
                                 \/ \E m \in PushKind : HandlePush(c, m)
  <2>1. UNCHANGED <<chanStateQ, receiving, outcome, joins>>
    BY <1>2 DEF PushUnblocked, HeartbeatReply, NoReply, HandlePush, queueVars, chanVars, connVars
  <2> QED
    BY <2>1, QuietLast
<1>3. CASE ConnectionLost \/ Written
  <2>1. UNCHANGED <<chanStateQ, receiving>>
    BY <1>3 DEF ConnectionLost, Written, queueVars, chanVars
  <2>2. CASE WaitToReconnectConnected(outcome)
    BY <2>1, <2>2, LossLast
  <2>3. CASE UNCHANGED <<outcome, joins>>
    BY <2>1, <2>3, QuietLast
  <2> QED
    BY <1>3, <2>2, <2>3 DEF ConnectionLost, Written
<1>4. CASE \E r \in Request : SubmitState(r) \/ SubmitSend(r) \/ GiveUp(r)
  <2>1. PICK r \in Request : SubmitState(r) \/ SubmitSend(r) \/ GiveUp(r)
    BY <1>4
  <2>2. UNCHANGED <<chanStateQ, receiving, joins>>
    BY <2>1 DEF SubmitState, SubmitSend, GiveUp, queueVars, chanVars, socketVars, connVars
  <2>3. r \notin ChannelCommands
    BY <2>1 DEF SubmitState, SubmitSend, GiveUp, ChannelCommands, RequestsOf, StateKind
  <2>4. \A q \in ChannelCommands : outcome'[q] = outcome[q]
    BY <2>1, <2>3 DEF SubmitState, SubmitSend, GiveUp, TypeOK, SharedTypeOK, ChannelCommands, RequestsOf
  <2> QED
    BY <2>2, <2>4, QuietLast
<1>5. CASE \E c \in Channel : RequestChannel(c) \/ ReceivePush(c)
  <2>1. UNCHANGED <<chanStateQ, receiving, outcome, joins>>
    BY <1>5 DEF RequestChannel, ReceivePush, queueVars, chanVars, socketVars, connVars
  <2> QED
    BY <2>1, QuietLast
<1>6. CASE UNCHANGED vars
  BY <1>6, QuietLast DEF vars, queueVars, chanVars, connVars
<1>7. CASE Waits
  BY <1>7, WaitsKeep, QuietLast
<1> QED
  BY <1>1, <1>2, <1>3, <1>4, <1>5, <1>6, <1>7, StateCommandLast, ConnectionLast, StartJoinLast,
     LeaveLast, SendCommandLast, JoinTimedOutLast, ReplyLast, SubmitLast, TakeAnswerLast, ReleasedLast
  DEF Next, Listener, Network, Clients, Waits

LEMMA OrderInit == Init => SpawnOrder /\ SendOrder /\ LastInv
<1> SUFFICES ASSUME Init PROVE SpawnOrder /\ SendOrder /\ LastInv
  OBVIOUS
<1>1. SpawnOrder /\ SendOrder /\ CommandOrder
  BY EmptyInjective, EmptyElements DEF Init, SpawnOrder, SendOrder, CommandOrder
<1>2. \A r \in ChannelCommands : ~Last(r) /\ r \in Request
  BY RequestChan, RequestAssumption DEF Init, Last, ChannelCommands, RequestsOf, ChanKind
<1>3. RequestsOf({"join"}) \subseteq ChannelCommands
  BY DEF RequestsOf, ChannelCommands
<1>4. OneLast /\ LastIsLast /\ AnsweredOnce
  BY <1>2, <1>3 DEF Init, OneLast, LastIsLast, AnsweredOnce
<1> QED
  BY <1>1, <1>4 DEF LastInv

(* The socket does last for a channel what the channel asked last: behind  *)
(* the join or leave a channel waits for, or has the receivers of, its     *)
(* queue holds nothing of that channel, whatever was given up before.      *)
THEOREM LastCommandIsLast == Spec => [](OneLast /\ LastIsLast)
<1>1. TypeOK /\ OwnChannel /\ JoinsHaveDeadlines /\ LastInv /\ [Next]_vars
        => (OwnChannel /\ JoinsHaveDeadlines /\ LastInv)'
  BY OwnChannelStep, LastStep
<1>2. Init => OwnChannel /\ JoinsHaveDeadlines /\ LastInv
  BY OwnChannelInit, OrderInit
<1>3. LastInv => OneLast /\ LastIsLast
  BY DEF LastInv
<1> QED
  BY <1>1, <1>2, <1>3, TypeCorrect, PTL DEF Spec

-----------------------------------------------------------------------------
(***************************************************************************)
(* Whoever waits for a frame that was sent is told.                        *)
(***************************************************************************)
DroppedNow(r) == outcome[r] = "pending" /\ outcome'[r] = "dropped"

LEMMA DroppedAsUnsent ==
  ASSUME TypeOK, OwnChannel, LastInv, Next, NEW r \in RequestsOf({"join", "call"}), DroppedNow(r)
  PROVE  pc' = "exited" \/ (pc = "writing_state" /\ Head(chanStateQ) = r)
<1> USE DEF DroppedNow, Answer
<1>0. r \in Request /\ r.kind \in {"join", "call"} /\ outcome \in [Request -> Outcome]
  BY DEF RequestsOf, TypeOK, SharedTypeOK
<1>1. CASE Connect \/ Disconnect \/ Shutdown
  BY <1>0, <1>1 DEF Connect, Disconnect, Shutdown, SendDisconnected
<1>2. CASE Reconnect \/ SocketConnectOk \/ SocketConnectError \/ Publish
  BY <1>0, <1>2 DEF Reconnect, SocketConnectOk, SocketConnectError, ConnectErrors, Publish
<1>3. CASE Exit \/ Dropped \/ FatalSocketError
  BY <1>3 DEF Exit, Dropped, FatalSocketError, ShutDown, DropEverything
<1>4. CASE StartJoin
  <2>1. TakeChannelStateCommand("join")
    BY <1>4 DEF StartJoin
  <2>2. CASE WaitToReconnectConnected(Answer(outcome, {Head(chanStateQ)}, "dropped"))
    BY <1>0, <2>1, <2>2 DEF TakeChannelStateCommand, Resumed, WaitToReconnectConnected, SendDisconnected
  <2>3. CASE outcome' = Answer(outcome, {joins[Head(chanStateQ).chan]}, "dropped")
    <3>1. r = joins[Head(chanStateQ).chan]
      BY <1>0, <2>3
    <3>2. r \in RequestsOf({"join"})
      BY <1>0, <2>1, <3>1, TakenCommand, RequestAssumption DEF TypeOK, MapTypeOK
    <3>3. r \in ChannelCommands
      BY <3>2 DEF ChannelCommands, RequestsOf
    <3> QED
      BY <2>1, <3>1, <3>3, NoneDisplaced
  <2> QED
    BY <1>4, <2>2, <2>3 DEF StartJoin
<1>5. CASE Leave \/ Call
  BY <1>0, <1>5 DEF Leave, Call, WaitToReconnectConnected, SendDisconnected
<1>6. CASE Cast
  <2>1. Head(sendQ).kind = "cast"
    BY <1>6 DEF Cast, TakeSendCommand
  <2> QED
    BY <1>0, <1>6, <2>1 DEF Cast, WaitToReconnectConnected, SendDisconnected
<1>7. CASE SpawnChannel \/ PushUnblocked \/ Written \/ \E t \in Request : JoinTimedOut(t)
  BY <1>0, <1>7 DEF SpawnChannel, PushUnblocked, Written, JoinTimedOut, WaitToReconnectConnected,
    SendDisconnected
<1>8. CASE \E c \in Channel, f \in Request : Reply(c, f)
  BY <1>0, <1>8 DEF Reply, HandleReply, FinishJoin
<1>9. CASE Network /\ ~FatalSocketError /\ ~\E c \in Channel, f \in Request : Reply(c, f)
  BY <1>0, <1>9 DEF Network, NoReply, HandlePush, ConnectionLost, HeartbeatReply,
    WaitToReconnectConnected, SendDisconnected
<1>10. CASE Clients
  BY <1>0, <1>10 DEF Clients, SubmitState, SubmitJoin, SubmitLeave, SubmitSend, TakeAnswer,
    GiveUp, RequestChannel, Forgo, ReceivePush, ReadConnectivity, Release
<1>11. CASE Waits
  BY <1>11, WaitsKeep
<1> QED
  BY <1>1, <1>2, <1>3, <1>4, <1>5, <1>6, <1>7, <1>8, <1>9, <1>10, <1>11
  DEF Next, Listener, Waits

(* Whoever waits for the answer to a join or call is told how it ended, or *)
(* that the connection did: while it runs the task drops no oneshot of     *)
(* theirs but that of a join whose frame it could not send.                *)
THEOREM WaitersAreTold == Spec => SentAreTold
<1>1. TypeOK /\ OwnChannel /\ LastInv /\ [Next]_vars =>
        [\A r \in RequestsOf({"join", "call"}) :
           outcome[r] = "pending" /\ outcome'[r] = "dropped" =>
             pc' = "exited" \/ (pc = "writing_state" /\ Head(chanStateQ) = r)]_vars
  BY DroppedAsUnsent DEF DroppedNow
<1>2. TypeOK /\ OwnChannel /\ JoinsHaveDeadlines /\ LastInv /\ [Next]_vars
        => (OwnChannel /\ JoinsHaveDeadlines /\ LastInv)'
  BY OwnChannelStep, LastStep
<1>3. Init => OwnChannel /\ JoinsHaveDeadlines /\ LastInv
  BY OwnChannelInit, OrderInit
<1> QED
  BY <1>1, <1>2, <1>3, TypeCorrect, PTL DEF Spec, SentAreTold

-----------------------------------------------------------------------------
(***************************************************************************)
(* The inductive invariant of the socket, for the client it is part of.    *)
(***************************************************************************)
SocketInv ==
  /\ TypeOK /\ BlockedWhilePushing /\ RegistrationsScoped /\ ServingWhileConnecting
  /\ NoWaiterLost /\ OwnChannel /\ JoinsHaveDeadlines /\ ConnectivityFollows
  /\ SpawnOrder /\ SendOrder /\ LastInv

LEMMA SocketInvInit == Init => SocketInv
<1>1. Init => /\ BlockedWhilePushing /\ RegistrationsScoped /\ ServingWhileConnecting
              /\ NoWaiterLost
  BY DEF Init, BlockedWhilePushing, RegistrationsScoped, ServingWhileConnecting, NoWaiterLost
<1> QED
  BY <1>1, InitType, OwnChannelInit, ConnectivityInit, OrderInit DEF SocketInv

LEMMA SocketInvStep == SocketInv /\ [Next]_vars => SocketInv'
<1> SUFFICES ASSUME SocketInv, [Next]_vars PROVE SocketInv'
  OBVIOUS
<1> USE DEF SocketInv
<1>1. TypeOK' /\ BlockedWhilePushing'
  BY TypeStep, BlockedStep
<1>2. RegistrationsScoped' /\ ServingWhileConnecting' /\ ConnectivityFollows'
  BY ScopedStep, ConnectivityStep
<1>3. NoWaiterLost'
  BY WaiterStep
<1>4. OwnChannel' /\ JoinsHaveDeadlines'
  BY OwnChannelStep
<1>5. SpawnOrder' /\ SendOrder' /\ LastInv'
  BY SpawnOrderStep, SendOrderStep, LastStep
<1> QED
  BY <1>1, <1>2, <1>3, <1>4, <1>5
-----------------------------------------------------------------------------
(***************************************************************************)
(* What the socket's own steps do to its channels, as far as they may not  *)
(* yet have read it.                                                       *)
(***************************************************************************)
(* What a channel is told of the state of the socket stays true, or it has *)
(* news to read.                                                           *)
LEMMA SpawnedHearOfLoss ==
  ASSUME SocketInv, Listener \/ Network, NEW c \in Channel, Spawned(c),
         unread'[c] = 0, pc' # "exited"
  PROVE  unread[c] = 0 /\ pc # "exited" /\ (state = "Connected" => state' = "Connected")
<1> USE DEF castVars, backVars
<1>1. \A v : ~Broadcast(v)
  BY DEF Broadcast, Spawned, SmallerOf, SocketInv, TypeOK, SharedTypeOK
<1>2. ~SocketConnectOk /\ ~ConnectionLost
  BY <1>1 DEF SocketConnectOk, ConnectionLost, WaitToReconnectConnected, SendDisconnected
<1>3. ~Exit /\ ~Dropped /\ ~FatalSocketError
  BY DEF Exit, Dropped, FatalSocketError, ShutDown, DropEverything
<1>4. CASE Connect \/ Disconnect \/ Shutdown \/ Written
  BY <1>1, <1>4 DEF Connect, Disconnect, Shutdown, TakeStateCommand, Polling, AtSelect, Written,
    Resumed, WaitToReconnectConnected, SendDisconnected
<1>5. CASE SocketConnectError
  BY <1>5 DEF SocketConnectError, SocketInv, ConnectivityFollows
<1>6. CASE SpawnChannel
  <2>1. Head(spawnQ) \in Range(spawnQ) /\ Head(spawnQ) # c
    BY <1>6, QueueElements DEF SpawnChannel, SocketInv, TypeOK, QueueTypeOK, SpawnOrder, Spawned, Unspawned
  <2> QED
    BY <1>6, <2>1 DEF SpawnChannel, Polling, AtSelect, SocketInv, TypeOK, SharedTypeOK
<1>7. CASE StartJoin \/ Leave \/ Call \/ Cast
  BY <1>1, <1>7 DEF StartJoin, Leave, Call, Cast, TakeChannelStateCommand, TakeSendCommand,
    Resumed, WaitToReconnectConnected, SendDisconnected
<1>8. CASE Reconnect \/ Publish \/ PushUnblocked \/ HeartbeatReply \/ \E r \in Request : JoinTimedOut(r)
  BY <1>8 DEF Reconnect, AtSelect, Publish, PushUnblocked, HeartbeatReply, Online, JoinTimedOut
<1>9. CASE \E d \in Channel : \/ \E r \in Request : Reply(d, r) \/ NoReply(d, r)
                             \/ \E m \in PushKind : HandlePush(d, m)
  <2>1. PICK d \in Channel : \/ \E r \in Request : Reply(d, r) \/ NoReply(d, r)
                            \/ \E m \in PushKind : HandlePush(d, m)
    BY <1>9
  <2>2. UNCHANGED <<state, unread>> /\ (pc # "exited" \/ UNCHANGED pc)
    BY <2>1 DEF Reply, NoReply, HandlePush, Online, AtSelect
  <2> QED
    BY <2>2
<1>10. CASE Waits
  BY <1>10, WaitsKeep
<1> QED
  BY <1>2, <1>3, <1>4, <1>5, <1>6, <1>7, <1>8, <1>9, <1>10 DEF Listener, Network, Waits

(* A join that the socket has answered with its receivers, and that their  *)
(* channel may still have, stays registered or the channel has news.       *)
Answered(r) == outcome[r] = "ok" \/ receiving[r.chan] = r

LEMMA AnsweredStaysRegistered ==
  ASSUME SocketInv, Listener \/ Network, NEW r \in RequestsOf({"join"}), Spawned(r.chan), Answered(r)',
         unread'[r.chan] = 0, pc' # "exited"
  PROVE  /\ unread[r.chan] = 0 /\ pc # "exited"
         /\ (Answered(r) => joined[r.chan] = r) => joined'[r.chan] = r
<1> DEFINE c == r.chan
<1>0. c \in Channel /\ r \in Request /\ r.kind = "join" /\ r \in ChannelCommands
  BY RequestChan DEF RequestsOf, ChannelCommands, ChanKind
<1>1. /\ unread[c] = 0 /\ pc # "exited"
      /\ Answered(r) => Last(r) /\ outcome[r] # "pending"
  <2>1. r # NoRequest
    BY <1>0, RequestAssumption
  <2> QED
    BY <1>0, <2>1, SpawnedHearOfLoss DEF Answered, Last, SocketInv, LastInv, OneLast
<1>2. SUFFICES ASSUME Answered(r) => joined[c] = r PROVE joined'[c] = r
  BY <1>1
<1>3. \A v : ~Broadcast(v)
  BY <1>0 DEF Broadcast, Spawned, SmallerOf, SocketInv, TypeOK, SharedTypeOK
<1>4. ~SocketConnectOk /\ ~ConnectionLost
  BY <1>3 DEF SocketConnectOk, ConnectionLost, WaitToReconnectConnected, SendDisconnected
<1>5. ~Exit /\ ~Dropped /\ ~FatalSocketError
  BY DEF Exit, Dropped, FatalSocketError, ShutDown, DropEverything
<1>6. ASSUME NEW R, NEW o, outcome' = Answer(outcome, R, o), o # "ok" \/ r \notin R
      PROVE  outcome'[r] = "ok" => outcome[r] = "ok"
  BY <1>0, <1>6 DEF Answer
<1>7. ASSUME UNCHANGED <<joined, receiving>>, outcome'[r] = "ok" => outcome[r] = "ok"
      PROVE  joined'[c] = r
  BY <1>2, <1>7 DEF Answered
<1> USE DEF chanVars, connVars
<1>8. CASE Connect \/ Disconnect \/ Shutdown
  <2>1. UNCHANGED <<joined, receiving>>
    BY <1>3, <1>8 DEF Connect, Disconnect, Shutdown, TakeStateCommand, SendDisconnected
  <2>2. Head(stateQ).kind # "join"
    BY <1>8 DEF Connect, Disconnect, Shutdown, TakeStateCommand
  <2>3. outcome' = outcome \/ \E o : outcome' = Answer(outcome, {Head(stateQ)}, o)
    BY <1>3, <1>8 DEF Connect, Disconnect, Shutdown, SendDisconnected
  <2> QED
    BY <1>0, <1>6, <1>7, <2>1, <2>2, <2>3
<1>9. CASE SocketConnectError
  <2>1. PICK o \in ConnectErrors : outcome' = Answer(outcome, {serving}, o)
    BY <1>9 DEF SocketConnectError
  <2> QED
    BY <1>6, <1>7, <1>9, <2>1 DEF SocketConnectError, ConnectErrors
<1>10. CASE \/ SpawnChannel \/ Reconnect \/ Publish \/ PushUnblocked \/ HeartbeatReply \/ Written
            \/ Waits
            \/ \E d \in Channel : \/ \E q \in Request : NoReply(d, q)
                                  \/ \E m \in PushKind : HandlePush(d, m)
  <2>1. UNCHANGED <<joined, receiving, outcome>>
    BY <1>3, <1>10, WaitsKeep DEF SpawnChannel, Reconnect, Publish, PushUnblocked, HeartbeatReply,
      Written, WaitToReconnectConnected, SendDisconnected, NoReply, HandlePush
  <2> QED
    BY <1>7, <2>1
<1>11. CASE StartJoin \/ \E q \in Request : JoinTimedOut(q)
  <2>1. UNCHANGED <<joined, receiving>> /\ \E R, o : o # "ok" /\ outcome' = Answer(outcome, R, o)
    <3>1. "dropped" # "ok" /\ "timeout" # "ok"
      OBVIOUS
    <3>2. CASE StartJoin
      BY <1>3, <3>1, <3>2 DEF StartJoin, TakeChannelStateCommand, WaitToReconnectConnected, SendDisconnected
    <3>3. CASE \E q \in Request : JoinTimedOut(q)
      BY <3>1, <3>3 DEF JoinTimedOut
    <3> QED
      BY <1>11, <3>2, <3>3
  <2> QED
    BY <1>6, <1>7, <2>1
<1>12. CASE Call \/ Cast
  <2>1. UNCHANGED <<joined, receiving>> /\ Head(sendQ).kind # "join"
    BY <1>3, <1>12 DEF Call, Cast, TakeSendCommand, WaitToReconnectConnected, SendDisconnected
  <2>2. outcome' = outcome \/ outcome' = Answer(outcome, {Head(sendQ)}, "ok")
    BY <1>3, <1>12 DEF Call, Cast, WaitToReconnectConnected, SendDisconnected
  <2> QED
    BY <1>0, <1>6, <1>7, <2>1, <2>2
<1>13. CASE Leave
  <2> DEFINE h == Head(chanStateQ)
  <2>1. /\ chanStateQ # <<>> /\ h \in Range(chanStateQ) /\ h \in RequestsOf({"leave"})
        /\ receiving' = receiving
    BY <1>13, TakenCommand, QueueElements DEF Leave, TakeChannelStateCommand, SocketInv, TypeOK, QueueTypeOK
  <2>2. joined' = [joined EXCEPT ![h.chan] = NoRequest] /\ outcome' = Answer(outcome, {h}, "ok")
    BY <1>3, <1>13 DEF Leave, WaitToReconnectConnected, SendDisconnected
  <2>3. outcome'[r] = outcome[r] /\ h # r
    BY <1>0, <2>1, <2>2 DEF Answer, RequestsOf
  <2>4. Answered(r)
    BY <2>1, <2>3 DEF Answered
  <2>5. Last(r) /\ outcome[r] # "pending"
    BY <1>1, <2>4
  <2>6. r \notin Range(chanStateQ) /\ Trails(r, chanStateQ, OfChannel(c))
    BY <1>0, <2>5 DEF SocketInv, LastInv, AnsweredOnce, LastIsLast
  <2>7. h \notin OfChannel(c)
    BY <2>1, <2>6, TrailsAbsent DEF SocketInv, TypeOK, QueueTypeOK
  <2>8. h.chan # c
    BY <2>1, <2>7 DEF OfChannel, RequestsOf
  <2> QED
    BY <1>0, <1>2, <2>2, <2>4, <2>8 DEF SocketInv, TypeOK, MapTypeOK
<1>14. CASE \E d \in Channel, f \in Request : Reply(d, f)
  <2>1. PICK d \in Channel, f \in Request, s \in {"ok", "rejected"} :
          HandleReply(d, f, s) /\ receiving' = receiving
    BY <1>14 DEF Reply
  <2>2. CASE UNCHANGED joined /\ outcome' = Answer(outcome, {f} \cap replies, s)
    <3>1. r \notin replies
      BY <1>0 DEF SocketInv, TypeOK, MapTypeOK, RequestsOf
    <3> QED
      BY <1>6, <1>7, <2>1, <2>2, <3>1
  <2>3. CASE FinishJoin(d, s) /\ joins[d] # NoRequest
    <3>1. joins[d].chan = d /\ joined \in [Channel -> RequestsOf({"join"}) \cup {NoRequest}]
      BY <2>3 DEF SocketInv, OwnChannel, TypeOK, MapTypeOK
    <3>2. CASE joins[d] = r
      <4>1. ~Answered(r)
        BY <1>0, <1>1, <2>3, <3>1, <3>2 DEF SocketInv, LastInv, AnsweredOnce
      <4>2. outcome'[r] = "ok" /\ outcome[r] # "ok"
        BY <2>1, <4>1 DEF Answered
      <4>3. s = "ok"
        BY <1>0, <1>6, <2>3, <4>2 DEF FinishJoin
      <4> QED
        BY <2>3, <3>1, <3>2, <4>3 DEF FinishJoin
    <3>3. CASE joins[d] # r
      <4>1. outcome'[r] = "ok" => outcome[r] = "ok"
        BY <1>6, <2>3, <3>3 DEF FinishJoin
      <4>2. Answered(r) /\ joined[c] = r
        BY <1>2, <2>1, <4>1 DEF Answered
      <4>3. outcome[r] # "pending" /\ Last(r)
        BY <1>1, <4>2
      <4>4. d # c
        BY <1>0, <2>3, <4>3 DEF SocketInv, LastInv, AnsweredOnce
      <4> QED
        BY <1>0, <2>3, <3>1, <4>2, <4>4 DEF FinishJoin
    <3> QED
      BY <3>2, <3>3
  <2> QED
    BY <2>1, <2>2, <2>3 DEF HandleReply
<1> QED
  BY <1>4, <1>5, <1>8, <1>9, <1>10, <1>11, <1>12, <1>13, <1>14 DEF Listener, Network, Waits

(* No client answers a join, or has the receivers of one that was not.     *)
LEMMA ClientsAnswerNoJoin ==
  ASSUME TypeOK, [Clients]_vars, NEW r \in RequestsOf({"join"}), Answered(r)'
  PROVE  Answered(r)
<1>0. /\ r \in Request /\ r.kind = "join" /\ r.chan \in Channel /\ r # NoRequest
      /\ outcome \in [Request -> Outcome]
      /\ receiving \in [Channel -> RequestsOf({"join"}) \cup {NoRequest}]
  BY RequestChan, RequestAssumption DEF RequestsOf, ChanKind, TypeOK, SharedTypeOK
<1>1. ASSUME NEW R PROVE Release(outcome, R)[r] \in {outcome[r], "free"}
  BY <1>0 DEF Release
<1> USE DEF Answered, chanVars
<1>2. CASE UNCHANGED vars
  BY <1>2 DEF vars
<1>3. ASSUME NEW q \in Request, SubmitState(q) \/ SubmitSend(q) \/ GiveUp(q) PROVE Answered(r)
  BY <1>0, <1>3 DEF SubmitState, SubmitSend, GiveUp
<1>4. ASSUME NEW q \in Request, SubmitJoin(q) \/ SubmitLeave(q) PROVE Answered(r)
  <2>1. /\ outcome' = [Release(outcome, OfChannel(q.chan)) EXCEPT ![q] = "pending"]
        /\ receiving' = receiving \/ receiving' = [receiving EXCEPT ![q.chan] = NoRequest]
    BY <1>4 DEF SubmitJoin, SubmitLeave, DropReceivers
  <2>2. DOMAIN Release(outcome, OfChannel(q.chan)) = Request
    BY DEF Release
  <2>3. outcome'[r] \in {outcome[r], "free", "pending"}
    BY <1>0, <1>1, <2>1, <2>2
  <2> QED
    BY <1>0, <2>1, <2>3
<1>5. ASSUME NEW q \in Request, TakeAnswer(q) PROVE Answered(r)
  BY <1>0, <1>5 DEF TakeAnswer
<1>6. ASSUME NEW c \in Channel, RequestChannel(c) \/ ReceivePush(c) PROVE Answered(r)
  BY <1>6 DEF RequestChannel, ReceivePush
<1>7. ASSUME NEW c \in Channel, Forgo(c) \/ ReadConnectivity(c) PROVE Answered(r)
  <2>1. \/ outcome' = outcome /\ receiving' = receiving
        \/ /\ outcome' = Release(outcome, OfChannel(c))
           /\ receiving' = [receiving EXCEPT ![c] = NoRequest]
    BY <1>7 DEF Forgo, ReadConnectivity, DropReceivers
  <2> QED
    BY <1>0, <1>1, <2>1
<1> QED
  BY <1>2, <1>3, <1>4, <1>5, <1>6, <1>7 DEF Clients
=============================================================================
