----------------------------- MODULE ClientViews -----------------------------
(***************************************************************************)
(* PhoenixClient as its socket sees it, and as its channels do: what is    *)
(* proved of SocketListener and of ChannelListener, brought to the client. *)
(***************************************************************************)
EXTENDS PhoenixClient, QueueLemmas

(* What is proved of the socket alone, in the environment its channels are.*)
SP == INSTANCE SocketListenerProofs
  WITH Request <- SocketsRequest, outcome <- SocketsOutcome, phase <- SocketsPhase

(* What is proved of the channels alone, with the socket they have.        *)
CP == INSTANCE ChannelListenerProofs
  WITH Request <- ChannelsRequest, outcome <- ChannelsOutcome, closed <- (pc = "exited"),
       writing <- Writes

-----------------------------------------------------------------------------
(***************************************************************************)
(* What the modules assume of their constants holds of the client's.       *)
(***************************************************************************)
LEMMA SocketsRequestAssumption ==
  /\ SocketsRequest \subseteq    [kind : SP!StateKind, chan : {NoChannel}, slot : Slot]
                            \cup [kind : SP!ChanKind \cup SP!UserKind, chan : Channel, slot : Slot]
  /\ NoRequest \notin SocketsRequest
BY RequestAssumption DEF SocketsRequest, RequestsOf, StateKind, ChanKind, UserKind,
  SP!StateKind, SP!ChanKind, SP!UserKind

LEMMA ChannelsRequestAssumption ==
  /\ ChannelsRequest \subseteq    [kind : CP!StateKind, chan : {NoChannel}, slot : Slot]
                             \cup [kind : CP!ChanKind \cup CP!UserKind, chan : Channel, slot : Slot]
  /\ NoRequest \notin ChannelsRequest
BY RequestAssumption DEF ChannelsRequest, RequestsOf, StateKind, ChanKind, UserKind,
  CP!StateKind, CP!ChanKind, CP!UserKind

(* The invariant of the socket, and of its channels.                       *)
LEMMA SocketInvInit == SP!Init => SP!SocketInv
BY SP!SocketInvInit, SocketsRequestAssumption, ChannelAssumption, PushAssumption,
   BoundAssumption, ClientStrategyAssumption

LEMMA SocketInvStep == SP!SocketInv /\ [SP!Next]_SP!vars => SP!SocketInv'
BY SP!SocketInvStep, SocketsRequestAssumption, ChannelAssumption, PushAssumption,
   BoundAssumption, ClientStrategyAssumption

LEMMA ChannelInvInit == CP!Init => CP!Inv
BY CP!InitInv, ChannelsRequestAssumption, ChannelAssumption, PushAssumption, BoundAssumption

LEMMA ChannelInvStep == CP!Inv /\ [CP!Next]_CP!vars => CP!Inv'
BY CP!InvStep, ChannelsRequestAssumption, ChannelAssumption, PushAssumption, BoundAssumption

-----------------------------------------------------------------------------
(***************************************************************************)
(* One word, one meaning: what the instances of the two modules have in    *)
(* common with each other and with the client.                             *)
(***************************************************************************)
SocketKinds  == StateKind \cup ChanKind
ChannelKinds == ChanKind \cup UserKind

LEMMA SameRequests ==
  /\ \A kinds : S!RequestsOf(kinds) = RequestsOf(kinds) /\ Ch!RequestsOf(kinds) = RequestsOf(kinds)
  /\ \A kinds \in SUBSET SocketKinds : SP!RequestsOf(kinds) = RequestsOf(kinds)
  /\ \A kinds \in SUBSET ChannelKinds : CP!RequestsOf(kinds) = RequestsOf(kinds)
  /\ SocketsRequest = RequestsOf(SocketKinds) /\ ChannelsRequest = RequestsOf(ChannelKinds)
<1>1. \A kinds : S!RequestsOf(kinds) = RequestsOf(kinds) /\ Ch!RequestsOf(kinds) = RequestsOf(kinds)
  BY DEF S!RequestsOf, Ch!RequestsOf, RequestsOf
<1>2. SocketsRequest = RequestsOf(SocketKinds) /\ ChannelsRequest = RequestsOf(ChannelKinds)
  BY DEF SocketsRequest, ChannelsRequest, SocketKinds, ChannelKinds
<1>3. ASSUME NEW kinds \in SUBSET SocketKinds PROVE SP!RequestsOf(kinds) = RequestsOf(kinds)
  BY <1>2, <1>3 DEF SP!RequestsOf, RequestsOf
<1>4. ASSUME NEW kinds \in SUBSET ChannelKinds PROVE CP!RequestsOf(kinds) = RequestsOf(kinds)
  BY <1>2, <1>4 DEF CP!RequestsOf, RequestsOf
<1> QED
  BY <1>1, <1>2, <1>3, <1>4

LEMMA SameWords ==
  /\ \A q : /\ S!Range(q) = Range(q) /\ Ch!Range(q) = Range(q)
            /\ SP!Range(q) = Range(q) /\ CP!Range(q) = Range(q)
            /\ SP!IsInjective(q) <=> IsInjective(q)
  /\ S!Unspawned = Unspawned /\ SP!Unspawned = Unspawned /\ Ch!Unspawned = Unspawned
  /\ CP!Unspawned = Unspawned
  /\ S!Ended = Ended /\ SP!Ended = Ended /\ Ch!Ended = Ended /\ CP!Ended = Ended
  /\ S!Answers = Answers /\ SP!Answers = Answers /\ Ch!Answers = Answers /\ CP!Answers = Answers
  /\ S!Outcome = Outcome /\ SP!Outcome = Outcome /\ CP!Outcome = Outcome
  /\ S!StateKind = StateKind /\ SP!StateKind = StateKind
  /\ Ch!UserKind = UserKind /\ CP!UserKind = UserKind
  /\ CP!ChanKind = ChanKind /\ SP!ChanKind = ChanKind
  /\ \A a, b : /\ S!SmallerOf(a, b) = SmallerOf(a, b) /\ SP!SmallerOf(a, b) = SmallerOf(a, b)
               /\ Ch!SmallerOf(a, b) = SmallerOf(a, b) /\ CP!SmallerOf(a, b) = SmallerOf(a, b)
BY DEF S!Range, Ch!Range, SP!Range, CP!Range, Range, SP!IsInjective, IsInjective,
  S!Unspawned, SP!Unspawned, Ch!Unspawned, CP!Unspawned, Unspawned,
  S!Ended, SP!Ended, Ch!Ended, CP!Ended, Ended,
  S!Answers, SP!Answers, Ch!Answers, CP!Answers, Answers,
  S!Outcome, SP!Outcome, CP!Outcome, Outcome, S!StateKind, SP!StateKind, StateKind,
  Ch!UserKind, CP!UserKind, UserKind, CP!ChanKind, SP!ChanKind, ChanKind,
  S!SmallerOf, SP!SmallerOf, Ch!SmallerOf, CP!SmallerOf, SmallerOf

(* What the socket, and what the channels, see of the oneshots.            *)
SocketsView(out, known) ==
  [r \in SocketsRequest |-> IF r.kind \in {"call", "cast"} => r \in known THEN out[r] ELSE "free"]
ChannelsView(out) == [r \in ChannelsRequest |-> out[r]]

LEMMA Views ==
  /\ SocketsOutcome = SocketsView(outcome, forwarded)
  /\ SocketsOutcome' = SocketsView(outcome', forwarded')
  /\ ChannelsOutcome = ChannelsView(outcome) /\ ChannelsOutcome' = ChannelsView(outcome')
BY DEF SocketsOutcome, SocketsView, SocketKnows, ChannelsOutcome, ChannelsView

(* An answer is the same answer, seen from where its oneshot is known.     *)
LEMMA AnswersSeen ==
  ASSUME NEW out, NEW R, NEW o
  PROVE  /\ S!Answer(out, R, o) = Answer(out, R, o) /\ Ch!Answer(out, R, o) = Answer(out, R, o)
         /\ S!Release(out, R) = Release(out, R) /\ Ch!Release(out, R) = Release(out, R)
         /\ \A known : SocketsView(Answer(out, R, o), known) = SP!Answer(SocketsView(out, known), R, o)
         /\ ChannelsView(Answer(out, R, o)) = CP!Answer(ChannelsView(out), R, o)
         /\ ChannelsView(Release(out, R)) = CP!Release(ChannelsView(out), R)
<1>1. /\ S!Unanswered = Unanswered /\ Ch!Unanswered = Unanswered
      /\ \A r \in SocketsRequest : r \in SP!Unanswered <=> r \in Unanswered
      /\ \A r \in ChannelsRequest : r \in CP!Unanswered <=> r \in Unanswered
      /\ SocketsRequest \subseteq Request /\ ChannelsRequest \subseteq Request
  BY DEF S!Unanswered, Ch!Unanswered, SP!Unanswered, CP!Unanswered, Unanswered, S!RequestsOf,
    Ch!RequestsOf, SP!RequestsOf, CP!RequestsOf, RequestsOf, SocketsRequest, ChannelsRequest
<1>2. S!Answer(out, R, o) = Answer(out, R, o) /\ Ch!Answer(out, R, o) = Answer(out, R, o)
  BY <1>1 DEF S!Answer, Ch!Answer, Answer
<1>3. S!Release(out, R) = Release(out, R) /\ Ch!Release(out, R) = Release(out, R)
  BY DEF S!Release, Ch!Release, Release
<1>4. ASSUME NEW known PROVE SocketsView(Answer(out, R, o), known) = SP!Answer(SocketsView(out, known), R, o)
  BY <1>1 DEF SocketsView, Answer, SP!Answer
<1>5. ChannelsView(Answer(out, R, o)) = CP!Answer(ChannelsView(out), R, o)
  BY <1>1 DEF ChannelsView, Answer, CP!Answer
<1>6. ChannelsView(Release(out, R)) = CP!Release(ChannelsView(out), R)
  BY <1>1 DEF ChannelsView, Release, CP!Release
<1> QED
  BY <1>2, <1>3, <1>4, <1>5, <1>6

-----------------------------------------------------------------------------
(***************************************************************************)
(* SP is AsSocket: the same module under the same substitution, instanced  *)
(* once for its specification and once for what is proved of it.           *)
(***************************************************************************)
LEMMA SameSocketData ==
  /\ \A kinds : SP!RequestsOf(kinds) = AsSocket!RequestsOf(kinds)
  /\ \A out, R, o : SP!Answer(out, R, o) = AsSocket!Answer(out, R, o)
  /\ \A out, R : SP!Release(out, R) = AsSocket!Release(out, R)
  /\ SP!Held = AsSocket!Held
  /\ \A r : SP!Fresh(r) <=> AsSocket!Fresh(r)
  /\ \A c : SP!OfChannel(c) = AsSocket!OfChannel(c)
  /\ \A c : SP!Idle(c) <=> AsSocket!Idle(c)
  /\ SP!EmptyMaps <=> AsSocket!EmptyMaps
<1>1. \A kinds : SP!RequestsOf(kinds) = AsSocket!RequestsOf(kinds)
  BY DEF SP!RequestsOf, AsSocket!RequestsOf
<1>2. \A out, R, o : SP!Answer(out, R, o) = AsSocket!Answer(out, R, o)
  BY <1>1 DEF SP!Answer, AsSocket!Answer, SP!Unanswered, AsSocket!Unanswered
<1>3. \A out, R : SP!Release(out, R) = AsSocket!Release(out, R)
  BY DEF SP!Release, AsSocket!Release
<1>4. SP!Held = AsSocket!Held
  <2>1. SP!PendingJoins = AsSocket!PendingJoins
    BY DEF SP!PendingJoins, AsSocket!PendingJoins
  <2>2. SP!QueuedRequests = AsSocket!QueuedRequests
    BY DEF SP!QueuedRequests, AsSocket!QueuedRequests, SP!Range, AsSocket!Range
  <2> QED
    BY <2>1, <2>2 DEF SP!Held, AsSocket!Held
<1>5. \A r : SP!Fresh(r) <=> AsSocket!Fresh(r)
  <2>1. SP!ServerBacklog = AsSocket!ServerBacklog
    BY DEF SP!ServerBacklog, AsSocket!ServerBacklog, SP!Range, AsSocket!Range
  <2> QED
    BY <1>4, <2>1 DEF SP!Fresh, AsSocket!Fresh
<1>6. \A c : SP!OfChannel(c) = AsSocket!OfChannel(c)
  BY <1>1 DEF SP!OfChannel, AsSocket!OfChannel
<1>7. \A c : SP!Idle(c) <=> AsSocket!Idle(c)
  BY DEF SP!Idle, AsSocket!Idle, SP!Spawned, AsSocket!Spawned, SP!Unspawned, AsSocket!Unspawned,
    SP!Ended, AsSocket!Ended
<1>8. SP!EmptyMaps <=> AsSocket!EmptyMaps
  BY DEF SP!EmptyMaps, AsSocket!EmptyMaps
<1> QED
  BY <1>1, <1>2, <1>3, <1>4, <1>5, <1>6, <1>7, <1>8

(* State commands, connects, and the spawning of channels.                 *)
LEMMA SameSocketCommands ==
  /\ SP!Connect <=> AsSocket!Connect
  /\ SP!Close <=> AsSocket!Close
  /\ SP!Disconnect <=> AsSocket!Disconnect
  /\ SP!Shutdown <=> AsSocket!Shutdown
  /\ SP!Reconnect <=> AsSocket!Reconnect
  /\ SP!SocketConnectOk <=> AsSocket!SocketConnectOk
  /\ SP!SocketConnectError <=> AsSocket!SocketConnectError
  /\ SP!Publish <=> AsSocket!Publish
  /\ SP!Exit <=> AsSocket!Exit
  /\ SP!Dropped <=> AsSocket!Dropped
  /\ SP!SpawnChannel <=> AsSocket!SpawnChannel
BY SameSocketData DEF SP!Connect, SP!Polling, SP!AtSelect, SP!PollingState,
  SP!TakeStateCommand, SP!chanVars, SP!pushVars, SP!connVars, SP!castVars,
  SP!backVars, SP!Close, SP!Await, SP!Online, SP!queueVars, SP!Disconnect,
  SP!Resumed, SP!SendDisconnected, SP!Broadcast, SP!Unspawned, SP!Ended,
  SP!SmallerOf, SP!PendingJoins, SP!Shutdown, SP!Reconnect, SP!SocketConnectOk,
  SP!SocketConnectError, SP!ConnectErrors, SP!SleepAfterFailure,
  SP!SleepMultiplier, SP!NextAttempt, SP!Publish, SP!Exit, SP!ShutDown,
  SP!DropEverything, SP!Dropped, SP!SpawnChannel, AsSocket!Connect,
  AsSocket!Polling, AsSocket!AtSelect, AsSocket!PollingState,
  AsSocket!TakeStateCommand, AsSocket!chanVars, AsSocket!pushVars,
  AsSocket!connVars, AsSocket!castVars, AsSocket!backVars, AsSocket!Close,
  AsSocket!Await, AsSocket!Online, AsSocket!queueVars, AsSocket!Disconnect,
  AsSocket!Resumed, AsSocket!SendDisconnected, AsSocket!Broadcast,
  AsSocket!Unspawned, AsSocket!Ended, AsSocket!SmallerOf, AsSocket!PendingJoins,
  AsSocket!Shutdown, AsSocket!Reconnect, AsSocket!SocketConnectOk,
  AsSocket!SocketConnectError, AsSocket!ConnectErrors,
  AsSocket!SleepAfterFailure, AsSocket!SleepMultiplier, AsSocket!NextAttempt,
  AsSocket!Publish, AsSocket!Exit, AsSocket!ShutDown, AsSocket!DropEverything,
  AsSocket!Dropped, AsSocket!SpawnChannel

(* Commands of channels, and the end of a connection.                      *)
LEMMA SameChannelCommands ==
  /\ SP!WriteState <=> AsSocket!WriteState
  /\ SP!StartJoin <=> AsSocket!StartJoin
  /\ SP!Leave <=> AsSocket!Leave
  /\ SP!WriteSend <=> AsSocket!WriteSend
  /\ SP!Call <=> AsSocket!Call
  /\ SP!Cast <=> AsSocket!Cast
  /\ SP!PushUnblocked <=> AsSocket!PushUnblocked
  /\ SP!Heartbeat <=> AsSocket!Heartbeat
  /\ SP!Pong <=> AsSocket!Pong
  /\ SP!AnswerClose <=> AsSocket!AnswerClose
  /\ SP!Written <=> AsSocket!Written
  /\ SP!ConnectionLost <=> AsSocket!ConnectionLost
  /\ SP!FatalSocketError <=> AsSocket!FatalSocketError
  /\ SP!HeartbeatReply <=> AsSocket!HeartbeatReply
BY SameSocketData DEF SP!WriteState, SP!Await, SP!Online, SP!AtSelect,
  SP!backVars, SP!queueVars, SP!connVars, SP!castVars, SP!chanVars, SP!pushVars,
  SP!StartJoin, SP!TakeChannelStateCommand, SP!Resumed, SP!ArmTimeout,
  SP!FrameSent, SP!WaitToReconnectConnected, SP!SendDisconnected, SP!Broadcast,
  SP!Unspawned, SP!Ended, SP!SmallerOf, SP!PendingJoins, SP!SleepMultiplier,
  SP!Leave, SP!WriteSend, SP!Call, SP!TakeSendCommand, SP!Cast,
  SP!PushUnblocked, SP!ReceiverAlive, SP!Heartbeat, SP!Pong, SP!AnswerClose,
  SP!Written, SP!ConnectionLost, SP!FatalSocketError, SP!DropEverything,
  SP!HeartbeatReply, AsSocket!WriteState, AsSocket!Await, AsSocket!Online,
  AsSocket!AtSelect, AsSocket!backVars, AsSocket!queueVars, AsSocket!connVars,
  AsSocket!castVars, AsSocket!chanVars, AsSocket!pushVars, AsSocket!StartJoin,
  AsSocket!TakeChannelStateCommand, AsSocket!Resumed, AsSocket!ArmTimeout,
  AsSocket!FrameSent, AsSocket!WaitToReconnectConnected,
  AsSocket!SendDisconnected, AsSocket!Broadcast, AsSocket!Unspawned,
  AsSocket!Ended, AsSocket!SmallerOf, AsSocket!PendingJoins,
  AsSocket!SleepMultiplier, AsSocket!Leave, AsSocket!WriteSend, AsSocket!Call,
  AsSocket!TakeSendCommand, AsSocket!Cast, AsSocket!PushUnblocked,
  AsSocket!ReceiverAlive, AsSocket!Heartbeat, AsSocket!Pong,
  AsSocket!AnswerClose, AsSocket!Written, AsSocket!ConnectionLost,
  AsSocket!FatalSocketError, AsSocket!DropEverything, AsSocket!HeartbeatReply

(* Pushes of the server.                                                   *)
LEMMA SamePushes ==
  /\ \A c, m : SP!HandlePush(c, m) <=> AsSocket!HandlePush(c, m)
BY SameSocketData DEF SP!HandlePush, SP!Online, SP!AtSelect, SP!ReceiverAlive,
  SP!backVars, SP!queueVars, SP!connVars, SP!castVars, SP!chanVars,
  AsSocket!HandlePush, AsSocket!Online, AsSocket!AtSelect,
  AsSocket!ReceiverAlive, AsSocket!backVars, AsSocket!queueVars,
  AsSocket!connVars, AsSocket!castVars, AsSocket!chanVars

(* Steps about one request.                                                *)
LEMMA SameRequestSteps ==
  /\ \A r : SP!JoinTimedOut(r) <=> AsSocket!JoinTimedOut(r)
  /\ \A r : SP!SubmitState(r) <=> AsSocket!SubmitState(r)
  /\ \A r : SP!SubmitJoin(r) <=> AsSocket!SubmitJoin(r)
  /\ \A r : SP!SubmitLeave(r) <=> AsSocket!SubmitLeave(r)
  /\ \A r : SP!SubmitSend(r) <=> AsSocket!SubmitSend(r)
  /\ \A r : SP!TakeAnswer(r) <=> AsSocket!TakeAnswer(r)
  /\ \A r : SP!GiveUp(r) <=> AsSocket!GiveUp(r)
BY SameSocketData DEF SP!JoinTimedOut, SP!Online, SP!AtSelect, SP!backVars,
  SP!queueVars, SP!castVars, SP!chanVars, SP!pushVars, SP!SubmitState,
  SP!StateKind, SP!Room, SP!socketVars, SP!connVars, SP!SubmitJoin,
  SP!SubmitLeave, SP!Spawned, SP!Unspawned, SP!Ended, SP!DropReceivers,
  SP!SubmitSend, SP!TakeAnswer, SP!Answers, SP!GiveUp, AsSocket!JoinTimedOut,
  AsSocket!Online, AsSocket!AtSelect, AsSocket!backVars, AsSocket!queueVars,
  AsSocket!castVars, AsSocket!chanVars, AsSocket!pushVars, AsSocket!SubmitState,
  AsSocket!StateKind, AsSocket!Room, AsSocket!socketVars, AsSocket!connVars,
  AsSocket!SubmitJoin, AsSocket!SubmitLeave, AsSocket!Spawned,
  AsSocket!Unspawned, AsSocket!Ended, AsSocket!DropReceivers,
  AsSocket!SubmitSend, AsSocket!TakeAnswer, AsSocket!Answers, AsSocket!GiveUp

(* Steps about one channel.                                                *)
LEMMA SameChannelSteps ==
  /\ \A c, r : SP!Reply(c, r) <=> AsSocket!Reply(c, r)
  /\ \A c, r : SP!NoReply(c, r) <=> AsSocket!NoReply(c, r)
  /\ \A c : SP!RequestChannel(c) <=> AsSocket!RequestChannel(c)
  /\ \A c : SP!Forgo(c) <=> AsSocket!Forgo(c)
  /\ \A c : SP!ReceivePush(c) <=> AsSocket!ReceivePush(c)
  /\ \A c : SP!ReadConnectivity(c) <=> AsSocket!ReadConnectivity(c)
BY SameSocketData DEF SP!Reply, SP!Online, SP!AtSelect, SP!HandleReply,
  SP!FinishJoin, SP!backVars, SP!queueVars, SP!castVars, SP!chanVars,
  SP!NoReply, SP!pushVars, SP!RequestChannel, SP!socketVars, SP!connVars,
  SP!Forgo, SP!Spawned, SP!Unspawned, SP!Ended, SP!DropReceivers,
  SP!ReceivePush, SP!ReadConnectivity, AsSocket!Reply, AsSocket!Online,
  AsSocket!AtSelect, AsSocket!HandleReply, AsSocket!FinishJoin,
  AsSocket!backVars, AsSocket!queueVars, AsSocket!castVars, AsSocket!chanVars,
  AsSocket!NoReply, AsSocket!pushVars, AsSocket!RequestChannel,
  AsSocket!socketVars, AsSocket!connVars, AsSocket!Forgo, AsSocket!Spawned,
  AsSocket!Unspawned, AsSocket!Ended, AsSocket!DropReceivers,
  AsSocket!ReceivePush, AsSocket!ReadConnectivity

LEMMA SameSocket == SP!Spec <=> AsSocket!Spec
<1>1. SP!Init <=> AsSocket!Init
  BY DEF SP!Init, AsSocket!Init
<1>2. SP!Next <=> AsSocket!Next
  BY SameSocketCommands, SameChannelCommands, SamePushes, SameRequestSteps,
    SameChannelSteps
  DEF SP!Next, SP!Listener, SP!Network, SP!Clients, AsSocket!Next, AsSocket!Listener,
    AsSocket!Network, AsSocket!Clients
<1>3. UNCHANGED SP!vars <=> UNCHANGED AsSocket!vars
  BY DEF SP!vars, SP!connVars, SP!queueVars, SP!backVars, SP!chanVars,
    SP!pushVars, SP!castVars, AsSocket!vars, AsSocket!connVars,
    AsSocket!queueVars, AsSocket!backVars, AsSocket!chanVars, AsSocket!pushVars,
    AsSocket!castVars
<1>4. [SP!Next]_SP!vars <=> [AsSocket!Next]_AsSocket!vars
  BY <1>2, <1>3
<1> QED
  BY <1>1, <1>4, PTL DEF SP!Spec, AsSocket!Spec

-----------------------------------------------------------------------------
(***************************************************************************)
(* CP is AsChannels, likewise.                                             *)
(***************************************************************************)
LEMMA SameChannelsData ==
  /\ \A kinds : CP!RequestsOf(kinds) = AsChannels!RequestsOf(kinds)
  /\ \A out, R, o : CP!Answer(out, R, o) = AsChannels!Answer(out, R, o)
  /\ \A out, R : CP!Release(out, R) = AsChannels!Release(out, R)
  /\ \A c : CP!Waiters(c) = AsChannels!Waiters(c)
  /\ \A c : CP!UserHeld(c) = AsChannels!UserHeld(c)
  /\ CP!InTheirHands = AsChannels!InTheirHands
  /\ \A r : CP!Unused(r) <=> AsChannels!Unused(r)
  /\ CP!Sent = AsChannels!Sent
  /\ \A q : CP!Range(q) = AsChannels!Range(q)
<1>1. \A kinds : CP!RequestsOf(kinds) = AsChannels!RequestsOf(kinds)
  BY DEF CP!RequestsOf, AsChannels!RequestsOf
<1>2. \A out, R, o : CP!Answer(out, R, o) = AsChannels!Answer(out, R, o)
  BY <1>1 DEF CP!Answer, AsChannels!Answer, CP!Unanswered, AsChannels!Unanswered
<1>3. \A out, R : CP!Release(out, R) = AsChannels!Release(out, R)
  BY DEF CP!Release, AsChannels!Release
<1>4. \A q : CP!Range(q) = AsChannels!Range(q)
  BY DEF CP!Range, AsChannels!Range
<1>5. \A c : CP!Waiters(c) = AsChannels!Waiters(c)
  BY DEF CP!Waiters, AsChannels!Waiters
<1>6. \A c : CP!UserHeld(c) = AsChannels!UserHeld(c)
  BY <1>4, <1>5 DEF CP!UserHeld, AsChannels!UserHeld
<1>7. CP!InTheirHands = AsChannels!InTheirHands
  BY <1>6 DEF CP!InTheirHands, AsChannels!InTheirHands
<1>8. \A r : CP!Unused(r) <=> AsChannels!Unused(r)
  BY <1>4, <1>7 DEF CP!Unused, AsChannels!Unused
<1>9. CP!Sent = AsChannels!Sent
  BY <1>1, <1>4, <1>7 DEF CP!Sent, AsChannels!Sent
<1> QED
  BY <1>1, <1>2, <1>3, <1>4, <1>5, <1>6, <1>7, <1>8, <1>9

LEMMA SameChannelsGuards ==
  /\ \A c : CP!Selecting(c) <=> AsChannels!Selecting(c)
  /\ \A c : CP!NewsReady(c) <=> AsChannels!NewsReady(c)
  /\ \A c : CP!AnswerReady(c) <=> AsChannels!AnswerReady(c)
  /\ \A c, kind : CP!TakeCommand(c, kind) <=> AsChannels!TakeCommand(c, kind)
<1>1. \A c : CP!Selecting(c) <=> AsChannels!Selecting(c)
  BY DEF CP!Selecting, AsChannels!Selecting, CP!Spawned, AsChannels!Spawned, CP!Busy, AsChannels!Busy,
    CP!Unspawned, AsChannels!Unspawned, CP!Ended, AsChannels!Ended
<1>2. \A c : CP!NewsReady(c) <=> AsChannels!NewsReady(c)
  BY DEF CP!NewsReady, AsChannels!NewsReady, CP!NewsPhase, AsChannels!NewsPhase, CP!CommandPhase,
    AsChannels!CommandPhase
<1>3. \A c : CP!AnswerReady(c) <=> AsChannels!AnswerReady(c)
  BY DEF CP!AnswerReady, AsChannels!AnswerReady, CP!Answers, AsChannels!Answers
<1>4. \A c, kind : CP!TakeCommand(c, kind) <=> AsChannels!TakeCommand(c, kind)
  BY <1>1, <1>2, <1>3 DEF CP!TakeCommand, AsChannels!TakeCommand, CP!CommandPhase,
    AsChannels!CommandPhase, CP!socketVars, AsChannels!socketVars
<1> QED
  BY <1>1, <1>2, <1>3, <1>4

(* What news make of each state of a channel.                              *)
LEMMA SameReactions ==
  /\ \A c : CP!SocketConnected(c) <=> AsChannels!SocketConnected(c)
  /\ \A c : CP!SocketDisconnected(c) <=> AsChannels!SocketDisconnected(c)
  /\ \A c : CP!SocketShutdown(c) <=> AsChannels!SocketShutdown(c)
BY SameChannelsData, SameChannelsGuards DEF CP!SocketConnected, CP!NoRejoin,
  CP!Enter, CP!Blank, CP!DropReceivers, CP!WaitToRejoin, CP!NextAttempt,
  CP!SmallerOf, CP!Stay, CP!NewsAnswer, CP!SocketDisconnected,
  CP!SocketShutdown, CP!Shutdown, CP!Spawned, CP!Unspawned, CP!Ended, CP!Busy,
  CP!socketVars, CP!userVars, AsChannels!SocketConnected, AsChannels!NoRejoin,
  AsChannels!Enter, AsChannels!Blank, AsChannels!DropReceivers,
  AsChannels!WaitToRejoin, AsChannels!NextAttempt, AsChannels!SmallerOf,
  AsChannels!Stay, AsChannels!NewsAnswer, AsChannels!SocketDisconnected,
  AsChannels!SocketShutdown, AsChannels!Shutdown, AsChannels!Spawned,
  AsChannels!Unspawned, AsChannels!Ended, AsChannels!Busy,
  AsChannels!socketVars, AsChannels!userVars

(* Shutdown, and news of the connection.                                   *)
LEMMA SameNews ==
  /\ \A c : CP!Shutdown(c) <=> AsChannels!Shutdown(c)
  /\ \A c : CP!Exit(c) <=> AsChannels!Exit(c)
  /\ \A c : CP!Lagged(c) <=> AsChannels!Lagged(c)
  /\ \A c : CP!ConnectivityChanged(c) <=> AsChannels!ConnectivityChanged(c)
BY SameChannelsData, SameChannelsGuards, SameReactions DEF CP!Shutdown,
  CP!Spawned, CP!Unspawned, CP!Ended, CP!Busy, CP!Enter, CP!Blank, CP!NoRejoin,
  CP!DropReceivers, CP!socketVars, CP!userVars, CP!Exit, CP!End, CP!Lagged,
  CP!ConnectivityChanged, AsChannels!Shutdown, AsChannels!Spawned,
  AsChannels!Unspawned, AsChannels!Ended, AsChannels!Busy, AsChannels!Enter,
  AsChannels!Blank, AsChannels!NoRejoin, AsChannels!DropReceivers,
  AsChannels!socketVars, AsChannels!userVars, AsChannels!Exit, AsChannels!End,
  AsChannels!Lagged, AsChannels!ConnectivityChanged

(* Answers of the socket.                                                  *)
LEMMA SameResults ==
  /\ \A c : CP!JoinedResult(c) <=> AsChannels!JoinedResult(c)
  /\ \A c : CP!LeftResult(c) <=> AsChannels!LeftResult(c)
BY SameChannelsData, SameChannelsGuards DEF CP!JoinedResult, CP!Blank,
  CP!NoRejoin, CP!userVars, CP!WaitToRejoin, CP!Enter, CP!DropReceivers,
  CP!NextAttempt, CP!SmallerOf, CP!End, CP!socketVars, CP!LeftResult,
  AsChannels!JoinedResult, AsChannels!Blank, AsChannels!NoRejoin,
  AsChannels!userVars, AsChannels!WaitToRejoin, AsChannels!Enter,
  AsChannels!DropReceivers, AsChannels!NextAttempt, AsChannels!SmallerOf,
  AsChannels!End, AsChannels!socketVars, AsChannels!LeftResult

(* Commands of users that end at the channel.                              *)
LEMMA SameCommands ==
  /\ \A c : CP!JoinTooLate(c) <=> AsChannels!JoinTooLate(c)
  /\ \A c : CP!JoinAgain(c) <=> AsChannels!JoinAgain(c)
  /\ \A c : CP!LeaveAgain(c) <=> AsChannels!LeaveAgain(c)
BY SameChannelsData, SameChannelsGuards DEF CP!JoinTooLate, CP!WaitToRejoin,
  CP!Enter, CP!Blank, CP!NoRejoin, CP!DropReceivers, CP!NextAttempt,
  CP!SmallerOf, CP!JoinAgain, CP!Stay, CP!LeaveAgain, AsChannels!JoinTooLate,
  AsChannels!WaitToRejoin, AsChannels!Enter, AsChannels!Blank,
  AsChannels!NoRejoin, AsChannels!DropReceivers, AsChannels!NextAttempt,
  AsChannels!SmallerOf, AsChannels!JoinAgain, AsChannels!Stay,
  AsChannels!LeaveAgain

(* Joins that go on to the socket.                                         *)
LEMMA SameRejoins ==
  /\ \A c, r : CP!Rejoin(c, r) <=> AsChannels!Rejoin(c, r)
  /\ \A c, r : CP!Join(c, r) <=> AsChannels!Join(c, r)
BY SameChannelsData, SameChannelsGuards DEF CP!Rejoin, CP!Prepare,
  CP!socketVars, CP!userVars, CP!Join, AsChannels!Rejoin, AsChannels!Prepare,
  AsChannels!socketVars, AsChannels!userVars, AsChannels!Join

(* Leaves that do.                                                         *)
LEMMA SameLeaves ==
  /\ \A c, r : CP!Leave(c, r) <=> AsChannels!Leave(c, r)
BY SameChannelsData, SameChannelsGuards DEF CP!Leave, CP!Prepare,
  AsChannels!Leave, AsChannels!Prepare

(* Traffic of a joined channel.                                            *)
LEMMA SameTraffic ==
  /\ \A c : CP!TakeSend(c) <=> AsChannels!TakeSend(c)
  /\ \A c : CP!PushReceived(c) <=> AsChannels!PushReceived(c)
BY SameChannelsData, SameChannelsGuards DEF CP!TakeSend, CP!Prepare,
  CP!socketVars, CP!PushReceived, CP!WaitToRejoin, CP!Enter, CP!Blank,
  CP!NoRejoin, CP!DropReceivers, CP!NextAttempt, CP!SmallerOf, CP!userVars,
  AsChannels!TakeSend, AsChannels!Prepare, AsChannels!socketVars,
  AsChannels!PushReceived, AsChannels!WaitToRejoin, AsChannels!Enter,
  AsChannels!Blank, AsChannels!NoRejoin, AsChannels!DropReceivers,
  AsChannels!NextAttempt, AsChannels!SmallerOf, AsChannels!userVars

(* What a handler submits.                                                 *)
LEMMA SameSubmissions ==
  /\ \A c : CP!Submit(c) <=> AsChannels!Submit(c)
BY SameChannelsData, SameChannelsGuards DEF CP!Submit, CP!Busy, CP!SubmitLeave,
  CP!Room, CP!Blank, CP!NoRejoin, CP!DropReceivers, CP!SubmitJoin,
  CP!SubmitSend, CP!userVars, AsChannels!Submit, AsChannels!Busy,
  AsChannels!SubmitLeave, AsChannels!Room, AsChannels!Blank,
  AsChannels!NoRejoin, AsChannels!DropReceivers, AsChannels!SubmitJoin,
  AsChannels!SubmitSend, AsChannels!userVars

(* And when it cannot.                                                     *)
LEMMA SameFailures ==
  /\ \A c : CP!SubmitFails(c) <=> AsChannels!SubmitFails(c)
BY SameChannelsData, SameChannelsGuards DEF CP!SubmitFails, CP!Busy, CP!End,
  CP!Enter, CP!Blank, CP!NoRejoin, CP!DropReceivers, CP!userVars, CP!socketVars,
  AsChannels!SubmitFails, AsChannels!Busy, AsChannels!End, AsChannels!Enter,
  AsChannels!Blank, AsChannels!NoRejoin, AsChannels!DropReceivers,
  AsChannels!userVars, AsChannels!socketVars

(* Users of the channel.                                                   *)
LEMMA SameUsers ==
  /\ \A u : CP!UserCommand(u) <=> AsChannels!UserCommand(u)
  /\ \A u : CP!UserSend(u) <=> AsChannels!UserSend(u)
  /\ \A u : CP!UserReads(u) <=> AsChannels!UserReads(u)
BY SameChannelsData, SameChannelsGuards DEF CP!UserCommand, CP!UserKind,
  CP!StateKind, CP!ChanKind, CP!Spawned, CP!Unspawned, CP!Ended, CP!socketVars,
  CP!UserSend, CP!UserReads, CP!Answers, CP!userVars, AsChannels!UserCommand,
  AsChannels!UserKind, AsChannels!StateKind, AsChannels!ChanKind,
  AsChannels!Spawned, AsChannels!Unspawned, AsChannels!Ended,
  AsChannels!socketVars, AsChannels!UserSend, AsChannels!UserReads,
  AsChannels!Answers, AsChannels!userVars

(* Channels that are shut down, made and spawned.                          *)
LEMMA SameSpawns ==
  /\ \A c : CP!UserShutdown(c) <=> AsChannels!UserShutdown(c)
  /\ \A c : CP!RequestChannel(c) <=> AsChannels!RequestChannel(c)
  /\ \A c : CP!SpawnChannel(c) <=> AsChannels!SpawnChannel(c)
BY SameChannelsData, SameChannelsGuards DEF CP!UserShutdown, CP!Spawned,
  CP!Unspawned, CP!Ended, CP!socketVars, CP!RequestChannel, CP!privateVars,
  CP!userVars, CP!SpawnChannel, CP!Online, AsChannels!UserShutdown,
  AsChannels!Spawned, AsChannels!Unspawned, AsChannels!Ended,
  AsChannels!socketVars, AsChannels!RequestChannel, AsChannels!privateVars,
  AsChannels!userVars, AsChannels!SpawnChannel, AsChannels!Online

(* The socket, as its channels see it.                                     *)
LEMMA SameSocketSteps ==
  /\ CP!SocketWrites <=> AsChannels!SocketWrites
  /\ CP!SocketConnects <=> AsChannels!SocketConnects
  /\ CP!SocketDisconnects <=> AsChannels!SocketDisconnects
  /\ CP!SocketTakesState <=> AsChannels!SocketTakesState
  /\ CP!SocketTakesSend <=> AsChannels!SocketTakesSend
  /\ CP!SocketEnds <=> AsChannels!SocketEnds
BY SameChannelsData, SameChannelsGuards DEF CP!SocketWrites, CP!Online,
  CP!privateVars, CP!userVars, CP!SocketConnects, CP!Broadcast, CP!Spawned,
  CP!Unspawned, CP!Ended, CP!SmallerOf, CP!SocketDisconnects, CP!Disconnected,
  CP!SocketTakesState, CP!SocketTakes, CP!SocketTakesSend, CP!SocketEnds,
  AsChannels!SocketWrites, AsChannels!Online, AsChannels!privateVars,
  AsChannels!userVars, AsChannels!SocketConnects, AsChannels!Broadcast,
  AsChannels!Spawned, AsChannels!Unspawned, AsChannels!Ended,
  AsChannels!SmallerOf, AsChannels!SocketDisconnects, AsChannels!Disconnected,
  AsChannels!SocketTakesState, AsChannels!SocketTakes,
  AsChannels!SocketTakesSend, AsChannels!SocketEnds

(* Its answers.                                                            *)
LEMMA SameAnswers ==
  /\ \A r : CP!SocketAnswers(r) <=> AsChannels!SocketAnswers(r)
BY SameChannelsData, SameChannelsGuards DEF CP!SocketAnswers, CP!Online,
  CP!socketVars, CP!privateVars, CP!userVars, AsChannels!SocketAnswers,
  AsChannels!Online, AsChannels!socketVars, AsChannels!privateVars,
  AsChannels!userVars

(* Its pushes.                                                             *)
LEMMA SameQueuedPushes ==
  /\ \A c, m : CP!SocketPushes(c, m) <=> AsChannels!SocketPushes(c, m)
BY SameChannelsData, SameChannelsGuards DEF CP!SocketPushes, CP!Online,
  CP!socketVars, CP!privateVars, CP!userVars, AsChannels!SocketPushes,
  AsChannels!Online, AsChannels!socketVars, AsChannels!privateVars,
  AsChannels!userVars

LEMMA SameChannels == CP!Spec <=> AsChannels!Spec
<1>1. CP!Init <=> AsChannels!Init
  BY DEF CP!Init, AsChannels!Init, CP!Blank, AsChannels!Blank, CP!NoRejoin, AsChannels!NoRejoin
<1>2. \A c : CP!Task(c) <=> AsChannels!Task(c)
  BY SameNews, SameResults, SameCommands, SameRejoins, SameLeaves, SameTraffic, SameSubmissions,
    SameFailures DEF CP!Task, AsChannels!Task
<1>3. CP!Next <=> AsChannels!Next
  BY <1>2, SameUsers, SameSpawns, SameSocketSteps, SameAnswers, SameQueuedPushes
  DEF CP!Next, CP!Socket, CP!Users, AsChannels!Next, AsChannels!Socket, AsChannels!Users
<1>4. UNCHANGED CP!vars <=> UNCHANGED AsChannels!vars
  BY DEF CP!vars, CP!socketVars, CP!userVars, AsChannels!vars,
    AsChannels!socketVars, AsChannels!userVars
<1>5. [CP!Next]_CP!vars <=> [AsChannels!Next]_AsChannels!vars
  BY <1>3, <1>4
<1> QED
  BY <1>1, <1>5, PTL DEF CP!Spec, AsChannels!Spec
=============================================================================
