------------------------- MODULE PhoenixClientProofs -------------------------
(***************************************************************************)
(* Theorems about PhoenixClient: the socket task and the channel tasks are *)
(* each the environment that the other's module assumes, and what holds of *)
(* each alone holds of the client.                                         *)
(***************************************************************************)
EXTENDS ClientViews

(***************************************************************************)
(* What links the two: the inductive invariant of the client is the one of *)
(* its socket, that of its channels, and this.                             *)
(***************************************************************************)
Alive(c) == phase[c] \notin Unspawned \cup Ended

(* A channel that lives is seen by the socket in the state it was born in. *)
BornAlive == \A c \in Channel : Alive(c) => born[c] \in {"WaitingForSocketToConnect", "WaitingToJoin"}

(* A call or cast is with its channel, or has gone on to the socket.       *)
Sends == RequestsOf({"call", "cast"})
GoneOn == /\ forwarded \subseteq Sends
          /\ forwarded \cap InChannels = {}
          /\ Range(sendQ) \subseteq forwarded
          /\ \A r \in Sends : outcome[r] = "pending" => r \in InChannels \cup forwarded

(* What is still with a channel is unknown to the socket, ...              *)
SocketHas == S!Held \cup timers \cup S!ServerBacklog
             \cup {joined[c] : c \in Channel} \cup {receiving[c] : c \in Channel}
Apart == InChannels \cap SocketHas \subseteq {NoRequest}

(* ... is with it once, ...                                                *)
Once == \A c \in Channel : IsInjective(sends[c]) /\ task[c].busy \notin Range(sends[c])

(* ... and has nobody waiting for a join or leave, or only callers.        *)
NotAsked ==
  /\ \A r \in InChannels \cap RequestsOf({"join", "leave"}) : outcome[r] = "free"
  /\ \A r \in InChannels \cap Sends : outcome[r] = "pending" \/ (r.kind = "call" /\ outcome[r] = "free")

Link == /\ outcome \in [Request -> Outcome]
        /\ BornAlive /\ GoneOn /\ Apart /\ Once /\ NotAsked

ClientInv == SP!SocketInv /\ CP!Inv /\ Link

-----------------------------------------------------------------------------
(***************************************************************************)
(* The types of both, in the words of the client.                          *)
(***************************************************************************)
JoinOrNone == RequestsOf({"join"}) \cup {NoRequest}
SocketTypes ==
  /\ pc \in {"select", "publish", "connecting", "pushing", "exited"} \cup SP!Writing
  /\ state \in SP!SocketState /\ status \in SP!SocketState
  /\ serving \in RequestsOf({"connect"}) \cup {NoRequest}
  /\ stateQ \in Seq(RequestsOf(StateKind)) /\ spawnQ \in Seq(Channel)
  /\ chanStateQ \in Seq(RequestsOf({"join", "leave"})) /\ sendQ \in Seq(Sends)
  /\ joins \in [Channel -> JoinOrNone] /\ joined \in [Channel -> JoinOrNone]
  /\ receiving \in [Channel -> JoinOrNone]
  /\ timers \in SUBSET RequestsOf({"join"}) /\ replies \in SUBSET RequestsOf({"call"})
  /\ sent \in [Channel -> SUBSET RequestsOf(ChanKind)]
  /\ unread \in [Channel -> 0..2]
  /\ pushQ \in [Channel -> Seq(PushKind)]
  /\ blocked \in {<<>>} \cup (Channel \X PushKind)

TaskFields ==
  [rejoin : {CP!NoRejoin} \cup 0..MaxAttempts, busy : RequestsOf(ChanKind) \cup {NoRequest},
   awaiting : RequestsOf({"join", "leave"}) \cup {NoRequest},
   joiners : SUBSET RequestsOf({"channel_join"}), leavers : SUBSET RequestsOf({"channel_leave"}),
   deaf : BOOLEAN]
ChannelTypes ==
  /\ phase \in [Channel -> Phase] /\ task \in [Channel -> TaskFields]
  /\ commands \in [Channel -> Seq(RequestsOf(UserKind))]
  /\ sends \in [Channel -> Seq(Sends)] /\ stop \in [Channel -> BOOLEAN]
  /\ outcome \in [Request -> Outcome]

LEMMA KindsOfRequests ==
  /\ SP!RequestsOf({"connect"}) = RequestsOf({"connect"})
  /\ SP!RequestsOf(SP!StateKind) = RequestsOf(StateKind)
  /\ SP!RequestsOf({"join"}) = RequestsOf({"join"}) /\ CP!RequestsOf({"join"}) = RequestsOf({"join"})
  /\ SP!RequestsOf({"call"}) = RequestsOf({"call"})
  /\ SP!RequestsOf({"join", "leave"}) = RequestsOf({"join", "leave"})
  /\ CP!RequestsOf({"join", "leave"}) = RequestsOf({"join", "leave"})
  /\ SP!RequestsOf({"call", "cast"}) = RequestsOf({"call", "cast"})
  /\ CP!RequestsOf({"call", "cast"}) = RequestsOf({"call", "cast"})
  /\ SP!RequestsOf(SP!ChanKind) = RequestsOf(ChanKind) /\ CP!RequestsOf(CP!ChanKind) = RequestsOf(ChanKind)
  /\ CP!RequestsOf({"channel_join"}) = RequestsOf({"channel_join"})
  /\ CP!RequestsOf({"channel_leave"}) = RequestsOf({"channel_leave"})
  /\ CP!RequestsOf({"join", "call"}) = RequestsOf({"join", "call"})
  /\ CP!RequestsOf(CP!UserKind) = RequestsOf(UserKind)
<1>1. /\ {"connect"} \in SUBSET SocketKinds /\ StateKind \in SUBSET SocketKinds
      /\ {"join"} \in SUBSET SocketKinds /\ {"call"} \in SUBSET SocketKinds
      /\ {"join", "leave"} \in SUBSET SocketKinds /\ {"call", "cast"} \in SUBSET SocketKinds
      /\ ChanKind \in SUBSET SocketKinds
  BY DEF SocketKinds, StateKind, ChanKind
<1>2. /\ {"join"} \in SUBSET ChannelKinds /\ {"join", "leave"} \in SUBSET ChannelKinds
      /\ {"call", "cast"} \in SUBSET ChannelKinds /\ ChanKind \in SUBSET ChannelKinds
      /\ {"channel_join"} \in SUBSET ChannelKinds /\ {"channel_leave"} \in SUBSET ChannelKinds
      /\ {"join", "call"} \in SUBSET ChannelKinds /\ UserKind \in SUBSET ChannelKinds
  BY DEF ChannelKinds, UserKind, ChanKind
<1> QED
  BY <1>1, <1>2, SameRequests, SameWords

LEMMA ClientTypes == ASSUME ClientInv PROVE SocketTypes /\ ChannelTypes
<1>1. SP!TypeOK /\ CP!TypeOK /\ outcome \in [Request -> Outcome]
  BY DEF ClientInv, SP!SocketInv, CP!Inv, Link
<1>2. SocketTypes
  BY <1>1, KindsOfRequests DEF SP!TypeOK, SP!TaskTypeOK, SP!QueueTypeOK, SP!MapTypeOK,
    SP!SharedTypeOK, SocketTypes, JoinOrNone, Sends
<1>3. CP!TaskType = TaskFields
  BY KindsOfRequests DEF CP!TaskType, TaskFields
<1>4. ChannelTypes
  BY <1>1, <1>3, KindsOfRequests DEF CP!TypeOK, ChannelTypes, Sends, CP!Phase, Phase, CP!Unspawned,
    CP!Ended, Unspawned, Ended
<1> QED
  BY <1>2, <1>4

-----------------------------------------------------------------------------
(***************************************************************************)
(* The socket's steps, as the socket sees them                             *)
(***************************************************************************)
(* What the socket has is the same to the client and to the socket.        *)
LEMMA SamePossessions ==
  /\ S!PendingJoins = SP!PendingJoins /\ S!ServerBacklog = SP!ServerBacklog
  /\ S!QueuedRequests = SP!QueuedRequests /\ S!Held = SP!Held
  /\ S!EmptyMaps <=> SP!EmptyMaps
<1>1. S!PendingJoins = SP!PendingJoins
  BY DEF S!PendingJoins, SP!PendingJoins
<1>2. S!ServerBacklog = SP!ServerBacklog
  BY DEF S!ServerBacklog, SP!ServerBacklog
<1>3. S!QueuedRequests = SP!QueuedRequests
  BY SameWords DEF S!QueuedRequests, SP!QueuedRequests
<1>4. S!Held = SP!Held
  BY <1>1, <1>3 DEF S!Held, SP!Held
<1>5. S!EmptyMaps <=> SP!EmptyMaps
  BY DEF S!EmptyMaps, SP!EmptyMaps
<1> QED
  BY <1>1, <1>2, <1>3, <1>4, <1>5

(* The queue of calls and casts is only taken from, all at once or one.    *)
SendsOnlyTaken == sendQ' = sendQ \/ (sendQ # <<>> /\ sendQ' = Tail(sendQ)) \/ sendQ' = <<>>

LEMMA TakenFromSends == ASSUME SocketStep PROVE SendsOnlyTaken
<1> USE DEF SendsOnlyTaken, S!queueVars, S!Await
<1>1. ASSUME S!Listener PROVE SendsOnlyTaken
  <2>1. CASE S!Connect \/ S!Close \/ S!Disconnect \/ S!Shutdown
    BY <2>1 DEF S!Connect, S!Close, S!Disconnect, S!Shutdown, S!TakeStateCommand
  <2>2. CASE S!Reconnect \/ S!SocketConnectOk \/ S!SocketConnectError \/ S!Publish
    BY <2>2 DEF S!Reconnect, S!SocketConnectOk, S!SocketConnectError, S!Publish
  <2>3. CASE S!Exit \/ S!Dropped
    BY <2>3 DEF S!Exit, S!Dropped, S!ShutDown, S!DropEverything
  <2>4. CASE S!SpawnChannel \/ S!WriteState \/ S!StartJoin \/ S!Leave
    BY <2>4 DEF S!SpawnChannel, S!WriteState, S!StartJoin, S!Leave, S!TakeChannelStateCommand
  <2>5. CASE S!WriteSend \/ S!Call \/ S!Cast
    BY <2>5 DEF S!WriteSend, S!Call, S!Cast, S!TakeSendCommand
  <2>6. CASE \/ (\E r \in Request : S!JoinTimedOut(r)) \/ S!PushUnblocked
             \/ S!Heartbeat \/ S!Pong \/ S!AnswerClose \/ S!Written
    BY <2>6 DEF S!JoinTimedOut, S!PushUnblocked, S!Heartbeat, S!Pong, S!AnswerClose, S!Written
  <2> QED
    BY <1>1, <2>1, <2>2, <2>3, <2>4, <2>5, <2>6 DEF S!Listener
<1>2. ASSUME S!Network PROVE SendsOnlyTaken
  <2>1. CASE \E c \in Channel, r \in Request : S!Reply(c, r) \/ S!NoReply(c, r)
    BY <2>1 DEF S!Reply, S!NoReply
  <2>2. CASE \E c \in Channel, m \in PushKind : S!HandlePush(c, m)
    BY <2>2 DEF S!HandlePush
  <2>3. CASE S!ConnectionLost \/ S!FatalSocketError \/ S!HeartbeatReply
    BY <2>3 DEF S!ConnectionLost, S!FatalSocketError, S!HeartbeatReply, S!DropEverything
  <2> QED
    BY <1>2, <2>1, <2>2, <2>3 DEF S!Network
<1> QED
  BY <1>1, <1>2 DEF SocketStep

LEMMA TakenRange == ASSUME NEW q, q \in Seq(Sends), NEW p, p = q \/ (q # <<>> /\ p = Tail(q)) \/ p = <<>>
                    PROVE  Range(p) \subseteq Range(q)
BY QueueElements, EmptyElements

(* So nothing goes on while nothing leaves a channel.                      *)
LEMMA NothingGoesOn ==
  ASSUME ClientInv, Remember, SendsOnlyTaken, UNCHANGED <<task, sends>>
  PROVE  /\ forwarded' = forwarded
         /\ SocketsOutcome' = SocketsView(outcome', forwarded)
<1>1. Range(sendQ') \subseteq Range(sendQ)
  BY ClientTypes, TakenRange DEF SocketTypes, SendsOnlyTaken
<1>2. InChannels' = InChannels
  BY DEF InChannels
<1>3. forwarded' = forwarded
  BY <1>1, <1>2 DEF Remember, ClientInv, Link, GoneOn
<1> QED
  BY <1>3, Views

(* A channel that has not been spawned, or has ended, is one to both.      *)
LEMMA PhasesSeen ==
  ASSUME ClientInv
  PROVE  /\ DOMAIN SocketsPhase = Channel
         /\ \A c \in Channel :
              /\ SocketsPhase[c] \in Unspawned \cup Ended <=> phase[c] \in Unspawned \cup Ended
              /\ SocketsPhase[c] \in Unspawned <=> phase[c] \in Unspawned
              /\ phase[c] \in Unspawned => SocketsPhase[c] = phase[c]
BY DEF ClientInv, Link, BornAlive, Alive, SocketsPhase, SocketSees, Unspawned, Ended

LEMMA PhaseKept ==
  ASSUME ClientInv, Remember, phase' = phase PROVE SocketsPhase' = SocketsPhase
BY ClientTypes DEF ChannelTypes, Remember, SocketsPhase, SocketSees

(* The broadcast is the same one.                                          *)
LEMMA BroadcastSeen ==
  ASSUME ClientInv, NEW v, S!Broadcast(v) PROVE SP!Broadcast(v)
BY PhasesSeen, SameWords DEF S!Broadcast, SP!Broadcast

(* A handler that waits changes nothing but pc.                            *)
LEMMA WaitsSeen ==
  ASSUME ClientInv, Remember, UNCHANGED channelOnly, SendsOnlyTaken, NEW w, S!Await(w)
  PROVE  SP!Await(w)
<1>1. SocketsOutcome' = SocketsView(outcome', forwarded) /\ SocketsOutcome = SocketsView(outcome, forwarded)
  BY NothingGoesOn, Views DEF channelOnly
<1>2. phase' = phase => SocketsPhase' = SocketsPhase
  BY PhaseKept
<1> QED
  BY <1>1, <1>2 DEF S!Await, SP!Await, S!Online, SP!Online, S!AtSelect, SP!AtSelect,
    S!chanVars, SP!chanVars, S!pushVars, SP!pushVars, S!backVars, SP!backVars, S!queueVars,
    SP!queueVars, S!connVars, SP!connVars, S!castVars, SP!castVars

(* Steps that leave the oneshots and the phases alone but for an answer.   *)
LEMMA StateCommandsSeen ==
  ASSUME ClientInv, Remember, UNCHANGED channelOnly, SendsOnlyTaken
  PROVE  /\ S!Connect => SP!Connect
         /\ S!Close => SP!Close
         /\ S!Disconnect => SP!Disconnect
         /\ S!Shutdown => SP!Shutdown
<1>1. SocketsOutcome' = SocketsView(outcome', forwarded) /\ SocketsOutcome = SocketsView(outcome, forwarded)
  BY NothingGoesOn, Views DEF channelOnly
<1>2. \A out, R, o : SocketsView(S!Answer(out, R, o), forwarded) = SP!Answer(SocketsView(out, forwarded), R, o)
  BY AnswersSeen
<1>3. \A kind : S!TakeStateCommand(kind) => SP!TakeStateCommand(kind) /\ SocketsPhase' = SocketsPhase
  BY PhaseKept DEF S!TakeStateCommand, SP!TakeStateCommand, S!chanVars, SP!chanVars, S!pushVars,
    SP!pushVars
<1> USE DEF S!Polling, SP!Polling, S!AtSelect, SP!AtSelect, S!PollingState, SP!PollingState,
  S!Resumed, SP!Resumed
<1>4. S!Connect => SP!Connect
  BY <1>1, <1>2, <1>3 DEF S!Connect, SP!Connect, S!connVars, SP!connVars, S!castVars, SP!castVars,
    S!backVars, SP!backVars
<1>5. ASSUME NEW v, S!Broadcast(v) PROVE SP!Broadcast(v)
  BY <1>5, BroadcastSeen
<1>6. S!Disconnect => SP!Disconnect
  BY <1>1, <1>2, <1>3, <1>5, SamePossessions DEF S!Disconnect, SP!Disconnect, S!SendDisconnected,
    SP!SendDisconnected, S!connVars, SP!connVars, S!castVars, SP!castVars, S!backVars, SP!backVars
<1>7. S!Shutdown => SP!Shutdown
  BY <1>1, <1>2, <1>3, <1>5, SamePossessions DEF S!Shutdown, SP!Shutdown, S!SendDisconnected,
    SP!SendDisconnected, S!connVars, SP!connVars, S!castVars, SP!castVars, S!backVars, SP!backVars
<1>8. S!Close => SP!Close
  BY WaitsSeen DEF S!Close, SP!Close
<1> QED
  BY <1>4, <1>6, <1>7, <1>8

LEMMA ConnectionSeen ==
  ASSUME ClientInv, Remember, UNCHANGED channelOnly, SendsOnlyTaken
  PROVE  /\ S!Reconnect => SP!Reconnect
         /\ S!SocketConnectOk => SP!SocketConnectOk
         /\ S!SocketConnectError => SP!SocketConnectError
         /\ S!Publish => SP!Publish
<1>1. SocketsOutcome' = SocketsView(outcome', forwarded) /\ SocketsOutcome = SocketsView(outcome, forwarded)
  BY NothingGoesOn, Views DEF channelOnly
<1>2. \A out, R, o : SocketsView(S!Answer(out, R, o), forwarded) = SP!Answer(SocketsView(out, forwarded), R, o)
  BY AnswersSeen
<1>3. phase' = phase => SocketsPhase' = SocketsPhase
  BY PhaseKept
<1> USE DEF S!chanVars, SP!chanVars, S!pushVars, SP!pushVars, S!backVars, SP!backVars,
  S!queueVars, SP!queueVars, S!connVars, SP!connVars, S!castVars, SP!castVars
<1>4. S!Reconnect => SP!Reconnect
  BY <1>1, <1>3 DEF S!Reconnect, SP!Reconnect, S!AtSelect, SP!AtSelect
<1>5. S!SocketConnectOk => SP!SocketConnectOk
  BY <1>1, <1>2, <1>3, BroadcastSeen, SamePossessions DEF S!SocketConnectOk, SP!SocketConnectOk
<1>6. S!SocketConnectError => SP!SocketConnectError
  <2>1. /\ S!ConnectErrors = SP!ConnectErrors
        /\ S!SleepAfterFailure(attempts) = SP!SleepAfterFailure(attempts)
        /\ S!NextAttempt(attempts) = SP!NextAttempt(attempts)
    BY DEF S!ConnectErrors, SP!ConnectErrors, S!SleepAfterFailure, SP!SleepAfterFailure,
      S!SleepMultiplier, SP!SleepMultiplier, S!NextAttempt, SP!NextAttempt, S!SmallerOf, SP!SmallerOf
  <2> QED
    BY <1>1, <1>2, <1>3, <2>1 DEF S!SocketConnectError, SP!SocketConnectError
<1>7. S!Publish => SP!Publish
  BY <1>1, <1>3 DEF S!Publish, SP!Publish
<1> QED
  BY <1>4, <1>5, <1>6, <1>7

(* The task ends, and those it was to spawn are forgotten.                 *)
LEMMA EndSeen ==
  ASSUME ClientInv, Remember, UNCHANGED channelOnly, SendsOnlyTaken
  PROVE  /\ S!Exit => SP!Exit
         /\ S!Dropped => SP!Dropped
         /\ S!FatalSocketError => SP!FatalSocketError
<1>1. SocketsOutcome' = SocketsView(outcome', forwarded) /\ SocketsOutcome = SocketsView(outcome, forwarded)
  BY NothingGoesOn, Views DEF channelOnly
<1>2. \A out, R, o : SocketsView(S!Answer(out, R, o), forwarded) = SP!Answer(SocketsView(out, forwarded), R, o)
  BY AnswersSeen
<1>3. ASSUME phase' = [c \in Channel |-> IF phase[c] = "Requested" THEN "none" ELSE phase[c]]
      PROVE  SocketsPhase' = [c \in Channel |-> IF SocketsPhase[c] = "Requested" THEN "none"
                                                ELSE SocketsPhase[c]]
  <2>1. ASSUME NEW c \in Channel
        PROVE  SocketSees(c)' = IF SocketSees(c) = "Requested" THEN "none" ELSE SocketSees(c)
    <3>1. CASE phase[c] \in Unspawned
      BY <1>3, <3>1 DEF SocketSees, Unspawned, Ended
    <3>2. CASE phase[c] \in Ended
      BY <1>3, <3>2 DEF SocketSees, Unspawned, Ended
    <3>3. CASE phase[c] \notin Unspawned \cup Ended
      <4>1. phase'[c] = phase[c] /\ born'[c] = born[c] /\ born[c] # "Requested"
        BY <1>3, <3>3 DEF Remember, ClientInv, Link, BornAlive, Alive, Unspawned
      <4> QED
        BY <3>3, <4>1 DEF SocketSees
    <3> QED
      BY <3>1, <3>2, <3>3
  <2> QED
    BY <2>1 DEF SocketsPhase
<1> USE DEF S!pushVars, SP!pushVars, S!backVars, SP!backVars, S!castVars, SP!castVars, S!AtSelect,
  SP!AtSelect
<1>4. S!DropEverything => SP!DropEverything
  BY <1>1, <1>2, <1>3, SamePossessions DEF S!DropEverything, SP!DropEverything
<1>5. S!Exit => SP!Exit
  BY <1>4 DEF S!Exit, SP!Exit, S!ShutDown, SP!ShutDown
<1>6. S!Dropped => SP!Dropped
  BY <1>4, PhasesSeen, SameWords DEF S!Dropped, SP!Dropped, S!ShutDown, SP!ShutDown
<1>7. S!FatalSocketError => SP!FatalSocketError
  BY <1>4 DEF S!FatalSocketError, SP!FatalSocketError, S!Online, SP!Online
<1> QED
  BY <1>5, <1>6, <1>7

(* A channel is spawned, and born.                                         *)
LEMMA SpawnSeen ==
  ASSUME ClientInv, Remember, UNCHANGED channelOnly, SendsOnlyTaken, S!SpawnChannel
  PROVE  SP!SpawnChannel
<1>1. SocketsOutcome' = SocketsOutcome
  BY NothingGoesOn, Views DEF channelOnly, S!SpawnChannel
<1>2. PICK c \in Channel : spawnQ # <<>> /\ c = Head(spawnQ) /\ SocketsPhase[c] = "Requested"
  <2>1. spawnQ # <<>> /\ spawnQ \in Seq(Channel) /\ Head(spawnQ) \in Range(spawnQ)
    BY ClientTypes, QueueElements DEF SocketTypes, S!SpawnChannel
  <2> QED
    BY <2>1, SameWords, QueueSteps DEF ClientInv, SP!SocketInv, SP!SpawnOrder
<1>3. PICK p \in {"ShutDown", IF state = "Connected" THEN "WaitingToJoin" ELSE "WaitingForSocketToConnect"} :
        phase' = [phase EXCEPT ![c] = p]
  BY <1>2 DEF S!SpawnChannel
<1>4. SocketsPhase' = [SocketsPhase EXCEPT ![c] = p]
  <2>1. phase[c] \in Unspawned
    BY <1>2, PhasesSeen DEF Unspawned
  <2>2. phase'[c] = p /\ born'[c] = p /\ \A d \in Channel \ {c} : phase'[d] = phase[d]
    BY <1>2, <1>3, <2>1, ClientTypes DEF ChannelTypes, Remember
  <2>3. SocketSees(c)' = p
    BY <1>3, <2>2 DEF SocketSees, Unspawned, Ended
  <2>4. \A d \in Channel \ {c} : SocketSees(d)' = SocketSees(d)
    BY <2>2 DEF SocketSees, Remember
  <2> QED
    BY <1>2, <2>3, <2>4 DEF SocketsPhase
<1> QED
  BY <1>1, <1>2, <1>3, <1>4 DEF S!SpawnChannel, SP!SpawnChannel, S!Polling, SP!Polling, S!AtSelect,
    SP!AtSelect, S!PollingState, SP!PollingState, S!backVars, SP!backVars, S!connVars, SP!connVars,
    S!pushVars, SP!pushVars

(* Commands of channels; a frame that cannot be sent ends the connection.  *)
LEMMA ChannelCommandsSeen ==
  ASSUME ClientInv, Remember, UNCHANGED channelOnly, SendsOnlyTaken
  PROVE  /\ S!WriteState => SP!WriteState
         /\ S!WriteSend => SP!WriteSend
         /\ S!StartJoin => SP!StartJoin
         /\ S!Leave => SP!Leave
         /\ S!Call => SP!Call
         /\ S!Cast => SP!Cast
<1>1. SocketsOutcome' = SocketsView(outcome', forwarded) /\ SocketsOutcome = SocketsView(outcome, forwarded)
  BY NothingGoesOn, Views DEF channelOnly
<1>2. \A out, R, o : SocketsView(S!Answer(out, R, o), forwarded) = SP!Answer(SocketsView(out, forwarded), R, o)
  BY AnswersSeen
<1>3. /\ \A kind : S!TakeChannelStateCommand(kind) => SP!TakeChannelStateCommand(kind)
      /\ \A kind : S!TakeSendCommand(kind) => SP!TakeSendCommand(kind)
  BY PhaseKept DEF S!TakeChannelStateCommand, SP!TakeChannelStateCommand, S!TakeSendCommand,
    SP!TakeSendCommand, S!Resumed, SP!Resumed, S!chanVars, SP!chanVars, S!pushVars, SP!pushVars
<1>4. \A r : /\ S!FrameSent(r) <=> SP!FrameSent(r)
             /\ S!ArmTimeout(r) <=> SP!ArmTimeout(r)
  BY DEF S!FrameSent, SP!FrameSent, S!ArmTimeout, SP!ArmTimeout
<1>5. S!SleepMultiplier(0) = SP!SleepMultiplier(0)
  BY DEF S!SleepMultiplier, SP!SleepMultiplier, S!SmallerOf, SP!SmallerOf
<1>6. ASSUME NEW v, S!Broadcast(v) PROVE SP!Broadcast(v)
  BY <1>6, BroadcastSeen
<1> USE DEF S!backVars, SP!backVars, S!castVars, SP!castVars, S!WaitToReconnectConnected,
  SP!WaitToReconnectConnected, S!SendDisconnected, SP!SendDisconnected
<1>7. S!StartJoin => SP!StartJoin
  BY <1>1, <1>2, <1>3, <1>4, <1>5, <1>6, SamePossessions DEF S!StartJoin, SP!StartJoin
<1>8. S!Leave => SP!Leave
  BY <1>1, <1>2, <1>3, <1>4, <1>5, <1>6, SamePossessions DEF S!Leave, SP!Leave
<1>9. S!Call => SP!Call
  BY <1>1, <1>2, <1>3, <1>4, <1>5, <1>6, SamePossessions DEF S!Call, SP!Call
<1>10. S!Cast => SP!Cast
  BY <1>1, <1>2, <1>3, <1>4, <1>5, <1>6, SamePossessions DEF S!Cast, SP!Cast
<1>11. S!WriteState => SP!WriteState
  BY WaitsSeen DEF S!WriteState, SP!WriteState
<1>12. S!WriteSend => SP!WriteSend
  BY WaitsSeen DEF S!WriteSend, SP!WriteSend
<1> QED
  BY <1>7, <1>8, <1>9, <1>10, <1>11, <1>12

(* Joins that time out, replies, and the loss of the connection.           *)
LEMMA OutcomeSeen ==
  ASSUME ClientInv, NEW r \in RequestsOf({"join"})
  PROVE  r \in SocketsRequest /\ SocketsOutcome[r] = outcome[r]
BY SameRequests DEF SocketsOutcome, SocketKnows, RequestsOf, SocketKinds, ChanKind

LEMMA NetworkSeen ==
  ASSUME ClientInv, Remember, UNCHANGED channelOnly, SendsOnlyTaken
  PROVE  /\ \A r \in Request : S!JoinTimedOut(r) => r \in SocketsRequest /\ SP!JoinTimedOut(r)
         /\ \A c \in Channel, r \in Request :
              /\ S!Reply(c, r) => r \in SocketsRequest /\ SP!Reply(c, r)
              /\ S!NoReply(c, r) => r \in SocketsRequest /\ SP!NoReply(c, r)
         /\ S!ConnectionLost => SP!ConnectionLost
         /\ S!Heartbeat => SP!Heartbeat
         /\ S!Pong => SP!Pong
         /\ S!AnswerClose => SP!AnswerClose
         /\ S!Written => SP!Written
         /\ S!HeartbeatReply => SP!HeartbeatReply
<1>1. SocketsOutcome' = SocketsView(outcome', forwarded) /\ SocketsOutcome = SocketsView(outcome, forwarded)
  BY NothingGoesOn, Views DEF channelOnly
<1>2. \A out, R, o : SocketsView(S!Answer(out, R, o), forwarded) = SP!Answer(SocketsView(out, forwarded), R, o)
  BY AnswersSeen
<1>3. phase' = phase => SocketsPhase' = SocketsPhase
  BY PhaseKept
<1>5. S!SleepMultiplier(0) = SP!SleepMultiplier(0)
  BY DEF S!SleepMultiplier, SP!SleepMultiplier, S!SmallerOf, SP!SmallerOf
<1>6. ASSUME NEW v, S!Broadcast(v) PROVE SP!Broadcast(v)
  BY <1>6, BroadcastSeen
<1> USE DEF S!backVars, SP!backVars, S!castVars, SP!castVars, S!queueVars, SP!queueVars,
  S!chanVars, SP!chanVars, S!pushVars, SP!pushVars, S!Online, SP!Online, S!AtSelect, SP!AtSelect
<1>7. ASSUME NEW r \in Request, S!JoinTimedOut(r) PROVE r \in SocketsRequest /\ SP!JoinTimedOut(r)
  <2>1. r \in RequestsOf({"join"})
    BY <1>7, ClientTypes DEF SocketTypes, S!JoinTimedOut
  <2> QED
    BY <1>1, <1>2, <1>3, <1>7, <2>1, OutcomeSeen DEF S!JoinTimedOut, SP!JoinTimedOut
<1>4. ASSUME NEW c \in Channel, NEW r \in sent[c] PROVE r \in SocketsRequest
  <2>1. sent[c] \subseteq RequestsOf(ChanKind)
    BY ClientTypes DEF SocketTypes
  <2> QED
    BY <2>1 DEF SocketsRequest, RequestsOf
<1>8. ASSUME NEW c \in Channel, NEW r, S!Reply(c, r) PROVE r \in SocketsRequest /\ SP!Reply(c, r)
  <2>1. joins[c] # NoRequest => outcome[joins[c]] = SocketsOutcome[joins[c]]
    BY ClientTypes, OutcomeSeen DEF SocketTypes, JoinOrNone
  <2>2. ASSUME NEW s, S!HandleReply(c, r, s) PROVE SP!HandleReply(c, r, s)
    BY <1>1, <1>2, <2>1, <2>2 DEF S!HandleReply, SP!HandleReply, S!FinishJoin, SP!FinishJoin
  <2>3. r \in SocketsRequest
    BY <1>4, <1>8 DEF S!Reply
  <2> QED
    BY <1>3, <1>8, <2>2, <2>3 DEF S!Reply, SP!Reply
<1>9. ASSUME NEW c \in Channel, NEW r, S!NoReply(c, r) PROVE r \in SocketsRequest /\ SP!NoReply(c, r)
  BY <1>1, <1>3, <1>4, <1>9 DEF S!NoReply, SP!NoReply, S!connVars, SP!connVars
<1> USE DEF S!WaitToReconnectConnected, SP!WaitToReconnectConnected, S!SendDisconnected, SP!SendDisconnected
<1>10. S!ConnectionLost => SP!ConnectionLost
  BY <1>1, <1>2, <1>3, <1>5, <1>6, SamePossessions DEF S!ConnectionLost, SP!ConnectionLost,
    S!Resumed, SP!Resumed
<1>11. S!Heartbeat => SP!Heartbeat
  BY WaitsSeen, Zenon DEF S!Heartbeat, SP!Heartbeat
<1>12. S!HeartbeatReply => SP!HeartbeatReply
  BY <1>1, <1>3 DEF S!HeartbeatReply, SP!HeartbeatReply
<1>13. (S!Pong => SP!Pong) /\ (S!AnswerClose => SP!AnswerClose)
  BY WaitsSeen DEF S!Pong, SP!Pong, S!AnswerClose, SP!AnswerClose
<1>14. S!Written => SP!Written
  BY <1>1, <1>2, <1>3, <1>5, <1>6, SamePossessions DEF S!Written, SP!Written, S!Resumed, SP!Resumed
<1> QED
  BY <1>7, <1>8, <1>9, <1>10, <1>11, <1>12, <1>13, <1>14

(* Pushes find the same receivers alive.                                   *)
LEMMA PushesSeen ==
  ASSUME ClientInv, Remember, UNCHANGED channelOnly, SendsOnlyTaken
  PROVE  /\ \A c \in Channel, m \in PushKind : S!HandlePush(c, m) => SP!HandlePush(c, m)
         /\ S!PushUnblocked => SP!PushUnblocked
<1>1. SocketsOutcome' = SocketsView(outcome', forwarded) /\ SocketsOutcome = SocketsView(outcome, forwarded)
  BY NothingGoesOn, Views DEF channelOnly
<1>2. phase' = phase => SocketsPhase' = SocketsPhase
  BY PhaseKept
<1>3. ASSUME NEW c \in Channel PROVE S!ReceiverAlive(c) <=> SP!ReceiverAlive(c)
  BY ClientTypes, OutcomeSeen DEF S!ReceiverAlive, SP!ReceiverAlive, SocketTypes, JoinOrNone
<1> USE DEF S!backVars, SP!backVars, S!castVars, SP!castVars, S!queueVars, SP!queueVars,
  S!chanVars, SP!chanVars, S!connVars, SP!connVars
<1>4. ASSUME NEW c \in Channel, NEW m \in PushKind, S!HandlePush(c, m) PROVE SP!HandlePush(c, m)
  BY <1>1, <1>2, <1>3, <1>4 DEF S!HandlePush, SP!HandlePush, S!Online, SP!Online, S!AtSelect, SP!AtSelect
<1>5. ASSUME S!PushUnblocked PROVE SP!PushUnblocked
  <2>1. blocked[1] \in Channel
    BY <1>5, ClientTypes DEF SocketTypes, S!PushUnblocked, ClientInv, SP!SocketInv,
      SP!BlockedWhilePushing
  <2> QED
    BY <1>1, <1>2, <1>3, <1>5, <2>1 DEF S!PushUnblocked, SP!PushUnblocked
<1> QED
  BY <1>4, <1>5

(* Every step of the socket task is one of SocketListener.                 *)
LEMMA SocketStepSeen ==
  ASSUME ClientInv, SocketStep, Remember PROVE SP!Listener \/ SP!Network
<1>1. SendsOnlyTaken /\ UNCHANGED channelOnly
  BY TakenFromSends DEF SocketStep
<1>2. S!Listener => SP!Listener
  BY <1>1, StateCommandsSeen, ConnectionSeen, EndSeen, SpawnSeen, ChannelCommandsSeen, NetworkSeen,
    PushesSeen DEF S!Listener, SP!Listener
<1>3. S!Network => SP!Network
  BY <1>1, EndSeen, NetworkSeen, PushesSeen DEF S!Network, SP!Network
<1> QED
  BY <1>2, <1>3 DEF SocketStep

-----------------------------------------------------------------------------
(***************************************************************************)
(* The users' steps, as the socket sees them                               *)
(***************************************************************************)
(* Of a request that it knows the socket sees the outcome, and a change.   *)
Known(r, known) == r \in SocketsRequest /\ (r.kind \in {"call", "cast"} => r \in known)

LEMMA KnownSeen ==
  ASSUME outcome \in [Request -> Outcome], SocketsOutcome' = SocketsView(outcome', forwarded),
         NEW r, NEW o, outcome' = [outcome EXCEPT ![r] = o]
  PROVE  /\ Known(r, forwarded) => /\ SocketsOutcome[r] = outcome[r]
                                   /\ SocketsOutcome' = [SocketsOutcome EXCEPT ![r] = o]
         /\ ~Known(r, forwarded) => SocketsOutcome' = SocketsOutcome
<1>1. SocketsRequest \subseteq Request
  BY DEF SocketsRequest, RequestsOf
<1>2. SocketsOutcome = [q \in SocketsRequest |-> IF Known(q, forwarded) THEN outcome[q] ELSE "free"]
  BY DEF SocketsOutcome, SocketKnows, Known
<1>3. SocketsOutcome' = [q \in SocketsRequest |-> IF Known(q, forwarded) THEN outcome'[q] ELSE "free"]
  BY DEF SocketsView, Known
<1>4. ASSUME Known(r, forwarded)
      PROVE  SocketsOutcome[r] = outcome[r] /\ SocketsOutcome' = [SocketsOutcome EXCEPT ![r] = o]
  BY <1>1, <1>2, <1>3, <1>4 DEF Known
<1>5. ASSUME ~Known(r, forwarded) PROVE SocketsOutcome' = SocketsOutcome
  BY <1>1, <1>2, <1>3, <1>5
<1> QED
  BY <1>4, <1>5

LEMMA KnownKinds ==
  /\ \A known : \A r \in RequestsOf(StateKind \cup {"join", "leave"}) : Known(r, known)
  /\ \A known : \A r \in RequestsOf(UserKind) : ~Known(r, known)
BY SameRequests DEF Known, RequestsOf, StateKind, UserKind, SocketKinds, ChanKind

LEMMA FreshSeen ==
  ASSUME ClientInv, NEW r \in SocketsRequest, S!Fresh(r) PROVE SP!Fresh(r)
BY SamePossessions DEF S!Fresh, SP!Fresh, SocketsOutcome

LEMMA SocketUserSeen ==
  ASSUME ClientInv, SocketUser, Remember PROVE SP!Clients
<1>1. /\ SendsOnlyTaken => SocketsOutcome' = SocketsView(outcome', forwarded)
      /\ SocketsOutcome = SocketsView(outcome, forwarded)
  BY NothingGoesOn, Views DEF channelOnly, SocketUser
<1>2. phase' = phase => SocketsPhase' = SocketsPhase
  BY PhaseKept
<1>3. outcome \in [Request -> Outcome]
  BY DEF ClientInv, Link
<1> USE DEF S!backVars, SP!backVars, S!castVars, SP!castVars, S!queueVars, SP!queueVars,
  S!chanVars, SP!chanVars, S!connVars, SP!connVars, S!socketVars, SP!socketVars, SendsOnlyTaken
<1>4. ASSUME NEW r \in RequestsOf(StateKind), S!SubmitState(r) \/ S!TakeAnswer(r) \/ S!GiveUp(r)
      PROVE  \E q \in SocketsRequest : SP!SubmitState(q) \/ SP!TakeAnswer(q) \/ SP!GiveUp(q)
  <2>1. Known(r, forwarded) /\ r \in SocketsRequest /\ r.kind \in StateKind /\ r.kind # "join"
    BY KnownKinds DEF Known, RequestsOf, StateKind
  <2>2. SocketsOutcome[r] = outcome[r]
    BY <2>1 DEF SocketsOutcome, SocketKnows, Known
  <2>3. ASSUME NEW o, SendsOnlyTaken, outcome' = [outcome EXCEPT ![r] = o]
        PROVE  SocketsOutcome' = [SocketsOutcome EXCEPT ![r] = o]
    BY <1>1, <1>3, <2>1, <2>3, KnownSeen
  <2>4. CASE S!SubmitState(r)
    BY <1>2, <2>1, <2>2, <2>3, <2>4, FreshSeen, SameWords DEF S!SubmitState, SP!SubmitState, S!Room, SP!Room
  <2>5. CASE S!TakeAnswer(r)
    BY <1>2, <2>1, <2>2, <2>3, <2>5, SameWords DEF S!TakeAnswer, SP!TakeAnswer
  <2>6. CASE S!GiveUp(r)
    BY <1>2, <2>1, <2>2, <2>3, <2>6 DEF S!GiveUp, SP!GiveUp
  <2> QED
    BY <1>4, <2>1, <2>4, <2>5, <2>6
<1>5. ASSUME NEW c \in Channel, S!RequestChannel(c) PROVE SP!RequestChannel(c)
  <2>1. phase[c] = "none" /\ phase' = [phase EXCEPT ![c] = "Requested"]
    BY <1>5 DEF S!RequestChannel
  <2>2. SocketsPhase[c] = "none"
    BY <2>1, PhasesSeen DEF Unspawned
  <2>3. SocketSees(c)' = "Requested"
    BY <2>1, ClientTypes DEF ChannelTypes, SocketSees, Unspawned
  <2>4. \A d \in Channel \ {c} : SocketSees(d)' = SocketSees(d)
    BY <2>1, ClientTypes DEF ChannelTypes, Remember, SocketSees
  <2>5. SocketsPhase' = [SocketsPhase EXCEPT ![c] = "Requested"]
    BY <2>3, <2>4 DEF SocketsPhase
  <2> QED
    BY <1>1, <1>5, <2>2, <2>5 DEF S!RequestChannel, SP!RequestChannel
<1> QED
  BY <1>4, <1>5 DEF SocketUser, SP!Clients

(* What the socket sees of a step that leaves its own alone.               *)
LEMMA SocketStutters ==
  ASSUME UNCHANGED <<socketOnly, chanStateQ, sendQ, connectivity, unread, receiving, pushQ>>,
         SocketsOutcome' = SocketsOutcome, SocketsPhase' = SocketsPhase
  PROVE  UNCHANGED SP!vars
BY DEF socketOnly, SP!vars, SP!backVars, SP!queueVars, SP!connVars, SP!castVars, SP!chanVars, SP!pushVars

LEMMA RequestChan ==
  /\ \A u \in RequestsOf(ChanKind \cup UserKind) : u.chan \in Channel
  /\ \A c \in Channel, r \in RequestsOf(StateKind) : r.chan # c
BY RequestAssumption, ChannelAssumption DEF RequestsOf, StateKind, ChanKind, UserKind

LEMMA UserCommandSeen ==
  ASSUME ClientInv, Remember, UNCHANGED socketOnly, NEW u \in Request, Ch!UserCommand(u)
  PROVE  UNCHANGED SP!vars
<1>1. UNCHANGED <<chanStateQ, sendQ, connectivity, unread, receiving, pushQ, phase, task, sends>>
  BY DEF Ch!UserCommand, Ch!socketVars
<1>2. ~Known(u, forwarded) /\ outcome \in [Request -> Outcome]
  BY SameWords, KnownKinds DEF Ch!UserCommand, RequestsOf, ClientInv, Link
<1>3. SocketsOutcome' = SocketsOutcome
  BY <1>1, <1>2, NothingGoesOn, KnownSeen DEF SendsOnlyTaken, Ch!UserCommand
<1> QED
  BY <1>1, <1>3, PhaseKept, SocketStutters

LEMMA WithChannels ==
  /\ \A r : r \in InChannels <=> \E c \in Channel : r \in Range(sends[c]) \/ r = task[c].busy
  /\ \A r : r \in InChannels' <=> \E c \in Channel : r \in Range(sends'[c]) \/ r = task'[c].busy
BY DEF InChannels

(* A call or cast that is new is not one that has gone on.                 *)
LEMMA UserSendSeen ==
  ASSUME ClientInv, Remember, UNCHANGED socketOnly, NEW u \in Request, S!Fresh(u), Ch!UserSend(u)
  PROVE  /\ UNCHANGED SP!vars
         /\ InChannels' = InChannels \cup {u} /\ forwarded' = forwarded \ {u}
<1>1. UNCHANGED <<chanStateQ, sendQ, connectivity, unread, receiving, pushQ, phase, task>>
  BY DEF Ch!UserSend, Ch!socketVars
<1>2. u \in Sends /\ u.chan \in Channel /\ outcome[u] = "free" /\ outcome \in [Request -> Outcome]
  BY RequestChan DEF Ch!UserSend, RequestsOf, Sends, ChanKind, ClientInv, Link, S!Fresh
<1>3. /\ sends[u.chan] \in Seq(Sends) /\ sends'[u.chan] = Append(sends[u.chan], u)
      /\ \A c \in Channel \ {u.chan} : sends'[c] = sends[c]
  BY <1>2, ClientTypes DEF Ch!UserSend, ChannelTypes
<1>4. InChannels' = InChannels \cup {u}
  <2>1. Range(sends'[u.chan]) = Range(sends[u.chan]) \cup {u}
    BY <1>2, <1>3, QueueElements
  <2> QED
    BY <1>1, <1>2, <1>3, <2>1, WithChannels
<1>5. forwarded' = forwarded \ {u}
  BY <1>1, <1>4 DEF Remember, ClientInv, Link, GoneOn
<1>6. SocketsOutcome' = SocketsOutcome
  BY <1>2, <1>5 DEF Ch!UserSend, SocketsOutcome, SocketKnows, SocketsRequest, RequestsOf, Sends
<1> QED
  BY <1>1, <1>4, <1>5, <1>6, PhaseKept, SocketStutters

LEMMA UserReadsSeen ==
  ASSUME ClientInv, Remember, UNCHANGED socketOnly, NEW u \in Request, Ch!UserReads(u)
  PROVE  [SP!Clients]_SP!vars
<1>1. UNCHANGED <<chanStateQ, sendQ, connectivity, unread, receiving, pushQ, phase, task, sends>>
  BY DEF Ch!UserReads, Ch!socketVars, Ch!userVars
<1>2. outcome \in [Request -> Outcome] /\ u.kind # "join"
  BY SameWords DEF ClientInv, Link, Ch!UserReads, UserKind
<1>3. SocketsOutcome' = SocketsView(outcome', forwarded) /\ SocketsPhase' = SocketsPhase
  BY <1>1, NothingGoesOn, PhaseKept DEF SendsOnlyTaken
<1>4. CASE ~Known(u, forwarded)
  <2>1. SocketsOutcome' = SocketsOutcome
    BY <1>2, <1>3, <1>4, KnownSeen DEF Ch!UserReads
  <2> QED
    BY <1>1, <1>3, <2>1, SocketStutters
<1>5. CASE Known(u, forwarded)
  <2>1. /\ u \in SocketsRequest /\ SocketsOutcome[u] = outcome[u]
        /\ SocketsOutcome' = [SocketsOutcome EXCEPT ![u] = "free"]
    BY <1>2, <1>3, <1>5, KnownSeen DEF Ch!UserReads, Known
  <2>2. outcome[u] \in Answers \/ (u.kind = "call" /\ outcome[u] = "pending")
    BY <1>5, SameWords, SameRequests DEF Ch!UserReads, Known, RequestsOf, SocketKinds, StateKind, ChanKind
  <2>3. SP!TakeAnswer(u) \/ SP!GiveUp(u)
    BY <1>1, <1>2, <1>3, <2>1, <2>2, SameWords DEF SP!TakeAnswer, SP!GiveUp, SP!socketVars,
      SP!queueVars, SP!castVars, SP!chanVars, SP!backVars, SP!connVars, socketOnly
  <2> QED
    BY <2>1, <2>3 DEF SP!Clients
<1> QED
  BY <1>4, <1>5

LEMMA ChannelUserSeen ==
  ASSUME ClientInv, ChannelUser, Remember PROVE [SP!Clients]_SP!vars
<1>1. ASSUME NEW c \in Channel, Ch!UserShutdown(c) PROVE UNCHANGED SP!vars
  <2>1. /\ UNCHANGED <<chanStateQ, sendQ, connectivity, unread, receiving, pushQ, phase, task, sends>>
        /\ outcome' = outcome
    BY <1>1 DEF Ch!UserShutdown, Ch!socketVars
  <2>2. SocketsOutcome' = SocketsOutcome
    BY <2>1, NothingGoesOn, Views DEF SendsOnlyTaken
  <2> QED
    BY <2>1, <2>2, PhaseKept, SocketStutters DEF ChannelUser
<1> QED
  BY <1>1, UserCommandSeen, UserSendSeen, UserReadsSeen DEF ChannelUser

-----------------------------------------------------------------------------
(***************************************************************************)
(* The channels' steps, as the socket sees them                            *)
(***************************************************************************)
LEMMA SeenBefore ==
  SocketsOutcome = [q \in SocketsRequest |-> IF Known(q, forwarded) THEN outcome[q] ELSE "free"]
BY DEF SocketsOutcome, SocketKnows, Known

LEMMA SeenAfter ==
  ASSUME forwarded' = forwarded
  PROVE  SocketsOutcome' = [q \in SocketsRequest |-> IF Known(q, forwarded) THEN outcome'[q] ELSE "free"]
BY DEF SocketsOutcome, SocketKnows, Known

(* Nothing the socket knows is different in out.                           *)
Spared(out) == \A r : Known(r, forwarded) => out[r] = outcome[r]

LEMMA AnswerSpared ==
  ASSUME NEW out, Spared(out), NEW R, NEW o, \A r \in R : Known(r, forwarded) => outcome[r] # "pending"
  PROVE  Spared(Answer(out, R, o)) /\ Spared(Ch!Answer(out, R, o))
<1>1. SocketsRequest \subseteq Request
  BY DEF SocketsRequest, RequestsOf
<1>2. Spared(Answer(out, R, o))
  BY <1>1 DEF Spared, Known, Answer
<1> QED
  BY <1>2, AnswersSeen

(* Such is what answers those that a channel has in its hands.             *)
LEMMA HandsUnknown ==
  ASSUME ClientInv, NEW c \in Channel
  PROVE  /\ Spared(outcome)
         /\ \A r \in Ch!Waiters(c) \cup Range(commands[c]) : ~Known(r, forwarded)
         /\ \A r \in Ch!UserHeld(c) \cup {task[c].busy} : Known(r, forwarded) => outcome[r] # "pending"
<1>1. Spared(outcome)
  BY DEF Spared
<1>2. ASSUME NEW r \in Ch!Waiters(c) \cup Range(commands[c]) PROVE ~Known(r, forwarded)
  <2>1. Ch!Waiters(c) \subseteq RequestsOf(UserKind)
    BY ClientTypes DEF Ch!Waiters, ChannelTypes, TaskFields, RequestsOf, UserKind
  <2>2. Range(commands[c]) \subseteq RequestsOf(UserKind)
    BY ClientTypes, QueueKind DEF ChannelTypes
  <2> QED
    BY <2>1, <2>2, KnownKinds
<1>3. ASSUME NEW r \in Range(sends[c]) \cup {task[c].busy}, Known(r, forwarded) PROVE outcome[r] # "pending"
  <2>1. r \in InChannels /\ r \in Request
    BY <1>3, WithChannels DEF Known, SocketsRequest, RequestsOf
  <2>2. r \notin Sends
    BY <1>3, <2>1 DEF ClientInv, Link, GoneOn, Known, Sends, RequestsOf
  <2>3. r \in RequestsOf({"join", "leave"})
    <3>1. Range(sends[c]) \subseteq Sends /\ task[c].busy \in RequestsOf(ChanKind) \cup {NoRequest}
      BY ClientTypes, QueueKind DEF ChannelTypes, TaskFields
    <3> QED
      BY <1>3, <2>1, <2>2, <3>1, RequestAssumption DEF RequestsOf, ChanKind, Sends
  <2> QED
    BY <2>1, <2>3 DEF ClientInv, Link, NotAsked
<1> QED
  BY <1>1, <1>2, <1>3, SameWords DEF Ch!UserHeld

(* What goes on from a channel is what it submits.                         *)
LEMMA NothingFromChannels ==
  ASSUME ClientInv, Remember, sendQ' = sendQ, InChannels' \subseteq InChannels \cup {NoRequest} \cup RequestsOf({"join", "leave"})
  PROVE  forwarded' = forwarded
<1>1. NoRequest \notin Sends /\ Sends \cap RequestsOf({"join", "leave"}) = {}
  BY RequestAssumption DEF Sends, RequestsOf
<1> QED
  BY <1>1 DEF Remember, ClientInv, Link, GoneOn

(* A channel that goes into another state and keeps nothing of this one    *)
(* has let go of its join, its leave and its receivers.                    *)
LetsGo(c) == /\ SocketsOutcome' = SP!Release(SocketsOutcome, SP!OfChannel(c))
             /\ SP!DropReceivers(c)

(* What the channels' invariant says, in the words of the client.          *)
LEMMA ChannelKnows ==
  ASSUME ClientInv, NEW c \in Channel
  PROVE  /\ task[c].busy # NoRequest => task[c].busy.chan = c
         /\ task[c].awaiting # NoRequest => task[c].awaiting.chan = c
         /\ \A u \in Ch!Waiters(c) \cup Range(commands[c]) \cup Range(sends[c]) : u.chan = c
         /\ phase[c] = "Joining" => task[c].awaiting \in RequestsOf({"join"})
         /\ phase[c] = "Leaving" => task[c].awaiting \in RequestsOf({"leave"})
         /\ task[c].awaiting # NoRequest => /\ phase[c] \in {"Joining", "Leaving"}
                                            /\ outcome[task[c].awaiting] # "free"
         /\ receiving[c] # NoRequest <=> phase[c] = "Joined"
         /\ Ch!Busy(c) /\ task[c].busy.kind = "join" =>
              phase[c] \in {"WaitingToJoin", "WaitingToRejoin", "Leaving", "Left"}
         /\ Ch!Busy(c) /\ task[c].busy.kind = "leave" => phase[c] \in {"Joining", "Joined"}
         /\ Ch!Busy(c) /\ task[c].busy.kind \in {"call", "cast"} => phase[c] = "Joined"
         /\ \A q \in RequestsOf({"join", "leave"}) :
              q.chan = c /\ outcome[q] # "free" => task[c].awaiting = q /\ receiving[c] = NoRequest
<1>1. CP!InvAt(c)
  BY DEF ClientInv, CP!Inv
<1>2. RequestsOf({"join", "leave"}) \subseteq ChannelsRequest
  BY SameRequests DEF RequestsOf, ChannelKinds, ChanKind
<1>3. \A q \in RequestsOf({"join", "leave"}) : ChannelsOutcome[q] = outcome[q]
  BY <1>2 DEF ChannelsOutcome
<1>4. CP!Waiters(c) = Ch!Waiters(c)
  BY DEF CP!Waiters, Ch!Waiters
<1>5. task[c].awaiting \in RequestsOf({"join", "leave"}) \cup {NoRequest}
  BY ClientTypes DEF ChannelTypes, TaskFields
<1>6. /\ phase[c] = "Joining" => task[c].awaiting \in RequestsOf({"join"})
      /\ phase[c] = "Leaving" => task[c].awaiting \in RequestsOf({"leave"})
  <2>1. CP!RequestsOf({"leave"}) = RequestsOf({"leave"})
    BY SameRequests DEF ChannelKinds, ChanKind
  <2> QED
    BY <1>1, <2>1, KindsOfRequests DEF CP!InvAt, CP!Awaits
<1>7. /\ task[c].awaiting # NoRequest => /\ phase[c] \in {"Joining", "Leaving"}
                                         /\ outcome[task[c].awaiting] # "free"
      /\ receiving[c] # NoRequest <=> phase[c] = "Joined"
  BY <1>1, <1>3, <1>5 DEF CP!InvAt, CP!Awaits
<1>8. /\ task[c].busy # NoRequest => task[c].busy.chan = c
      /\ task[c].awaiting # NoRequest => task[c].awaiting.chan = c
      /\ \A u \in Ch!Waiters(c) \cup Range(commands[c]) \cup Range(sends[c]) : u.chan = c
  BY <1>1, <1>4, SameWords DEF CP!InvAt, CP!Own, CP!UserHeld
<1>9. \A q \in RequestsOf({"join", "leave"}) :
        q.chan = c /\ outcome[q] # "free" => task[c].awaiting = q /\ receiving[c] = NoRequest
  BY <1>1, <1>3, KindsOfRequests DEF CP!InvAt, CP!Alone
<1>10. /\ Ch!Busy(c) /\ task[c].busy.kind = "join" =>
            phase[c] \in {"WaitingToJoin", "WaitingToRejoin", "Leaving", "Left"}
       /\ Ch!Busy(c) /\ task[c].busy.kind = "leave" => phase[c] \in {"Joining", "Joined"}
       /\ Ch!Busy(c) /\ task[c].busy.kind \in {"call", "cast"} => phase[c] = "Joined"
  BY <1>1 DEF CP!InvAt, CP!Hands, CP!BusyWith, Ch!Busy
<1> QED
  BY <1>6, <1>7, <1>8, <1>9, <1>10

LEMMA EnteredSeen ==
  ASSUME ClientInv, Remember, NEW c \in Channel, Alive(c), sendQ' = sendQ,
         InChannels' \subseteq InChannels \cup {NoRequest},
         NEW out, Spared(out), NEW p \in Phase \ Unspawned, NEW n, Ch!Enter(c, p, n, out)
  PROVE  /\ forwarded' = forwarded /\ LetsGo(c)
         /\ p \notin Ended => SocketsPhase' = SocketsPhase
         /\ p \in Ended => SocketsPhase' = [SocketsPhase EXCEPT ![c] = "ShutDown"]
<1>1. forwarded' = forwarded
  BY NothingFromChannels
<1>2. SP!DropReceivers(c)
  BY DEF Ch!Enter, Ch!DropReceivers, SP!DropReceivers
<1>3. ASSUME NEW q \in SocketsRequest
      PROVE  SocketsOutcome'[q] = IF q \in SP!OfChannel(c) THEN "free" ELSE SocketsOutcome[q]
  <2>1. q \in Request /\ (q \in SP!OfChannel(c) <=> (q \in RequestsOf({"join", "leave"}) /\ q.chan = c))
    BY KindsOfRequests DEF SP!OfChannel, SocketsRequest, RequestsOf
  <2>2. Known(q, forwarded) => outcome'[q] = IF q = task[c].awaiting THEN "free" ELSE outcome[q]
    <3>1. Spared(Answer(out, Ch!Waiters(c), "dropped"))
      BY HandsUnknown, AnswerSpared
    <3>2. outcome' = Release(Answer(out, Ch!Waiters(c), "dropped"), {task[c].awaiting})
      BY AnswersSeen DEF Ch!Enter
    <3> QED
      BY <2>1, <3>1, <3>2 DEF Spared, Release
  <2>3. /\ SocketsOutcome[q] = IF Known(q, forwarded) THEN outcome[q] ELSE "free"
        /\ SocketsOutcome'[q] = IF Known(q, forwarded) THEN outcome'[q] ELSE "free"
    BY <1>1, SeenBefore, SeenAfter
  <2>4. CASE q \in SP!OfChannel(c)
    <3>1. Known(q, forwarded)
      BY <2>1, <2>4, KnownKinds DEF RequestsOf
    <3>2. outcome[q] = "free" \/ task[c].awaiting = q
      BY <2>1, <2>4, ChannelKnows
    <3> QED
      BY <2>2, <2>3, <2>4, <3>1, <3>2
  <2>5. CASE q \notin SP!OfChannel(c)
    <3>1. task[c].awaiting \in RequestsOf({"join", "leave"}) \cup {NoRequest} /\ q # NoRequest
      BY <2>1, ClientTypes, RequestAssumption DEF ChannelTypes, TaskFields
    <3>2. q # task[c].awaiting
      BY <2>1, <2>5, <3>1, ChannelKnows
    <3> QED
      BY <2>2, <2>3, <2>5, <3>2
  <2> QED
    BY <2>4, <2>5
<1>4. SocketsOutcome' = SP!Release(SocketsOutcome, SP!OfChannel(c))
  BY <1>1, <1>3, SeenAfter DEF SP!Release
<1>5. phase' = [phase EXCEPT ![c] = p] /\ phase \in [Channel -> Phase]
  BY ClientTypes DEF Ch!Enter, ChannelTypes
<1>6. \A d \in Channel \ {c} : SocketSees(d)' = SocketSees(d)
  BY <1>5 DEF Remember, SocketSees
<1>7. SocketSees(c) = born[c] /\ SocketSees(c)' = IF p \in Ended THEN "ShutDown" ELSE born[c]
  BY <1>5 DEF Remember, SocketSees, Alive
<1> QED
  BY <1>1, <1>2, <1>4, <1>6, <1>7 DEF LetsGo, SocketsPhase

(* What is in the channels after a step of one.                            *)
LEMMA InChannelsAfter ==
  ASSUME NEW c \in Channel, NEW R,
         \A d \in Channel \ {c} : sends'[d] = sends[d] /\ task'[d].busy = task[d].busy,
         Range(sends'[c]) \subseteq Range(sends[c]),
         task'[c].busy \in Range(sends[c]) \cup {task[c].busy} \cup R
  PROVE  InChannels' \subseteq InChannels \cup R
<1> SUFFICES ASSUME NEW r \in InChannels' PROVE r \in InChannels \cup R
  OBVIOUS
<1>1. PICK d \in Channel : r \in Range(sends'[d]) \/ r = task'[d].busy
  BY WithChannels
<1> QED
  BY <1>1, WithChannels

LEMMA InChannelsEntered ==
  ASSUME ClientInv, NEW c \in Channel, NEW p, NEW n, NEW out, Ch!Enter(c, p, n, out),
         sends' = sends \/ sends' = [sends EXCEPT ![c] = <<>>]
  PROVE  InChannels' \subseteq InChannels \cup {NoRequest}
<1>1. task'[c].busy = NoRequest /\ \A d \in Channel \ {c} : task'[d] = task[d]
  BY ClientTypes DEF Ch!Enter, Ch!Blank, ChannelTypes
<1>2. Range(sends'[c]) \subseteq Range(sends[c]) /\ \A d \in Channel \ {c} : sends'[d] = sends[d]
  BY ClientTypes, EmptyElements DEF ChannelTypes
<1> QED
  BY <1>1, <1>2, InChannelsAfter

LEMMA ForgoSeen ==
  ASSUME ClientInv, Remember, NEW c \in Channel, Alive(c),
         UNCHANGED <<socketOnly, chanStateQ, sendQ, connectivity, unread>>,
         sends' = sends \/ sends' = [sends EXCEPT ![c] = <<>>],
         NEW out, Spared(out), NEW p \in Phase \ Unspawned, NEW n, Ch!Enter(c, p, n, out)
  PROVE  SP!Forgo(c)
<1>1. /\ LetsGo(c)
      /\ p \notin Ended => SocketsPhase' = SocketsPhase
      /\ p \in Ended => SocketsPhase' = [SocketsPhase EXCEPT ![c] = "ShutDown"]
  BY InChannelsEntered, EnteredSeen
<1>2. SP!Spawned(c)
  BY PhasesSeen, SameWords DEF Alive, SP!Spawned
<1>3. \E q \in {SocketsPhase[c], "ShutDown"} : SocketsPhase' = [SocketsPhase EXCEPT ![c] = q]
  BY <1>1 DEF SocketsPhase
<1> QED
  BY <1>1, <1>2, <1>3 DEF LetsGo, SP!Forgo, SP!socketVars, SP!queueVars, SP!castVars, SP!backVars,
    SP!connVars, socketOnly

(* A channel's task ends.                                                  *)
LEMMA EndsSeen ==
  ASSUME ClientInv, Remember, NEW c \in Channel, Alive(c),
         UNCHANGED <<socketOnly, chanStateQ, sendQ, connectivity, unread>>,
         NEW out, Spared(out), NEW p \in Ended, Ch!End(c, p, out)
  PROVE  SP!Forgo(c)
<1>1. Spared(Ch!Answer(out, Ch!UserHeld(c) \cup {task[c].busy}, "dropped"))
  BY HandsUnknown, AnswerSpared
<1>2. p \in Phase \ Unspawned
  BY DEF Ended, Phase, Unspawned
<1> QED
  BY <1>1, <1>2, ForgoSeen DEF Ch!End

(* A channel keeps its state, and nothing the socket knows is answered.    *)
LEMMA StaySeen ==
  ASSUME ClientInv, Remember, sendQ' = sendQ, phase' = phase,
         InChannels' \subseteq InChannels \cup {NoRequest} \cup RequestsOf({"join", "leave"}),
         \A r : Known(r, forwarded) => outcome'[r] = outcome[r]
  PROVE  SocketsOutcome' = SocketsOutcome /\ SocketsPhase' = SocketsPhase
<1>1. SocketsOutcome' = SocketsOutcome
  BY NothingFromChannels, SeenBefore, SeenAfter
<1> QED
  BY <1>1, PhaseKept

LEMMA AliveSeen == \A c \in Channel : Ch!Spawned(c) <=> Alive(c)
BY SameWords DEF Ch!Spawned, Alive

LEMMA ShutdownSeen ==
  ASSUME ClientInv, Remember, UNCHANGED socketOnly, NEW c \in Channel, Ch!Shutdown(c) \/ Ch!Exit(c)
  PROVE  SP!Forgo(c)
<1>1. CASE Ch!Shutdown(c)
  <2>1. Spared(Ch!Answer(outcome, Ch!Waiters(c), "shutdown"))
    BY HandsUnknown, AnswerSpared
  <2>2. "ShuttingDown" \in Phase \ Unspawned
    BY DEF Phase, Unspawned
  <2> QED
    BY <1>1, <2>1, <2>2, AliveSeen, ForgoSeen DEF Ch!Shutdown, Ch!socketVars, Ch!userVars
<1>2. CASE Ch!Exit(c)
  <2>1. Alive(c) /\ "ShutDown" \in Ended
    BY <1>2 DEF Ch!Exit, Alive, Ended, Unspawned
  <2> QED
    BY <1>2, <2>1, HandsUnknown, EndsSeen DEF Ch!Exit, Ch!socketVars
<1> QED
  BY <1>1, <1>2

(* A channel reads the news, and goes on or enters another state for it.   *)
LEMMA NewsEntered ==
  ASSUME ClientInv, Remember, NEW c \in Channel, Alive(c),
         UNCHANGED <<socketOnly, chanStateQ, sendQ, connectivity, sends>>,
         unread[c] = 1, unread' = [unread EXCEPT ![c] = 0],
         NEW out, Spared(out), NEW p \in Phase \ (Unspawned \cup Ended), NEW n, Ch!Enter(c, p, n, out)
  PROVE  SP!ReadConnectivity(c)
<1>1. LetsGo(c) /\ SocketsPhase' = SocketsPhase
  BY InChannelsEntered, EnteredSeen
<1>2. SP!Spawned(c)
  BY PhasesSeen, SameWords DEF Alive, SP!Spawned
<1> QED
  BY <1>1, <1>2 DEF LetsGo, SP!ReadConnectivity, SP!socketVars, SP!queueVars, SP!backVars,
    SP!connVars, socketOnly

ReadsOne(c) == unread[c] > 0 /\ unread' = [unread EXCEPT ![c] = @ - 1]

LEMMA NewsStays ==
  ASSUME ClientInv, Remember, NEW c \in Channel, Alive(c),
         UNCHANGED <<socketOnly, chanStateQ, sendQ, connectivity, sends, outcome, receiving, pushQ, phase>>,
         ReadsOne(c), \A d \in Channel : task'[d].busy = task[d].busy
  PROVE  SP!ReadConnectivity(c)
<1>1. InChannels' = InChannels
  BY WithChannels
<1>2. SocketsOutcome' = SocketsOutcome /\ SocketsPhase' = SocketsPhase
  BY <1>1, StaySeen
<1>3. SP!Spawned(c)
  BY PhasesSeen, SameWords DEF Alive, SP!Spawned
<1> QED
  BY <1>2, <1>3 DEF ReadsOne, SP!ReadConnectivity, SP!socketVars, SP!queueVars, SP!backVars,
    SP!connVars, socketOnly

LEMMA NewsSeen ==
  ASSUME ClientInv, Remember, UNCHANGED socketOnly, NEW c \in Channel,
         Ch!Lagged(c) \/ Ch!ConnectivityChanged(c)
  PROVE  SP!ReadConnectivity(c)
<1>1. /\ Alive(c) /\ UNCHANGED <<chanStateQ, sendQ, connectivity, sends>>
      /\ unread \in [Channel -> 0..2] /\ task \in [Channel -> TaskFields]
  BY AliveSeen, ClientTypes DEF Ch!Lagged, Ch!ConnectivityChanged, Ch!Selecting, Ch!socketVars,
    Ch!userVars, SocketTypes, ChannelTypes
<1>2. ASSUME Ch!Stay(c) \/ task' = [task EXCEPT ![c].deaf = TRUE]
      PROVE  \A d \in Channel : task'[d].busy = task[d].busy
  BY <1>1, <1>2 DEF Ch!Stay, TaskFields
<1>3. CASE Ch!Lagged(c)
  <2>1. ReadsOne(c)
    BY <1>3 DEF Ch!Lagged, ReadsOne
  <2>2. \A d \in Channel : task'[d].busy = task[d].busy
    BY <1>2, <1>3 DEF Ch!Lagged
  <2>3. UNCHANGED <<outcome, receiving, pushQ, phase>>
    BY <1>3 DEF Ch!Lagged
  <2> QED
    BY <1>1, <2>1, <2>2, <2>3, NewsStays
<1>4. CASE Ch!ConnectivityChanged(c)
  <2>1. unread[c] = 1 /\ unread' = [unread EXCEPT ![c] = 0] /\ ReadsOne(c)
    BY <1>4 DEF Ch!ConnectivityChanged, ReadsOne
  <2>2. Spared(outcome) /\ Spared(Ch!Answer(outcome, task[c].leavers, "ok"))
    <3>1. \A r \in task[c].leavers : ~Known(r, forwarded)
      BY HandsUnknown DEF Ch!Waiters
    <3> QED
      BY <3>1, HandsUnknown, AnswerSpared
  <2>3. /\ "WaitingToJoin" \in Phase \ (Unspawned \cup Ended) /\ "Left" \in Phase \ (Unspawned \cup Ended)
        /\ "WaitingForSocketToConnect" \in Phase \ (Unspawned \cup Ended)
        /\ "WaitingToRejoin" \in Phase \ (Unspawned \cup Ended)
        /\ "ShuttingDown" \in Phase \ (Unspawned \cup Ended)
    BY DEF Phase, Unspawned, Ended
  <2>4. ASSUME NEW p \in Phase \ (Unspawned \cup Ended), NEW n,
               Ch!Enter(c, p, n, outcome) \/ Ch!Enter(c, p, n, Ch!NewsAnswer(c))
        PROVE  SP!ReadConnectivity(c)
    BY <1>1, <2>1, <2>2, <2>4, NewsEntered DEF Ch!NewsAnswer
  <2>5. ASSUME Ch!Stay(c), outcome' = outcome PROVE SP!ReadConnectivity(c)
    <3>1. UNCHANGED <<outcome, receiving, pushQ, phase>>
      BY <2>5 DEF Ch!Stay
    <3> QED
      BY <1>1, <1>2, <2>1, <2>5, <3>1, NewsStays
  <2>6. CASE Ch!SocketConnected(c)
    BY <2>3, <2>4, <2>5, <2>6 DEF Ch!SocketConnected, Ch!WaitToRejoin
  <2>7. CASE Ch!SocketDisconnected(c)
    BY <2>3, <2>4, <2>5, <2>7 DEF Ch!SocketDisconnected
  <2>8. CASE Ch!SocketShutdown(c)
    BY <2>3, <2>4, <2>8 DEF Ch!SocketShutdown
  <2> QED
    BY <1>4, <2>6, <2>7, <2>8 DEF Ch!ConnectivityChanged
<1> QED
  BY <1>3, <1>4

(* A channel that lives on is seen in the state it was born in.            *)
LEMMA LivesOn ==
  ASSUME ClientInv, Remember, NEW c \in Channel, Alive(c), phase'[c] \notin Unspawned \cup Ended,
         \A d \in Channel \ {c} : phase'[d] = phase[d]
  PROVE  SocketsPhase' = SocketsPhase
<1>1. \A d \in Channel \ {c} : SocketSees(d)' = SocketSees(d)
  BY DEF Remember, SocketSees
<1>2. SocketSees(c)' = SocketSees(c)
  BY DEF Remember, SocketSees, Alive
<1> QED
  BY <1>1, <1>2 DEF SocketsPhase

(* A join is answered, and the channel has the receivers of it.            *)
LEMMA JoinedSeen ==
  ASSUME ClientInv, Remember, UNCHANGED socketOnly, NEW c \in Channel, Alive(c), phase[c] = "Joining",
         outcome[task[c].awaiting] = "ok",
         phase' = [phase EXCEPT ![c] = "Joined"],
         task' = [task EXCEPT ![c] = Ch!Blank],
         outcome' = Ch!Release(Ch!Answer(outcome, task[c].joiners, "ok"), {task[c].awaiting}),
         receiving' = [receiving EXCEPT ![c] = task[c].awaiting],
         UNCHANGED <<chanStateQ, sendQ, connectivity, unread, pushQ, sends>>
  PROVE  \E r \in SocketsRequest : SP!TakeAnswer(r)
<1>1. PICK r \in RequestsOf({"join"}) : r = task[c].awaiting /\ r.chan = c /\ r.kind = "join"
  <2>1. task[c].awaiting \in RequestsOf({"join"}) /\ task[c].awaiting # NoRequest
    BY ChannelKnows, RequestAssumption DEF RequestsOf
  <2> QED
    BY <2>1, ChannelKnows DEF RequestsOf
<1>2. r \in SocketsRequest /\ SocketsOutcome[r] = "ok" /\ Known(r, forwarded)
  BY <1>1, OutcomeSeen, KnownKinds DEF RequestsOf
<1>3. /\ phase'[c] \notin Unspawned \cup Ended /\ \A d \in Channel \ {c} : phase'[d] = phase[d]
      /\ task'[c].busy = NoRequest /\ \A d \in Channel \ {c} : task'[d] = task[d]
  BY ClientTypes DEF ChannelTypes, Ch!Blank, Unspawned, Ended
<1>4. SocketsPhase' = SocketsPhase
  BY <1>3, LivesOn
<1>5. InChannels' \subseteq InChannels \cup {NoRequest}
  BY <1>3, InChannelsAfter
<1>6. forwarded' = forwarded
  BY <1>5, NothingFromChannels
<1>7. Spared(Answer(outcome, task[c].joiners, "ok"))
  <2>1. \A q \in task[c].joiners : ~Known(q, forwarded)
    BY HandsUnknown DEF Ch!Waiters
  <2> QED
    BY <2>1, HandsUnknown, AnswerSpared
<1>8. outcome' = Release(Answer(outcome, task[c].joiners, "ok"), {r})
  BY <1>1, AnswersSeen
<1>9. ASSUME NEW q \in SocketsRequest
      PROVE  SocketsOutcome'[q] = IF q = r THEN "free" ELSE SocketsOutcome[q]
  <2>1. q \in Request
    BY <1>9 DEF SocketsRequest, RequestsOf
  <2>2. Known(q, forwarded) => outcome'[q] = IF q = r THEN "free" ELSE outcome[q]
    BY <1>7, <1>8, <2>1 DEF Spared, Release
  <2> QED
    BY <1>2, <1>6, <2>2, SeenBefore, SeenAfter
<1>10. SocketsOutcome' = [SocketsOutcome EXCEPT ![r] = "free"]
  BY <1>6, <1>9, SeenBefore, SeenAfter
<1> QED
  BY <1>1, <1>2, <1>4, <1>10, SameWords DEF SP!TakeAnswer, Answers, SP!socketVars, SP!queueVars,
    SP!castVars, SP!backVars, SP!connVars, socketOnly

LEMMA ResultSeen ==
  ASSUME ClientInv, Remember, UNCHANGED socketOnly, NEW c \in Channel,
         Ch!JoinedResult(c) \/ Ch!LeftResult(c) \/ Ch!JoinTooLate(c)
  PROVE  SP!Clients
<1>1. /\ Alive(c) /\ UNCHANGED <<chanStateQ, sendQ, connectivity, unread>>
  BY AliveSeen DEF Ch!JoinedResult, Ch!LeftResult, Ch!JoinTooLate, Ch!TakeCommand, Ch!Selecting,
    Ch!socketVars
<1>2. ASSUME NEW R \in SUBSET (Ch!Waiters(c) \cup Range(commands[c])), NEW o
      PROVE  Spared(Ch!Answer(outcome, R, o))
  BY HandsUnknown, AnswerSpared
<1>3. "WaitingToRejoin" \in Phase \ Unspawned /\ "Left" \in Phase \ Unspawned /\ "Gone" \in Ended
  BY DEF Phase, Unspawned, Ended
<1>4. ASSUME NEW p \in Phase \ Unspawned, NEW n, NEW out, Spared(out), Ch!Enter(c, p, n, out), sends' = sends
      PROVE  SP!Clients
  BY <1>1, <1>4, ForgoSeen DEF SP!Clients
<1>5. CASE Ch!JoinedResult(c)
  <2>1. CASE outcome[task[c].awaiting] = "ok"
    <3>1. outcome[task[c].awaiting] \notin {"rejected", "disconnected", "timeout", "dropped"}
      BY <2>1
    <3> QED
      BY <1>1, <1>5, <2>1, <3>1, JoinedSeen DEF Ch!JoinedResult, Ch!userVars, SP!Clients
  <2>2. CASE \E o : Ch!WaitToRejoin(c, task[c].rejoin, Ch!Answer(outcome, task[c].joiners, o))
             /\ UNCHANGED Ch!userVars
    <3>1. PICK o : Ch!WaitToRejoin(c, task[c].rejoin, Ch!Answer(outcome, task[c].joiners, o))
      BY <2>2
    <3>2. Spared(Ch!Answer(outcome, task[c].joiners, o))
      BY <1>2 DEF Ch!Waiters
    <3> QED
      BY <1>3, <1>4, <2>2, <3>1, <3>2 DEF Ch!WaitToRejoin, Ch!userVars
  <2>3. CASE Ch!End(c, "Gone", Ch!Answer(outcome, task[c].joiners, "error"))
    <3>1. Spared(Ch!Answer(outcome, task[c].joiners, "error"))
      BY <1>2 DEF Ch!Waiters
    <3> QED
      BY <1>1, <1>3, <2>3, <3>1, EndsSeen DEF SP!Clients
  <2> QED
    BY <1>5, <2>1, <2>2, <2>3 DEF Ch!JoinedResult
<1>6. CASE Ch!LeftResult(c)
  <2>1. Spared(Ch!Answer(outcome, task[c].leavers, outcome[task[c].awaiting]))
    BY <1>2 DEF Ch!Waiters
  <2> QED
    BY <1>3, <1>4, <1>6, <2>1 DEF Ch!LeftResult, Ch!userVars
<1>7. CASE Ch!JoinTooLate(c)
  <2>1. Head(commands[c]) \in Range(commands[c])
    BY <1>7, ClientTypes, QueueElements DEF ChannelTypes, Ch!JoinTooLate, Ch!TakeCommand
  <2>2. Spared(Ch!Answer(outcome, {Head(commands[c])}, "dropped"))
    BY <1>2, <2>1
  <2> QED
    BY <1>3, <1>4, <1>7, <2>2 DEF Ch!JoinTooLate, Ch!WaitToRejoin, Ch!TakeCommand
<1> QED
  BY <1>5, <1>6, <1>7

(* Commands of users that a channel answers itself.                        *)
LEMMA AgainSeen ==
  ASSUME ClientInv, Remember, UNCHANGED socketOnly, NEW c \in Channel, Ch!JoinAgain(c) \/ Ch!LeaveAgain(c)
  PROVE  [SP!Clients]_SP!vars
<1>1. /\ Alive(c) /\ UNCHANGED <<chanStateQ, sendQ, connectivity, unread, sends>>
      /\ task \in [Channel -> TaskFields] /\ Head(commands[c]) \in Range(commands[c])
  BY AliveSeen, ClientTypes, QueueElements DEF Ch!JoinAgain, Ch!LeaveAgain, Ch!TakeCommand, Ch!Selecting,
    Ch!socketVars, ChannelTypes
<1>2. ASSUME NEW o PROVE Spared(Ch!Answer(outcome, {Head(commands[c])}, o))
  BY <1>1, HandsUnknown, AnswerSpared
<1>3. CASE Ch!LeaveAgain(c) /\ phase[c] = "WaitingToRejoin"
  <2>1. "Left" \in Phase \ Unspawned
    BY DEF Phase, Unspawned
  <2>2. Ch!Enter(c, "Left", Ch!NoRejoin, Ch!Answer(outcome, {Head(commands[c])}, "ok"))
    BY <1>3 DEF Ch!LeaveAgain
  <2>3. SP!Forgo(c)
    BY <1>1, <1>2, <2>1, <2>2, ForgoSeen
  <2> QED
    BY <2>3 DEF SP!Clients
<1>4. CASE ~(Ch!LeaveAgain(c) /\ phase[c] = "WaitingToRejoin")
  <2>1. UNCHANGED <<phase, receiving, pushQ>>
    BY <1>4 DEF Ch!JoinAgain, Ch!LeaveAgain, Ch!Stay
  <2>2. \A d \in Channel : task'[d].busy = task[d].busy
    <3>1. \/ Ch!Stay(c) \/ task' = [task EXCEPT ![c].joiners = @ \cup {Head(commands[c])}]
          \/ task' = [task EXCEPT ![c] = [task[c] EXCEPT !.leavers = @ \cup {Head(commands[c])}, !.deaf = FALSE]]
      BY <1>4 DEF Ch!JoinAgain, Ch!LeaveAgain
    <3>2. task'[c].busy = task[c].busy
      BY <1>1, <3>1 DEF Ch!Stay, TaskFields
    <3>3. \A d \in Channel \ {c} : task'[d] = task[d]
      BY <1>1, <3>1 DEF Ch!Stay
    <3> QED
      BY <3>2, <3>3
  <2>3. outcome' = outcome \/ \E o : outcome' = Ch!Answer(outcome, {Head(commands[c])}, o)
    BY <1>4 DEF Ch!JoinAgain, Ch!LeaveAgain
  <2>4. \A r : Known(r, forwarded) => outcome'[r] = outcome[r]
    BY <1>2, <2>3 DEF Spared
  <2>5. InChannels' = InChannels
    BY <1>1, <2>2, WithChannels
  <2> QED
    BY <1>1, <2>1, <2>4, <2>5, StaySeen, SocketStutters
<1> QED
  BY <1>3, <1>4

(* A channel prepares a command for the socket.                            *)
LEMMA PreparedSeen ==
  ASSUME ClientInv, Remember, UNCHANGED socketOnly, NEW c \in Channel,
         (\E r \in Request : Ch!Rejoin(c, r) \/ Ch!Join(c, r) \/ Ch!Leave(c, r)) \/ Ch!TakeSend(c)
  PROVE  UNCHANGED SP!vars
<1>1. UNCHANGED <<chanStateQ, sendQ, connectivity, unread, outcome, receiving, pushQ, phase>>
  BY DEF Ch!Rejoin, Ch!Join, Ch!Leave, Ch!TakeSend, Ch!TakeCommand, Ch!socketVars
<1>2. task \in [Channel -> TaskFields] /\ sends \in [Channel -> Seq(Sends)]
  BY ClientTypes DEF ChannelTypes
<1>3. ASSUME NEW t \in TaskFields, NEW r, Ch!Prepare(c, r, t)
      PROVE  task'[c].busy = r /\ \A d \in Channel \ {c} : task'[d].busy = task[d].busy
  BY <1>2, <1>3 DEF Ch!Prepare, TaskFields
<1>4. CASE Ch!TakeSend(c)
  <2>1. sends[c] # <<>> /\ sends' = [sends EXCEPT ![c] = Tail(sends[c])]
        /\ Ch!Prepare(c, Head(sends[c]), task[c])
    BY <1>4 DEF Ch!TakeSend
  <2>2. Range(sends'[c]) \subseteq Range(sends[c]) /\ Head(sends[c]) \in Range(sends[c])
        /\ \A d \in Channel \ {c} : sends'[d] = sends[d]
    BY <1>2, <2>1, QueueElements, QueueSteps
  <2>3. task'[c].busy = Head(sends[c]) /\ \A d \in Channel \ {c} : task'[d].busy = task[d].busy
    BY <1>2, <1>3, <2>1
  <2>4. InChannels' \subseteq InChannels \cup {}
    BY <2>2, <2>3, InChannelsAfter
  <2> QED
    BY <1>1, <2>4, StaySeen, SocketStutters
<1>5. ASSUME NEW r \in Request, Ch!Rejoin(c, r) \/ Ch!Join(c, r) \/ Ch!Leave(c, r) PROVE UNCHANGED SP!vars
  <2>1. r \in RequestsOf({"join", "leave"}) /\ sends' = sends
    BY <1>5 DEF Ch!Rejoin, Ch!Join, Ch!Leave, Ch!TakeCommand, Ch!userVars, RequestsOf
  <2>2. task'[c].busy = r /\ \A d \in Channel \ {c} : task'[d].busy = task[d].busy
    BY <1>2, <1>5 DEF Ch!Rejoin, Ch!Join, Ch!Leave, Ch!Prepare, TaskFields
  <2>3. InChannels' \subseteq InChannels \cup RequestsOf({"join", "leave"})
    BY <2>1, <2>2, InChannelsAfter
  <2> QED
    BY <1>1, <2>3, StaySeen, SocketStutters
<1> QED
  BY <1>4, <1>5

(* A channel takes a push, and may end its join for it.                    *)
LEMMA PushReceivedSeen ==
  ASSUME ClientInv, Remember, UNCHANGED socketOnly, NEW c \in Channel, Ch!PushReceived(c)
  PROVE  SP!Forgo(c) \/ SP!ReceivePush(c)
<1>1. /\ Alive(c) /\ phase[c] = "Joined" /\ pushQ[c] # <<>>
      /\ UNCHANGED <<chanStateQ, sendQ, connectivity, unread, sends>>
  BY AliveSeen DEF Ch!PushReceived, Ch!Selecting, Ch!socketVars, Ch!userVars
<1>2. CASE Ch!WaitToRejoin(c, 0, outcome)
  <2>1. "WaitingToRejoin" \in Phase \ Unspawned
    BY DEF Phase, Unspawned
  <2> QED
    BY <1>1, <1>2, <2>1, HandsUnknown, ForgoSeen DEF Ch!WaitToRejoin
<1>3. CASE ~Ch!WaitToRejoin(c, 0, outcome)
  <2>1. /\ pushQ' = [pushQ EXCEPT ![c] = Tail(@)] /\ task' = [task EXCEPT ![c].deaf = FALSE]
        /\ UNCHANGED <<outcome, receiving, phase>>
    BY <1>3 DEF Ch!PushReceived
  <2>2. \A d \in Channel : task'[d].busy = task[d].busy
    BY <2>1, ClientTypes DEF ChannelTypes, TaskFields
  <2>3. InChannels' = InChannels
    BY <1>1, <2>2, WithChannels
  <2>4. SocketsOutcome' = SocketsOutcome /\ SocketsPhase' = SocketsPhase
    BY <1>1, <2>1, <2>3, StaySeen
  <2>5. receiving[c] # NoRequest
    BY <1>1, ChannelKnows
  <2> QED
    BY <1>1, <2>1, <2>4, <2>5 DEF SP!ReceivePush, SP!socketVars, SP!queueVars, SP!castVars, SP!chanVars,
      SP!backVars, SP!connVars, socketOnly
<1> QED
  BY <1>2, <1>3

-----------------------------------------------------------------------------
(***************************************************************************)
(* A channel submits its command: it is new to the socket.                 *)
(***************************************************************************)
LEMMA BusyFresh ==
  ASSUME ClientInv, NEW c \in Channel, Ch!Busy(c)
  PROVE  /\ task[c].busy \in InChannels /\ task[c].busy \in RequestsOf(ChanKind)
         /\ task[c].busy.chan = c /\ task[c].busy \in SocketsRequest
         /\ SP!Fresh(task[c].busy)
<1> DEFINE r == task[c].busy
<1>1. r \in InChannels /\ r # NoRequest
  BY WithChannels DEF Ch!Busy
<1>2. r \in RequestsOf(ChanKind) /\ r.chan = c
  BY <1>1, ClientTypes, ChannelKnows DEF ChannelTypes, TaskFields
<1>3. r \in SocketsRequest
  BY <1>2, SameRequests DEF RequestsOf, SocketKinds
<1>4. r \notin SocketHas
  BY <1>1 DEF ClientInv, Link, Apart
<1>5. SocketsOutcome[r] = "free"
  <2>1. CASE r \in RequestsOf({"join", "leave"})
    BY <1>1, <1>3, <2>1 DEF ClientInv, Link, NotAsked, SocketsOutcome
  <2>2. CASE r \in Sends
    <3>1. r \notin forwarded /\ r.kind \in {"call", "cast"}
      BY <1>1, <2>2 DEF ClientInv, Link, GoneOn, Sends, RequestsOf
    <3> QED
      BY <1>3, <3>1 DEF SocketsOutcome, SocketKnows
  <2> QED
    BY <1>2, <2>1, <2>2 DEF RequestsOf, ChanKind, Sends
<1>6. SP!Fresh(r)
  BY <1>4, <1>5, SamePossessions DEF SocketHas, SP!Fresh
<1> QED
  BY <1>1, <1>2, <1>3, <1>6

(* What becomes of the oneshots when it submits a join or a leave.         *)
LEMMA SubmitAsks ==
  ASSUME ClientInv, Remember, NEW c \in Channel, Ch!Busy(c), task[c].busy.kind \in {"join", "leave"},
         sendQ' = sendQ, sends' = sends, NEW R \in SUBSET Ch!Waiters(c), NEW o,
         outcome' = [Ch!Release(Ch!Answer(outcome, R, o), {task[c].awaiting}) EXCEPT ![task[c].busy] = "pending"],
         \A d \in Channel \ {c} : task'[d] = task[d] /\ phase'[d] = phase[d],
         task'[c].busy = NoRequest, Alive(c), phase'[c] \notin Unspawned \cup Ended
  PROVE  /\ SocketsOutcome' = [SP!Release(SocketsOutcome, SP!OfChannel(c)) EXCEPT ![task[c].busy] = "pending"]
         /\ SocketsPhase' = SocketsPhase
<1> DEFINE r == task[c].busy
<1>1. InChannels' \subseteq InChannels \cup {NoRequest}
  BY InChannelsAfter
<1>2. forwarded' = forwarded
  BY <1>1, NothingFromChannels
<1>3. SocketsPhase' = SocketsPhase
  BY LivesOn
<1>4. Spared(Answer(outcome, R, o))
  BY HandsUnknown, AnswerSpared
<1>5. outcome' = [Release(Answer(outcome, R, o), {task[c].awaiting}) EXCEPT ![r] = "pending"]
  <2>1. Ch!Answer(outcome, R, o) = Answer(outcome, R, o)
    BY AnswersSeen
  <2>2. Ch!Release(Answer(outcome, R, o), {task[c].awaiting}) = Release(Answer(outcome, R, o), {task[c].awaiting})
    BY AnswersSeen
  <2> QED
    BY <2>1, <2>2
<1>6. r \in RequestsOf({"join", "leave"}) /\ r.chan = c /\ Known(r, forwarded) /\ r \in SocketsRequest
  BY BusyFresh, KnownKinds DEF RequestsOf
<1> HIDE DEF r
<1>7. ASSUME NEW q \in SocketsRequest
      PROVE  SocketsOutcome'[q] = IF q = r THEN "pending" ELSE
                                  IF q \in SP!OfChannel(c) THEN "free" ELSE SocketsOutcome[q]
  <2>1. q \in Request /\ (q \in SP!OfChannel(c) <=> (q \in RequestsOf({"join", "leave"}) /\ q.chan = c))
    BY KindsOfRequests DEF SP!OfChannel, SocketsRequest, RequestsOf
  <2>2. Known(q, forwarded) =>
          outcome'[q] = IF q = r THEN "pending" ELSE IF q = task[c].awaiting THEN "free" ELSE outcome[q]
    BY <1>4, <1>5, <2>1 DEF Spared, Release
  <2>3. /\ SocketsOutcome[q] = IF Known(q, forwarded) THEN outcome[q] ELSE "free"
        /\ SocketsOutcome'[q] = IF Known(q, forwarded) THEN outcome'[q] ELSE "free"
    BY <1>2, SeenBefore, SeenAfter
  <2>4. CASE q \in SP!OfChannel(c)
    <3>1. Known(q, forwarded)
      BY <2>1, <2>4, KnownKinds DEF RequestsOf
    <3>2. outcome[q] = "free" \/ task[c].awaiting = q
      BY <2>1, <2>4, ChannelKnows
    <3> QED
      BY <2>2, <2>3, <2>4, <3>1, <3>2
  <2>5. CASE q \notin SP!OfChannel(c)
    <3>1. task[c].awaiting \in RequestsOf({"join", "leave"}) \cup {NoRequest} /\ q # NoRequest
      BY <2>1, ClientTypes, RequestAssumption DEF ChannelTypes, TaskFields
    <3>2. q # task[c].awaiting
      BY <2>1, <2>5, <3>1, ChannelKnows
    <3> QED
      BY <1>6, <2>2, <2>3, <2>5, <3>2
  <2> QED
    BY <2>4, <2>5
<1>8. SocketsOutcome' = [SP!Release(SocketsOutcome, SP!OfChannel(c)) EXCEPT ![r] = "pending"]
  BY <1>2, <1>6, <1>7, SeenAfter DEF SP!Release
<1> QED
  BY <1>3, <1>8 DEF r

(* There is room for a channel where the socket sees room.                 *)
LEMMA SameRoom ==
  /\ \A q : Ch!Room(q, "state") <=> SP!Room(q, "writing_state")
  /\ \A q : Ch!Room(q, "send") <=> SP!Room(q, "writing_send")
  /\ \A q, w : Ch!Room(q, w) <=> CP!Room(q, w)
BY DEF Ch!Room, SP!Room, CP!Room, Writes

LEMMA SubmitSeen ==
  ASSUME ClientInv, Remember, UNCHANGED socketOnly, NEW c \in Channel, Ch!Submit(c)
  PROVE  \E r \in SocketsRequest : SP!SubmitJoin(r) \/ SP!SubmitLeave(r) \/ SP!SubmitSend(r)
<1>1. PICK r \in SocketsRequest : /\ r = task[c].busy /\ r \in InChannels /\ r \in RequestsOf(ChanKind)
                                  /\ r.chan = c /\ SP!Fresh(r)
  BY BusyFresh DEF Ch!Submit
<1>2. /\ Ch!Busy(c) /\ pc # "exited" /\ UNCHANGED <<connectivity, unread, commands, sends, stop>>
      /\ task \in [Channel -> TaskFields] /\ phase \in [Channel -> Phase]
  BY ClientTypes DEF Ch!Submit, Ch!userVars, ChannelTypes
<1>3. Alive(c) /\ SP!Spawned(c)
  <2>1. Alive(c)
    BY <1>1, <1>2, ChannelKnows DEF RequestsOf, ChanKind, Alive, Unspawned, Ended
  <2> QED
    BY <2>1, PhasesSeen, SameWords DEF Alive, SP!Spawned
<1> USE DEF SP!socketVars, SP!queueVars, SP!castVars, SP!chanVars, SP!backVars, SP!connVars, socketOnly
<1>4. CASE Ch!SubmitLeave(c)
  <2>1. /\ r.kind = "leave" /\ SP!Room(chanStateQ, "writing_state")
        /\ chanStateQ' = Append(chanStateQ, r) /\ sendQ' = sendQ /\ SP!DropReceivers(c)
    BY <1>1, <1>4, SameRoom DEF Ch!SubmitLeave, Ch!DropReceivers, SP!DropReceivers
  <2>2. /\ \A d \in Channel \ {c} : task'[d] = task[d] /\ phase'[d] = phase[d]
        /\ task'[c].busy = NoRequest /\ phase'[c] \notin Unspawned \cup Ended
    BY <1>2, <1>4 DEF Ch!SubmitLeave, Ch!Blank, Unspawned, Ended
  <2>3. /\ SocketsOutcome' = [SP!Release(SocketsOutcome, SP!OfChannel(c)) EXCEPT ![r] = "pending"]
        /\ SocketsPhase' = SocketsPhase
    <3>1. task[c].joiners \subseteq Ch!Waiters(c)
      BY DEF Ch!Waiters
    <3>2. outcome' = [Ch!Release(Ch!Answer(outcome, task[c].joiners, "leaving"), {task[c].awaiting})
                        EXCEPT ![task[c].busy] = "pending"]
      BY <1>4 DEF Ch!SubmitLeave
    <3> QED
      BY <1>1, <1>2, <1>3, <2>1, <2>2, <3>1, <3>2, SubmitAsks
  <2>4. ~SP!Idle(c)
    <3>1. phase[c] \in {"Joining", "Joined"}
      BY <1>1, <1>2, <2>1, ChannelKnows
    <3>2. CASE phase[c] = "Joined"
      BY <3>2, ChannelKnows DEF SP!Idle
    <3>3. CASE phase[c] = "Joining"
      <4>1. PICK q \in RequestsOf({"join"}) : q = task[c].awaiting /\ q.chan = c /\ outcome[q] # "free"
        BY <3>3, ChannelKnows, RequestAssumption DEF RequestsOf
      <4>2. q \in SocketsRequest /\ SocketsOutcome[q] = outcome[q] /\ q.kind = "join"
        BY <4>1, OutcomeSeen DEF RequestsOf
      <4> QED
        BY <4>1, <4>2 DEF SP!Idle
    <3> QED
      BY <3>1, <3>2, <3>3
  <2>5. SP!SubmitLeave(r)
    BY <1>1, <1>2, <1>3, <2>1, <2>3, <2>4 DEF SP!SubmitLeave
  <2> QED
    BY <2>5
<1>5. CASE Ch!SubmitJoin(c)
  <2>1. /\ r.kind = "join" /\ SP!Room(chanStateQ, "writing_state")
        /\ chanStateQ' = Append(chanStateQ, r) /\ UNCHANGED <<sendQ, receiving, pushQ>>
    BY <1>1, <1>5, SameRoom DEF Ch!SubmitJoin
  <2>2. /\ \A d \in Channel \ {c} : task'[d] = task[d] /\ phase'[d] = phase[d]
        /\ task'[c].busy = NoRequest /\ phase'[c] \notin Unspawned \cup Ended
    BY <1>2, <1>5 DEF Ch!SubmitJoin, TaskFields, Unspawned, Ended
  <2>3. /\ SocketsOutcome' = [SP!Release(SocketsOutcome, SP!OfChannel(c)) EXCEPT ![r] = "pending"]
        /\ SocketsPhase' = SocketsPhase
    <3>1. task[c].leavers \subseteq Ch!Waiters(c)
      BY DEF Ch!Waiters
    <3>2. outcome' = [Ch!Release(Ch!Answer(outcome, task[c].leavers, "joining"), {task[c].awaiting})
                        EXCEPT ![task[c].busy] = "pending"]
      BY <1>5 DEF Ch!SubmitJoin
    <3> QED
      BY <1>1, <1>2, <1>3, <2>1, <2>2, <3>1, <3>2, SubmitAsks
  <2>4. SP!Idle(c)
    <3>1. phase[c] \in {"WaitingToJoin", "WaitingToRejoin", "Leaving", "Left"}
      BY <1>1, <1>2, <2>1, ChannelKnows
    <3>2. receiving[c] = NoRequest
      BY <3>1, ChannelKnows
    <3>3. ASSUME NEW q \in SocketsRequest, q.kind = "join", q.chan = c PROVE SocketsOutcome[q] = "free"
      <4>1. q \in RequestsOf({"join"}) /\ q \in RequestsOf({"join", "leave"}) /\ q \notin RequestsOf({"leave"})
        BY <3>3 DEF SocketsRequest, RequestsOf
      <4>2. outcome[q] = "free"
        <5>1. SUFFICES ASSUME outcome[q] # "free" PROVE FALSE
          OBVIOUS
        <5>2. task[c].awaiting = q /\ q # NoRequest
          BY <3>3, <4>1, <5>1, ChannelKnows, RequestAssumption DEF RequestsOf
        <5>3. phase[c] = "Leaving" /\ task[c].awaiting \in RequestsOf({"leave"})
          BY <3>1, <5>2, ChannelKnows
        <5> QED
          BY <4>1, <5>2, <5>3
      <4> QED
        BY <4>1, <4>2, OutcomeSeen
    <3> QED
      BY <1>3, <3>2, <3>3 DEF SP!Idle
  <2>5. SP!SubmitJoin(r)
    BY <1>1, <1>2, <1>3, <2>1, <2>3, <2>4 DEF SP!SubmitJoin
  <2> QED
    BY <2>5
<1>6. CASE Ch!SubmitSend(c)
  <2>1. /\ r.kind \in {"call", "cast"} /\ SP!Room(sendQ, "writing_send")
        /\ sendQ' = Append(sendQ, r) /\ UNCHANGED <<chanStateQ, outcome, receiving, pushQ, phase>>
    BY <1>1, <1>6, SameRoom DEF Ch!SubmitSend
  <2>2. task'[c].busy = NoRequest /\ \A d \in Channel \ {c} : task'[d] = task[d]
    BY <1>2, <1>6 DEF Ch!SubmitSend, TaskFields
  <2>3. InChannels' \subseteq InChannels \cup {NoRequest} /\ r \notin InChannels'
    <3>1. InChannels' \subseteq InChannels \cup {NoRequest}
      BY <1>2, <2>2, InChannelsAfter
    <3>2. r # NoRequest /\ r \notin Range(sends[c])
      BY <1>1, <1>2 DEF ClientInv, Link, Once, Ch!Busy
    <3>3. \A d \in Channel \ {c} : r \notin Range(sends[d]) /\ r # task[d].busy
      BY <1>1, <3>2, ChannelKnows
    <3> QED
      BY <1>2, <2>2, <3>1, <3>2, <3>3, WithChannels
  <2>4. forwarded' = forwarded \cup {r}
    <3>1. Range(sendQ') = Range(sendQ) \cup {r} /\ NoRequest \notin Sends
      <4>1. r \in Sends /\ NoRequest \notin Sends
        BY <1>1, <2>1, RequestAssumption DEF Sends, RequestsOf
      <4> QED
        BY <2>1, <4>1, ClientTypes, QueueElements DEF SocketTypes
    <3> QED
      BY <2>3, <3>1 DEF Remember, ClientInv, Link, GoneOn
  <2>5. outcome[r] = "pending" \/ (r.kind = "call" /\ outcome[r] = "free")
    BY <1>1, <2>1 DEF ClientInv, Link, NotAsked, Sends, RequestsOf
  <2>6. SocketsOutcome[r] = "free"
    BY <1>1 DEF SP!Fresh
  <2>7. SocketsOutcome' = [SocketsOutcome EXCEPT ![r] = outcome[r]]
    <3>1. r \notin forwarded
      BY <1>1, <2>1 DEF ClientInv, Link, GoneOn
    <3> QED
      BY <1>1, <2>1, <2>4, <3>1 DEF SocketsOutcome, SocketKnows
  <2>8. SocketsOutcome' = [SocketsOutcome EXCEPT ![r] = "pending"] \/ (r.kind = "call" /\ SocketsOutcome' = SocketsOutcome)
    BY <2>5, <2>6, <2>7 DEF SocketsOutcome
  <2>9. SocketsPhase' = SocketsPhase /\ receiving[c] # NoRequest
    BY <1>1, <1>2, <2>1, PhaseKept, ChannelKnows
  <2>10. SP!SubmitSend(r)
    BY <1>1, <1>2, <2>1, <2>8, <2>9 DEF SP!SubmitSend
  <2> QED
    BY <2>10
<1> QED
  BY <1>4, <1>5, <1>6 DEF Ch!Submit

(* The socket has ended, and so the channel cannot submit its command.     *)
LEMMA SubmitFailsSeen ==
  ASSUME ClientInv, Remember, UNCHANGED socketOnly, NEW c \in Channel, Ch!SubmitFails(c)
  PROVE  [SP!Clients]_SP!vars
<1>1. /\ Ch!Busy(c) /\ UNCHANGED <<chanStateQ, sendQ, connectivity, unread>>
      /\ task \in [Channel -> TaskFields] /\ task[c].busy \in RequestsOf(ChanKind)
  BY ClientTypes DEF Ch!SubmitFails, Ch!socketVars, ChannelTypes, TaskFields, Ch!Busy
<1>2. Alive(c)
  BY <1>1, ChannelKnows DEF RequestsOf, ChanKind, Alive, Unspawned, Ended
<1>3. Spared(outcome) /\ Spared(Ch!Answer(outcome, task[c].leavers, "error"))
      /\ Spared(Ch!Answer(outcome, {task[c].busy}, "dropped"))
  <2>1. \A q \in task[c].leavers : ~Known(q, forwarded)
    BY HandsUnknown DEF Ch!Waiters
  <2>2. \A q \in {task[c].busy} : Known(q, forwarded) => outcome[q] # "pending"
    BY HandsUnknown
  <2> QED
    BY <2>1, <2>2, HandsUnknown, AnswerSpared
<1>4. "Gone" \in Ended /\ "ShuttingDown" \in Phase \ Unspawned
  BY DEF Ended, Phase, Unspawned
<1>5. CASE Ch!End(c, "Gone", outcome) \/ Ch!End(c, "Gone", Ch!Answer(outcome, task[c].leavers, "error"))
  <2>1. SP!Forgo(c)
    BY <1>1, <1>2, <1>3, <1>4, <1>5, EndsSeen
  <2> QED
    BY <2>1 DEF SP!Clients
<1>6. CASE /\ outcome' = Ch!Answer(outcome, task[c].leavers, "error")
           /\ task' = [task EXCEPT ![c] = [@ EXCEPT !.busy = NoRequest, !.leavers = {}]]
           /\ UNCHANGED <<receiving, pushQ, phase, Ch!userVars>>
  <2>1. /\ sends' = sends /\ task'[c].busy = NoRequest
        /\ \A d \in Channel \ {c} : task'[d] = task[d]
    BY <1>1, <1>6 DEF Ch!userVars, TaskFields
  <2>2. InChannels' \subseteq InChannels \cup {NoRequest}
    BY <2>1, InChannelsAfter
  <2>3. \A q : Known(q, forwarded) => outcome'[q] = outcome[q]
    BY <1>3, <1>6 DEF Spared
  <2>4. SocketsOutcome' = SocketsOutcome /\ SocketsPhase' = SocketsPhase
    BY <1>1, <1>6, <2>2, <2>3, StaySeen
  <2> QED
    BY <1>1, <1>6, <2>4, SocketStutters
<1>7. CASE /\ Ch!Enter(c, "ShuttingDown", Ch!NoRejoin, Ch!Answer(outcome, {task[c].busy}, "dropped"))
           /\ UNCHANGED Ch!userVars
  <2>1. sends' = sends
    BY <1>7 DEF Ch!userVars
  <2>2. SP!Forgo(c)
    BY <1>1, <1>2, <1>3, <1>4, <1>7, <2>1, ForgoSeen
  <2> QED
    BY <2>2 DEF SP!Clients
<1> QED
  BY <1>5, <1>6, <1>7 DEF Ch!SubmitFails

LEMMA ChannelStepSeen ==
  ASSUME ClientInv, ChannelStep, Remember PROVE [SP!Clients]_SP!vars
<1>1. UNCHANGED socketOnly /\ \E c \in Channel : Ch!Task(c)
  BY DEF ChannelStep
<1>2. PICK c \in Channel : Ch!Task(c)
  BY <1>1
<1>3. CASE Ch!Shutdown(c) \/ Ch!Exit(c)
  BY <1>1, <1>3, ShutdownSeen DEF SP!Clients
<1>4. CASE Ch!Lagged(c) \/ Ch!ConnectivityChanged(c)
  BY <1>1, <1>4, NewsSeen DEF SP!Clients
<1>5. CASE Ch!JoinedResult(c) \/ Ch!LeftResult(c) \/ Ch!JoinTooLate(c)
  BY <1>1, <1>5, ResultSeen
<1>6. CASE Ch!JoinAgain(c) \/ Ch!LeaveAgain(c)
  BY <1>1, <1>6, AgainSeen
<1>7. CASE (\E r \in Request : Ch!Rejoin(c, r) \/ Ch!Join(c, r) \/ Ch!Leave(c, r)) \/ Ch!TakeSend(c)
  BY <1>1, <1>7, PreparedSeen
<1>8. CASE Ch!PushReceived(c)
  BY <1>1, <1>8, PushReceivedSeen DEF SP!Clients
<1>9. CASE Ch!Submit(c)
  BY <1>1, <1>9, SubmitSeen DEF SP!Clients
<1>10. CASE Ch!SubmitFails(c)
  BY <1>1, <1>10, SubmitFailsSeen
<1> QED
  BY <1>2, <1>3, <1>4, <1>5, <1>6, <1>7, <1>8, <1>9, <1>10 DEF Ch!Task

LEMMA StutterSeen ==
  ASSUME UNCHANGED vars PROVE UNCHANGED SP!vars /\ UNCHANGED CP!vars
<1>1. UNCHANGED socketOnly /\ UNCHANGED shared /\ UNCHANGED channelOnly /\ UNCHANGED historyVars
  BY DEF vars
<1>2. SocketsOutcome' = SocketsOutcome /\ SocketsPhase' = SocketsPhase /\ ChannelsOutcome' = ChannelsOutcome
  BY <1>1 DEF shared, historyVars, SocketsOutcome, SocketKnows, SocketsPhase, SocketSees, ChannelsOutcome
<1>3. UNCHANGED <<chanStateQ, sendQ, connectivity, unread, receiving, pushQ, phase>>
  BY <1>1 DEF shared
<1>4. UNCHANGED SP!vars
  BY <1>1, <1>2, <1>3, SocketStutters
<1> QED
  BY <1>1, <1>2, <1>3, <1>4 DEF CP!vars, CP!socketVars, CP!userVars, socketOnly, channelOnly, Writes

(* Whatever the client does, the socket sees a step of its own, of its     *)
(* network or of its clients.                                              *)
LEMMA StepSeenBySocket ==
  ASSUME ClientInv, [Next]_vars PROVE [SP!Next]_SP!vars
<1> USE DEF SP!Next
<1>1. CASE SocketStep /\ Remember
  BY <1>1, SocketStepSeen
<1>2. CASE ChannelStep /\ Remember
  BY <1>2, ChannelStepSeen
<1>3. CASE SocketUser /\ Remember
  BY <1>3, SocketUserSeen
<1>4. CASE ChannelUser /\ Remember
  BY <1>4, ChannelUserSeen
<1>5. CASE UNCHANGED vars
  BY <1>5, StutterSeen
<1> QED
  BY <1>1, <1>2, <1>3, <1>4, <1>5 DEF Next

-----------------------------------------------------------------------------
(***************************************************************************)
(* The channels' steps, as the channels see them                           *)
(***************************************************************************)
LEMMA SameHands ==
  /\ \A c : /\ CP!Waiters(c) = Ch!Waiters(c) /\ CP!UserHeld(c) = Ch!UserHeld(c)
            /\ CP!Busy(c) <=> Ch!Busy(c)
            /\ CP!Spawned(c) <=> Ch!Spawned(c)
            /\ CP!Selecting(c) <=> Ch!Selecting(c)
            /\ CP!NewsReady(c) <=> Ch!NewsReady(c)
  /\ CP!InTheirHands = Ch!InTheirHands
  /\ CP!Blank = Ch!Blank /\ CP!NoRejoin = Ch!NoRejoin
  /\ CP!CommandPhase = Ch!CommandPhase
  /\ \A n : CP!NextAttempt(n) = Ch!NextAttempt(n)
<1>1. \A c : CP!Waiters(c) = Ch!Waiters(c) /\ CP!UserHeld(c) = Ch!UserHeld(c)
  BY SameWords DEF CP!Waiters, Ch!Waiters, CP!UserHeld, Ch!UserHeld
<1>2. \A c : (CP!Busy(c) <=> Ch!Busy(c)) /\ (CP!Spawned(c) <=> Ch!Spawned(c))
  BY SameWords DEF CP!Busy, Ch!Busy, CP!Spawned, Ch!Spawned
<1>3. CP!CommandPhase = Ch!CommandPhase /\ CP!NewsPhase = Ch!NewsPhase
  BY DEF CP!CommandPhase, Ch!CommandPhase, CP!NewsPhase, Ch!NewsPhase
<1>4. \A c : (CP!Selecting(c) <=> Ch!Selecting(c)) /\ (CP!NewsReady(c) <=> Ch!NewsReady(c))
  BY <1>2, <1>3 DEF CP!Selecting, Ch!Selecting, CP!NewsReady, Ch!NewsReady
<1>5. CP!InTheirHands = Ch!InTheirHands
  BY <1>1 DEF CP!InTheirHands, Ch!InTheirHands
<1>6. /\ CP!Blank = Ch!Blank /\ CP!NoRejoin = Ch!NoRejoin
      /\ \A n : CP!NextAttempt(n) = Ch!NextAttempt(n)
  BY DEF CP!Blank, Ch!Blank, CP!NoRejoin, Ch!NoRejoin, CP!NextAttempt, Ch!NextAttempt, CP!SmallerOf,
    Ch!SmallerOf
<1> QED
  BY <1>1, <1>2, <1>3, <1>4, <1>5, <1>6

(* The oneshots of joins, leaves, calls, casts and users are all seen.     *)
LEMMA AllSeen ==
  \A r \in ChannelsRequest : ChannelsOutcome[r] = outcome[r] /\ ChannelsOutcome'[r] = outcome'[r]
BY DEF ChannelsOutcome

LEMMA ChannelsKinds ==
  /\ \A r \in Request : r.kind \in ChannelKinds => r \in ChannelsRequest
  /\ \A c \in Channel, r \in Request : r.chan = c => r \in ChannelsRequest
  /\ \A r \in ChannelsRequest : r \in Request
<1>1. \A c \in Channel, r \in Request : r.chan = c => r \in ChannelsRequest
  BY RequestAssumption, ChannelAssumption DEF ChannelsRequest, RequestsOf, StateKind, ChanKind, UserKind
<1> QED
  BY <1>1, SameRequests DEF ChannelsRequest, RequestsOf, ChannelKinds

LEMMA AnswerReadySeen ==
  ASSUME ClientInv, NEW c \in Channel
  PROVE  /\ CP!AnswerReady(c) <=> Ch!AnswerReady(c)
         /\ phase[c] \in {"Joining", "Leaving"} =>
              ChannelsOutcome[task[c].awaiting] = outcome[task[c].awaiting]
<1>1. phase[c] \in {"Joining", "Leaving"} => task[c].awaiting \in ChannelsRequest
  BY ChannelKnows, SameRequests DEF RequestsOf, ChannelKinds, ChanKind
<1> QED
  BY <1>1, AllSeen, SameWords DEF CP!AnswerReady, Ch!AnswerReady

LEMMA UnusedSeen == \A r \in ChannelsRequest : CP!Unused(r) <=> Ch!Unused(r)
BY AllSeen, SameHands, SameWords DEF CP!Unused, Ch!Unused

LEMMA AnswerSeen ==
  ASSUME NEW out, NEW R, NEW o
  PROVE  /\ CP!Answer(ChannelsView(out), R, o) = ChannelsView(Ch!Answer(out, R, o))
         /\ CP!Release(ChannelsView(out), R) = ChannelsView(Ch!Release(out, R))
BY AnswersSeen

LEMMA EnterSeen ==
  ASSUME NEW c, NEW p, NEW n, NEW out, Ch!Enter(c, p, n, out)
  PROVE  CP!Enter(c, p, n, ChannelsView(out))
<1>1. outcome' = Ch!Release(Ch!Answer(out, Ch!Waiters(c), "dropped"), {task[c].awaiting})
  BY DEF Ch!Enter
<1>2. ChannelsOutcome' = CP!Release(CP!Answer(ChannelsView(out), CP!Waiters(c), "dropped"), {task[c].awaiting})
  <2>1. ChannelsOutcome' = ChannelsView(Ch!Release(Ch!Answer(out, Ch!Waiters(c), "dropped"), {task[c].awaiting}))
    BY <1>1, Views
  <2>2. CP!Answer(ChannelsView(out), Ch!Waiters(c), "dropped") = ChannelsView(Ch!Answer(out, Ch!Waiters(c), "dropped"))
    BY AnswerSeen
  <2> QED
    BY <2>1, <2>2, AnswerSeen, SameHands
<1> QED
  BY <1>2, SameHands DEF Ch!Enter, CP!Enter, Ch!DropReceivers, CP!DropReceivers

LEMMA WaitSeen ==
  ASSUME NEW c, NEW n, NEW out, Ch!WaitToRejoin(c, n, out)
  PROVE  CP!WaitToRejoin(c, n, ChannelsView(out))
BY EnterSeen, SameHands DEF Ch!WaitToRejoin, CP!WaitToRejoin

LEMMA EndSeenByChannels ==
  ASSUME NEW c, NEW p, NEW out, Ch!End(c, p, out)
  PROVE  CP!End(c, p, ChannelsView(out))
<1>1. CP!Enter(c, p, Ch!NoRejoin, ChannelsView(Ch!Answer(out, Ch!UserHeld(c) \cup {task[c].busy}, "dropped")))
  BY EnterSeen DEF Ch!End
<1>2. CP!Enter(c, p, CP!NoRejoin, CP!Answer(ChannelsView(out), CP!UserHeld(c) \cup {task[c].busy}, "dropped"))
  BY <1>1, AnswerSeen, SameHands
<1> QED
  BY <1>2 DEF Ch!End, CP!End

LEMMA StaySame == \A c : Ch!Stay(c) => CP!Stay(c)
BY DEF Ch!Stay, CP!Stay

LEMMA ShutdownOfChannel ==
  ASSUME UNCHANGED pc, NEW c \in Channel
  PROVE  (Ch!Shutdown(c) => CP!Shutdown(c)) /\ (Ch!Exit(c) => CP!Exit(c))
<1> USE DEF Ch!socketVars, CP!socketVars, Ch!userVars, CP!userVars
<1>1. ASSUME Ch!Shutdown(c) PROVE CP!Shutdown(c)
  <2>1. CP!Enter(c, "ShuttingDown", Ch!NoRejoin, ChannelsView(Ch!Answer(outcome, Ch!Waiters(c), "shutdown")))
    BY <1>1, EnterSeen DEF Ch!Shutdown
  <2>2. CP!Enter(c, "ShuttingDown", CP!NoRejoin, CP!Answer(ChannelsOutcome, CP!Waiters(c), "shutdown"))
    BY <2>1, AnswerSeen, SameHands, Views
  <2> QED
    BY <1>1, <2>2, SameHands DEF Ch!Shutdown, CP!Shutdown
<1>2. ASSUME Ch!Exit(c) PROVE CP!Exit(c)
  BY <1>2, EndSeenByChannels, Views DEF Ch!Exit, CP!Exit
<1> QED
  BY <1>1, <1>2

LEMMA NewsOfChannel ==
  ASSUME UNCHANGED pc, NEW c \in Channel
  PROVE  (Ch!Lagged(c) => CP!Lagged(c)) /\ (Ch!ConnectivityChanged(c) => CP!ConnectivityChanged(c))
<1> USE DEF Ch!socketVars, CP!socketVars, Ch!userVars, CP!userVars
<1>1. Ch!Lagged(c) => CP!Lagged(c)
  BY SameHands, Views DEF Ch!Lagged, CP!Lagged
<1>2. ASSUME NEW p, NEW n
      PROVE  /\ Ch!Enter(c, p, n, outcome) => CP!Enter(c, p, n, ChannelsOutcome)
             /\ Ch!Enter(c, p, n, Ch!NewsAnswer(c)) => CP!Enter(c, p, n, CP!NewsAnswer(c))
             /\ Ch!WaitToRejoin(c, n, outcome) => CP!WaitToRejoin(c, n, ChannelsOutcome)
  <2>1. CP!NewsAnswer(c) = ChannelsView(Ch!NewsAnswer(c)) /\ ChannelsOutcome = ChannelsView(outcome)
    BY AnswerSeen, Views DEF CP!NewsAnswer, Ch!NewsAnswer
  <2> QED
    BY <2>1, EnterSeen, WaitSeen
<1>3. outcome' = outcome => ChannelsOutcome' = ChannelsOutcome
  BY Views
<1>4. Ch!SocketConnected(c) => CP!SocketConnected(c)
  BY <1>2, <1>3, SameHands, StaySame DEF Ch!SocketConnected, CP!SocketConnected
<1>5. Ch!SocketDisconnected(c) => CP!SocketDisconnected(c)
  BY <1>2, <1>3, SameHands, StaySame DEF Ch!SocketDisconnected, CP!SocketDisconnected
<1>6. Ch!SocketShutdown(c) => CP!SocketShutdown(c)
  BY <1>2, SameHands DEF Ch!SocketShutdown, CP!SocketShutdown
<1>7. Ch!ConnectivityChanged(c) => CP!ConnectivityChanged(c)
  BY <1>4, <1>5, <1>6, SameHands DEF Ch!ConnectivityChanged, CP!ConnectivityChanged
<1> QED
  BY <1>1, <1>7

LEMMA ResultOfChannel ==
  ASSUME ClientInv, UNCHANGED pc, NEW c \in Channel
  PROVE  (Ch!JoinedResult(c) => CP!JoinedResult(c)) /\ (Ch!LeftResult(c) => CP!LeftResult(c))
<1> USE DEF Ch!socketVars, CP!socketVars, Ch!userVars, CP!userVars
<1>1. ChannelsOutcome = ChannelsView(outcome) /\ ChannelsOutcome' = ChannelsView(outcome')
  BY Views
<1>2. ASSUME NEW R, NEW o PROVE CP!Answer(ChannelsOutcome, R, o) = ChannelsView(Ch!Answer(outcome, R, o))
  BY <1>1, AnswerSeen
<1>3. ASSUME Ch!JoinedResult(c) PROVE CP!JoinedResult(c)
  <2>1. /\ CP!Selecting(c) /\ phase[c] = "Joining" /\ CP!AnswerReady(c)
        /\ UNCHANGED <<CP!socketVars, unread>>
        /\ ChannelsOutcome[task[c].awaiting] = outcome[task[c].awaiting]
    BY <1>3, SameHands, AnswerReadySeen DEF Ch!JoinedResult
  <2>2. CASE /\ outcome[task[c].awaiting] = "ok"
             /\ phase' = [phase EXCEPT ![c] = "Joined"]
             /\ task' = [task EXCEPT ![c] = Ch!Blank]
             /\ outcome' = Ch!Release(Ch!Answer(outcome, task[c].joiners, "ok"), {task[c].awaiting})
             /\ receiving' = [receiving EXCEPT ![c] = task[c].awaiting]
             /\ UNCHANGED <<pushQ, Ch!userVars>>
    <3>1. ChannelsOutcome' = CP!Release(CP!Answer(ChannelsOutcome, task[c].joiners, "ok"), {task[c].awaiting})
      BY <1>1, <1>2, <2>2, AnswerSeen
    <3> QED
      BY <2>1, <2>2, <3>1, SameHands DEF CP!JoinedResult
  <2>3. CASE /\ outcome[task[c].awaiting] \in {"rejected", "disconnected", "timeout"}
             /\ Ch!WaitToRejoin(c, task[c].rejoin,
                                Ch!Answer(outcome, task[c].joiners, outcome[task[c].awaiting]))
             /\ UNCHANGED Ch!userVars
    <3>1. CP!WaitToRejoin(c, task[c].rejoin,
                          CP!Answer(ChannelsOutcome, task[c].joiners, ChannelsOutcome[task[c].awaiting]))
      BY <1>2, <2>1, <2>3, WaitSeen
    <3> QED
      BY <2>1, <2>3, <3>1 DEF CP!JoinedResult
  <2>4. CASE /\ outcome[task[c].awaiting] = "dropped"
             /\ Ch!End(c, "Gone", Ch!Answer(outcome, task[c].joiners, "error"))
    <3>1. CP!End(c, "Gone", CP!Answer(ChannelsOutcome, task[c].joiners, "error"))
      BY <1>2, <2>4, EndSeenByChannels
    <3> QED
      BY <2>1, <2>4, <3>1 DEF CP!JoinedResult
  <2> QED
    BY <1>3, <2>2, <2>3, <2>4 DEF Ch!JoinedResult
<1>4. ASSUME Ch!LeftResult(c) PROVE CP!LeftResult(c)
  <2>1. /\ CP!Selecting(c) /\ phase[c] = "Leaving" /\ ~CP!NewsReady(c) /\ CP!AnswerReady(c)
        /\ ChannelsOutcome[task[c].awaiting] = outcome[task[c].awaiting]
    BY <1>4, SameHands, AnswerReadySeen DEF Ch!LeftResult
  <2>2. CP!Enter(c, "Left", CP!NoRejoin,
                 CP!Answer(ChannelsOutcome, task[c].leavers, ChannelsOutcome[task[c].awaiting]))
    BY <1>2, <1>4, <2>1, EnterSeen, SameHands DEF Ch!LeftResult
  <2> QED
    BY <1>4, <2>1, <2>2 DEF Ch!LeftResult, CP!LeftResult
<1> QED
  BY <1>3, <1>4

(* Commands of users.                                                      *)
LEMMA CommandOfChannel ==
  ASSUME ClientInv, UNCHANGED pc, NEW c \in Channel
  PROVE  /\ Ch!JoinTooLate(c) => CP!JoinTooLate(c)
         /\ Ch!JoinAgain(c) => CP!JoinAgain(c)
         /\ Ch!LeaveAgain(c) => CP!LeaveAgain(c)
<1> USE DEF Ch!socketVars, CP!socketVars, Ch!userVars, CP!userVars
<1>1. ChannelsOutcome = ChannelsView(outcome) /\ ChannelsOutcome' = ChannelsView(outcome')
  BY Views
<1>2. ASSUME NEW R, NEW o PROVE CP!Answer(ChannelsOutcome, R, o) = ChannelsView(Ch!Answer(outcome, R, o))
  BY <1>1, AnswerSeen
<1>3. \A kind : Ch!TakeCommand(c, kind) => CP!TakeCommand(c, kind)
  BY SameHands, AnswerReadySeen DEF Ch!TakeCommand, CP!TakeCommand
<1>4. Ch!Stay(c) => CP!Stay(c)
  BY StaySame
<1>5. ASSUME Ch!JoinTooLate(c) PROVE CP!JoinTooLate(c)
  <2>1. CP!WaitToRejoin(c, 0, CP!Answer(ChannelsOutcome, {Head(commands[c])}, "dropped"))
    BY <1>2, <1>5, WaitSeen DEF Ch!JoinTooLate
  <2> QED
    BY <1>3, <1>5, <2>1 DEF Ch!JoinTooLate, CP!JoinTooLate
<1>6. Ch!JoinAgain(c) => CP!JoinAgain(c)
  BY <1>1, <1>2, <1>3, <1>4 DEF Ch!JoinAgain, CP!JoinAgain
<1>7. ASSUME Ch!LeaveAgain(c) PROVE CP!LeaveAgain(c)
  <2>1. Ch!Enter(c, "Left", Ch!NoRejoin, Ch!Answer(outcome, {Head(commands[c])}, "ok")) =>
        CP!Enter(c, "Left", CP!NoRejoin, CP!Answer(ChannelsOutcome, {Head(commands[c])}, "ok"))
    BY <1>2, EnterSeen, SameHands
  <2> QED
    BY <1>1, <1>2, <1>3, <1>4, <1>7, <2>1 DEF Ch!LeaveAgain, CP!LeaveAgain
<1> QED
  BY <1>5, <1>6, <1>7

LEMMA PreparedOfChannel ==
  ASSUME ClientInv, UNCHANGED pc, NEW c \in Channel
  PROVE  /\ \A r \in Request : /\ Ch!Rejoin(c, r) => r \in ChannelsRequest /\ CP!Rejoin(c, r)
                               /\ Ch!Join(c, r) => r \in ChannelsRequest /\ CP!Join(c, r)
                               /\ Ch!Leave(c, r) => r \in ChannelsRequest /\ CP!Leave(c, r)
         /\ Ch!TakeSend(c) => CP!TakeSend(c)
<1> USE DEF Ch!socketVars, CP!socketVars, Ch!userVars, CP!userVars
<1>1. outcome' = outcome => ChannelsOutcome' = ChannelsOutcome
  BY Views
<1>2. \A kind : Ch!TakeCommand(c, kind) => CP!TakeCommand(c, kind)
  BY SameHands, AnswerReadySeen DEF Ch!TakeCommand, CP!TakeCommand
<1>3. \A r, t : Ch!Prepare(c, r, t) <=> CP!Prepare(c, r, t)
  BY DEF Ch!Prepare, CP!Prepare
<1>4. ASSUME NEW r \in Request, r.chan = c PROVE r \in ChannelsRequest /\ (Ch!Unused(r) => CP!Unused(r))
  BY <1>4, ChannelsKinds, UnusedSeen
<1>5. ASSUME NEW r \in Request, Ch!Rejoin(c, r) PROVE r \in ChannelsRequest /\ CP!Rejoin(c, r)
  BY <1>1, <1>3, <1>4, <1>5, SameHands DEF Ch!Rejoin, CP!Rejoin
<1>6. ASSUME NEW r \in Request, Ch!Join(c, r) PROVE r \in ChannelsRequest /\ CP!Join(c, r)
  BY <1>1, <1>2, <1>3, <1>4, <1>6, SameHands DEF Ch!Join, CP!Join
<1>7. ASSUME NEW r \in Request, Ch!Leave(c, r) PROVE r \in ChannelsRequest /\ CP!Leave(c, r)
  BY <1>1, <1>2, <1>3, <1>4, <1>7, SameHands DEF Ch!Leave, CP!Leave
<1>8. ASSUME Ch!TakeSend(c) PROVE CP!TakeSend(c)
  BY <1>1, <1>3, <1>8, SameHands DEF Ch!TakeSend, CP!TakeSend
<1> QED
  BY <1>5, <1>6, <1>7, <1>8

LEMMA PushOfChannel ==
  ASSUME UNCHANGED pc, NEW c \in Channel, Ch!PushReceived(c) PROVE CP!PushReceived(c)
<1>1. Ch!WaitToRejoin(c, 0, outcome) => CP!WaitToRejoin(c, 0, ChannelsOutcome)
  BY WaitSeen, Views
<1>2. outcome' = outcome => ChannelsOutcome' = ChannelsOutcome
  BY Views
<1> QED
  BY <1>1, <1>2, SameHands DEF Ch!PushReceived, CP!PushReceived, Ch!socketVars, CP!socketVars,
    Ch!userVars, CP!userVars

LEMMA SubmitOfChannel ==
  ASSUME ClientInv, UNCHANGED pc, NEW c \in Channel, Ch!Submit(c) PROVE CP!Submit(c)
<1>1. ChannelsOutcome = ChannelsView(outcome) /\ ChannelsOutcome' = ChannelsView(outcome')
  BY Views
<1>2. PICK r \in ChannelsRequest : r = task[c].busy
  BY ClientTypes, SameRequests DEF Ch!Submit, Ch!Busy, ChannelTypes, TaskFields, RequestsOf, ChannelKinds
<1>3. ASSUME NEW R, NEW o, NEW a
      PROVE  /\ ChannelsView(Ch!Release(Ch!Answer(outcome, R, o), {a})) =
                  CP!Release(CP!Answer(ChannelsOutcome, R, o), {a})
  BY <1>1, AnswerSeen
<1>4. ASSUME NEW R, NEW o, NEW a,
             outcome' = [Ch!Release(Ch!Answer(outcome, R, o), {a}) EXCEPT ![r] = "pending"]
      PROVE  ChannelsOutcome' = [CP!Release(CP!Answer(ChannelsOutcome, R, o), {a}) EXCEPT ![r] = "pending"]
  <2>1. PICK out : out = Ch!Release(Ch!Answer(outcome, R, o), {a})
    OBVIOUS
  <2>2. DOMAIN out = Request
    BY <2>1 DEF Ch!Release
  <2>3. outcome' = [out EXCEPT ![r] = "pending"]
    BY <1>4, <2>1
  <2>4. \A q \in ChannelsRequest : outcome'[q] = IF q = r THEN "pending" ELSE out[q]
    BY <1>2, <2>2, <2>3, ChannelsKinds
  <2>5. ChannelsView(outcome') = [ChannelsView(out) EXCEPT ![r] = "pending"]
    <3>1. ChannelsView(outcome') = [q \in ChannelsRequest |-> IF q = r THEN "pending" ELSE out[q]]
      BY <2>4 DEF ChannelsView
    <3>2. [ChannelsView(out) EXCEPT ![r] = "pending"] =
            [q \in ChannelsRequest |-> IF q = r THEN "pending" ELSE out[q]]
      BY <1>2 DEF ChannelsView
    <3> QED
      BY <3>1, <3>2
  <2>6. ChannelsView(out) = CP!Release(CP!Answer(ChannelsOutcome, R, o), {a})
    BY <1>3, <2>1
  <2> QED
    BY <1>1, <2>5, <2>6
<1>5. CASE Ch!SubmitLeave(c)
  <2>1. ChannelsOutcome' = [CP!Release(CP!Answer(ChannelsOutcome, task[c].joiners, "leaving"),
                                       {task[c].awaiting}) EXCEPT ![r] = "pending"]
    BY <1>2, <1>4, <1>5 DEF Ch!SubmitLeave
  <2>2. CP!SubmitLeave(c)
    BY <1>2, <1>5, <2>1, SameHands, SameRoom DEF Ch!SubmitLeave, CP!SubmitLeave, Ch!DropReceivers,
      CP!DropReceivers
  <2> QED
    BY <2>2, SameHands DEF Ch!Submit, CP!Submit, Ch!userVars, CP!userVars
<1>6. CASE Ch!SubmitJoin(c)
  <2>1. ChannelsOutcome' = [CP!Release(CP!Answer(ChannelsOutcome, task[c].leavers, "joining"),
                                       {task[c].awaiting}) EXCEPT ![r] = "pending"]
    BY <1>2, <1>4, <1>6 DEF Ch!SubmitJoin
  <2>2. CP!SubmitJoin(c)
    BY <1>2, <1>6, <2>1, SameRoom DEF Ch!SubmitJoin, CP!SubmitJoin
  <2> QED
    BY <2>2, SameHands DEF Ch!Submit, CP!Submit, Ch!userVars, CP!userVars
<1>7. CASE Ch!SubmitSend(c)
  <2>1. CP!SubmitSend(c)
    BY <1>1, <1>7, SameRoom DEF Ch!SubmitSend, CP!SubmitSend
  <2> QED
    BY <2>1, SameHands DEF Ch!Submit, CP!Submit, Ch!userVars, CP!userVars
<1> QED
  BY <1>5, <1>6, <1>7 DEF Ch!Submit

LEMMA SubmitFailsOfChannel ==
  ASSUME UNCHANGED pc, NEW c \in Channel, Ch!SubmitFails(c) PROVE CP!SubmitFails(c)
<1>1. ChannelsOutcome = ChannelsView(outcome) /\ ChannelsOutcome' = ChannelsView(outcome')
  BY Views
<1>2. ASSUME NEW R, NEW o PROVE CP!Answer(ChannelsOutcome, R, o) = ChannelsView(Ch!Answer(outcome, R, o))
  BY <1>1, AnswerSeen
<1>3. /\ Ch!End(c, "Gone", outcome) => CP!End(c, "Gone", ChannelsOutcome)
      /\ Ch!End(c, "Gone", Ch!Answer(outcome, task[c].leavers, "error")) =>
           CP!End(c, "Gone", CP!Answer(ChannelsOutcome, task[c].leavers, "error"))
  BY <1>1, <1>2, EndSeenByChannels
<1>4. Ch!Enter(c, "ShuttingDown", Ch!NoRejoin, Ch!Answer(outcome, {task[c].busy}, "dropped")) =>
      CP!Enter(c, "ShuttingDown", CP!NoRejoin, CP!Answer(ChannelsOutcome, {task[c].busy}, "dropped"))
  BY <1>2, EnterSeen, SameHands
<1>5. outcome' = Ch!Answer(outcome, task[c].leavers, "error") =>
      ChannelsOutcome' = CP!Answer(ChannelsOutcome, task[c].leavers, "error")
  BY <1>1, <1>2
<1> QED
  BY <1>3, <1>4, <1>5, SameHands DEF Ch!SubmitFails, CP!SubmitFails, Ch!socketVars, CP!socketVars,
    Ch!userVars, CP!userVars

LEMMA ChannelStepOfChannels ==
  ASSUME ClientInv, ChannelStep PROVE CP!Next
<1>1. UNCHANGED pc /\ \E c \in Channel : Ch!Task(c)
  BY DEF ChannelStep, socketOnly
<1>2. PICK c \in Channel : Ch!Task(c)
  BY <1>1
<1>3. CP!Task(c)
  <2>1. CASE Ch!Shutdown(c) \/ Ch!Exit(c)
    BY <1>1, <2>1, ShutdownOfChannel DEF CP!Task
  <2>2. CASE Ch!Lagged(c) \/ Ch!ConnectivityChanged(c)
    BY <1>1, <2>2, NewsOfChannel DEF CP!Task
  <2>3. CASE Ch!JoinedResult(c) \/ Ch!LeftResult(c)
    BY <1>1, <2>3, ResultOfChannel DEF CP!Task
  <2>4. CASE Ch!JoinTooLate(c) \/ Ch!JoinAgain(c) \/ Ch!LeaveAgain(c)
    BY <1>1, <2>4, CommandOfChannel DEF CP!Task
  <2>5. CASE (\E r \in Request : Ch!Rejoin(c, r) \/ Ch!Join(c, r) \/ Ch!Leave(c, r)) \/ Ch!TakeSend(c)
    BY <1>1, <2>5, PreparedOfChannel DEF CP!Task
  <2>6. CASE Ch!PushReceived(c)
    BY <1>1, <2>6, PushOfChannel DEF CP!Task
  <2>7. CASE Ch!Submit(c)
    BY <1>1, <2>7, SubmitOfChannel DEF CP!Task
  <2>8. CASE Ch!SubmitFails(c)
    BY <1>1, <2>8, SubmitFailsOfChannel DEF CP!Task
  <2> QED
    BY <1>2, <2>1, <2>2, <2>3, <2>4, <2>5, <2>6, <2>7, <2>8 DEF Ch!Task
<1> QED
  BY <1>3 DEF CP!Next

LEMMA ChannelUserOfChannels ==
  ASSUME ClientInv, ChannelUser PROVE CP!Next
<1>1. UNCHANGED pc
  BY DEF ChannelUser, socketOnly
<1>2. outcome \in [Request -> Outcome]
  BY DEF ClientInv, Link
<1>3. ASSUME NEW u \in ChannelsRequest, NEW o, outcome' = [outcome EXCEPT ![u] = o]
      PROVE  ChannelsOutcome' = [ChannelsOutcome EXCEPT ![u] = o]
  <2>1. \A q \in ChannelsRequest : outcome'[q] = IF q = u THEN o ELSE outcome[q]
    BY <1>2, <1>3, ChannelsKinds
  <2>2. ChannelsOutcome' = [q \in ChannelsRequest |-> IF q = u THEN o ELSE outcome[q]]
    BY <2>1 DEF ChannelsOutcome
  <2>3. [ChannelsOutcome EXCEPT ![u] = o] = [q \in ChannelsRequest |-> IF q = u THEN o ELSE outcome[q]]
    BY DEF ChannelsOutcome
  <2> QED
    BY <2>2, <2>3
<1> USE DEF Ch!socketVars, CP!socketVars, Ch!userVars, CP!userVars
<1>4. ASSUME NEW u \in Request, Ch!UserCommand(u) \/ Ch!UserSend(u) PROVE CP!Next
  <2>1. u \in ChannelsRequest /\ Ch!Unused(u)
    BY <1>4, ChannelsKinds, SameWords DEF Ch!UserCommand, Ch!UserSend, ChannelKinds, ChanKind
  <2>2. CP!Unused(u)
    BY <2>1, UnusedSeen
  <2>3. CASE Ch!UserCommand(u)
    <3>1. ChannelsOutcome' = [ChannelsOutcome EXCEPT ![u] = "pending"]
      BY <1>3, <2>1, <2>3 DEF Ch!UserCommand
    <3> QED
      BY <1>1, <2>1, <2>2, <2>3, <3>1, SameHands, SameWords DEF Ch!UserCommand, CP!UserCommand, CP!Users, CP!Next
  <2>4. CASE Ch!UserSend(u)
    <3>1. ChannelsOutcome' = [ChannelsOutcome EXCEPT ![u] = "pending"]
      BY <1>3, <2>1, <2>4 DEF Ch!UserSend
    <3> QED
      BY <1>1, <2>1, <2>2, <2>4, <3>1, SameHands DEF Ch!UserSend, CP!UserSend, CP!Users, CP!Next
  <2> QED
    BY <1>4, <2>3, <2>4
<1>5. ASSUME NEW u \in Request, Ch!UserReads(u) PROVE CP!Next
  <2>1. u \in ChannelsRequest
    BY <1>5, ChannelsKinds, SameWords DEF Ch!UserReads, ChannelKinds, ChanKind
  <2>2. ChannelsOutcome' = [ChannelsOutcome EXCEPT ![u] = "free"]
    BY <1>3, <1>5, <2>1 DEF Ch!UserReads
  <2>3. CP!UserReads(u)
    BY <1>1, <1>5, <2>1, <2>2, AllSeen, SameWords DEF Ch!UserReads, CP!UserReads
  <2> QED
    BY <2>1, <2>3 DEF CP!Users, CP!Next
<1>6. ASSUME NEW c \in Channel, Ch!UserShutdown(c) PROVE CP!Next
  <2>1. ChannelsOutcome' = ChannelsOutcome
    BY <1>6, Views DEF Ch!UserShutdown
  <2>2. CP!UserShutdown(c)
    BY <1>1, <1>6, <2>1, SameHands DEF Ch!UserShutdown, CP!UserShutdown
  <2> QED
    BY <2>2 DEF CP!Users, CP!Next
<1> QED
  BY <1>4, <1>5, <1>6 DEF ChannelUser

(* Only that they ask for a channel is of the channels' business, of what  *)
(* users do with the socket.                                               *)
LEMMA ChannelsStutter ==
  ASSUME UNCHANGED <<pc, chanStateQ, sendQ, connectivity, unread, receiving, pushQ, phase>>,
         UNCHANGED channelOnly, ChannelsOutcome' = ChannelsOutcome
  PROVE  UNCHANGED CP!vars
BY DEF CP!vars, CP!socketVars, CP!userVars, channelOnly, Writes

LEMMA SocketUserOfChannels ==
  ASSUME ClientInv, SocketUser PROVE [CP!Next]_CP!vars
<1> USE DEF S!socketVars, S!queueVars, S!castVars, S!chanVars, S!connVars, S!backVars
<1>1. ASSUME NEW r \in RequestsOf(StateKind), S!SubmitState(r) \/ S!TakeAnswer(r) \/ S!GiveUp(r)
      PROVE  UNCHANGED CP!vars
  <2>1. UNCHANGED <<pc, chanStateQ, sendQ, connectivity, unread, receiving, pushQ, phase>>
    BY <1>1 DEF S!SubmitState, S!TakeAnswer, S!GiveUp, RequestsOf, StateKind
  <2>2. \E o : outcome' = [outcome EXCEPT ![r] = o]
    BY <1>1 DEF S!SubmitState, S!TakeAnswer, S!GiveUp
  <2>3. r \notin ChannelsRequest
    BY SameRequests DEF RequestsOf, ChannelKinds, ChanKind, UserKind, StateKind
  <2>4. ASSUME NEW q \in ChannelsRequest PROVE outcome'[q] = outcome[q]
    BY <2>2, <2>3, ChannelsKinds DEF ClientInv, Link
  <2>5. ChannelsOutcome' = ChannelsOutcome
    BY <2>4 DEF ChannelsOutcome
  <2> QED
    BY <2>1, <2>5, ChannelsStutter DEF SocketUser
<1>2. ASSUME NEW c \in Channel, S!RequestChannel(c) PROVE CP!RequestChannel(c)
  <2>1. ChannelsOutcome' = ChannelsOutcome
    BY <1>2, Views DEF S!RequestChannel
  <2> QED
    BY <1>2, <2>1 DEF S!RequestChannel, CP!RequestChannel, CP!socketVars, CP!privateVars, CP!userVars,
      channelOnly, SocketUser, Writes
<1> QED
  BY <1>1, <1>2 DEF SocketUser, CP!Next, CP!Socket

-----------------------------------------------------------------------------
(***************************************************************************)
(* The socket's steps, as its channels see them                            *)
(***************************************************************************)
(* An answer is the same to whichever of those it finds waiting.           *)
LEMMA AnswersOfSocket ==
  ASSUME NEW out, NEW R, NEW o
  PROVE  /\ ChannelsView(S!Answer(out, R, o)) = CP!Answer(ChannelsView(out), R, o)
         /\ \A Q : (\A r \in ChannelsRequest : out[r] = "pending" => (r \in R <=> r \in Q))
                     => ChannelsView(S!Answer(out, R, o)) = CP!Answer(ChannelsView(out), Q, o)
         /\ (\A r \in ChannelsRequest : out[r] = "pending" => r \notin R)
              => ChannelsView(S!Answer(out, R, o)) = ChannelsView(out)
<1>1. ChannelsView(S!Answer(out, R, o)) = CP!Answer(ChannelsView(out), R, o)
  BY AnswersSeen
<1>2. ASSUME NEW Q, \A r \in ChannelsRequest : out[r] = "pending" => (r \in R <=> r \in Q)
      PROVE  CP!Answer(ChannelsView(out), R, o) = CP!Answer(ChannelsView(out), Q, o)
  BY <1>2 DEF ChannelsView, CP!Answer
<1>3. ASSUME \A r \in ChannelsRequest : out[r] = "pending" => r \notin R
      PROVE  CP!Answer(ChannelsView(out), R, o) = ChannelsView(out)
  BY <1>3 DEF ChannelsView, CP!Answer
<1> QED
  BY <1>1, <1>2, <1>3

(* Nobody of the channels is among those that wait for a connection.       *)
LEMMA NotOfChannels ==
  ASSUME ClientInv
  PROVE  /\ NoRequest \notin ChannelsRequest /\ serving \notin ChannelsRequest
         /\ stateQ # <<>> => Head(stateQ) \notin ChannelsRequest
         /\ Range(stateQ) \cap ChannelsRequest = {}
<1>1. RequestsOf(StateKind) \cap ChannelsRequest = {}
  BY SameRequests DEF RequestsOf, ChannelKinds, ChanKind, UserKind, StateKind
<1>2. NoRequest \notin ChannelsRequest
  BY ChannelsRequestAssumption
<1>3. RequestsOf({"connect"}) \subseteq RequestsOf(StateKind)
  BY DEF RequestsOf, StateKind
<1> QED
  BY <1>1, <1>2, <1>3, ClientTypes, QueueSteps, QueueKind DEF SocketTypes

(* Joins and calls that the socket has sent are those its channels have no *)
(* trace of but that somebody waits for an answer.                         *)
LEMMA SentSeen ==
  ASSUME ClientInv, NEW r \in ChannelsRequest, outcome[r] = "pending"
  PROVE  /\ r \in CP!Sent <=> r \in S!PendingJoins \cup replies
         /\ r \in S!Held <=> r \in CP!Sent \cup Range(chanStateQ) \cup Range(sendQ)
         /\ r \in CP!Sent => r \in CP!RequestsOf({"join", "call"})
<1> DEFINE Queued == Range(chanStateQ) \cup Range(sendQ)
<1>1. r \in Request /\ ChannelsOutcome[r] = "pending"
  BY ChannelsKinds, AllSeen
<1>2. /\ S!PendingJoins \subseteq RequestsOf({"join"}) /\ replies \subseteq RequestsOf({"call"})
      /\ Range(chanStateQ) \subseteq RequestsOf({"join", "leave"}) /\ Range(sendQ) \subseteq Sends
  BY ClientTypes, QueueKind DEF SocketTypes, JoinOrNone, S!PendingJoins
<1>3. r \in S!Held <=> r \in S!PendingJoins \cup replies \cup Queued
  <2>1. Range(stateQ) \cap ChannelsRequest = {} /\ serving \notin ChannelsRequest
    BY NotOfChannels
  <2> QED
    BY <2>1, SameWords DEF S!Held, S!QueuedRequests
<1>4. ASSUME r \in S!PendingJoins \cup replies PROVE r \notin Queued /\ r \notin Ch!InTheirHands
  <2>1. r \notin Queued
    <3>1. S!PendingJoins \cap Range(chanStateQ) = {} /\ replies \cap Range(sendQ) = {}
      BY SameWords DEF ClientInv, SP!SocketInv, SP!LastInv, SP!CommandOrder, SP!SendOrder, S!PendingJoins
    <3> QED
      BY <1>2, <1>4, <3>1 DEF RequestsOf, Sends
  <2>2. r \notin InChannels
    BY <1>1, <1>3, <1>4, RequestAssumption DEF ClientInv, Link, Apart, SocketHas
  <2>3. \A c \in Channel : r \notin Ch!Waiters(c) \cup Range(commands[c])
    <3>1. r \notin RequestsOf(UserKind)
      BY <1>2, <1>4 DEF RequestsOf, UserKind
    <3>2. \A c \in Channel : /\ Ch!Waiters(c) \subseteq RequestsOf(UserKind)
                             /\ Range(commands[c]) \subseteq RequestsOf(UserKind)
      BY ClientTypes, QueueKind DEF Ch!Waiters, ChannelTypes, TaskFields, RequestsOf, UserKind
    <3> QED
      BY <3>1, <3>2
  <2> QED
    BY <2>1, <2>2, <2>3, SameWords, WithChannels DEF Ch!InTheirHands, Ch!UserHeld
<1>5. ASSUME r \in RequestsOf({"join", "call"}), r \notin Ch!InTheirHands, r \notin Queued
      PROVE  r \in S!PendingJoins \cup replies
  <2>1. r \notin InChannels
    BY <1>5, SameWords, WithChannels DEF Ch!InTheirHands, Ch!UserHeld
  <2>2. r \in SocketsRequest /\ SocketsOutcome[r] = "pending"
    <3>1. r.kind = "call" => r \in forwarded
      BY <1>1, <2>1 DEF ClientInv, Link, GoneOn, Sends, RequestsOf
    <3> QED
      BY <1>1, <1>5, <3>1, SameRequests DEF SocketsOutcome, SocketKnows, RequestsOf, SocketKinds, ChanKind
  <2>3. r \in S!Held
    BY <2>2, SamePossessions DEF ClientInv, SP!SocketInv, SP!NoWaiterLost
  <2> QED
    BY <1>3, <1>5, <2>3
<1>6. r \in CP!Sent <=> r \in RequestsOf({"join", "call"}) /\ r \notin Ch!InTheirHands \cup Queued
  BY <1>1, KindsOfRequests, SameHands, SameWords DEF CP!Sent
<1>7. r \in CP!Sent <=> r \in S!PendingJoins \cup replies
  BY <1>2, <1>4, <1>5, <1>6 DEF RequestsOf
<1> QED
  BY <1>3, <1>6, <1>7, KindsOfRequests

LEMMA BroadcastOfChannels == ASSUME NEW v, S!Broadcast(v) PROVE CP!Broadcast(v)
BY SameWords DEF S!Broadcast, CP!Broadcast, CP!Spawned

(* The end of a connection is one to both.                                 *)
LEMMA DisconnectedOfChannels ==
  ASSUME ClientInv, NEW out, \A r \in ChannelsRequest : out[r] = "pending" => outcome[r] = "pending",
         NEW v, S!SendDisconnected(out, v)
  PROVE  CP!Disconnected(v, ChannelsView(out))
<1>1. ChannelsOutcome' = CP!Answer(ChannelsView(out), CP!Sent, "disconnected")
  BY SentSeen, AnswersOfSocket, Views DEF S!SendDisconnected
<1> QED
  BY <1>1, BroadcastOfChannels DEF S!SendDisconnected, CP!Disconnected

(* An answer makes nobody wait.                                            *)
LEMMA AnswerMakesNoneWait ==
  ASSUME NEW R, NEW o, o # "pending"
  PROVE  \A r \in ChannelsRequest : S!Answer(outcome, R, o)[r] = "pending" => outcome[r] = "pending"
BY ChannelsKinds DEF S!Answer

(* While the socket task is connected, its channels may know.              *)
LEMMA OnlineSeen ==
  ASSUME ClientInv
  PROVE  /\ state = "Connected" /\ pc # "exited" => CP!Online
         /\ pc = "connecting" => connectivity \notin {"Connected", "Shutdown"}
         /\ state \notin {"ShuttingDown", "ShutDown"} /\ pc # "exited" => connectivity # "Shutdown"
         /\ state # "Connected" /\ pc # "exited" => ~CP!Online
BY DEF ClientInv, SP!SocketInv, SP!ConnectivityFollows, CP!Online

(* Of the waits of the socket task channels see those for their commands.  *)
LEMMA WritesSeen ==
  /\ pc = "writing_state" => Writes = "state"
  /\ pc = "writing_send" => Writes = "send"
  /\ pc \notin {"writing_state", "writing_send"} => Writes = "none"
  /\ pc' = "writing_state" => Writes' = "state"
  /\ pc' = "writing_send" => Writes' = "send"
  /\ pc' \notin {"writing_state", "writing_send"} => Writes' = "none"
  /\ pc' = pc => Writes' = Writes
BY DEF Writes

(* A wait that is none of theirs.                                          *)
LEMMA WaitsUnseen ==
  ASSUME UNCHANGED channelOnly, NEW w, w \notin {"writing_state", "writing_send", "exited"}, S!Await(w)
  PROVE  UNCHANGED CP!vars
BY WritesSeen, Views DEF S!Await, S!Online, S!AtSelect, S!queueVars, S!castVars, S!chanVars, S!pushVars,
  CP!vars, CP!socketVars, CP!userVars, channelOnly

(* Commands of users, and connects: only the end of a connection and a new *)
(* one are of the channels' business.                                      *)
LEMMA StateCommandsOfChannels ==
  ASSUME ClientInv, UNCHANGED channelOnly, S!Connect \/ S!Close \/ S!Disconnect \/ S!Shutdown
  PROVE  (Writes = "none" /\ CP!SocketDisconnects) \/ UNCHANGED CP!vars
<1>0. CASE S!Close
  BY <1>0, WaitsUnseen DEF S!Close
<1> SUFFICES ASSUME S!Connect \/ S!Disconnect \/ S!Shutdown
             PROVE  (Writes = "none" /\ CP!SocketDisconnects) \/ UNCHANGED CP!vars
  BY <1>0
<1>1. /\ Head(stateQ) \notin ChannelsRequest
      /\ pc # "exited" /\ pc' # "exited" /\ Writes = "none" /\ Writes' = "none"
      /\ UNCHANGED <<chanStateQ, sendQ, pushQ, phase, receiving>>
  BY NotOfChannels, WritesSeen DEF S!Connect, S!Disconnect, S!Shutdown, S!TakeStateCommand, S!Polling,
    S!AtSelect, S!Resumed, S!chanVars, S!pushVars
<1>2. \A o : ChannelsView(S!Answer(outcome, {Head(stateQ)}, o)) = ChannelsOutcome
  BY <1>1, AnswersOfSocket, Views
<1>3. ASSUME NEW v \in {"Disconnect", "Shutdown"}, state = "Connected",
             S!SendDisconnected(S!Answer(outcome, {Head(stateQ)}, "ok"), v)
      PROVE  CP!SocketDisconnects
  <2>1. CP!Disconnected(v, ChannelsOutcome)
    BY <1>2, <1>3, DisconnectedOfChannels, AnswerMakesNoneWait
  <2> QED
    BY <1>1, <1>3, <2>1, OnlineSeen DEF CP!SocketDisconnects, CP!privateVars, CP!userVars, channelOnly
<1>4. ASSUME ChannelsOutcome' = ChannelsOutcome, UNCHANGED <<connectivity, unread>>
      PROVE  UNCHANGED CP!vars
  BY <1>1, <1>4 DEF CP!vars, CP!socketVars, CP!userVars, channelOnly
<1>5. CASE S!Connect
  BY <1>2, <1>4, <1>5, Views DEF S!Connect, S!castVars
<1>6. CASE S!Disconnect
  BY <1>1, <1>2, <1>3, <1>4, <1>6, Views DEF S!Disconnect, S!castVars, S!Resumed
<1>7. CASE S!Shutdown
  BY <1>1, <1>2, <1>3, <1>4, <1>7, Views DEF S!Shutdown, S!castVars, S!Resumed
<1> QED
  BY <1>5, <1>6, <1>7

LEMMA ConnectionOfChannels ==
  ASSUME ClientInv, UNCHANGED channelOnly
  PROVE  /\ S!SocketConnectOk => Writes = "none" /\ CP!SocketConnects
         /\ S!Reconnect \/ S!SocketConnectError \/ S!Publish => UNCHANGED CP!vars
<1>1. \A o : ChannelsView(S!Answer(outcome, {serving}, o)) = ChannelsOutcome
  BY NotOfChannels, AnswersOfSocket, Views
<1> USE DEF S!chanVars, S!pushVars, S!queueVars, S!castVars, CP!userVars, channelOnly
<1>2. S!SocketConnectOk => Writes = "none" /\ CP!SocketConnects
  BY <1>1, OnlineSeen, BroadcastOfChannels, WritesSeen, Views DEF S!SocketConnectOk, CP!SocketConnects,
    CP!privateVars
<1>3. S!Reconnect \/ S!SocketConnectError \/ S!Publish => UNCHANGED CP!vars
  BY <1>1, WritesSeen, Views DEF S!Reconnect, S!SocketConnectError, S!Publish, S!AtSelect, CP!vars,
    CP!socketVars
<1> QED
  BY <1>2, <1>3

(* The loss of the connection, noticed or found when a frame is sent.      *)
LEMMA LossOfChannels ==
  ASSUME ClientInv, state = "Connected", pc # "exited", NEW out, S!WaitToReconnectConnected(out),
         \A r \in ChannelsRequest : out[r] = "pending" => outcome[r] = "pending"
  PROVE  /\ CP!Online /\ CP!Disconnected("Reconnect", ChannelsView(out))
         /\ (pc = "exited")' = (pc = "exited") /\ Writes' = "none"
BY DisconnectedOfChannels, OnlineSeen, WritesSeen DEF S!WaitToReconnectConnected

LEMMA QuietOfChannels ==
  ASSUME ClientInv, UNCHANGED channelOnly
  PROVE  /\ S!ConnectionLost => Writes = "none" /\ CP!SocketDisconnects
         /\ S!Heartbeat \/ S!Pong \/ S!AnswerClose => UNCHANGED CP!vars
         /\ S!Written => (Writes = "none" /\ CP!SocketDisconnects) \/ UNCHANGED CP!vars
         /\ S!HeartbeatReply => UNCHANGED CP!vars
         /\ \A c \in Channel, r \in Request : S!NoReply(c, r) => UNCHANGED CP!vars
<1> USE DEF S!chanVars, S!pushVars, S!queueVars, S!castVars, S!connVars, CP!userVars, channelOnly
<1>1. ASSUME state = "Connected", pc # "exited", S!WaitToReconnectConnected(outcome), Writes = "none",
             UNCHANGED <<S!queueVars, S!chanVars, S!pushVars>>
      PROVE  Writes = "none" /\ CP!SocketDisconnects
  <2>1. /\ CP!Online /\ CP!Disconnected("Reconnect", ChannelsOutcome) /\ Writes' = "none"
        /\ (pc = "exited")' = (pc = "exited")
    BY <1>1, LossOfChannels, Views
  <2> QED
    BY <1>1, <2>1 DEF CP!SocketDisconnects, CP!privateVars
<1>2. ASSUME S!ConnectionLost PROVE Writes = "none" /\ CP!SocketDisconnects
  BY <1>1, <1>2, WritesSeen DEF S!ConnectionLost, S!Online, S!AtSelect, S!Resumed
<1>3. S!Heartbeat \/ S!Pong \/ S!AnswerClose => UNCHANGED CP!vars
  <2>1. S!Await("writing_heartbeat") \/ S!Await("writing_pong") \/ S!Await("answering_close") =>
          UNCHANGED CP!vars
    BY WaitsUnseen
  <2> QED
    BY <2>1 DEF S!Heartbeat, S!Pong, S!AnswerClose
<1>4. S!HeartbeatReply => UNCHANGED CP!vars
  BY WritesSeen, Views DEF S!HeartbeatReply, CP!vars, CP!socketVars
<1>5. \A c \in Channel, r \in Request : S!NoReply(c, r) => UNCHANGED CP!vars
  BY WritesSeen, Views DEF S!NoReply, CP!vars, CP!socketVars
<1>6. ASSUME S!Written PROVE (Writes = "none" /\ CP!SocketDisconnects) \/ UNCHANGED CP!vars
  <2>1. /\ pc # "exited" /\ state = "Connected" /\ Writes = "none"
        /\ UNCHANGED <<S!queueVars, S!chanVars, S!pushVars>>
    BY <1>6, WritesSeen DEF S!Written, S!Resumed
  <2>2. CASE S!WaitToReconnectConnected(outcome)
    BY <1>1, <2>1, <2>2
  <2>3. CASE pc' = "select" /\ UNCHANGED <<connectivity, unread, outcome>>
    BY <2>1, <2>3, WritesSeen, Views DEF CP!vars, CP!socketVars
  <2> QED
    BY <1>6, <2>2, <2>3 DEF S!Written
<1> QED
  BY <1>2, <1>3, <1>4, <1>5, <1>6

(* The task ends.                                                          *)
LEMMA EndOfSocket ==
  ASSUME ClientInv, UNCHANGED channelOnly, S!Exit \/ S!Dropped \/ S!FatalSocketError
  PROVE  Writes = "none" /\ CP!SocketEnds
<1>1. pc # "exited" /\ S!DropEverything /\ Writes = "none" /\ Writes' = "none"
  BY WritesSeen DEF S!DropEverything, S!Exit, S!Dropped, S!FatalSocketError, S!ShutDown, S!Online, S!AtSelect
<1>2. ChannelsOutcome' = CP!Answer(ChannelsOutcome, CP!Sent \cup Range(chanStateQ) \cup Range(sendQ), "dropped")
  BY <1>1, SentSeen, AnswersOfSocket, Views DEF S!DropEverything
<1> QED
  BY <1>1, <1>2, SameWords DEF S!DropEverything, CP!SocketEnds, CP!privateVars, CP!userVars, S!castVars,
    S!pushVars, channelOnly

(* A channel is spawned.                                                   *)
LEMMA SpawnOfChannels ==
  ASSUME ClientInv, UNCHANGED channelOnly, S!SpawnChannel
  PROVE  Writes = "none" /\ \E c \in Channel : CP!SpawnChannel(c)
<1>1. PICK c \in Channel : spawnQ # <<>> /\ c = Head(spawnQ) /\ phase[c] = "Requested"
  <2>1. spawnQ # <<>> /\ spawnQ \in Seq(Channel) /\ Head(spawnQ) \in Range(spawnQ)
    BY ClientTypes, QueueElements DEF SocketTypes, S!SpawnChannel
  <2>2. Head(spawnQ) \in Channel /\ SocketsPhase[Head(spawnQ)] = "Requested"
    BY <2>1, SameWords, QueueSteps DEF ClientInv, SP!SocketInv, SP!SpawnOrder
  <2>3. phase[Head(spawnQ)] = "Requested"
    BY <2>2, PhasesSeen DEF Unspawned
  <2> QED
    BY <2>1, <2>2, <2>3
<1>2. /\ pc = "select" /\ pc' = pc /\ state \in S!PollingState /\ Writes = "none" /\ Writes' = Writes
      /\ (CP!Online <=> state = "Connected") /\ connectivity # "Shutdown"
  BY OnlineSeen, WritesSeen DEF S!SpawnChannel, S!Polling, S!AtSelect, S!PollingState
<1>3. ChannelsOutcome' = ChannelsOutcome
  BY Views DEF S!SpawnChannel
<1> QED
  BY <1>1, <1>2, <1>3 DEF S!SpawnChannel, CP!SpawnChannel, CP!socketVars, CP!privateVars, CP!userVars,
    S!pushVars, channelOnly

(* A command of a channel is taken; a join that it takes the place of at   *)
(* the socket has nobody waiting for it.                                   *)
LEMMA DisplacedUnseen ==
  ASSUME ClientInv, Remember, UNCHANGED channelOnly, S!StartJoin
  PROVE  \A r \in ChannelsRequest : outcome[r] = "pending" => r # joins[Head(chanStateQ).chan]
<1> SUFFICES ASSUME NEW r \in ChannelsRequest, outcome[r] = "pending", r = joins[Head(chanStateQ).chan]
             PROVE  FALSE
  OBVIOUS
<1>1. SP!StartJoin
  <2>1. SendsOnlyTaken
    BY DEF S!StartJoin, S!TakeChannelStateCommand, SendsOnlyTaken
  <2> QED
    BY <2>1, ChannelCommandsSeen
<1>2. Head(chanStateQ) \in RequestsOf({"join", "leave"}) /\ Head(chanStateQ).chan \in Channel
  <2>1. Head(chanStateQ) \in RequestsOf({"join", "leave"})
    BY ClientTypes, QueueSteps DEF S!StartJoin, S!TakeChannelStateCommand, SocketTypes
  <2> QED
    BY <2>1, RequestChan DEF RequestsOf, ChanKind
<1>3. r \in RequestsOf({"join"}) /\ r.chan = Head(chanStateQ).chan
  <2>1. r # NoRequest
    BY ChannelsKinds, RequestAssumption
  <2> QED
    BY <1>2, <2>1, ClientTypes DEF SocketTypes, JoinOrNone, ClientInv, SP!SocketInv, SP!OwnChannel
<1>4. SP!Last(r) /\ r \in SP!ChannelCommands
  BY <1>3, OutcomeSeen, KindsOfRequests DEF SP!Last, SP!ChannelCommands, RequestsOf
<1>5. r \in SP!Range(chanStateQ)
  BY <1>1, <1>3, <1>4, SP!DisplacedJoin, SocketsRequestAssumption, ChannelAssumption, PushAssumption,
     BoundAssumption, ClientStrategyAssumption DEF SP!StartJoin, ClientInv, SP!SocketInv
<1> QED
  BY <1>2, <1>5 DEF ClientInv, SP!SocketInv, SP!LastInv, SP!CommandOrder

LEMMA NobodyAnswered == \A o : CP!Answer(ChannelsOutcome, {}, o) = ChannelsOutcome
BY DEF CP!Answer, ChannelsOutcome

LEMMA StateTaken ==
  ASSUME ClientInv, Remember, UNCHANGED channelOnly, S!StartJoin \/ S!Leave
  PROVE  CP!SocketTakesState
<1> DEFINE r == Head(chanStateQ)
<1>1. /\ state = "Connected" /\ pc = "writing_state" /\ pc # "exited" /\ Writes = "state"
      /\ chanStateQ # <<>> /\ chanStateQ' = Tail(chanStateQ)
      /\ UNCHANGED <<sendQ, receiving, phase, pushQ>>
      /\ S!StartJoin => r.kind = "join"
      /\ S!Leave => r.kind = "leave"
  BY WritesSeen DEF S!StartJoin, S!Leave, S!TakeChannelStateCommand, S!Resumed, S!chanVars, S!pushVars
<1>2. CP!Online
  BY <1>1, OnlineSeen
<1>3. ASSUME NEW o, o # "pending", S!WaitToReconnectConnected(S!Answer(outcome, {r}, o)),
             o = IF r.kind \in {"leave", "call"} THEN "error" ELSE "dropped"
      PROVE  CP!SocketTakes(r) /\ (pc = "exited")' = (pc = "exited")
  <2>1. /\ CP!Disconnected("Reconnect", ChannelsView(S!Answer(outcome, {r}, o)))
        /\ (pc = "exited")' = (pc = "exited") /\ Writes' = "none"
    BY <1>1, <1>3, LossOfChannels, AnswerMakesNoneWait
  <2>2. ChannelsView(S!Answer(outcome, {r}, o)) = CP!Answer(ChannelsOutcome, {r}, o)
    BY AnswersOfSocket, Views
  <2> QED
    BY <1>3, <2>1, <2>2 DEF CP!SocketTakes
<1>4. CASE S!StartJoin
  <2>1. CASE /\ outcome' = S!Answer(outcome, {joins[r.chan]}, "dropped")
             /\ pc' = "select" /\ UNCHANGED <<connectivity, unread>>
    <3>1. ChannelsOutcome' = ChannelsOutcome
      BY <1>4, <2>1, DisplacedUnseen, AnswersOfSocket, Views
    <3>2. CP!SocketTakes(r)
      BY <1>1, <1>4, <2>1, <3>1, NobodyAnswered, WritesSeen DEF CP!SocketTakes
    <3> QED
      BY <1>1, <1>2, <2>1, <3>2 DEF CP!SocketTakesState, CP!privateVars, CP!userVars, channelOnly
  <2>2. CASE S!WaitToReconnectConnected(S!Answer(outcome, {r}, "dropped"))
    <3>1. CP!SocketTakes(r) /\ (pc = "exited")' = (pc = "exited")
      BY <1>1, <1>3, <1>4, <2>2
    <3> QED
      BY <1>1, <1>2, <3>1 DEF CP!SocketTakesState, CP!privateVars, CP!userVars, channelOnly
  <2> QED
    BY <1>4, <2>1, <2>2 DEF S!StartJoin, S!FrameSent, S!castVars
<1>5. CASE S!Leave
  <2>1. CASE outcome' = S!Answer(outcome, {r}, "ok") /\ pc' = "select" /\ UNCHANGED <<connectivity, unread>>
    <3>1. ChannelsOutcome' = CP!Answer(ChannelsOutcome, {r}, "ok")
      BY <2>1, AnswersOfSocket, Views
    <3>2. CP!SocketTakes(r)
      BY <1>1, <1>5, <2>1, <3>1, WritesSeen DEF CP!SocketTakes
    <3> QED
      BY <1>1, <1>2, <2>1, <3>2 DEF CP!SocketTakesState, CP!privateVars, CP!userVars, channelOnly
  <2>2. CASE S!WaitToReconnectConnected(S!Answer(outcome, {r}, "error"))
    <3>1. CP!SocketTakes(r) /\ (pc = "exited")' = (pc = "exited")
      BY <1>1, <1>3, <1>5, <2>2
    <3> QED
      BY <1>1, <1>2, <3>1 DEF CP!SocketTakesState, CP!privateVars, CP!userVars, channelOnly
  <2> QED
    BY <1>5, <2>1, <2>2 DEF S!Leave, S!FrameSent, S!castVars
<1> QED
  BY <1>4, <1>5

LEMMA SendTaken ==
  ASSUME ClientInv, UNCHANGED channelOnly, S!Call \/ S!Cast
  PROVE  CP!SocketTakesSend
<1> DEFINE r == Head(sendQ)
<1>1. /\ state = "Connected" /\ pc = "writing_send" /\ pc # "exited" /\ Writes = "send"
      /\ sendQ # <<>> /\ sendQ' = Tail(sendQ)
      /\ UNCHANGED <<chanStateQ, receiving, phase, pushQ>>
      /\ S!Call => r.kind = "call"
      /\ S!Cast => r.kind = "cast"
  BY WritesSeen DEF S!Call, S!Cast, S!TakeSendCommand, S!Resumed, S!chanVars, S!pushVars
<1>2. CP!Online
  BY <1>1, OnlineSeen
<1>3. ASSUME NEW o, o # "pending", S!WaitToReconnectConnected(S!Answer(outcome, {r}, o)),
             o = IF r.kind \in {"leave", "call"} THEN "error" ELSE "dropped"
      PROVE  CP!SocketTakes(r) /\ (pc = "exited")' = (pc = "exited")
  <2>1. /\ CP!Disconnected("Reconnect", ChannelsView(S!Answer(outcome, {r}, o)))
        /\ (pc = "exited")' = (pc = "exited") /\ Writes' = "none"
    BY <1>1, <1>3, LossOfChannels, AnswerMakesNoneWait
  <2>2. ChannelsView(S!Answer(outcome, {r}, o)) = CP!Answer(ChannelsOutcome, {r}, o)
    BY AnswersOfSocket, Views
  <2> QED
    BY <1>3, <2>1, <2>2 DEF CP!SocketTakes
<1>4. CP!SocketTakes(r) /\ (pc = "exited")' = (pc = "exited")
  <2>1. CASE S!Call
    <3>1. CASE outcome' = outcome /\ pc' = "select" /\ UNCHANGED <<connectivity, unread>>
      BY <1>1, <2>1, <3>1, NobodyAnswered, WritesSeen, Views DEF CP!SocketTakes
    <3>2. CASE S!WaitToReconnectConnected(S!Answer(outcome, {r}, "error"))
      BY <1>1, <1>3, <2>1, <3>2
    <3> QED
      BY <2>1, <3>1, <3>2 DEF S!Call, S!FrameSent, S!castVars
  <2>2. CASE S!Cast
    <3>1. CASE outcome' = S!Answer(outcome, {r}, "ok") /\ pc' = "select" /\ UNCHANGED <<connectivity, unread>>
      BY <1>1, <2>2, <3>1, AnswersOfSocket, WritesSeen, Views DEF CP!SocketTakes
    <3>2. CASE S!WaitToReconnectConnected(S!Answer(outcome, {r}, "dropped"))
      BY <1>1, <1>3, <2>2, <3>2
    <3> QED
      BY <2>2, <3>1, <3>2 DEF S!Cast, S!FrameSent, S!castVars
  <2> QED
    BY <2>1, <2>2
<1> QED
  BY <1>1, <1>2, <1>4 DEF CP!SocketTakesSend, CP!privateVars, CP!userVars, channelOnly

(* A join or call is answered, if somebody still waits for it.             *)
LEMMA AnswerGiven ==
  ASSUME ClientInv, S!Online, UNCHANGED <<pc, chanStateQ, sendQ, connectivity, unread, phase, receiving>>,
         UNCHANGED channelOnly, NEW r \in S!PendingJoins \cup replies, NEW o, outcome' = S!Answer(outcome, {r}, o),
         o \in {"ok", "rejected"} \/ (o = "timeout" /\ r.kind = "join"),
         pushQ' = IF r.kind = "join" /\ o = "ok" /\ outcome[r] = "pending"
                  THEN [pushQ EXCEPT ![r.chan] = <<>>] ELSE pushQ
  PROVE  UNCHANGED CP!vars \/ (Writes = "none" /\ \E q \in ChannelsRequest : CP!SocketAnswers(q))
<1>0. Writes = "none" /\ Writes' = Writes
  BY WritesSeen DEF S!Online, S!AtSelect
<1>1. r \in ChannelsRequest
  <2>1. r \in RequestsOf({"join"}) \cup RequestsOf({"call"})
    BY ClientTypes DEF SocketTypes, JoinOrNone, S!PendingJoins
  <2> QED
    BY <2>1, ChannelsKinds DEF RequestsOf, ChannelKinds, ChanKind
<1>2. CASE outcome[r] = "pending"
  <2>1. r \in CP!Sent
    BY <1>1, <1>2, SentSeen
  <2>2. ChannelsOutcome' = CP!Answer(ChannelsOutcome, {r}, o)
    BY AnswersOfSocket, Views
  <2>3. CP!Online
    BY OnlineSeen DEF S!Online, S!AtSelect
  <2> QED
    BY <1>0, <1>1, <1>2, <2>1, <2>2, <2>3 DEF CP!SocketAnswers, CP!socketVars, CP!privateVars, CP!userVars, channelOnly
<1>3. CASE outcome[r] # "pending"
  <2>1. ChannelsOutcome' = ChannelsOutcome
    BY <1>3, AnswersOfSocket, Views
  <2> QED
    BY <1>0, <1>3, <2>1 DEF CP!vars, CP!socketVars, CP!userVars, channelOnly
<1> QED
  BY <1>2, <1>3

LEMMA AnswersOfChannels ==
  ASSUME ClientInv, UNCHANGED channelOnly
  PROVE  /\ \A r \in Request : S!JoinTimedOut(r) =>
              UNCHANGED CP!vars \/ (Writes = "none" /\ \E q \in ChannelsRequest : CP!SocketAnswers(q))
         /\ \A c \in Channel, f \in Request : S!Reply(c, f) =>
              UNCHANGED CP!vars \/ (Writes = "none" /\ \E q \in ChannelsRequest : CP!SocketAnswers(q))
<1> USE DEF S!queueVars, S!castVars, S!chanVars, S!pushVars, channelOnly
<1>1. ASSUME UNCHANGED <<pc, chanStateQ, sendQ, connectivity, unread, phase, receiving, pushQ>>,
             NEW R, NEW o, outcome' = S!Answer(outcome, R, o), R \cap ChannelsRequest = {}
      PROVE  UNCHANGED CP!vars
  <2>1. ChannelsOutcome' = ChannelsOutcome
    BY <1>1, AnswersOfSocket, Views
  <2> QED
    BY <1>1, <2>1, WritesSeen DEF CP!vars, CP!socketVars, CP!userVars
<1>2. ASSUME NEW r \in Request, S!JoinTimedOut(r)
      PROVE  UNCHANGED CP!vars \/ (Writes = "none" /\ \E q \in ChannelsRequest : CP!SocketAnswers(q))
  <2>1. r.chan \in Channel
    <3>1. r \in RequestsOf({"join"})
      BY <1>2, ClientTypes DEF SocketTypes, S!JoinTimedOut
    <3> QED
      BY <3>1, RequestChan DEF RequestsOf, ChanKind
  <2>2. CASE joins[r.chan] = NoRequest
    BY <1>1, <1>2, <2>2, NotOfChannels DEF S!JoinTimedOut
  <2>3. CASE joins[r.chan] # NoRequest
    <3>1. joins[r.chan] \in S!PendingJoins /\ joins[r.chan].kind = "join"
      BY <2>1, <2>3, ClientTypes DEF S!PendingJoins, SocketTypes, JoinOrNone, RequestsOf
    <3> QED
      BY <1>2, <3>1, AnswerGiven DEF S!JoinTimedOut
  <2> QED
    BY <2>2, <2>3
<1>3. ASSUME NEW c \in Channel, NEW f \in Request, S!Reply(c, f)
      PROVE  UNCHANGED CP!vars \/ (Writes = "none" /\ \E q \in ChannelsRequest : CP!SocketAnswers(q))
  <2>1. PICK s \in {"ok", "rejected"} : S!HandleReply(c, f, s)
    BY <1>3 DEF S!Reply
  <2>2. S!Online /\ UNCHANGED <<pc, chanStateQ, sendQ, connectivity, unread, phase, receiving>>
    BY <1>3 DEF S!Reply
  <2>3. CASE joins[c] # NoRequest
    <3>1. joins[c] \in S!PendingJoins /\ joins[c].kind = "join" /\ joins[c].chan = c
      BY <2>3, ClientTypes DEF S!PendingJoins, SocketTypes, JoinOrNone, RequestsOf, ClientInv,
        SP!SocketInv, SP!OwnChannel
    <3>2. S!FinishJoin(c, s)
      BY <2>1, <2>3 DEF S!HandleReply
    <3>3. /\ outcome' = S!Answer(outcome, {joins[c]}, s)
          /\ pushQ' = IF joins[c].kind = "join" /\ s = "ok" /\ outcome[joins[c]] = "pending"
                      THEN [pushQ EXCEPT ![joins[c].chan] = <<>>] ELSE pushQ
      BY <3>1, <3>2 DEF S!FinishJoin
    <3> QED
      BY <2>1, <2>2, <3>1, <3>3, AnswerGiven
  <2>4. CASE joins[c] = NoRequest /\ f \in replies
    <3>1. f.kind = "call"
      BY <2>4, ClientTypes DEF SocketTypes, RequestsOf
    <3>2. outcome' = S!Answer(outcome, {f}, s) /\ pushQ' = pushQ
      <4>1. {f} \cap replies = {f}
        BY <2>4
      <4> QED
        BY <2>1, <2>4, <4>1 DEF S!HandleReply
    <3> QED
      BY <2>1, <2>2, <2>4, <3>1, <3>2, AnswerGiven
  <2>5. CASE joins[c] = NoRequest /\ f \notin replies
    <3>1. {f} \cap replies \cap ChannelsRequest = {}
      BY <2>5
    <3> QED
      BY <1>1, <2>1, <2>2, <2>5, <3>1 DEF S!HandleReply
  <2> QED
    BY <2>3, <2>4, <2>5
<1> QED
  BY <1>2, <1>3

(* A push goes to receivers that are held, or lie in an answer unread.     *)
LEMMA PushedToChannels ==
  ASSUME ClientInv, state = "Connected", UNCHANGED <<chanStateQ, sendQ, connectivity, unread, outcome, phase, receiving>>,
         pc # "exited", pc' # "exited", UNCHANGED channelOnly, NEW c \in Channel, NEW m, S!ReceiverAlive(c),
         Len(pushQ[c]) < PushCap, pushQ' = [pushQ EXCEPT ![c] = Append(@, m)]
  PROVE  Writes' = Writes => CP!SocketPushes(c, m)
<1>1. joined[c] \in RequestsOf({"join"}) /\ joined[c].chan = c
  BY ClientTypes DEF SocketTypes, JoinOrNone, S!ReceiverAlive, ClientInv, SP!SocketInv, SP!OwnChannel
<1>2. joined[c] \in ChannelsRequest
  BY <1>1, ChannelsKinds DEF RequestsOf
<1>3. \/ receiving[c] # NoRequest
      \/ \E r \in CP!RequestsOf({"join"}) : r.chan = c /\ ChannelsOutcome[r] = "ok"
  BY <1>1, <1>2, AllSeen, KindsOfRequests DEF S!ReceiverAlive
<1>4. CP!Online /\ ChannelsOutcome' = ChannelsOutcome
  BY OnlineSeen, Views
<1> QED
  BY <1>3, <1>4 DEF CP!SocketPushes, CP!socketVars, CP!privateVars, CP!userVars, channelOnly

LEMMA PushesOfChannels ==
  ASSUME ClientInv, UNCHANGED channelOnly
  PROVE  /\ \A c \in Channel, m \in PushKind : S!HandlePush(c, m) =>
              UNCHANGED CP!vars \/ (Writes = "none" /\ CP!SocketPushes(c, m))
         /\ S!PushUnblocked =>
              UNCHANGED CP!vars \/ (Writes = "none" /\ \E c \in Channel, m \in PushKind : CP!SocketPushes(c, m))
<1> USE DEF S!queueVars, S!castVars, S!chanVars, S!Online, S!AtSelect
<1>1. ASSUME UNCHANGED <<chanStateQ, sendQ, connectivity, unread, outcome, phase, receiving, pushQ>>,
             pc # "exited", pc' # "exited", Writes' = Writes
      PROVE  UNCHANGED CP!vars
  BY <1>1, Views DEF CP!vars, CP!socketVars, CP!userVars, channelOnly
<1>2. ASSUME NEW c \in Channel, NEW m \in PushKind, S!HandlePush(c, m)
      PROVE  UNCHANGED CP!vars \/ (Writes = "none" /\ CP!SocketPushes(c, m))
  <2>1. Writes = "none" /\ Writes' = "none"
    BY <1>2, WritesSeen DEF S!HandlePush
  <2> QED
    BY <1>1, <1>2, <2>1, PushedToChannels DEF S!HandlePush
<1>3. ASSUME S!PushUnblocked
      PROVE  \/ UNCHANGED CP!vars
             \/ Writes = "none" /\ \E c \in Channel, m \in PushKind : CP!SocketPushes(c, m)
  <2>1. blocked[1] \in Channel /\ blocked[2] \in PushKind /\ state = "Connected"
    BY <1>3, ClientTypes DEF S!PushUnblocked, SocketTypes, ClientInv, SP!SocketInv, SP!BlockedWhilePushing,
      SP!ConnectivityFollows
  <2>2. Writes = "none" /\ Writes' = "none"
    BY <1>3, WritesSeen DEF S!PushUnblocked
  <2> QED
    BY <1>1, <1>3, <2>1, <2>2, PushedToChannels DEF S!PushUnblocked
<1> QED
  BY <1>2, <1>3

(* A handler waits with the head of a queue of theirs in its hands.        *)
LEMMA WritesOfChannels ==
  ASSUME ClientInv, UNCHANGED channelOnly, S!WriteState \/ S!WriteSend
  PROVE  Writes = "none" /\ CP!SocketWrites
<1>1. pc = "select" /\ state = "Connected" /\ pc' \in {"writing_state", "writing_send"}
  BY DEF S!WriteState, S!WriteSend, S!Await, S!Online, S!AtSelect
<1>2. ChannelsOutcome' = ChannelsOutcome
  BY Views DEF S!WriteState, S!WriteSend, S!Await
<1> QED
  BY <1>1, <1>2, OnlineSeen, WritesSeen DEF S!WriteState, S!WriteSend, S!Await, S!queueVars, S!castVars,
    S!chanVars, S!pushVars, CP!SocketWrites, CP!privateVars, CP!userVars, channelOnly

LEMMA SocketStepOfChannels ==
  ASSUME ClientInv, SocketStep, Remember PROVE [CP!Next]_CP!vars
<1>1. UNCHANGED channelOnly /\ (S!Listener \/ S!Network)
  BY DEF SocketStep
<1>2. CASE S!Listener
  BY <1>1, <1>2, StateCommandsOfChannels, ConnectionOfChannels, EndOfSocket, SpawnOfChannels, StateTaken,
     SendTaken, AnswersOfChannels, PushesOfChannels, QuietOfChannels, WritesOfChannels
  DEF S!Listener, CP!Next, CP!Socket
<1>3. CASE S!Network
  BY <1>1, <1>3, EndOfSocket, AnswersOfChannels, PushesOfChannels, QuietOfChannels
  DEF S!Network, CP!Next, CP!Socket
<1> QED
  BY <1>1, <1>2, <1>3

(* What the socket and the users do is what the channels expect.           *)
LEMMA StepSeenByChannels ==
  ASSUME ClientInv, [Next]_vars PROVE [CP!Next]_CP!vars
BY SocketStepOfChannels, ChannelStepOfChannels, SocketUserOfChannels, ChannelUserOfChannels, StutterSeen
DEF Next

-----------------------------------------------------------------------------
(***************************************************************************)
(* What links the two is kept: steps of the socket                         *)
(***************************************************************************)
(* What the socket has it hands on, and it comes by nothing.               *)
HandsOn ==
  /\ Range(stateQ') \subseteq Range(stateQ) /\ Range(chanStateQ') \subseteq Range(chanStateQ)
  /\ Range(sendQ') \subseteq Range(sendQ)
  /\ serving' \in {serving, NoRequest} \cup Range(stateQ)
  /\ replies' \subseteq replies \cup Range(sendQ) /\ timers' \subseteq timers \cup Range(chanStateQ)
  /\ receiving' = receiving
  /\ \A c \in Channel :
       /\ joins'[c] \in {joins[c], NoRequest} \cup Range(chanStateQ)
       /\ joined'[c] \in {joined[c], NoRequest, joins[c]}
       /\ sent'[c] \subseteq sent[c] \cup Range(chanStateQ) \cup Range(sendQ)

LEMMA WithSocket ==
  /\ \A r : r \in SocketHas <=>
       \/ r \in Range(stateQ) \cup Range(chanStateQ) \cup Range(sendQ) \cup {serving} \cup replies \cup timers
       \/ \E c \in Channel : (r = joins[c] /\ r # NoRequest) \/ r \in sent[c] \/ r = joined[c] \/ r = receiving[c]
  /\ \A r : r \in SocketHas' <=>
       \/ r \in Range(stateQ') \cup Range(chanStateQ') \cup Range(sendQ') \cup {serving'} \cup replies' \cup timers'
       \/ \E c \in Channel : (r = joins'[c] /\ r # NoRequest) \/ r \in sent'[c] \/ r = joined'[c] \/ r = receiving'[c]
<1>1. \A q : S!Range(q) = Range(q)
  BY SameWords
<1>2. S!QueuedRequests = Range(stateQ) \cup Range(chanStateQ) \cup Range(sendQ)
  BY <1>1 DEF S!QueuedRequests
<1>3. S!QueuedRequests' = Range(stateQ') \cup Range(chanStateQ') \cup Range(sendQ')
  BY <1>1 DEF S!QueuedRequests
<1>4. \A r : r \in S!ServerBacklog <=> \E c \in Channel : r \in sent[c]
  BY DEF S!ServerBacklog
<1>5. \A r : r \in S!ServerBacklog' <=> \E c \in Channel : r \in sent'[c]
  BY DEF S!ServerBacklog
<1>6. /\ \A r : r \in S!PendingJoins <=> r # NoRequest /\ \E c \in Channel : r = joins[c]
      /\ \A r : r \in S!PendingJoins' <=> r # NoRequest /\ \E c \in Channel : r = joins'[c]
  BY DEF S!PendingJoins
<1>7. \A r : r \in SocketHas <=>
       \/ r \in Range(stateQ) \cup Range(chanStateQ) \cup Range(sendQ) \cup {serving} \cup replies \cup timers
       \/ \E c \in Channel : (r = joins[c] /\ r # NoRequest) \/ r \in sent[c] \/ r = joined[c] \/ r = receiving[c]
  BY <1>2, <1>4, <1>6 DEF SocketHas, S!Held
<1>8. \A r : r \in SocketHas' <=>
       \/ r \in Range(stateQ') \cup Range(chanStateQ') \cup Range(sendQ') \cup {serving'} \cup replies' \cup timers'
       \/ \E c \in Channel : (r = joins'[c] /\ r # NoRequest) \/ r \in sent'[c] \/ r = joined'[c] \/ r = receiving'[c]
  BY <1>3, <1>5, <1>6 DEF SocketHas, S!Held
<1> QED
  BY <1>7, <1>8

LEMMA HandedOn == ASSUME HandsOn PROVE SocketHas' \subseteq SocketHas \cup {NoRequest}
<1> SUFFICES ASSUME NEW r, r \in SocketHas', r # NoRequest PROVE r \in SocketHas
  OBVIOUS
<1>1. CASE r \in Range(stateQ') \cup Range(chanStateQ') \cup Range(sendQ') \cup {serving'} \cup replies' \cup timers'
  BY <1>1, WithSocket DEF HandsOn
<1>2. CASE \E c \in Channel : (r = joins'[c] /\ r # NoRequest) \/ r \in sent'[c]
                              \/ r = joined'[c] \/ r = receiving'[c]
  BY <1>2, WithSocket DEF HandsOn
<1> QED
  BY <1>1, <1>2, WithSocket

LEMMA Taken ==
  ASSUME ClientInv
  PROVE  /\ stateQ # <<>> => Head(stateQ) \in Range(stateQ) /\ Range(Tail(stateQ)) \subseteq Range(stateQ)
         /\ chanStateQ # <<>> => /\ Head(chanStateQ) \in Range(chanStateQ)
                                 /\ Range(Tail(chanStateQ)) \subseteq Range(chanStateQ)
         /\ sendQ # <<>> => Head(sendQ) \in Range(sendQ) /\ Range(Tail(sendQ)) \subseteq Range(sendQ)
BY ClientTypes, QueueElements DEF SocketTypes

LEMMA EmptiedMaps ==
  ASSUME S!EmptyMaps
  PROVE  /\ replies' = {} /\ timers' = {}
         /\ \A c \in Channel : joins'[c] = NoRequest /\ joined'[c] = NoRequest /\ sent'[c] = {}
BY DEF S!EmptyMaps

LEMMA FrameKept ==
  ASSUME ClientInv, NEW r \in RequestsOf(ChanKind), S!FrameSent(r)
  PROVE  \A c \in Channel : sent'[c] \subseteq sent[c] \cup {r}
<1>1. r.chan \in Channel
  BY RequestChan DEF RequestsOf, UserKind, ChanKind
<1> QED
  BY <1>1, ClientTypes DEF S!FrameSent, SocketTypes

(* The steps that begin a write change nothing else.                       *)
LEMMA BeginsToWrite ==
  ASSUME S!Close \/ S!WriteState \/ S!WriteSend \/ S!Heartbeat \/ S!Pong \/ S!AnswerClose
  PROVE  \E w \in S!Writing : S!Await(w)
BY DEF S!Close, S!WriteState, S!WriteSend, S!Heartbeat, S!Pong, S!AnswerClose, S!Writing

LEMMA SocketHandsOn == ASSUME ClientInv, SocketStep PROVE HandsOn
<1> USE DEF HandsOn, S!queueVars, S!connVars, S!chanVars, S!pushVars, S!castVars
<1>1. CASE S!Connect \/ S!Disconnect \/ S!Shutdown
  BY <1>1, Taken, EmptiedMaps DEF S!Connect, S!Disconnect, S!Shutdown, S!TakeStateCommand,
    S!SendDisconnected
<1>2. CASE S!Reconnect \/ S!SocketConnectOk \/ S!SocketConnectError \/ S!Publish
  BY <1>2, EmptiedMaps DEF S!Reconnect, S!SocketConnectOk, S!SocketConnectError, S!Publish
<1>3. CASE S!Exit \/ S!Dropped \/ S!FatalSocketError
  BY <1>3, EmptiedMaps, EmptyElements DEF S!Exit, S!Dropped, S!FatalSocketError, S!ShutDown, S!DropEverything
<1>4. CASE S!SpawnChannel \/ S!PushUnblocked \/ S!HeartbeatReply
           \/ \E c \in Channel, m \in PushKind : S!HandlePush(c, m)
  BY <1>4 DEF S!SpawnChannel, S!PushUnblocked, S!HeartbeatReply, S!HandlePush
<1>5. CASE S!ConnectionLost \/ S!Written
  BY <1>5, EmptiedMaps DEF S!ConnectionLost, S!Written, S!WaitToReconnectConnected, S!SendDisconnected
<1>6. CASE S!StartJoin \/ S!Leave
  <2>1. /\ chanStateQ # <<>> /\ chanStateQ' = Tail(chanStateQ) /\ UNCHANGED <<stateQ, sendQ, serving, receiving>>
        /\ Head(chanStateQ) \in Range(chanStateQ) /\ Range(Tail(chanStateQ)) \subseteq Range(chanStateQ)
    BY <1>6, Taken DEF S!StartJoin, S!Leave, S!TakeChannelStateCommand
  <2>2. CASE S!EmptyMaps
    BY <2>1, <2>2, EmptiedMaps
  <2>3. CASE S!FrameSent(Head(chanStateQ)) /\ ~S!EmptyMaps
    <3>1. Head(chanStateQ) \in RequestsOf(ChanKind)
      BY <2>1, ClientTypes, QueueKind DEF SocketTypes, RequestsOf, ChanKind
    <3>2. \A c \in Channel : sent'[c] \subseteq sent[c] \cup {Head(chanStateQ)}
      BY <2>3, <3>1, FrameKept
    <3>3. /\ replies' = replies /\ timers' \subseteq timers \cup {Head(chanStateQ)}
          /\ joins' = joins \/ joins' = [joins EXCEPT ![Head(chanStateQ).chan] = Head(chanStateQ)]
          /\ joined' = joined \/ joined' = [joined EXCEPT ![Head(chanStateQ).chan] = NoRequest]
      BY <1>6, <2>3 DEF S!StartJoin, S!Leave, S!ArmTimeout, S!WaitToReconnectConnected, S!SendDisconnected
    <3>4. \A c \in Channel : joins'[c] \in {joins[c], Head(chanStateQ)} /\ joined'[c] \in {joined[c], NoRequest}
      BY <3>3, ClientTypes DEF SocketTypes
    <3> QED
      BY <2>1, <3>2, <3>3, <3>4
  <2> QED
    BY <1>6, <2>2, <2>3 DEF S!StartJoin, S!Leave, S!WaitToReconnectConnected, S!SendDisconnected
<1>7. CASE S!Call \/ S!Cast
  <2>1. /\ sendQ # <<>> /\ sendQ' = Tail(sendQ) /\ UNCHANGED <<stateQ, chanStateQ, serving, receiving>>
        /\ Head(sendQ) \in Range(sendQ) /\ Range(Tail(sendQ)) \subseteq Range(sendQ)
    BY <1>7, Taken DEF S!Call, S!Cast, S!TakeSendCommand
  <2>2. CASE S!EmptyMaps
    BY <2>1, <2>2, EmptiedMaps
  <2>3. CASE S!FrameSent(Head(sendQ)) /\ ~S!EmptyMaps
    <3>1. Head(sendQ) \in RequestsOf(ChanKind)
      BY <2>1, ClientTypes, QueueKind DEF SocketTypes, Sends, RequestsOf, ChanKind
    <3>2. \A c \in Channel : sent'[c] \subseteq sent[c] \cup {Head(sendQ)}
      BY <2>3, <3>1, FrameKept
    <3>3. replies' \subseteq replies \cup {Head(sendQ)} /\ UNCHANGED <<timers, joins, joined>>
      BY <1>7, <2>3 DEF S!Call, S!Cast, S!WaitToReconnectConnected, S!SendDisconnected
    <3> QED
      BY <2>1, <3>2, <3>3
  <2> QED
    BY <1>7, <2>2, <2>3 DEF S!Call, S!Cast, S!WaitToReconnectConnected, S!SendDisconnected
<1>8. CASE \E r \in Request : S!JoinTimedOut(r)
  <2>1. PICK r \in Request : S!JoinTimedOut(r)
    BY <1>8
  <2>2. \A c \in Channel : joins'[c] \in {joins[c], NoRequest}
    BY <2>1, ClientTypes DEF S!JoinTimedOut, SocketTypes
  <2> QED
    BY <2>1, <2>2 DEF S!JoinTimedOut
<1>9. CASE \E c \in Channel, f \in Request : S!Reply(c, f) \/ S!NoReply(c, f)
  <2>1. PICK c \in Channel, f \in Request : S!Reply(c, f) \/ S!NoReply(c, f)
    BY <1>9
  <2>2. /\ sent' = [sent EXCEPT ![c] = @ \ {f}] /\ replies' \subseteq replies
        /\ joins' = joins \/ joins' = [joins EXCEPT ![c] = NoRequest]
        /\ joined' = joined \/ joined' = [joined EXCEPT ![c] = joins[c]]
        /\ UNCHANGED <<stateQ, chanStateQ, sendQ, serving, timers, receiving>>
    BY <2>1 DEF S!Reply, S!NoReply, S!HandleReply, S!FinishJoin
  <2>3. \A d \in Channel : /\ joins'[d] \in {joins[d], NoRequest} /\ joined'[d] \in {joined[d], joins[d]}
                           /\ sent'[d] \subseteq sent[d]
    BY <2>2, ClientTypes DEF SocketTypes
  <2> QED
    BY <2>2, <2>3
<1>10. CASE \E w \in S!Writing : S!Await(w)
  BY <1>10 DEF S!Await
<1> QED
  BY <1>1, <1>2, <1>3, <1>4, <1>5, <1>6, <1>7, <1>8, <1>9, <1>10, BeginsToWrite
  DEF SocketStep, S!Listener, S!Network

(* What the socket answers is what it has, of those that wait.             *)
Answering(out) ==
  /\ out = [r \in Request |-> out[r]]
  /\ \A r \in Request : out[r] = outcome[r] \/ (r \in S!Held /\ outcome[r] = "pending" /\ out[r] # "pending")

LEMMA AnswersItsOwn ==
  ASSUME ClientInv
  PROVE  /\ Answering(outcome)
         /\ \A out, R, o : Answering(out) /\ R \subseteq S!Held \cup {NoRequest} /\ o # "pending"
                             => Answering(S!Answer(out, R, o))
<1>1. Answering(outcome)
  BY DEF Answering, ClientInv, Link
<1>2. ASSUME NEW out, NEW R, NEW o, Answering(out), R \subseteq S!Held \cup {NoRequest}, o # "pending"
      PROVE  Answering(S!Answer(out, R, o))
  <2>1. S!Answer(out, R, o) = [r \in Request |-> S!Answer(out, R, o)[r]]
    BY DEF S!Answer
  <2>2. ASSUME NEW r \in Request
        PROVE  \/ S!Answer(out, R, o)[r] = outcome[r]
               \/ r \in S!Held /\ outcome[r] = "pending" /\ S!Answer(out, R, o)[r] # "pending"
    <3>1. r # NoRequest
      BY RequestAssumption
    <3> QED
      BY <1>2, <3>1 DEF S!Answer, Answering
  <2> QED
    BY <2>1, <2>2 DEF Answering
<1> QED
  BY <1>1, <1>2

LEMMA SocketAnswering == ASSUME ClientInv, SocketStep PROVE Answering(outcome')
<1> DEFINE Its == S!Held \cup {NoRequest}
<1>1. /\ stateQ # <<>> => {Head(stateQ)} \subseteq Its
      /\ chanStateQ # <<>> => {Head(chanStateQ)} \subseteq Its
      /\ sendQ # <<>> => {Head(sendQ)} \subseteq Its
      /\ {serving} \subseteq Its /\ S!Held \subseteq Its /\ S!PendingJoins \cup replies \subseteq Its
      /\ \A r : {r} \cap replies \subseteq Its
  BY Taken, SameWords DEF S!Held, S!QueuedRequests
<1>2. \A c \in Channel : {joins[c]} \subseteq Its
  BY DEF S!Held, S!PendingJoins
<1> HIDE DEF Its
<1>3. /\ Answering(outcome)
      /\ \A out, R, o : Answering(out) /\ R \subseteq Its /\ o # "pending" => Answering(S!Answer(out, R, o))
  BY AnswersItsOwn DEF Its
<1>4. ASSUME NEW out, Answering(out), NEW v, S!SendDisconnected(out, v) PROVE Answering(outcome')
  BY <1>1, <1>3, <1>4 DEF S!SendDisconnected
<1> USE DEF S!WaitToReconnectConnected
<1>5. CASE S!Connect
  BY <1>1, <1>3, <1>5 DEF S!Connect, S!TakeStateCommand
<1>6. CASE S!Disconnect \/ S!Shutdown
  <2>1. Answering(S!Answer(outcome, {Head(stateQ)}, "ok"))
    BY <1>1, <1>3, <1>6 DEF S!Disconnect, S!Shutdown, S!TakeStateCommand
  <2> QED
    BY <1>4, <1>6, <2>1 DEF S!Disconnect, S!Shutdown
<1>7. CASE S!Reconnect \/ S!SocketConnectOk \/ S!SocketConnectError \/ S!Publish
  BY <1>1, <1>3, <1>7 DEF S!Reconnect, S!SocketConnectOk, S!SocketConnectError, S!Publish, S!ConnectErrors
<1>8. CASE S!Exit \/ S!Dropped \/ S!FatalSocketError
  BY <1>1, <1>3, <1>8 DEF S!Exit, S!Dropped, S!FatalSocketError, S!ShutDown, S!DropEverything
<1>9. CASE S!SpawnChannel \/ S!PushUnblocked \/ S!HeartbeatReply
           \/ (\E c \in Channel, m \in PushKind : S!HandlePush(c, m))
           \/ \E c \in Channel, f \in Request : S!NoReply(c, f)
  BY <1>3, <1>9 DEF S!SpawnChannel, S!PushUnblocked, S!HeartbeatReply, S!HandlePush, S!NoReply
<1>10. CASE S!ConnectionLost \/ S!Written
  BY <1>3, <1>4, <1>10 DEF S!ConnectionLost, S!Written
<1>11. CASE S!StartJoin
  <2>1. chanStateQ # <<>> /\ Head(chanStateQ).chan \in Channel
    <3>1. chanStateQ # <<>> /\ Head(chanStateQ) \in RequestsOf({"join", "leave"})
      BY <1>11, ClientTypes, QueueSteps DEF S!StartJoin, S!TakeChannelStateCommand, SocketTypes
    <3> QED
      BY <3>1, RequestChan DEF RequestsOf, ChanKind
  <2>2. /\ Answering(S!Answer(outcome, {joins[Head(chanStateQ).chan]}, "dropped"))
        /\ Answering(S!Answer(outcome, {Head(chanStateQ)}, "dropped"))
    BY <1>1, <1>2, <1>3, <2>1
  <2> QED
    BY <1>4, <1>11, <2>2 DEF S!StartJoin
<1>12. CASE S!Leave
  <2>1. \A o \in {"ok", "error"} : Answering(S!Answer(outcome, {Head(chanStateQ)}, o))
    BY <1>1, <1>3, <1>12 DEF S!Leave, S!TakeChannelStateCommand
  <2> QED
    BY <1>4, <1>12, <2>1 DEF S!Leave
<1>13. CASE S!Call \/ S!Cast
  <2>1. \A o \in {"ok", "error", "dropped"} : Answering(S!Answer(outcome, {Head(sendQ)}, o))
    BY <1>1, <1>3, <1>13 DEF S!Call, S!Cast, S!TakeSendCommand
  <2> QED
    BY <1>3, <1>4, <1>13, <2>1 DEF S!Call, S!Cast
<1>14. CASE \E r \in Request : S!JoinTimedOut(r)
  <2>1. PICK r \in Request : S!JoinTimedOut(r)
    BY <1>14
  <2>2. r.chan \in Channel
    <3>1. r \in RequestsOf({"join"})
      BY <2>1, ClientTypes DEF SocketTypes, S!JoinTimedOut
    <3> QED
      BY <3>1, RequestChan DEF RequestsOf, ChanKind
  <2> QED
    BY <1>2, <1>3, <2>1, <2>2 DEF S!JoinTimedOut
<1>15. CASE \E c \in Channel, f \in Request : S!Reply(c, f)
  BY <1>1, <1>2, <1>3, <1>15 DEF S!Reply, S!HandleReply, S!FinishJoin
<1>16. CASE \E w \in S!Writing : S!Await(w)
  BY <1>3, <1>16 DEF S!Await
<1> QED
  BY <1>5, <1>6, <1>7, <1>8, <1>9, <1>10, <1>11, <1>12, <1>13, <1>14, <1>15, <1>16, BeginsToWrite
  DEF SocketStep, S!Listener, S!Network

(* A channel that is spawned is born; no other step of the socket's makes  *)
(* one, or ends one.                                                       *)
Births == \A c \in Channel :
            \/ phase'[c] = phase[c]
            \/ phase[c] \in Unspawned /\ (Alive(c)' => phase'[c] \in {"WaitingForSocketToConnect", "WaitingToJoin"})
            \/ Alive(c)

LEMMA SocketBirths == ASSUME ClientInv, SocketStep PROVE Births
<1> USE DEF S!chanVars
<1>1. CASE phase' = phase
  BY <1>1 DEF Births
<1>2. CASE S!DropEverything
  BY <1>2 DEF Births, S!DropEverything, Alive, Unspawned
<1>3. CASE S!SpawnChannel
  <2>1. \E c \in Channel : CP!SpawnChannel(c)
    BY <1>3, SpawnOfChannels DEF SocketStep
  <2>2. PICK c \in Channel : /\ phase[c] = "Requested"
                             /\ \E p \in {"ShutDown", "WaitingForSocketToConnect", "WaitingToJoin"} :
                                  phase' = [phase EXCEPT ![c] = p]
    BY <2>1 DEF CP!SpawnChannel
  <2> QED
    BY <2>2, ClientTypes DEF Births, Alive, Unspawned, Ended, ChannelTypes
<1>4. CASE S!Listener
  BY <1>1, <1>2, <1>3, <1>4, BeginsToWrite DEF S!Listener, S!Connect, S!Disconnect, S!Shutdown, S!TakeStateCommand,
    S!Reconnect, S!SocketConnectOk, S!SocketConnectError, S!Publish, S!Exit, S!Dropped, S!ShutDown,
    S!StartJoin, S!Leave, S!TakeChannelStateCommand, S!Call, S!Cast, S!TakeSendCommand, S!JoinTimedOut,
    S!PushUnblocked, S!Written, S!Await
<1>5. CASE S!Network
  BY <1>1, <1>2, <1>5 DEF S!Network, S!Reply, S!NoReply, S!HandlePush, S!ConnectionLost,
    S!FatalSocketError, S!HeartbeatReply
<1> QED
  BY <1>4, <1>5 DEF SocketStep

(* What is to be shown of each step.                                       *)
LEMMA OutcomeTyped ==
  ASSUME outcome' = [r \in Request |-> outcome'[r]], SP!TypeOK', CP!TypeOK'
  PROVE  outcome' \in [Request -> Outcome]
<1>1. \A r \in SocketsRequest : SocketsOutcome'[r] \in Outcome
  BY SameWords DEF SP!TypeOK, SP!SharedTypeOK
<1>2. \A r \in ChannelsRequest : ChannelsOutcome'[r] \in Outcome
  BY SameWords DEF CP!TypeOK
<1>3. ASSUME NEW r \in Request PROVE outcome'[r] \in Outcome
  <2>1. CASE r \in ChannelsRequest
    BY <1>2, <2>1, AllSeen
  <2>2. CASE r \notin ChannelsRequest
    <3>1. r.kind \in StateKind
      BY <2>2, RequestAssumption DEF ChannelsRequest, RequestsOf
    <3>2. r \in SocketsRequest /\ SocketsOutcome'[r] = outcome'[r]
      BY <3>1 DEF SocketsRequest, RequestsOf, SocketsOutcome, SocketKnows, StateKind
    <3> QED
      BY <1>1, <3>2
  <2> QED
    BY <2>1, <2>2
<1> QED
  BY <1>3

LEMMA LinkFollows ==
  ASSUME ClientInv, Remember, Births, outcome' = [r \in Request |-> outcome'[r]], SP!TypeOK', CP!TypeOK',
         Apart', Once', NotAsked',
         \A r \in Sends : outcome'[r] = "pending" => r \in InChannels' \cup forwarded \cup Range(sendQ')
  PROVE  Link'
<1>1. BornAlive'
  <2>1. ASSUME NEW c \in Channel, Alive(c)' PROVE born'[c] \in {"WaitingForSocketToConnect", "WaitingToJoin"}
    <3>1. CASE phase[c] \in Unspawned
      BY <2>1, <3>1 DEF Births, Remember, Alive, Unspawned
    <3>2. CASE phase[c] \notin Unspawned
      BY <2>1, <3>2 DEF Births, Remember, Alive, ClientInv, Link, BornAlive
    <3> QED
      BY <3>1, <3>2
  <2> QED
    BY <2>1 DEF BornAlive
<1>2. GoneOn'
  <2>1. Range(sendQ') \subseteq Sends /\ NoRequest \notin Sends
    <3>1. sendQ' \in Seq(Sends)
      BY KindsOfRequests DEF SP!TypeOK, SP!QueueTypeOK, Sends
    <3> QED
      BY <3>1, QueueKind, RequestAssumption DEF Sends, RequestsOf
  <2>2. Range(sendQ') \subseteq SocketHas'
    BY WithSocket
  <2>3. forwarded' = (forwarded \cup Range(sendQ')) \ InChannels'
    BY DEF Remember
  <2>4. forwarded \subseteq Sends
    BY DEF ClientInv, Link, GoneOn
  <2>5. InChannels' \cap SocketHas' \subseteq {NoRequest}
    BY DEF Apart
  <2>6. /\ forwarded' \subseteq Sends /\ forwarded' \cap InChannels' = {}
        /\ Range(sendQ') \subseteq forwarded'
        /\ \A r \in Sends : outcome'[r] = "pending" => r \in InChannels' \cup forwarded'
    BY <2>1, <2>2, <2>3, <2>4, <2>5
  <2> QED
    BY <2>6 DEF GoneOn, Sends, RequestsOf
<1> QED
  BY <1>1, <1>2, OutcomeTyped DEF Link

LEMMA WithoutNone ==
  ASSUME ClientInv, NEW r \in InChannels, r # NoRequest
  PROVE  r \in RequestsOf(ChanKind) /\ r \notin SocketHas
<1>1. r \in RequestsOf(ChanKind)
  <2>1. \A c \in Channel : Range(sends[c]) \subseteq Sends /\ task[c].busy \in RequestsOf(ChanKind) \cup {NoRequest}
    BY ClientTypes, QueueKind DEF ChannelTypes, TaskFields
  <2> QED
    BY <2>1, WithChannels DEF Sends, RequestsOf, ChanKind
<1> QED
  BY <1>1 DEF ClientInv, Link, Apart

LEMMA SocketStepLinks ==
  ASSUME ClientInv, SocketStep, Remember, SP!TypeOK', CP!TypeOK'
  PROVE  Link'
<1>1. /\ UNCHANGED <<task, sends>> /\ InChannels' = InChannels
      /\ Answering(outcome') /\ SocketHas' \subseteq SocketHas \cup {NoRequest} /\ Births
  BY SocketHandsOn, HandedOn, SocketAnswering, SocketBirths DEF SocketStep, channelOnly, InChannels
<1>2. \A r \in InChannels \cap Request : outcome'[r] = outcome[r]
  BY <1>1, WithoutNone, RequestAssumption DEF Answering, SocketHas
<1>3. NotAsked'
  <2>1. /\ RequestsOf({"join", "leave"}) \subseteq Request /\ Sends \subseteq Request
    BY DEF Sends, RequestsOf
  <2>2. /\ \A r \in InChannels \cap RequestsOf({"join", "leave"}) : outcome'[r] = "free"
        /\ \A r \in InChannels \cap Sends : outcome'[r] = "pending" \/ (r.kind = "call" /\ outcome'[r] = "free")
    BY <1>2, <2>1 DEF ClientInv, Link, NotAsked
  <2> QED
    BY <1>1, <2>2 DEF NotAsked, Sends, RequestsOf
<1>4. Apart' /\ Once'
  BY <1>1 DEF ClientInv, Link, Apart, Once
<1>5. \A r \in Sends : outcome'[r] = "pending" => r \in InChannels' \cup forwarded \cup Range(sendQ')
  BY <1>1 DEF Answering, ClientInv, Link, GoneOn, Sends, RequestsOf
<1> QED
  BY <1>1, <1>3, <1>4, <1>5, LinkFollows DEF Answering

-----------------------------------------------------------------------------
(***************************************************************************)
(* Steps of users and of channels keep it too                              *)
(***************************************************************************)
(* Nothing new comes to the channels or to the socket but what users ask.  *)
LEMMA QuietLinks ==
  ASSUME ClientInv, Remember, Births, outcome' = [r \in Request |-> outcome'[r]], SP!TypeOK', CP!TypeOK', Once',
         InChannels' \subseteq InChannels \cup {NoRequest},
         SocketHas' \subseteq SocketHas \cup {NoRequest} \cup RequestsOf(StateKind),
         \A r \in InChannels' \cap Request :
           outcome'[r] = outcome[r] \/ (r.kind = "call" /\ outcome'[r] = "free"),
         \A r \in Sends : outcome'[r] = "pending" =>
           outcome[r] = "pending" /\ (r \in InChannels => r \in InChannels')
  PROVE  Link'
<1>1. Apart'
  <2>1. RequestsOf(ChanKind) \cap RequestsOf(StateKind) = {}
    BY DEF RequestsOf, ChanKind, StateKind
  <2>2. ASSUME NEW r \in InChannels', r \in SocketHas' PROVE r = NoRequest
    BY <2>1, <2>2, WithoutNone
  <2> QED
    BY <2>2 DEF Apart
<1>2. NotAsked'
  <2>1. RequestsOf({"join", "leave"}) \subseteq Request /\ Sends \subseteq Request /\ NoRequest \notin Request
    BY RequestAssumption DEF Sends, RequestsOf
  <2>2. /\ \A r \in InChannels' \cap RequestsOf({"join", "leave"}) : outcome'[r] = "free"
        /\ \A r \in InChannels' \cap Sends : outcome'[r] = "pending" \/ (r.kind = "call" /\ outcome'[r] = "free")
    BY <2>1 DEF ClientInv, Link, NotAsked
  <2> QED
    BY <2>2 DEF NotAsked, Sends, RequestsOf
<1>3. \A r \in Sends : outcome'[r] = "pending" => r \in InChannels' \cup forwarded \cup Range(sendQ')
  BY DEF ClientInv, Link, GoneOn
<1> QED
  BY <1>1, <1>2, <1>3, LinkFollows

LEMMA SocketUserLinks ==
  ASSUME ClientInv, SocketUser, Remember, SP!TypeOK', CP!TypeOK'
  PROVE  Link'
<1>1. UNCHANGED <<task, sends>> /\ InChannels' = InChannels /\ Once'
  BY DEF SocketUser, channelOnly, InChannels, ClientInv, Link, Once
<1>2. outcome = [r \in Request |-> outcome[r]]
  BY DEF ClientInv, Link
<1> USE DEF S!socketVars, S!queueVars, S!castVars, S!chanVars, S!connVars
<1>3. ASSUME NEW r \in RequestsOf(StateKind), S!SubmitState(r) \/ S!TakeAnswer(r) \/ S!GiveUp(r)
      PROVE  Link'
  <2>1. /\ UNCHANGED <<serving, joins, timers, joined, replies, sent, chanStateQ, sendQ, phase, receiving>>
        /\ \E o : outcome' = [outcome EXCEPT ![r] = o]
        /\ stateQ' = stateQ \/ stateQ' = Append(stateQ, r)
    BY <1>3 DEF S!SubmitState, S!TakeAnswer, S!GiveUp, RequestsOf, StateKind
  <2>2. Range(stateQ') \subseteq Range(stateQ) \cup {r}
    <3>1. stateQ \in Seq(RequestsOf(StateKind))
      BY ClientTypes DEF SocketTypes
    <3>2. Range(Append(stateQ, r)) = Range(stateQ) \cup {r}
      BY <3>1, QueueElements
    <3> QED
      BY <2>1, <3>2
  <2>3. SocketHas' \subseteq SocketHas \cup {NoRequest} \cup RequestsOf(StateKind)
    BY <2>1, <2>2, WithSocket
  <2>4. Births
    BY <2>1 DEF Births
  <2>5. \A q \in Request : q # r => outcome'[q] = outcome[q]
    BY <1>2, <2>1
  <2>6. r \notin RequestsOf(ChanKind) /\ r \notin Sends
    BY DEF RequestsOf, StateKind, ChanKind, Sends
  <2>7. \A q \in InChannels' \cap Request : outcome'[q] = outcome[q]
    BY <1>1, <2>5, <2>6, WithoutNone, RequestAssumption
  <2>8. \A q \in Sends : outcome'[q] = outcome[q]
    BY <2>5, <2>6 DEF Sends, RequestsOf
  <2>9. outcome' = [q \in Request |-> outcome'[q]]
    BY <1>2, <2>1
  <2> QED
    BY <1>1, <2>3, <2>4, <2>7, <2>8, <2>9, QuietLinks
<1>4. ASSUME NEW c \in Channel, S!RequestChannel(c) PROVE Link'
  <2>1. /\ UNCHANGED <<serving, joins, timers, joined, replies, sent, stateQ, chanStateQ, sendQ, outcome, receiving>>
        /\ phase[c] = "none" /\ phase' = [phase EXCEPT ![c] = "Requested"]
    BY <1>4 DEF S!RequestChannel
  <2>2. SocketHas' \subseteq SocketHas \cup {NoRequest} \cup RequestsOf(StateKind)
    BY <2>1, WithSocket
  <2>3. Births
    BY <2>1, ClientTypes DEF Births, Alive, Unspawned, ChannelTypes
  <2> QED
    BY <1>1, <1>2, <2>1, <2>2, <2>3, QuietLinks
<1> QED
  BY <1>3, <1>4 DEF SocketUser

LEMMA SocketHasSame ==
  ASSUME UNCHANGED <<stateQ, chanStateQ, sendQ, serving, replies, timers, joins, sent, joined, receiving>>
  PROVE  SocketHas' = SocketHas
BY WithSocket

LEMMA ChannelUserLinks ==
  ASSUME ClientInv, ChannelUser, Remember, SP!TypeOK', CP!TypeOK'
  PROVE  Link'
<1>0. outcome = [r \in Request |-> outcome[r]] /\ Once
  BY DEF ClientInv, Link
<1>1. UNCHANGED socketOnly
  BY DEF ChannelUser
<1> USE DEF Ch!socketVars, Ch!userVars, socketOnly
<1>2. ASSUME NEW u \in Request, S!Fresh(u), Ch!UserCommand(u) PROVE Link'
  <2>1. /\ UNCHANGED <<chanStateQ, sendQ, receiving, phase, task, sends>>
        /\ outcome' = [outcome EXCEPT ![u] = "pending"] /\ u.kind \in UserKind
    BY <1>2, SameWords DEF Ch!UserCommand
  <2>2. SocketHas' = SocketHas /\ InChannels' = InChannels /\ Once' /\ Births
    BY <1>0, <1>1, <2>1, SocketHasSame DEF InChannels, Once, Births
  <2>3. u \notin RequestsOf(ChanKind) /\ u \notin Sends
    BY <2>1 DEF RequestsOf, UserKind, ChanKind, Sends
  <2>4. \A q \in Request : q # u => outcome'[q] = outcome[q]
    BY <1>0, <2>1
  <2>5. \A q \in InChannels' \cap Request : outcome'[q] = outcome[q]
    BY <2>2, <2>3, <2>4, WithoutNone, RequestAssumption
  <2>6. \A q \in Sends : outcome'[q] = outcome[q]
    BY <2>3, <2>4 DEF Sends, RequestsOf
  <2>7. outcome' = [q \in Request |-> outcome'[q]]
    BY <1>0, <2>1
  <2> QED
    BY <2>2, <2>5, <2>6, <2>7, QuietLinks
<1>3. ASSUME NEW u \in Request, Ch!UserReads(u) PROVE Link'
  <2>1. /\ UNCHANGED <<chanStateQ, sendQ, receiving, phase, task, sends>>
        /\ outcome' = [outcome EXCEPT ![u] = "free"]
        /\ outcome[u] \in Answers \/ (u.kind \in {"channel_join", "call"} /\ outcome[u] = "pending")
    BY <1>3, SameWords DEF Ch!UserReads
  <2>2. SocketHas' = SocketHas /\ InChannels' = InChannels /\ Once' /\ Births
    BY <1>0, <1>1, <2>1, SocketHasSame DEF InChannels, Once, Births
  <2>3. \A q \in Request : outcome'[q] = IF q = u THEN "free" ELSE outcome[q]
    BY <1>0, <2>1
  <2>4. \A q \in InChannels' \cap Request : outcome'[q] = outcome[q] \/ (q.kind = "call" /\ outcome'[q] = "free")
    <3>1. ASSUME u \in InChannels PROVE u.kind = "call" \/ outcome[u] = "free"
      <4>1. u \in RequestsOf(ChanKind)
        BY <1>3, <3>1, WithoutNone, RequestAssumption
      <4>2. outcome[u] # "free" => u \in Sends
        BY <3>1, <4>1 DEF ClientInv, Link, NotAsked, RequestsOf, ChanKind, Sends
      <4>3. outcome[u] # "free" => outcome[u] = "pending"
        BY <3>1, <4>2 DEF ClientInv, Link, NotAsked
      <4> QED
        BY <2>1, <4>1, <4>3 DEF RequestsOf, ChanKind, Answers
    <3> QED
      BY <2>2, <2>3, <3>1
  <2>5. \A q \in Sends : outcome'[q] = "pending" => outcome[q] = "pending"
    BY <2>3 DEF Sends, RequestsOf
  <2>6. outcome' = [q \in Request |-> outcome'[q]]
    BY <1>0, <2>1
  <2> QED
    BY <2>2, <2>4, <2>5, <2>6, QuietLinks
<1>4. ASSUME NEW c \in Channel, Ch!UserShutdown(c) PROVE Link'
  <2>1. UNCHANGED <<chanStateQ, sendQ, receiving, phase, task, sends, outcome>>
    BY <1>4 DEF Ch!UserShutdown
  <2>2. SocketHas' = SocketHas /\ InChannels' = InChannels /\ Once' /\ Births
    BY <1>0, <1>1, <2>1, SocketHasSame DEF InChannels, Once, Births
  <2> QED
    BY <1>0, <2>1, <2>2, QuietLinks
<1>5. ASSUME NEW u \in Request, S!Fresh(u), Ch!UserSend(u) PROVE Link'
  <2>1. /\ UNCHANGED <<chanStateQ, sendQ, receiving, phase, task>>
        /\ outcome' = [outcome EXCEPT ![u] = "pending"] /\ u \in Sends /\ u.chan \in Channel
        /\ sends' = [sends EXCEPT ![u.chan] = Append(@, u)]
    BY <1>5, RequestChan DEF Ch!UserSend, Sends, RequestsOf, ChanKind
  <2>2. SocketHas' = SocketHas /\ Births
    BY <1>0, <1>1, <2>1, SocketHasSame DEF Births
  <2>3. InChannels' = InChannels \cup {u}
    BY <1>1, <1>5, UserSendSeen
  <2>4. u \notin SocketHas
    BY <1>5 DEF S!Fresh, SocketHas
  <2>5. \A q \in Request : outcome'[q] = IF q = u THEN "pending" ELSE outcome[q]
    BY <1>0, <2>1
  <2>6. u \notin InChannels
    BY <1>5, SameWords, WithChannels DEF Ch!UserSend, Ch!Unused, Ch!InTheirHands, Ch!UserHeld
  <2>7. Once'
    <3>1. ASSUME NEW c \in Channel PROVE IsInjective(sends'[c]) /\ task'[c].busy \notin Range(sends'[c])
      <4>1. CASE c = u.chan
        <5>1. sends'[c] = Append(sends[c], u) /\ sends[c] \in Seq(Sends)
          BY <2>1, <4>1, ClientTypes DEF ChannelTypes
        <5>2. u \notin Range(sends[c]) /\ task[c].busy # u
          BY <2>6, WithChannels
        <5> QED
          BY <1>0, <2>1, <5>1, <5>2, QueueApart, QueueElements DEF Once
      <4>2. CASE c # u.chan
        BY <1>0, <2>1, <4>2, ClientTypes DEF Once, ChannelTypes
      <4> QED
        BY <4>1, <4>2
    <3> QED
      BY <3>1 DEF Once
  <2>8. Apart'
    BY <2>2, <2>3, <2>4 DEF Apart, ClientInv, Link
  <2>9. NotAsked'
    <3>1. /\ \A r \in InChannels' \cap RequestsOf({"join", "leave"}) : outcome'[r] = "free"
          /\ \A r \in InChannels' \cap Sends : outcome'[r] = "pending" \/ (r.kind = "call" /\ outcome'[r] = "free")
      BY <2>1, <2>3, <2>5 DEF ClientInv, Link, NotAsked, Sends, RequestsOf
    <3> QED
      BY <3>1 DEF NotAsked, Sends, RequestsOf
  <2>10. \A r \in Sends : outcome'[r] = "pending" => r \in InChannels' \cup forwarded \cup Range(sendQ')
    BY <2>3, <2>5 DEF ClientInv, Link, GoneOn, Sends, RequestsOf
  <2>11. outcome' = [q \in Request |-> outcome'[q]]
    BY <1>0, <2>1
  <2> QED
    BY <2>2, <2>7, <2>8, <2>9, <2>10, <2>11, LinkFollows
<1> QED
  BY <1>2, <1>3, <1>4, <1>5 DEF ChannelUser

(* A channel's step: R leaves it, and what leaves it goes to the socket or *)
(* has nobody waiting for it.                                              *)
LEMMA TaskLinks ==
  ASSUME ClientInv, Remember, Births, outcome' = [r \in Request |-> outcome'[r]], SP!TypeOK', CP!TypeOK', Once',
         NEW c \in Channel, NEW R,
         InChannels' \subseteq (InChannels \ R) \cup {NoRequest},
         InChannels \subseteq InChannels' \cup R \cup {NoRequest},
         SocketHas' \subseteq SocketHas \cup {NoRequest, task[c].awaiting} \cup R,
         \A r \in Request : outcome'[r] = outcome[r] \/ r.kind \in UserKind \/ r = task[c].awaiting \/ r \in R,
         \A r \in R \cap Sends : outcome'[r] = "pending" => r \in Range(sendQ')
  PROVE  Link'
<1>1. NoRequest \notin Request /\ task[c].awaiting \in RequestsOf({"join", "leave"}) \cup {NoRequest}
  BY RequestAssumption, ClientTypes DEF ChannelTypes, TaskFields
<1>2. task[c].awaiting \in InChannels => task[c].awaiting = NoRequest
  <2>1. task[c].awaiting # NoRequest => outcome[task[c].awaiting] # "free"
    BY ChannelKnows
  <2> QED
    BY <1>1, <2>1 DEF ClientInv, Link, NotAsked
<1>3. ASSUME NEW r \in InChannels', r # NoRequest
      PROVE  /\ r \in InChannels /\ r \notin SocketHas' /\ r \in RequestsOf(ChanKind)
             /\ outcome'[r] = outcome[r]
  <2>1. r \in InChannels /\ r \notin R /\ r # task[c].awaiting
    BY <1>2, <1>3
  <2>2. r \in RequestsOf(ChanKind) /\ r \notin SocketHas
    BY <1>3, <2>1, WithoutNone
  <2>3. r \in Request /\ r.kind \notin UserKind
    BY <2>2 DEF RequestsOf, ChanKind, UserKind
  <2> QED
    BY <1>3, <2>1, <2>2, <2>3
<1>4. Apart'
  BY <1>3 DEF Apart
<1>5. NotAsked'
  <2>1. RequestsOf({"join", "leave"}) \subseteq Request /\ Sends \subseteq Request
    BY DEF Sends, RequestsOf
  <2>2. /\ \A r \in InChannels' \cap RequestsOf({"join", "leave"}) : outcome'[r] = "free"
        /\ \A r \in InChannels' \cap Sends : outcome'[r] = "pending" \/ (r.kind = "call" /\ outcome'[r] = "free")
    BY <1>1, <1>3, <2>1 DEF ClientInv, Link, NotAsked
  <2> QED
    BY <2>2 DEF NotAsked, Sends, RequestsOf
<1>6. ASSUME NEW r \in Sends, outcome'[r] = "pending" PROVE r \in InChannels' \cup forwarded \cup Range(sendQ')
  <2>1. CASE r \in R
    BY <1>6, <2>1
  <2>2. CASE r \notin R
    <3>1. r \in Request /\ r.kind \notin UserKind /\ r # task[c].awaiting /\ r # NoRequest
      BY <1>1, <1>6 DEF Sends, RequestsOf, UserKind
    <3>2. r \in InChannels \cup forwarded
      BY <1>6, <2>2, <3>1 DEF ClientInv, Link, GoneOn
    <3> QED
      BY <2>2, <3>1, <3>2
  <2> QED
    BY <2>1, <2>2
<1> QED
  BY <1>4, <1>5, <1>6, LinkFollows

(* What a channel has, it has alone; so what leaves it leaves them all.    *)
Has(c) == Range(sends[c]) \cup {task[c].busy}
Elsewhere(c) == /\ \A d \in Channel \ {c} : /\ sends'[d] = sends[d] /\ task'[d].busy = task[d].busy
                                            /\ phase'[d] = phase[d] /\ receiving'[d] = receiving[d]
                /\ Alive(c)

LEMMA LeavesChannels ==
  ASSUME ClientInv, NEW c \in Channel, Elsewhere(c), NEW R \in SUBSET Has(c),
         Has(c)' \subseteq (Has(c) \ R) \cup {NoRequest}, Has(c) \subseteq Has(c)' \cup R \cup {NoRequest}
  PROVE  /\ InChannels' \subseteq (InChannels \ R) \cup {NoRequest}
         /\ InChannels \subseteq InChannels' \cup R \cup {NoRequest}
         /\ Births
<1>1. \A r : /\ r \in InChannels <=> \E d \in Channel : r \in Has(d)
             /\ r \in InChannels' <=> \E d \in Channel : r \in Has(d)'
  BY WithChannels DEF Has
<1>2. \A d \in Channel \ {c} : Has(d)' = Has(d)
  BY DEF Elsewhere, Has
<1>3. \A d \in Channel : \A r \in Has(d) : r = NoRequest \/ r.chan = d
  BY ChannelKnows DEF Has
<1>4. \A d \in Channel \ {c} : Has(d) \cap R \subseteq {NoRequest}
  BY <1>3
<1>5. ASSUME NEW r \in InChannels' PROVE r \in (InChannels \ R) \cup {NoRequest}
  BY <1>1, <1>2, <1>4, <1>5
<1>6. ASSUME NEW r \in InChannels PROVE r \in InChannels' \cup R \cup {NoRequest}
  BY <1>1, <1>2, <1>6
<1>7. Births
  BY DEF Births, Elsewhere
<1> QED
  BY <1>5, <1>6, <1>7

(* The socket may be given the receivers of a join, answered.              *)
LEMMA SocketHasFrom ==
  ASSUME NEW c \in Channel, Elsewhere(c), UNCHANGED <<socketOnly, chanStateQ, sendQ>>,
         receiving'[c] \in {receiving[c], NoRequest, task[c].awaiting}
  PROVE  SocketHas' \subseteq SocketHas \cup {NoRequest, task[c].awaiting}
<1>1. SUFFICES ASSUME NEW r \in SocketHas', r # NoRequest, r # task[c].awaiting PROVE r \in SocketHas
  OBVIOUS
<1>2. UNCHANGED <<stateQ, chanStateQ, sendQ, serving, replies, timers, joins, sent, joined>>
  BY DEF socketOnly
<1>3. \A d \in Channel : r = receiving'[d] => r = receiving[d]
  BY <1>1 DEF Elsewhere
<1> QED
  BY <1>1, <1>2, <1>3, WithSocket

(* What out tells the callers of the channel, and of R.                    *)
Tells(out, R) == /\ out = [r \in Request |-> out[r]]
                 /\ \A r \in Request : out[r] = outcome[r] \/ r.kind \in UserKind \/ r \in R

LEMMA TellsMore ==
  ASSUME ClientInv
  PROVE  /\ \A R : Tells(outcome, R)
         /\ \A out, R, Q, o : Tells(out, R) /\ (\A r \in Q \cap Request : r.kind \in UserKind \/ r \in R)
                                => Tells(Ch!Answer(out, Q, o), R)
         /\ \A out, R, Q, o, r : out = [q \in Request |-> out[q]] /\ r \in Request /\ r \in Q /\ o # "pending"
                                => Ch!Answer(out, Q, o)[r] # "pending"
         /\ \A c \in Channel : /\ \A r \in Ch!Waiters(c) \cup Range(commands[c]) : r.kind \in UserKind
                               /\ Ch!UserHeld(c) = Ch!Waiters(c) \cup Range(commands[c]) \cup Range(sends[c])
<1>1. \A out, Q, o : Ch!Answer(out, Q, o) = Answer(out, Q, o)
  BY AnswersSeen
<1>2. \A R : Tells(outcome, R)
  BY DEF Tells, ClientInv, Link
<1>3. \A out, R, Q, o : Tells(out, R) /\ (\A r \in Q \cap Request : r.kind \in UserKind \/ r \in R)
                                => Tells(Answer(out, Q, o), R)
  BY DEF Tells, Answer
<1>4. \A out, R, Q, o, r : out = [q \in Request |-> out[q]] /\ r \in Request /\ r \in Q /\ o # "pending"
                                => Answer(out, Q, o)[r] # "pending"
  BY DEF Answer
<1>5. ASSUME NEW c \in Channel
      PROVE  /\ \A r \in Ch!Waiters(c) \cup Range(commands[c]) : r.kind \in UserKind
             /\ Ch!UserHeld(c) = Ch!Waiters(c) \cup Range(commands[c]) \cup Range(sends[c])
  <2>1. Ch!Waiters(c) \subseteq RequestsOf(UserKind)
    BY ClientTypes DEF Ch!Waiters, ChannelTypes, TaskFields, RequestsOf, UserKind
  <2>2. Range(commands[c]) \subseteq RequestsOf(UserKind)
    BY ClientTypes, QueueKind DEF ChannelTypes
  <2> QED
    BY <2>1, <2>2, SameWords DEF Ch!UserHeld, RequestsOf
<1> QED
  BY <1>1, <1>2, <1>3, <1>4, <1>5

(* A channel enters another state, and with it what it was about to submit *)
(* is gone; or it ends, and all it has.                                    *)
LEMMA EnterLinks ==
  ASSUME ClientInv, Remember, SP!TypeOK', CP!TypeOK', NEW c \in Channel, Alive(c),
         UNCHANGED <<socketOnly, chanStateQ, sendQ>>, NEW p, NEW n, NEW out, NEW R, Ch!Enter(c, p, n, out),
         \/ sends' = sends /\ R = {task[c].busy}
         \/ sends' = [sends EXCEPT ![c] = <<>>] /\ R = Has(c),
         Tells(out, R), \A r \in R \cap Sends : out[r] # "pending"
  PROVE  Link'
<1>1. /\ task \in [Channel -> TaskFields] /\ phase \in [Channel -> Phase] /\ sends \in [Channel -> Seq(Sends)]
      /\ receiving \in [Channel -> JoinOrNone] /\ Once
  BY ClientTypes DEF ChannelTypes, SocketTypes, ClientInv, Link
<1>2. /\ task'[c].busy = NoRequest /\ \A d \in Channel \ {c} : task'[d] = task[d]
      /\ receiving'[c] = NoRequest
      /\ \A d \in Channel \ {c} : phase'[d] = phase[d] /\ receiving'[d] = receiving[d] /\ sends'[d] = sends[d]
  BY <1>1 DEF Ch!Enter, Ch!Blank, Ch!DropReceivers
<1>3. Elsewhere(c) /\ SocketHas' \subseteq SocketHas \cup {NoRequest, task[c].awaiting}
  BY <1>2, SocketHasFrom DEF Elsewhere
<1>4. /\ sends'[c] = sends[c] \/ sends'[c] = <<>>
      /\ Has(c)' = Range(sends'[c]) \cup {NoRequest} /\ Has(c) = Range(sends[c]) \cup {task[c].busy}
      /\ task[c].busy \notin Range(sends[c])
  BY <1>1, <1>2 DEF Has, Once
<1>5. R \in SUBSET Has(c) /\ Has(c)' \subseteq (Has(c) \ R) \cup {NoRequest} /\ Has(c) \subseteq Has(c)' \cup R \cup {NoRequest}
  BY <1>1, <1>4, EmptyElements
<1>6. Once'
  <2>1. Range(sends[c]) \subseteq Sends /\ NoRequest \notin Sends
    BY <1>1, QueueKind, RequestAssumption DEF Sends, RequestsOf
  <2>2. IsInjective(<<>>)
    BY DEF IsInjective
  <2> QED
    BY <1>1, <1>2, <1>4, <2>1, <2>2, EmptyElements DEF Once
<1>7. outcome' = Release(Ch!Answer(out, Ch!Waiters(c), "dropped"), {task[c].awaiting})
  <2>1. \A o, Q : Ch!Release(o, Q) = Release(o, Q)
    BY AnswersSeen
  <2> QED
    BY <2>1 DEF Ch!Enter
<1>8. \A r \in Request : outcome'[r] = IF r = task[c].awaiting THEN "free"
                                       ELSE Ch!Answer(out, Ch!Waiters(c), "dropped")[r]
  BY <1>7 DEF Release
<1>9. outcome' = [r \in Request |-> outcome'[r]]
  BY <1>7 DEF Release
<1>10. \A r \in Request : Ch!Answer(out, Ch!Waiters(c), "dropped")[r] = out[r] \/ r.kind \in UserKind
  <2>1. \A r \in Request : r \notin Ch!Waiters(c) => Ch!Answer(out, Ch!Waiters(c), "dropped")[r] = out[r]
    <3>1. Ch!Answer(out, Ch!Waiters(c), "dropped") = Answer(out, Ch!Waiters(c), "dropped")
      BY AnswersSeen
    <3> QED
      BY <3>1 DEF Answer
  <2> QED
    BY <2>1, TellsMore
<1>11. \A r \in Request : outcome'[r] = outcome[r] \/ r.kind \in UserKind \/ r = task[c].awaiting \/ r \in R
  BY <1>8, <1>10 DEF Tells
<1>12. \A r \in R \cap Sends : outcome'[r] # "pending"
  BY <1>8, <1>10 DEF Sends, RequestsOf, UserKind
<1>13. /\ InChannels' \subseteq (InChannels \ R) \cup {NoRequest}
       /\ InChannels \subseteq InChannels' \cup R \cup {NoRequest}
       /\ Births
  BY <1>3, <1>5, LeavesChannels
<1> QED
  BY <1>3, <1>6, <1>9, <1>11, <1>12, <1>13, TaskLinks

LEMMA EndLinks ==
  ASSUME ClientInv, Remember, SP!TypeOK', CP!TypeOK', NEW c \in Channel, Alive(c),
         UNCHANGED <<socketOnly, chanStateQ, sendQ>>, NEW p, NEW out, Tells(out, Has(c)), Ch!End(c, p, out)
  PROVE  Link'
<1> DEFINE told == Ch!Answer(out, Ch!UserHeld(c) \cup {task[c].busy}, "dropped")
<1>1. \A r \in Ch!UserHeld(c) \cup {task[c].busy} : r.kind \in UserKind \/ r \in Has(c)
  BY TellsMore DEF Has
<1>2. Tells(told, Has(c))
  BY <1>1, TellsMore
<1>3. \A r \in Has(c) \cap Sends : told[r] # "pending"
  <2>1. Has(c) \subseteq Ch!UserHeld(c) \cup {task[c].busy}
    BY TellsMore DEF Has
  <2>2. Sends \subseteq Request /\ out = [r \in Request |-> out[r]]
    BY DEF Sends, RequestsOf, Tells
  <2> QED
    BY <2>1, <2>2, TellsMore
<1>4. Ch!Enter(c, p, Ch!NoRejoin, told) /\ sends' = [sends EXCEPT ![c] = <<>>]
  BY DEF Ch!End
<1> QED
  BY <1>2, <1>3, <1>4, EnterLinks

(* A channel that has nothing to submit enters another state.              *)
LEMMA IdleEnterLinks ==
  ASSUME ClientInv, Remember, SP!TypeOK', CP!TypeOK', NEW c \in Channel, Alive(c), ~Ch!Busy(c),
         UNCHANGED <<socketOnly, chanStateQ, sendQ, sends>>, NEW p, NEW n, NEW out, Tells(out, {}),
         Ch!Enter(c, p, n, out)
  PROVE  Link'
<1>1. task[c].busy \notin Request /\ Sends \subseteq Request
  BY RequestAssumption DEF Ch!Busy, Sends, RequestsOf
<1>2. Tells(out, {task[c].busy}) /\ \A r \in {task[c].busy} \cap Sends : out[r] # "pending"
  BY <1>1 DEF Tells
<1> QED
  BY <1>2, EnterLinks

(* A channel goes on with what it has, or joined.                          *)
LEMMA GoesOnLinks ==
  ASSUME ClientInv, Remember, SP!TypeOK', CP!TypeOK', NEW c \in Channel, Alive(c),
         UNCHANGED <<socketOnly, chanStateQ, sendQ, sends>>,
         \A d \in Channel \ {c} : task'[d] = task[d] /\ phase'[d] = phase[d] /\ receiving'[d] = receiving[d],
         task'[c].busy = task[c].busy, receiving'[c] \in {receiving[c], task[c].awaiting},
         outcome' = [r \in Request |-> outcome'[r]],
         \A r \in Request : outcome'[r] = outcome[r] \/ r.kind \in UserKind \/ r = task[c].awaiting
  PROVE  Link'
<1>1. Elsewhere(c) /\ Has(c)' = Has(c)
  BY DEF Elsewhere, Has
<1>2. SocketHas' \subseteq SocketHas \cup {NoRequest, task[c].awaiting}
  BY <1>1, SocketHasFrom
<1> DEFINE R == {}
<1>3. /\ R \in SUBSET Has(c) /\ Has(c)' \subseteq (Has(c) \ R) \cup {NoRequest}
      /\ Has(c) \subseteq Has(c)' \cup R \cup {NoRequest}
  BY <1>1
<1> HIDE DEF R
<1>4. /\ InChannels' \subseteq (InChannels \ R) \cup {NoRequest}
      /\ InChannels \subseteq InChannels' \cup R \cup {NoRequest}
      /\ Births
  BY <1>1, <1>3, LeavesChannels
<1>5. Once'
  BY <1>1 DEF Elsewhere, Once, ClientInv, Link
<1>6. \A r \in R \cap Sends : outcome'[r] = "pending" => r \in Range(sendQ')
  BY DEF R
<1> QED
  BY <1>2, <1>4, <1>5, <1>6, TaskLinks

LEMMA StayLinks ==
  ASSUME ClientInv, Remember, SP!TypeOK', CP!TypeOK', NEW c \in Channel, Alive(c),
         UNCHANGED <<socketOnly, chanStateQ, sendQ, sends, phase, receiving>>,
         \A d \in Channel \ {c} : task'[d] = task[d], task'[c].busy = task[c].busy,
         Tells(outcome', {})
  PROVE  Link'
BY GoesOnLinks DEF Tells

LEMMA ShutdownLinks ==
  ASSUME ClientInv, Remember, UNCHANGED socketOnly, SP!TypeOK', CP!TypeOK', NEW c \in Channel,
         Ch!Shutdown(c) \/ Ch!Exit(c)
  PROVE  Link'
<1> USE DEF Ch!socketVars, Ch!userVars
<1>1. CASE Ch!Shutdown(c)
  <2>1. Tells(Ch!Answer(outcome, Ch!Waiters(c), "shutdown"), {})
    BY TellsMore
  <2> QED
    BY <1>1, <2>1, AliveSeen, IdleEnterLinks DEF Ch!Shutdown
<1>2. CASE Ch!Exit(c)
  <2>1. Alive(c)
    BY <1>2 DEF Ch!Exit, Alive, Ended, Unspawned
  <2> QED
    BY <1>2, <2>1, TellsMore, EndLinks DEF Ch!Exit
<1> QED
  BY <1>1, <1>2

LEMMA StayFields ==
  ASSUME ClientInv, NEW c \in Channel, Ch!Stay(c)
  PROVE  /\ UNCHANGED <<phase, receiving, pushQ>> /\ task'[c].busy = task[c].busy
         /\ \A d \in Channel \ {c} : task'[d] = task[d]
BY ClientTypes DEF Ch!Stay, ChannelTypes, TaskFields

LEMMA NewsLinks ==
  ASSUME ClientInv, Remember, UNCHANGED socketOnly, SP!TypeOK', CP!TypeOK', NEW c \in Channel,
         Ch!Lagged(c) \/ Ch!ConnectivityChanged(c)
  PROVE  Link'
<1> USE DEF Ch!socketVars, Ch!userVars
<1>1. Alive(c) /\ ~Ch!Busy(c) /\ UNCHANGED <<chanStateQ, sendQ, sends>>
  BY AliveSeen DEF Ch!Lagged, Ch!ConnectivityChanged, Ch!Selecting
<1>2. Tells(outcome, {}) /\ Tells(Ch!NewsAnswer(c), {})
  BY TellsMore DEF Ch!NewsAnswer, Ch!Waiters
<1>3. CASE Ch!Lagged(c)
  <2>1. task'[c].busy = task[c].busy /\ \A d \in Channel \ {c} : task'[d] = task[d]
    BY <1>3, ClientTypes DEF Ch!Lagged, ChannelTypes, TaskFields
  <2> QED
    BY <1>1, <1>2, <1>3, <2>1, StayLinks DEF Ch!Lagged
<1>4. ASSUME NEW p, NEW n, NEW out \in {outcome, Ch!NewsAnswer(c)}, Ch!Enter(c, p, n, out) PROVE Link'
  BY <1>1, <1>2, <1>4, IdleEnterLinks
<1>5. ASSUME Ch!Stay(c), outcome' = outcome PROVE Link'
  BY <1>1, <1>2, <1>5, StayFields, StayLinks
<1>6. CASE Ch!SocketConnected(c)
  BY <1>4, <1>5, <1>6 DEF Ch!SocketConnected, Ch!WaitToRejoin
<1>7. CASE Ch!SocketDisconnected(c)
  BY <1>4, <1>5, <1>7 DEF Ch!SocketDisconnected
<1>8. CASE Ch!SocketShutdown(c)
  BY <1>4, <1>8 DEF Ch!SocketShutdown
<1> QED
  BY <1>3, <1>6, <1>7, <1>8 DEF Ch!ConnectivityChanged

LEMMA ResultLinks ==
  ASSUME ClientInv, Remember, UNCHANGED socketOnly, SP!TypeOK', CP!TypeOK', NEW c \in Channel,
         Ch!JoinedResult(c) \/ Ch!LeftResult(c) \/ Ch!JoinTooLate(c)
  PROVE  Link'
<1> USE DEF Ch!socketVars, Ch!userVars
<1>1. Alive(c) /\ ~Ch!Busy(c) /\ UNCHANGED <<chanStateQ, sendQ>>
  BY AliveSeen DEF Ch!JoinedResult, Ch!LeftResult, Ch!JoinTooLate, Ch!TakeCommand, Ch!Selecting
<1>2. \A o, R : R \in {task[c].joiners, task[c].leavers} => Tells(Ch!Answer(outcome, R, o), {})
  BY TellsMore DEF Ch!Waiters
<1>3. CASE /\ phase' = [phase EXCEPT ![c] = "Joined"]
           /\ task' = [task EXCEPT ![c] = Ch!Blank]
           /\ outcome' = Ch!Release(Ch!Answer(outcome, task[c].joiners, "ok"), {task[c].awaiting})
           /\ receiving' = [receiving EXCEPT ![c] = task[c].awaiting]
           /\ UNCHANGED <<pushQ, Ch!userVars>>
  <2>1. /\ \A d \in Channel \ {c} : task'[d] = task[d] /\ phase'[d] = phase[d] /\ receiving'[d] = receiving[d]
        /\ task'[c].busy = task[c].busy /\ receiving'[c] = task[c].awaiting
    BY <1>1, <1>3, ClientTypes DEF SocketTypes, ChannelTypes, Ch!Blank, Ch!Busy
  <2>2. outcome' = Release(Ch!Answer(outcome, task[c].joiners, "ok"), {task[c].awaiting})
    BY <1>3, AnswersSeen
  <2>3. Tells(Ch!Answer(outcome, task[c].joiners, "ok"), {})
    BY <1>2
  <2>4. /\ outcome' = [r \in Request |-> outcome'[r]]
        /\ \A r \in Request : outcome'[r] = outcome[r] \/ r.kind \in UserKind \/ r = task[c].awaiting
    BY <2>2, <2>3 DEF Release, Tells
  <2> QED
    BY <1>1, <1>3, <2>1, <2>4, GoesOnLinks
<1>4. CASE \E p, n, o : /\ Ch!Enter(c, p, n, Ch!Answer(outcome, task[c].joiners, o))
                        /\ UNCHANGED Ch!userVars
  BY <1>1, <1>2, <1>4, IdleEnterLinks
<1>5. CASE Ch!End(c, "Gone", Ch!Answer(outcome, task[c].joiners, "error"))
  <2>1. Tells(Ch!Answer(outcome, task[c].joiners, "error"), Has(c))
    BY <1>2 DEF Tells
  <2> QED
    BY <1>1, <1>5, <2>1, EndLinks
<1>6. CASE Ch!JoinedResult(c)
  BY <1>3, <1>4, <1>5, <1>6 DEF Ch!JoinedResult, Ch!WaitToRejoin
<1>7. CASE Ch!LeftResult(c)
  BY <1>1, <1>2, <1>7, IdleEnterLinks DEF Ch!LeftResult
<1>8. CASE Ch!JoinTooLate(c)
  <2>1. Head(commands[c]) \in Range(commands[c])
    BY <1>8, ClientTypes, QueueElements DEF Ch!JoinTooLate, Ch!TakeCommand, ChannelTypes
  <2>2. Tells(Ch!Answer(outcome, {Head(commands[c])}, "dropped"), {})
    BY <2>1, TellsMore
  <2> QED
    BY <1>1, <1>8, <2>2, IdleEnterLinks DEF Ch!JoinTooLate, Ch!TakeCommand, Ch!WaitToRejoin
<1> QED
  BY <1>6, <1>7, <1>8

LEMMA AgainLinks ==
  ASSUME ClientInv, Remember, UNCHANGED socketOnly, SP!TypeOK', CP!TypeOK', NEW c \in Channel,
         Ch!JoinAgain(c) \/ Ch!LeaveAgain(c) \/ Ch!PushReceived(c)
  PROVE  Link'
<1> USE DEF Ch!socketVars, Ch!userVars
<1>1. Alive(c) /\ ~Ch!Busy(c) /\ UNCHANGED <<chanStateQ, sendQ, sends>>
  BY AliveSeen DEF Ch!JoinAgain, Ch!LeaveAgain, Ch!PushReceived, Ch!TakeCommand, Ch!Selecting
<1>2. Tells(outcome, {})
  BY TellsMore
<1>3. ASSUME commands[c] # <<>>
      PROVE  \A o : Tells(Ch!Answer(outcome, {Head(commands[c])}, o), {})
  <2>1. Head(commands[c]) \in Range(commands[c])
    BY <1>3, ClientTypes, QueueElements DEF ChannelTypes
  <2> QED
    BY <2>1, TellsMore
<1>4. ASSUME UNCHANGED <<outcome, receiving, phase>>, NEW t, t.busy = task[c].busy, task' = [task EXCEPT ![c] = t]
      PROVE  Link'
  <2>1. task'[c].busy = task[c].busy /\ \A d \in Channel \ {c} : task'[d] = task[d]
    BY <1>4, ClientTypes DEF ChannelTypes
  <2> QED
    BY <1>1, <1>2, <1>4, <2>1, StayLinks
<1>5. ASSUME Ch!Stay(c), Tells(outcome', {}) PROVE Link'
  BY <1>1, <1>5, StayFields, StayLinks
<1>6. CASE Ch!JoinAgain(c)
  <2>1. CASE \E o : outcome' = Ch!Answer(outcome, {Head(commands[c])}, o) /\ Ch!Stay(c)
    BY <1>3, <1>5, <1>6, <2>1 DEF Ch!JoinAgain, Ch!TakeCommand
  <2>2. CASE /\ task' = [task EXCEPT ![c].joiners = @ \cup {Head(commands[c])}]
             /\ UNCHANGED <<outcome, receiving, pushQ, phase>>
    <3>1. [task[c] EXCEPT !.joiners = @ \cup {Head(commands[c])}].busy = task[c].busy
      BY ClientTypes DEF ChannelTypes, TaskFields
    <3> QED
      BY <1>4, <2>2, <3>1
  <2> QED
    BY <1>6, <2>1, <2>2 DEF Ch!JoinAgain
<1>7. CASE Ch!LeaveAgain(c)
  <2>1. CASE outcome' = Ch!Answer(outcome, {Head(commands[c])}, "ok") /\ Ch!Stay(c)
    BY <1>3, <1>5, <1>7, <2>1 DEF Ch!LeaveAgain, Ch!TakeCommand
  <2>2. CASE Ch!Enter(c, "Left", Ch!NoRejoin, Ch!Answer(outcome, {Head(commands[c])}, "ok"))
    BY <1>1, <1>3, <1>7, <2>2, IdleEnterLinks DEF Ch!LeaveAgain, Ch!TakeCommand
  <2>3. CASE /\ task' = [task EXCEPT ![c] = [task[c] EXCEPT !.leavers = @ \cup {Head(commands[c])}, !.deaf = FALSE]]
             /\ UNCHANGED <<outcome, receiving, pushQ, phase>>
    <3>1. [task[c] EXCEPT !.leavers = @ \cup {Head(commands[c])}, !.deaf = FALSE].busy = task[c].busy
      BY ClientTypes DEF ChannelTypes, TaskFields
    <3> QED
      BY <1>4, <2>3, <3>1
  <2> QED
    BY <1>7, <2>1, <2>2, <2>3 DEF Ch!LeaveAgain
<1>8. CASE Ch!PushReceived(c)
  <2>1. CASE Ch!WaitToRejoin(c, 0, outcome)
    BY <1>1, <1>2, <2>1, IdleEnterLinks DEF Ch!WaitToRejoin
  <2>2. CASE task' = [task EXCEPT ![c].deaf = FALSE] /\ UNCHANGED <<outcome, receiving, phase>>
    <3>1. [task[c] EXCEPT !.deaf = FALSE].busy = task[c].busy
      BY ClientTypes DEF ChannelTypes, TaskFields
    <3> QED
      BY <1>4, <2>2, <3>1
  <2> QED
    BY <1>8, <2>1, <2>2 DEF Ch!PushReceived
<1> QED
  BY <1>6, <1>7, <1>8

(* A channel makes a join or a leave, with a oneshot of its own.           *)
LEMMA MadeLinks ==
  ASSUME ClientInv, Remember, UNCHANGED socketOnly, SP!TypeOK', CP!TypeOK', NEW c \in Channel, MadeAfresh(c),
         NEW r \in Request, Ch!Rejoin(c, r) \/ Ch!Join(c, r) \/ Ch!Leave(c, r)
  PROVE  Link'
<1>1. /\ UNCHANGED <<chanStateQ, sendQ, outcome, receiving, phase, sends>> /\ Alive(c) /\ ~Ch!Busy(c)
      /\ r \in RequestsOf({"join", "leave"})
  BY AliveSeen DEF Ch!Rejoin, Ch!Join, Ch!Leave, Ch!TakeCommand, Ch!Selecting, Ch!socketVars, Ch!userVars,
    RequestsOf
<1>2. task'[c].busy = r /\ \A d \in Channel \ {c} : task'[d].busy = task[d].busy
  <2>1. task \in [Channel -> TaskFields]
    BY ClientTypes DEF ChannelTypes
  <2>2. PICK t \in TaskFields : Ch!Prepare(c, r, t)
    <3>1. CASE Ch!Rejoin(c, r)
      BY <2>1, <3>1 DEF Ch!Rejoin
    <3>2. CASE Ch!Join(c, r) \/ Ch!Leave(c, r)
      <4>1. commands[c] # <<>> /\ commands[c] \in Seq(RequestsOf(UserKind))
        BY <3>2, ClientTypes DEF Ch!Join, Ch!Leave, Ch!TakeCommand, ChannelTypes
      <4>2. Head(commands[c]) \in RequestsOf(UserKind)
        BY <4>1, QueueSteps
      <4>3. CASE Ch!Join(c, r)
        <5>1. Head(commands[c]) \in RequestsOf({"channel_join"})
          BY <4>2, <4>3 DEF Ch!Join, Ch!TakeCommand, RequestsOf
        <5>2. [task[c] EXCEPT !.joiners = {Head(commands[c])}, !.rejoin = 0] \in TaskFields
          <6>1. 0 \in {CP!NoRejoin} \cup 0..MaxAttempts
            BY BoundAssumption
          <6> QED
            BY <2>1, <5>1, <6>1 DEF TaskFields
        <5> QED
          BY <4>3, <5>2 DEF Ch!Join
      <4>4. CASE Ch!Leave(c, r)
        <5>1. Head(commands[c]) \in RequestsOf({"channel_leave"})
          BY <4>2, <4>4 DEF Ch!Leave, Ch!TakeCommand, RequestsOf
        <5>2. [task[c] EXCEPT !.leavers = {Head(commands[c])}] \in TaskFields
          BY <2>1, <5>1 DEF TaskFields
        <5> QED
          BY <4>4, <5>2 DEF Ch!Leave
      <4> QED
        BY <3>2, <4>3, <4>4
    <3> QED
      BY <3>1, <3>2
  <2> QED
    BY <2>1, <2>2 DEF Ch!Prepare, TaskFields
<1>3. r \notin SocketHas /\ outcome[r] = "free"
  <2>1. r # task[c].busy
    BY <1>1, RequestAssumption DEF Ch!Busy, RequestsOf
  <2>2. S!Fresh(r)
    BY <1>1, <1>2, <2>1 DEF MadeAfresh
  <2> QED
    BY <2>2 DEF S!Fresh, SocketHas
<1>4. /\ InChannels' \subseteq InChannels \cup {r} /\ InChannels \subseteq InChannels' \cup {NoRequest}
      /\ SocketHas' = SocketHas
  <2>1. \A q : /\ q \in InChannels <=> \E d \in Channel : q \in Range(sends[d]) \/ q = task[d].busy
               /\ q \in InChannels' <=> \E d \in Channel : q \in Range(sends[d]) \/ q = task'[d].busy
    BY <1>1, WithChannels
  <2>2. SocketHas' = SocketHas
    BY <1>1, SocketHasSame DEF socketOnly
  <2> QED
    BY <1>1, <1>2, <2>1, <2>2 DEF Ch!Busy
<1>5. Births /\ outcome' = [q \in Request |-> outcome'[q]]
  BY <1>1 DEF Births, ClientInv, Link
<1>6. Apart'
  BY <1>3, <1>4 DEF Apart, ClientInv, Link
<1>7. Once'
  <2>1. r \notin Sends /\ \A d \in Channel : Range(sends[d]) \subseteq Sends
    BY <1>1, ClientTypes, QueueKind DEF ChannelTypes, Sends, RequestsOf
  <2>2. ASSUME NEW d \in Channel PROVE IsInjective(sends[d]) /\ task'[d].busy \notin Range(sends[d])
    BY <1>2, <2>1 DEF Once, ClientInv, Link
  <2> QED
    BY <1>1, <2>2 DEF Once
<1>8. NotAsked'
  <2>1. /\ \A q \in InChannels' \cap RequestsOf({"join", "leave"}) : outcome'[q] = "free"
        /\ \A q \in InChannels' \cap Sends : outcome'[q] = "pending" \/ (q.kind = "call" /\ outcome'[q] = "free")
    BY <1>1, <1>3, <1>4 DEF ClientInv, Link, NotAsked, Sends, RequestsOf
  <2> QED
    BY <2>1 DEF NotAsked, Sends, RequestsOf
<1>9. \A q \in Sends : outcome'[q] = "pending" => q \in InChannels' \cup forwarded \cup Range(sendQ')
  <2>1. NoRequest \notin Sends
    BY RequestAssumption DEF Sends, RequestsOf
  <2> QED
    BY <1>1, <1>4, <2>1 DEF ClientInv, Link, GoneOn
<1> QED
  BY <1>5, <1>6, <1>7, <1>8, <1>9, LinkFollows

LEMMA TakenLinks ==
  ASSUME ClientInv, Remember, UNCHANGED socketOnly, SP!TypeOK', CP!TypeOK', NEW c \in Channel, Ch!TakeSend(c)
  PROVE  Link'
<1>1. /\ UNCHANGED <<chanStateQ, sendQ, outcome, receiving, phase>> /\ Alive(c) /\ ~Ch!Busy(c)
      /\ sends[c] # <<>> /\ sends' = [sends EXCEPT ![c] = Tail(@)]
      /\ sends \in [Channel -> Seq(Sends)] /\ Once
  BY AliveSeen, ClientTypes DEF Ch!TakeSend, Ch!Selecting, Ch!socketVars, ChannelTypes, ClientInv, Link
<1>2. /\ task'[c].busy = Head(sends[c]) /\ \A d \in Channel \ {c} : task'[d] = task[d]
      /\ sends'[c] = Tail(sends[c]) /\ \A d \in Channel \ {c} : sends'[d] = sends[d]
  BY <1>1, ClientTypes DEF Ch!TakeSend, Ch!Prepare, TaskFields, ChannelTypes
<1>3. Range(sends[c]) = {Head(sends[c])} \cup Range(Tail(sends[c]))
  BY <1>1, QueueElements
<1>4. Elsewhere(c) /\ SocketHas' = SocketHas
  BY <1>1, <1>2, SocketHasSame DEF Elsewhere, socketOnly
<1> DEFINE R == {}
<1>5. /\ R \in SUBSET Has(c) /\ Has(c)' \subseteq (Has(c) \ R) \cup {NoRequest}
      /\ Has(c) \subseteq Has(c)' \cup R \cup {NoRequest}
  BY <1>1, <1>2, <1>3 DEF Has, Ch!Busy
<1>6. \A r \in R \cap Sends : outcome'[r] = "pending" => r \in Range(sendQ')
  OBVIOUS
<1> HIDE DEF R
<1>7. /\ InChannels' \subseteq (InChannels \ R) \cup {NoRequest}
      /\ InChannels \subseteq InChannels' \cup R \cup {NoRequest}
      /\ Births
  BY <1>4, <1>5, LeavesChannels
<1>8. Once'
  <2>1. IsInjective(Tail(sends[c])) /\ Head(sends[c]) \notin Range(Tail(sends[c]))
    BY <1>1, QueueApart DEF Once
  <2>2. ASSUME NEW d \in Channel PROVE IsInjective(sends'[d]) /\ task'[d].busy \notin Range(sends'[d])
    <3>1. CASE d = c
      BY <1>2, <2>1, <3>1
    <3>2. CASE d # c
      BY <1>1, <1>2, <3>2 DEF Once
    <3> QED
      BY <3>1, <3>2
  <2> QED
    BY <2>2 DEF Once
<1>9. outcome' = [r \in Request |-> outcome'[r]] /\ \A r \in Request : outcome'[r] = outcome[r]
  BY <1>1 DEF ClientInv, Link
<1> QED
  BY <1>4, <1>6, <1>7, <1>8, <1>9, TaskLinks

(* What a channel submits leaves it for a queue of the socket.             *)
LEMMA SubmitLinks ==
  ASSUME ClientInv, Remember, UNCHANGED socketOnly, SP!TypeOK', CP!TypeOK', NEW c \in Channel, Ch!Submit(c)
  PROVE  Link'
<1> DEFINE r == task[c].busy
           R == {r}
<1>1. /\ Ch!Busy(c) /\ r \in RequestsOf(ChanKind) /\ sends' = sends /\ Once
      /\ task \in [Channel -> TaskFields] /\ phase \in [Channel -> Phase] /\ receiving \in [Channel -> JoinOrNone]
      /\ sends \in [Channel -> Seq(Sends)] /\ chanStateQ \in Seq(RequestsOf({"join", "leave"})) /\ sendQ \in Seq(Sends)
  BY ClientTypes, BusyFresh DEF Ch!Submit, Ch!userVars, ChannelTypes, SocketTypes, ClientInv, Link
<1>2. Alive(c)
  BY <1>1, ChannelKnows DEF RequestsOf, ChanKind, Alive, Unspawned, Ended
<1>3. /\ task'[c].busy = NoRequest /\ receiving'[c] \in {receiving[c], NoRequest}
      /\ \A d \in Channel \ {c} : task'[d] = task[d] /\ phase'[d] = phase[d] /\ receiving'[d] = receiving[d]
  <2>1. CASE Ch!SubmitLeave(c)
    BY <1>1, <2>1 DEF Ch!SubmitLeave, Ch!DropReceivers, Ch!Blank
  <2>2. CASE Ch!SubmitJoin(c)
    BY <1>1, <2>2 DEF Ch!SubmitJoin, TaskFields
  <2>3. CASE Ch!SubmitSend(c)
    BY <1>1, <2>3 DEF Ch!SubmitSend, TaskFields
  <2> QED
    BY <2>1, <2>2, <2>3 DEF Ch!Submit
<1>4. Elsewhere(c)
  BY <1>1, <1>2, <1>3 DEF Elsewhere
<1>5. /\ R \in SUBSET Has(c) /\ Has(c)' \subseteq (Has(c) \ R) \cup {NoRequest}
      /\ Has(c) \subseteq Has(c)' \cup R \cup {NoRequest}
  BY <1>1, <1>3 DEF Has, Once
<1>6. /\ Range(chanStateQ') \subseteq Range(chanStateQ) \cup R
      /\ Range(sendQ') \subseteq Range(sendQ) \cup R
      /\ r \in Sends => r \in Range(sendQ')
  <2>1. CASE r.kind \in {"join", "leave"}
    <3>1. chanStateQ' = Append(chanStateQ, r) /\ sendQ' = sendQ
      BY <2>1 DEF Ch!Submit, Ch!SubmitLeave, Ch!SubmitJoin, Ch!SubmitSend
    <3>2. r \in RequestsOf({"join", "leave"}) /\ r \notin Sends
      BY <1>1, <2>1 DEF RequestsOf, Sends
    <3> QED
      BY <1>1, <3>1, <3>2, QueueElements
  <2>2. CASE r.kind \in {"call", "cast"}
    <3>1. sendQ' = Append(sendQ, r) /\ chanStateQ' = chanStateQ
      BY <2>2 DEF Ch!Submit, Ch!SubmitLeave, Ch!SubmitJoin, Ch!SubmitSend
    <3>2. r \in Sends
      BY <1>1, <2>2 DEF RequestsOf, Sends
    <3> QED
      BY <1>1, <3>1, <3>2, QueueElements
  <2> QED
    BY <1>1, <2>1, <2>2 DEF RequestsOf, ChanKind
<1>7. SocketHas' \subseteq SocketHas \cup {NoRequest, task[c].awaiting} \cup R
  <2>1. UNCHANGED <<stateQ, serving, replies, timers, joins, sent, joined>>
    BY DEF socketOnly
  <2>2. \A q, d : d \in Channel /\ q = receiving'[d] => q = receiving[d] \/ q = NoRequest
    BY <1>3
  <2> HIDE DEF R
  <2>3. ASSUME NEW q \in SocketHas' PROVE q \in SocketHas \cup {NoRequest, task[c].awaiting} \cup R
    BY <1>6, <2>1, <2>2, <2>3, WithSocket
  <2> QED
    BY <2>3
<1>8. /\ outcome' = [q \in Request |-> outcome'[q]]
      /\ \A q \in Request : outcome'[q] = outcome[q] \/ q.kind \in UserKind \/ q = task[c].awaiting \/ q \in R
  <2>1. CASE Ch!SubmitSend(c)
    BY <2>1 DEF Ch!SubmitSend, ClientInv, Link
  <2>2. ASSUME NEW Q \in {task[c].joiners, task[c].leavers}, NEW o,
               outcome' = [Ch!Release(Ch!Answer(outcome, Q, o), {task[c].awaiting}) EXCEPT ![r] = "pending"]
        PROVE  /\ outcome' = [q \in Request |-> outcome'[q]]
               /\ \A q \in Request : outcome'[q] = outcome[q] \/ q.kind \in UserKind \/ q = task[c].awaiting \/ q = r
    <3>1. Tells(Ch!Answer(outcome, Q, o), {})
      BY TellsMore DEF Ch!Waiters
    <3>2. outcome' = [Release(Ch!Answer(outcome, Q, o), {task[c].awaiting}) EXCEPT ![r] = "pending"]
      BY <2>2, AnswersSeen
    <3> HIDE DEF r
    <3> QED
      BY <3>1, <3>2 DEF Release, Tells
  <2>3. CASE Ch!SubmitLeave(c)
    BY <2>2, <2>3 DEF Ch!SubmitLeave
  <2>4. CASE Ch!SubmitJoin(c)
    BY <2>2, <2>4 DEF Ch!SubmitJoin
  <2> QED
    BY <2>1, <2>3, <2>4 DEF Ch!Submit
<1>9. Once'
  <2>1. \A d \in Channel : Range(sends[d]) \subseteq Sends /\ NoRequest \notin Sends
    BY <1>1, QueueKind, RequestAssumption DEF Sends, RequestsOf
  <2>2. ASSUME NEW d \in Channel PROVE IsInjective(sends[d]) /\ task'[d].busy \notin Range(sends[d])
    BY <1>1, <1>3, <2>1 DEF Once
  <2> QED
    BY <1>1, <2>2 DEF Once
<1>10. \A q \in R \cap Sends : outcome'[q] = "pending" => q \in Range(sendQ')
  BY <1>6
<1> HIDE DEF R
<1>11. /\ InChannels' \subseteq (InChannels \ R) \cup {NoRequest}
       /\ InChannels \subseteq InChannels' \cup R \cup {NoRequest}
       /\ Births
  BY <1>4, <1>5, LeavesChannels
<1> QED
  BY <1>7, <1>8, <1>9, <1>10, <1>11, TaskLinks

LEMMA SubmitFailsLinks ==
  ASSUME ClientInv, Remember, UNCHANGED socketOnly, SP!TypeOK', CP!TypeOK', NEW c \in Channel, Ch!SubmitFails(c)
  PROVE  Link'
<1>1. /\ Ch!Busy(c) /\ UNCHANGED <<chanStateQ, sendQ>> /\ task[c].busy \in RequestsOf(ChanKind)
      /\ task \in [Channel -> TaskFields]
  BY ClientTypes, BusyFresh DEF Ch!SubmitFails, Ch!socketVars, ChannelTypes
<1>2. Alive(c)
  BY <1>1, ChannelKnows DEF RequestsOf, ChanKind, Alive, Unspawned, Ended
<1>3. Tells(outcome, Has(c)) /\ Tells(Ch!Answer(outcome, task[c].leavers, "error"), Has(c))
      /\ Tells(Ch!Answer(outcome, task[c].leavers, "error"), {})
  BY TellsMore DEF Ch!Waiters
<1>4. CASE Ch!End(c, "Gone", outcome) \/ Ch!End(c, "Gone", Ch!Answer(outcome, task[c].leavers, "error"))
  BY <1>1, <1>2, <1>3, <1>4, EndLinks
<1>5. CASE /\ task[c].busy.kind = "leave"
           /\ outcome' = Ch!Answer(outcome, task[c].leavers, "error")
           /\ task' = [task EXCEPT ![c] = [@ EXCEPT !.busy = NoRequest, !.leavers = {}]]
           /\ UNCHANGED <<receiving, pushQ, phase, Ch!userVars>>
  <2> DEFINE R == {task[c].busy}
  <2>1. /\ sends' = sends /\ task'[c].busy = NoRequest /\ \A d \in Channel \ {c} : task'[d] = task[d]
    BY <1>1, <1>5 DEF Ch!userVars, TaskFields
  <2>2. Elsewhere(c) /\ SocketHas' = SocketHas
    BY <1>1, <1>2, <1>5, <2>1, SocketHasSame DEF Elsewhere, socketOnly
  <2>3. /\ R \in SUBSET Has(c) /\ Has(c)' \subseteq (Has(c) \ R) \cup {NoRequest}
        /\ Has(c) \subseteq Has(c)' \cup R \cup {NoRequest}
    BY <2>1 DEF Has, Once, ClientInv, Link
  <2>4. R \cap Sends = {}
    BY <1>5 DEF Sends, RequestsOf
  <2>5. Once'
    <3>1. \A d \in Channel : Range(sends[d]) \subseteq Sends /\ NoRequest \notin Sends
      BY ClientTypes, QueueKind, RequestAssumption DEF ChannelTypes, Sends, RequestsOf
    <3>2. ASSUME NEW d \in Channel PROVE IsInjective(sends[d]) /\ task'[d].busy \notin Range(sends[d])
      BY <2>1, <3>1 DEF Once, ClientInv, Link
    <3> QED
      BY <2>1, <3>2 DEF Once
  <2>6. /\ outcome' = [q \in Request |-> outcome'[q]]
        /\ \A q \in Request : outcome'[q] = outcome[q] \/ q.kind \in UserKind
    BY <1>3, <1>5 DEF Tells
  <2> HIDE DEF R
  <2>7. /\ InChannels' \subseteq (InChannels \ R) \cup {NoRequest}
        /\ InChannels \subseteq InChannels' \cup R \cup {NoRequest}
        /\ Births
    BY <2>2, <2>3, LeavesChannels
  <2> QED
    BY <2>2, <2>4, <2>5, <2>6, <2>7, TaskLinks
<1>6. CASE /\ Ch!Enter(c, "ShuttingDown", Ch!NoRejoin, Ch!Answer(outcome, {task[c].busy}, "dropped"))
           /\ UNCHANGED Ch!userVars
  <2>1. Tells(Ch!Answer(outcome, {task[c].busy}, "dropped"), {task[c].busy})
    BY TellsMore
  <2>2. Ch!Answer(outcome, {task[c].busy}, "dropped")[task[c].busy] # "pending"
    <3>1. task[c].busy \in Request /\ outcome = [q \in Request |-> outcome[q]]
      BY <1>1 DEF RequestsOf, ClientInv, Link
    <3> QED
      BY <3>1, TellsMore
  <2>3. sends' = sends
    BY <1>6 DEF Ch!userVars
  <2> QED
    <3>1. \A r \in {task[c].busy} \cap Sends : Ch!Answer(outcome, {task[c].busy}, "dropped")[r] # "pending"
      BY <2>2
    <3> QED
      BY <1>1, <1>2, <1>6, <2>1, <2>3, <3>1, EnterLinks
<1> QED
  BY <1>4, <1>5, <1>6 DEF Ch!SubmitFails

LEMMA ChannelStepLinks ==
  ASSUME ClientInv, ChannelStep, Remember, SP!TypeOK', CP!TypeOK'
  PROVE  Link'
<1>1. UNCHANGED socketOnly /\ \E c \in Channel : Ch!Task(c) /\ MadeAfresh(c)
  BY DEF ChannelStep
<1>2. PICK c \in Channel : Ch!Task(c) /\ MadeAfresh(c)
  BY <1>1
<1>3. CASE Ch!Shutdown(c) \/ Ch!Exit(c)
  BY <1>1, <1>3, ShutdownLinks
<1>4. CASE Ch!Lagged(c) \/ Ch!ConnectivityChanged(c)
  BY <1>1, <1>4, NewsLinks
<1>5. CASE Ch!JoinedResult(c) \/ Ch!LeftResult(c) \/ Ch!JoinTooLate(c)
  BY <1>1, <1>5, ResultLinks
<1>6. CASE Ch!JoinAgain(c) \/ Ch!LeaveAgain(c) \/ Ch!PushReceived(c)
  BY <1>1, <1>6, AgainLinks
<1>7. CASE \E r \in Request : Ch!Rejoin(c, r) \/ Ch!Join(c, r) \/ Ch!Leave(c, r)
  BY <1>1, <1>2, <1>7, MadeLinks
<1>8. CASE Ch!TakeSend(c)
  BY <1>1, <1>8, TakenLinks
<1>9. CASE Ch!Submit(c)
  BY <1>1, <1>9, SubmitLinks
<1>10. CASE Ch!SubmitFails(c)
  BY <1>1, <1>10, SubmitFailsLinks
<1> QED
  BY <1>2, <1>3, <1>4, <1>5, <1>6, <1>7, <1>8, <1>9, <1>10 DEF Ch!Task

-----------------------------------------------------------------------------
(***************************************************************************)
(* The invariant, and what follows from it                                 *)
(***************************************************************************)
LEMMA StutterLinks == ASSUME ClientInv, UNCHANGED vars PROVE Link'
<1>1. UNCHANGED <<outcome, phase, task, sends, born, forwarded, sendQ>> /\ SocketHas' = SocketHas
  BY SocketHasSame DEF vars, socketOnly, shared, channelOnly, historyVars
<1>2. InChannels' = InChannels
  BY <1>1 DEF InChannels
<1> QED
  BY <1>1, <1>2 DEF ClientInv, Link, BornAlive, Alive, GoneOn, Apart, Once, NotAsked, Sends, RequestsOf

LEMMA ClientInit == Init => ClientInv /\ SP!Init /\ CP!Init
<1> SUFFICES ASSUME Init PROVE ClientInv /\ SP!Init /\ CP!Init
  OBVIOUS
<1> USE DEF Init, S!Init, Ch!Init
<1>1. \A r \in Request : outcome[r] = "free"
  OBVIOUS
<1>2. SP!Init
  <2>1. SocketsOutcome = [r \in SocketsRequest |-> "free"]
    BY <1>1 DEF SocketsOutcome, SocketsRequest, RequestsOf
  <2>2. SocketsPhase = [c \in Channel |-> "none"]
    BY DEF SocketsPhase, SocketSees, Unspawned
  <2> QED
    BY <2>1, <2>2 DEF SP!Init
<1>3. CP!Init
  <2>1. ChannelsOutcome = [r \in ChannelsRequest |-> "free"]
    BY <1>1 DEF ChannelsOutcome, ChannelsRequest, RequestsOf
  <2> QED
    BY <2>1 DEF CP!Init, CP!Blank, Ch!Blank, CP!NoRejoin, Ch!NoRejoin
<1>4. \A c \in Channel : sends[c] = <<>> /\ task[c].busy = NoRequest
  BY DEF Ch!Blank
<1>5. InChannels \subseteq {NoRequest} /\ Range(sendQ) = {}
  BY <1>4, WithChannels, EmptyElements
<1>6. Apart /\ Once
  <2>1. IsInjective(<<>>)
    BY DEF IsInjective
  <2> QED
    BY <1>4, <1>5, <2>1, EmptyElements DEF Apart, Once
<1>7. NotAsked /\ GoneOn
  <2>1. NoRequest \notin Request
    BY RequestAssumption
  <2> QED
    BY <1>1, <1>5, <2>1 DEF NotAsked, GoneOn, Sends, RequestsOf
<1>8. BornAlive /\ outcome \in [Request -> Outcome]
  BY DEF BornAlive, Alive, Unspawned, Outcome
<1>9. SP!SocketInv /\ CP!Inv
  BY <1>2, <1>3, SocketInvInit, ChannelInvInit
<1> QED
  BY <1>2, <1>3, <1>6, <1>7, <1>8, <1>9 DEF ClientInv, Link

LEMMA ClientInvStep == ClientInv /\ [Next]_vars => ClientInv'
<1> SUFFICES ASSUME ClientInv, [Next]_vars PROVE ClientInv'
  OBVIOUS
<1>1. SP!SocketInv'
  BY StepSeenBySocket, SocketInvStep DEF ClientInv
<1>2. CP!Inv'
  BY StepSeenByChannels, ChannelInvStep DEF ClientInv
<1>3. SP!TypeOK' /\ CP!TypeOK'
  BY <1>1, <1>2 DEF SP!SocketInv, CP!Inv
<1>4. Link'
  BY <1>3, StutterLinks, SocketStepLinks, ChannelStepLinks, SocketUserLinks, ChannelUserLinks DEF Next
<1> QED
  BY <1>1, <1>2, <1>4 DEF ClientInv

LEMMA ClientInvAlways == Spec => []ClientInv
BY ClientInit, ClientInvStep, PTL DEF Spec

(* The socket task sees of its channels what SocketListener lets them do:  *)
(* every theorem about SocketListener is one about the client's socket.    *)
THEOREM SocketSeesItsEnvironment == Spec => SocketInItsEnvironment
<1>1. Init => SP!Init
  BY ClientInit
<1>2. ClientInv /\ [Next]_vars => [SP!Next]_SP!vars
  BY StepSeenBySocket
<1>3. Spec => SP!Spec
  BY <1>1, <1>2, ClientInvAlways, PTL DEF Spec, SP!Spec
<1> QED
  BY <1>3, SameSocket DEF SocketInItsEnvironment

(* The channel tasks see of the socket what ChannelListener expects of it: *)
(* every theorem about ChannelListener is one about the client's channels. *)
THEOREM ChannelsSeeTheirEnvironment == Spec => ChannelsInTheirEnvironment
<1>1. Init => CP!Init
  BY ClientInit
<1>2. ClientInv /\ [Next]_vars => [CP!Next]_CP!vars
  BY StepSeenByChannels
<1>3. Spec => CP!Spec
  BY <1>1, <1>2, ClientInvAlways, PTL DEF Spec, CP!Spec
<1> QED
  BY <1>3, SameChannels DEF ChannelsInTheirEnvironment

-----------------------------------------------------------------------------
(***************************************************************************)
(* What a channel makes of what it has been told.                          *)
(***************************************************************************)
(* In these states a channel takes the socket for connected.               *)
Thinking == {"WaitingToJoin", "WaitingToRejoin", "Joining", "Joined", "Leaving", "Left"}
ThinksRight(c) ==
  phase[c] \in Thinking /\ unread[c] = 0 /\ pc # "exited" => state = "Connected"

(* A join whose receivers the channel can have is registered, or there is  *)
(* news for the channel that will make it drop them.                       *)
Answered(r) == outcome[r] = "ok" \/ receiving[r.chan] = r
RegisteredAs(r) ==
  Answered(r) /\ unread[r.chan] = 0 /\ pc # "exited" => joined[r.chan] = r

Told == /\ \A c \in Channel : ThinksRight(c)
        /\ \A r \in RequestsOf({"join"}) : RegisteredAs(r)

(* A channel that can have the receivers of a join is joining or joined.   *)
HoldersJoin ==
  \A r \in RequestsOf({"join"}) :
    /\ r.chan \in Channel /\ r \in Request
    /\ Answered(r) => phase[r.chan] \in {"Joining", "Joined"}

LEMMA HoldersOfJoins == ClientInv => HoldersJoin
<1> SUFFICES ASSUME ClientInv, NEW r \in RequestsOf({"join"}), Answered(r)
             PROVE  phase[r.chan] \in {"Joining", "Joined"}
  BY RequestChan DEF HoldersJoin, RequestsOf, ChanKind
<1>1. r.chan \in Channel /\ r # NoRequest /\ r \in RequestsOf({"join", "leave"}) /\ r \notin RequestsOf({"leave"})
  BY RequestChan, RequestAssumption DEF RequestsOf, ChanKind
<1>2. CASE receiving[r.chan] = r
  BY <1>1, <1>2, ChannelKnows
<1>3. CASE outcome[r] = "ok"
  <2>1. task[r.chan].awaiting = r
    BY <1>1, <1>3, ChannelKnows
  <2> QED
    BY <1>1, <2>1, ChannelKnows
<1> QED
  BY <1>2, <1>3 DEF Answered

LEMMA ToldByInit == ClientInv /\ Init => Told
<1> SUFFICES ASSUME ClientInv, Init PROVE Told
  OBVIOUS
<1>1. \A c \in Channel : phase[c] = "none"
  BY DEF Init, S!Init
<1> QED
  BY <1>1, HoldersOfJoins DEF HoldersJoin, Told, ThinksRight, Thinking, RegisteredAs

LEMMA JoinsSeen ==
  ASSUME NEW r \in RequestsOf({"join"})
  PROVE  /\ r \in SP!RequestsOf({"join"})
         /\ SP!Answered(r) <=> Answered(r)
         /\ SP!Answered(r)' <=> Answered(r)'
<1>1. r \in SocketsRequest /\ r.kind \notin {"call", "cast"}
  BY DEF SocketsRequest, RequestsOf, StateKind, ChanKind
<1> QED
  BY <1>1, KindsOfRequests DEF SP!Answered, Answered, SocketsOutcome, SocketKnows

LEMMA SocketPhases == ASSUME SocketStep PROVE phase' = phase \/ S!DropEverything \/ S!SpawnChannel
<1> USE DEF S!chanVars
<1>1. CASE S!Listener
  BY <1>1, BeginsToWrite DEF S!Listener, S!Connect, S!Disconnect, S!Shutdown, S!TakeStateCommand, S!Reconnect,
    S!SocketConnectOk, S!SocketConnectError, S!Publish, S!Exit, S!Dropped, S!ShutDown, S!StartJoin,
    S!Leave, S!TakeChannelStateCommand, S!Call, S!Cast, S!TakeSendCommand, S!JoinTimedOut,
    S!PushUnblocked, S!Written, S!Await
<1>2. CASE S!Network
  BY <1>2 DEF S!Network, S!Reply, S!NoReply, S!HandlePush, S!ConnectionLost, S!FatalSocketError,
    S!HeartbeatReply
<1> QED
  BY <1>1, <1>2 DEF SocketStep

(* The socket spawns channels, and what it tells them of itself is so; to  *)
(* those that live it does nothing.                                        *)
LEMMA SpawnedRight ==
  ASSUME ClientInv, SocketStep, NEW c \in Channel
  PROVE  /\ Alive(c) => phase'[c] = phase[c]
         /\ ~Alive(c) /\ phase'[c] \in Thinking => state' = "Connected"
<1>1. CASE S!SpawnChannel
  <2>1. state' = state /\ \E p \in {"ShutDown",
               IF state = "Connected" THEN "WaitingToJoin" ELSE "WaitingForSocketToConnect"} :
          phase' = [phase EXCEPT ![Head(spawnQ)] = p]
    BY <1>1 DEF S!SpawnChannel
  <2>2. phase[Head(spawnQ)] \in Unspawned
    <3>1. Head(spawnQ) \in Range(spawnQ) /\ Head(spawnQ) \in Channel
      BY <1>1, ClientTypes, QueueElements, QueueSteps DEF SocketTypes, S!SpawnChannel
    <3> QED
      BY <3>1, PhasesSeen, SameWords DEF ClientInv, SP!SocketInv, SP!SpawnOrder, Unspawned
  <2> QED
    BY <2>1, <2>2, ClientTypes DEF ChannelTypes, Alive, Thinking, Ended, Unspawned
<1>2. CASE phase' = phase
  BY <1>2 DEF Alive, Thinking, Unspawned, Ended
<1>3. CASE S!DropEverything
  BY <1>3 DEF S!DropEverything, Alive, Unspawned, Ended, Thinking
<1> QED
  BY <1>1, <1>2, <1>3, SocketPhases

LEMMA SocketTells ==
  ASSUME ClientInv, Told, SocketStep, Remember, HoldersJoin'
  PROVE  Told'
<1> USE SocketsRequestAssumption, ChannelAssumption, PushAssumption, BoundAssumption,
  ClientStrategyAssumption
<1>1. SP!SocketInv /\ (SP!Listener \/ SP!Network)
  BY SocketStepSeen DEF ClientInv
<1>2. Births
  BY SocketBirths
<1>3. \A c \in Channel : SP!Spawned(c) <=> Alive(c)
  BY PhasesSeen, SameWords DEF SP!Spawned, Alive
<1>4. ASSUME NEW c \in Channel, phase'[c] \in Thinking, unread'[c] = 0, pc' # "exited"
      PROVE  state' = "Connected"
  <2>1. CASE Alive(c)
    <3>1. unread[c] = 0 /\ pc # "exited" /\ (state = "Connected" => state' = "Connected")
      BY <1>1, <1>3, <1>4, <2>1, SP!SpawnedHearOfLoss
    <3>2. phase'[c] = phase[c]
      BY <2>1, SpawnedRight
    <3> QED
      BY <1>4, <3>1, <3>2 DEF Told, ThinksRight
  <2>2. CASE ~Alive(c)
    BY <1>4, <2>2, SpawnedRight
  <2> QED
    BY <2>1, <2>2
<1>5. ASSUME NEW r \in RequestsOf({"join"}), Answered(r)', unread'[r.chan] = 0, pc' # "exited"
      PROVE  joined'[r.chan] = r
  <2>1. r.chan \in Channel /\ phase'[r.chan] \in {"Joining", "Joined"}
    BY <1>5 DEF HoldersJoin
  <2>2. Alive(r.chan)
    BY <1>2, <2>1 DEF Births, Alive, Unspawned, Ended
  <2>3. /\ unread[r.chan] = 0 /\ pc # "exited"
        /\ (Answered(r) => joined[r.chan] = r) => joined'[r.chan] = r
    BY <1>1, <1>3, <1>5, <2>1, <2>2, JoinsSeen, SP!AnsweredStaysRegistered
  <2> QED
    BY <2>3 DEF Told, RegisteredAs
<1> QED
  BY <1>4, <1>5 DEF Told, ThinksRight, RegisteredAs, HoldersJoin

(* What a channel does with its news: it thinks the socket connected only  *)
(* when the last news said so, and has no receivers from before it.        *)
LEMMA NewsTells ==
  ASSUME ClientInv, NEW c \in Channel, Ch!ConnectivityChanged(c)
  PROVE  /\ phase'[c] \in Thinking => connectivity = "Connected"
         /\ phase'[c] \notin {"Joining", "Joined"}
         /\ \A d \in Channel \ {c} : phase'[d] = phase[d] /\ unread'[d] = unread[d]
<1>1. phase \in [Channel -> Phase] /\ unread \in [Channel -> 0..2] /\ phase[c] # "Joining"
  BY ClientTypes DEF ChannelTypes, SocketTypes, Ch!ConnectivityChanged, Ch!NewsReady, Ch!NewsPhase
<1>2. unread' = [unread EXCEPT ![c] = 0]
  BY DEF Ch!ConnectivityChanged
<1>3. CASE Ch!SocketConnected(c)
  BY <1>1, <1>2, <1>3 DEF Ch!SocketConnected, Ch!Enter, Ch!WaitToRejoin, Ch!Stay
<1>4. CASE Ch!SocketDisconnected(c)
  BY <1>1, <1>2, <1>4 DEF Ch!SocketDisconnected, Ch!Enter, Ch!Stay, Thinking
<1>5. CASE Ch!SocketShutdown(c)
  BY <1>1, <1>2, <1>5 DEF Ch!SocketShutdown, Ch!Enter, Thinking
<1> QED
  BY <1>3, <1>4, <1>5 DEF Ch!ConnectivityChanged

(* Without news it comes to think so only from a state in which it did.    *)
ThinksOn(c) ==
  /\ \A d \in Channel \ {c} : phase'[d] = phase[d]
  /\ phase'[c] \in Thinking => phase[c] \in Thinking

LEMMA EnteredThinks ==
  ASSUME ClientInv, NEW c \in Channel, NEW p, p \in Thinking => phase[c] \in Thinking,
         phase' = [phase EXCEPT ![c] = p]
  PROVE  ThinksOn(c)
BY ClientTypes DEF ChannelTypes, ThinksOn

LEMMA TaskTells ==
  ASSUME ClientInv, NEW c \in Channel, Ch!Task(c), ~Ch!Lagged(c), ~Ch!ConnectivityChanged(c)
  PROVE  ThinksOn(c) /\ unread' = unread
<1> USE DEF Ch!userVars
<1>1. ASSUME phase' = phase PROVE ThinksOn(c)
  BY <1>1 DEF ThinksOn
<1>2. CASE Ch!Shutdown(c) \/ Ch!Exit(c)
  BY <1>2, EnteredThinks DEF Ch!Shutdown, Ch!Exit, Ch!End, Ch!Enter, Thinking
<1>3. CASE Ch!JoinedResult(c) \/ Ch!LeftResult(c)
  BY <1>3, EnteredThinks DEF Ch!JoinedResult, Ch!LeftResult, Ch!WaitToRejoin, Ch!End, Ch!Enter, Thinking
<1>4. CASE Ch!JoinTooLate(c) \/ Ch!JoinAgain(c) \/ Ch!LeaveAgain(c)
  <2>1. phase[c] \in Thinking /\ unread' = unread
    BY <1>4 DEF Ch!JoinTooLate, Ch!JoinAgain, Ch!LeaveAgain, Ch!TakeCommand, Ch!CommandPhase, Thinking
  <2>2. phase' = phase \/ \E p : phase' = [phase EXCEPT ![c] = p]
    BY <1>4 DEF Ch!JoinTooLate, Ch!JoinAgain, Ch!LeaveAgain, Ch!WaitToRejoin, Ch!Enter, Ch!Stay
  <2> QED
    BY <1>1, <2>1, <2>2, EnteredThinks
<1>5. CASE (\E r \in Request : Ch!Rejoin(c, r) \/ Ch!Join(c, r) \/ Ch!Leave(c, r)) \/ Ch!TakeSend(c)
  BY <1>1, <1>5 DEF Ch!Rejoin, Ch!Join, Ch!Leave, Ch!TakeCommand, Ch!TakeSend
<1>6. CASE Ch!PushReceived(c)
  BY <1>1, <1>6, EnteredThinks DEF Ch!PushReceived, Ch!WaitToRejoin, Ch!Enter, Thinking
<1>7. CASE Ch!Submit(c)
  <2>1. unread' = unread /\ Ch!Busy(c) /\ (Ch!SubmitLeave(c) \/ Ch!SubmitJoin(c) \/ Ch!SubmitSend(c))
    BY <1>7 DEF Ch!Submit
  <2>2. CASE Ch!SubmitSend(c)
    BY <1>1, <2>1, <2>2 DEF Ch!SubmitSend
  <2>3. CASE Ch!SubmitLeave(c) \/ Ch!SubmitJoin(c)
    <3>1. phase[c] \in Thinking
      BY <2>1, <2>3, ChannelKnows DEF Ch!SubmitLeave, Ch!SubmitJoin, Thinking
    <3> QED
      BY <2>1, <2>3, <3>1, EnteredThinks DEF Ch!SubmitLeave, Ch!SubmitJoin
  <2> QED
    BY <2>1, <2>2, <2>3
<1>8. CASE Ch!SubmitFails(c)
  BY <1>1, <1>8, EnteredThinks DEF Ch!SubmitFails, Ch!End, Ch!Enter, Thinking
<1> QED
  BY <1>2, <1>3, <1>4, <1>5, <1>6, <1>7, <1>8 DEF Ch!Task

(* A step of a client that leaves the socket alone answers no join.        *)
LEMMA NoJoinAnswered ==
  ASSUME ClientInv, [SP!Clients]_SP!vars, NEW r \in RequestsOf({"join"}), Answered(r)'
  PROVE  Answered(r)
BY JoinsSeen, SP!ClientsAnswerNoJoin, SocketsRequestAssumption, ChannelAssumption, PushAssumption,
  BoundAssumption, ClientStrategyAssumption DEF ClientInv, SP!SocketInv

LEMMA ChannelTells ==
  ASSUME ClientInv, Told, ChannelStep, Remember, HoldersJoin'
  PROVE  Told'
<1>1. UNCHANGED <<pc, state, joined>> /\ \E c \in Channel : Ch!Task(c)
  BY DEF ChannelStep, socketOnly
<1>2. PICK c \in Channel : Ch!Task(c)
  BY <1>1
<1>3. \A r \in RequestsOf({"join"}) : Answered(r)' => Answered(r) /\ phase'[r.chan] \in {"Joining", "Joined"}
  BY ChannelStepSeen, NoJoinAnswered DEF HoldersJoin
<1>4. \A r \in RequestsOf({"join"}) : r.chan \in Channel
  BY DEF HoldersJoin
<1>5. CASE Ch!ConnectivityChanged(c)
  <2>1. connectivity = "Connected" /\ pc # "exited" => state = "Connected"
    BY DEF ClientInv, SP!SocketInv, SP!ConnectivityFollows
  <2> QED
    BY <1>1, <1>3, <1>4, <1>5, <2>1, NewsTells DEF Told, ThinksRight, RegisteredAs
<1>6. CASE Ch!Lagged(c)
  <2>1. phase' = phase /\ unread' = [unread EXCEPT ![c] = 1] /\ unread \in [Channel -> 0..2]
    BY <1>6, ClientTypes DEF Ch!Lagged, SocketTypes
  <2>2. \A d \in Channel : unread'[d] = 0 => unread[d] = 0
    BY <2>1
  <2> QED
    BY <1>1, <1>3, <1>4, <2>1, <2>2 DEF Told, ThinksRight, RegisteredAs
<1>7. CASE ~Ch!Lagged(c) /\ ~Ch!ConnectivityChanged(c)
  <2>1. unread' = unread /\ \A d \in Channel : phase'[d] \in Thinking => phase[d] \in Thinking
    BY <1>2, <1>7, TaskTells DEF ThinksOn
  <2> QED
    BY <1>1, <1>3, <1>4, <2>1 DEF Told, ThinksRight, RegisteredAs
<1> QED
  BY <1>5, <1>6, <1>7

LEMMA UserTells ==
  ASSUME ClientInv, Told, SocketUser \/ ChannelUser, Remember, HoldersJoin'
  PROVE  Told'
<1>1. UNCHANGED <<pc, state, joined, unread>> /\ \A c \in Channel : phase'[c] \in Thinking => phase[c] \in Thinking
  <2>1. CASE SocketUser
    <3>1. UNCHANGED <<pc, state, joined, unread>>
      BY <2>1 DEF SocketUser, S!SubmitState, S!TakeAnswer, S!GiveUp, S!RequestChannel, S!socketVars,
        S!castVars, S!connVars
    <3>2. phase' = phase \/ \E c \in Channel : phase' = [phase EXCEPT ![c] = "Requested"]
      BY <2>1 DEF SocketUser, S!SubmitState, S!TakeAnswer, S!GiveUp, S!RequestChannel, S!chanVars
    <3> QED
      BY <3>1, <3>2, ClientTypes DEF ChannelTypes, Thinking
  <2>2. CASE ChannelUser
    BY <2>2 DEF ChannelUser, socketOnly, Ch!UserCommand, Ch!UserSend, Ch!UserReads, Ch!UserShutdown
  <2> QED
    BY <2>1, <2>2
<1>2. [SP!Clients]_SP!vars
  BY SocketUserSeen, ChannelUserSeen
<1>3. \A r \in RequestsOf({"join"}) : Answered(r)' => Answered(r)
  BY <1>2, NoJoinAnswered
<1> QED
  BY <1>1, <1>3 DEF Told, ThinksRight, RegisteredAs, HoldersJoin

LEMMA ToldStep == ClientInv /\ Told /\ HoldersJoin' /\ [Next]_vars => Told'
<1> SUFFICES ASSUME ClientInv, Told, HoldersJoin', [Next]_vars PROVE Told'
  OBVIOUS
<1>1. CASE UNCHANGED vars
  BY <1>1 DEF vars, socketOnly, shared, Told, ThinksRight, RegisteredAs, Answered
<1> QED
  BY <1>1, SocketTells, ChannelTells, UserTells DEF Next

LEMMA ToldAlways == Spec => []Told
<1>1. ClientInv' => HoldersJoin'
  BY HoldersOfJoins, PTL
<1>2. ClientInv /\ ClientInv' /\ Told /\ [Next]_vars => Told'
  BY <1>1, ToldStep
<1> QED
  BY <1>2, ToldByInit, ClientInvAlways, PTL DEF Spec

(* A channel that acts as if the socket were connected is right, unless it *)
(* has news to read: the broadcast of capacity 1, whose old values a slow  *)
(* channel misses, never leaves it with a wrong idea of the socket.        *)
THEOREM ChannelsThinkRight == Spec => []ConnectedAsTheyThink
<1>1. Told => ConnectedAsTheyThink
  BY DEF Told, ThinksRight, Thinking, ConnectedAsTheyThink
<1> QED
  BY <1>1, ToldAlways, PTL

(* A joined channel has its pushes coming: the socket has registered the   *)
(* senders of the receivers the channel holds, whatever joins it was asked *)
(* for before, or the channel has news to read and will rejoin.            *)
THEOREM JoinedChannelsAreRegistered == Spec => []JoinedIsRegistered
<1>1. ClientInv /\ Told => JoinedIsRegistered
  <2> SUFFICES ASSUME ClientInv, Told, NEW c \in Channel, phase[c] = "Joined", pc # "exited"
               PROVE  joined[c] = receiving[c] \/ unread[c] > 0
    BY DEF JoinedIsRegistered
  <2>1. receiving[c] # NoRequest
    BY ChannelKnows
  <2>2. receiving[c] \in RequestsOf({"join"}) /\ receiving[c].chan = c
    BY <2>1, ClientTypes DEF SocketTypes, JoinOrNone, ClientInv, SP!SocketInv, SP!LastInv, SP!OneLast
  <2>3. unread[c] \in 0..2
    BY ClientTypes DEF SocketTypes
  <2> QED
    BY <2>2, <2>3 DEF Told, RegisteredAs, Answered
<1> QED
  BY <1>1, ToldAlways, ClientInvAlways, PTL

-----------------------------------------------------------------------------
(***************************************************************************)
(* Callers of call are told how it ended                                   *)
(***************************************************************************)
(* A channel that runs drops no call, but at its own end.                  *)
LEMMA CallsOfTask ==
  ASSUME ClientInv, pc # "exited", NEW c \in Channel, Ch!Task(c),
         NEW r \in RequestsOf({"call"}), outcome[r] = "pending", outcome'[r] = "dropped"
  PROVE  phase'[r.chan] \in Ended
<1> USE DEF Ch!userVars
<1>1. /\ r \in Request /\ r \in Sends /\ r.kind \notin UserKind
      /\ task[c].awaiting \notin Sends /\ phase \in [Channel -> Phase]
  BY ClientTypes, RequestAssumption DEF ChannelTypes, TaskFields, Sends, RequestsOf, UserKind
<1>2. \A out : /\ Ch!Release(out, {task[c].awaiting}) = [q \in Request |-> Ch!Release(out, {task[c].awaiting})[q]]
                 /\ Ch!Release(out, {task[c].awaiting})[r] = out[r]
  <2>1. \A out : Ch!Release(out, {task[c].awaiting}) = Release(out, {task[c].awaiting})
    BY AnswersSeen
  <2>2. \A out : /\ Release(out, {task[c].awaiting}) = [q \in Request |-> Release(out, {task[c].awaiting})[q]]
                 /\ Release(out, {task[c].awaiting})[r] = out[r]
    BY <1>1 DEF Release
  <2> QED
    BY <2>1, <2>2
<1>3. ASSUME NEW out, Tells(out, {}) PROVE out[r] # "dropped"
  BY <1>1, <1>3 DEF Tells
<1>4. ASSUME NEW p, NEW n, NEW out, Ch!Enter(c, p, n, out) PROVE outcome'[r] = out[r] /\ phase'[c] = p
  <2>1. outcome' = Release(Answer(out, Ch!Waiters(c), "dropped"), {task[c].awaiting})
    BY <1>4, AnswersSeen DEF Ch!Enter
  <2>2. r \notin Ch!Waiters(c)
    BY <1>1, TellsMore
  <2> QED
    BY <1>1, <1>4, <2>1, <2>2 DEF Release, Answer, Ch!Enter
<1>5. ASSUME NEW p, NEW n, NEW out, Tells(out, {}), Ch!Enter(c, p, n, out) PROVE FALSE
  BY <1>3, <1>4, <1>5
<1>6. ASSUME NEW p \in Ended, NEW out, Tells(out, {}), Ch!End(c, p, out) PROVE phase'[r.chan] \in Ended
  <2> DEFINE R == Ch!UserHeld(c) \cup {task[c].busy}
  <2>1. Ch!Enter(c, p, Ch!NoRejoin, Ch!Answer(out, R, "dropped"))
    BY <1>6 DEF Ch!End
  <2>2. Answer(out, R, "dropped")[r] = "dropped" /\ phase'[c] = p
    BY <1>4, <2>1, AnswersSeen
  <2>3. r \in R
    BY <1>1, <1>3, <1>6, <2>2 DEF Answer
  <2>4. r.chan = c
    BY <1>1, <2>3, TellsMore, ChannelKnows, RequestAssumption
  <2> QED
    BY <2>2, <2>4
<1>7. ~(outcome' = outcome) /\ Tells(outcome, {})
  BY TellsMore
<1>8. CASE Ch!Shutdown(c) \/ Ch!Exit(c)
  <2>1. Tells(Ch!Answer(outcome, Ch!Waiters(c), "shutdown"), {})
    BY TellsMore
  <2> QED
    BY <1>5, <1>6, <1>7, <1>8, <2>1 DEF Ch!Shutdown, Ch!Exit, Ended
<1>9. CASE Ch!Lagged(c) \/ Ch!ConnectivityChanged(c)
  <2>1. Tells(Ch!NewsAnswer(c), {})
    BY TellsMore DEF Ch!NewsAnswer, Ch!Waiters
  <2> QED
    BY <1>5, <1>7, <1>9, <2>1 DEF Ch!Lagged, Ch!ConnectivityChanged, Ch!SocketConnected,
      Ch!SocketDisconnected, Ch!SocketShutdown, Ch!WaitToRejoin
<1>10. CASE Ch!JoinedResult(c) \/ Ch!LeftResult(c)
  <2>1. \A o, R : R \in {task[c].joiners, task[c].leavers} => Tells(Ch!Answer(outcome, R, o), {})
    BY TellsMore DEF Ch!Waiters
  <2>2. outcome' # Ch!Release(Ch!Answer(outcome, task[c].joiners, "ok"), {task[c].awaiting})
    <3>1. Ch!Answer(outcome, task[c].joiners, "ok")[r] # "dropped"
      BY <1>3, <2>1
    <3> QED
      BY <1>2, <3>1
  <2> QED
    BY <1>5, <1>6, <1>10, <2>1, <2>2 DEF Ch!JoinedResult, Ch!LeftResult, Ch!WaitToRejoin, Ended
<1>11. CASE Ch!JoinTooLate(c) \/ Ch!JoinAgain(c) \/ Ch!LeaveAgain(c)
  <2>1. Head(commands[c]) \in Range(commands[c])
    BY <1>11, ClientTypes, QueueElements
    DEF Ch!JoinTooLate, Ch!JoinAgain, Ch!LeaveAgain, Ch!TakeCommand, ChannelTypes
  <2>2. \A o : Tells(Ch!Answer(outcome, {Head(commands[c])}, o), {})
    BY <2>1, TellsMore
  <2>3. ~Tells(outcome', {})
    BY <1>3
  <2> QED
    BY <1>5, <1>7, <1>11, <2>2, <2>3 DEF Ch!JoinTooLate, Ch!JoinAgain, Ch!LeaveAgain, Ch!WaitToRejoin
<1>12. CASE Ch!TakeSend(c) \/ Ch!PushReceived(c) \/ \E q \in Request : Ch!Rejoin(c, q) \/ Ch!Join(c, q) \/ Ch!Leave(c, q)
  BY <1>5, <1>7, <1>12 DEF Ch!TakeSend, Ch!PushReceived, Ch!Rejoin, Ch!Join, Ch!Leave, Ch!WaitToRejoin
<1>13. CASE Ch!Submit(c)
  <2>1. \A o, R : R \in {task[c].joiners, task[c].leavers} => Tells(Ch!Answer(outcome, R, o), {})
    BY TellsMore DEF Ch!Waiters
  <2>2. CASE Ch!SubmitLeave(c)
    <3>1. Ch!Answer(outcome, task[c].joiners, "leaving")[r] # "dropped"
      BY <1>3, <2>1
    <3>2. Ch!Release(Ch!Answer(outcome, task[c].joiners, "leaving"), {task[c].awaiting})[r] # "dropped"
      BY <1>2, <3>1
    <3>3. outcome' = [Ch!Release(Ch!Answer(outcome, task[c].joiners, "leaving"), {task[c].awaiting})
                        EXCEPT ![task[c].busy] = "pending"]
      BY <2>2 DEF Ch!SubmitLeave
    <3> QED
      BY <1>2, <1>1, <3>2, <3>3
  <2>3. CASE Ch!SubmitJoin(c)
    <3>1. Ch!Answer(outcome, task[c].leavers, "joining")[r] # "dropped"
      BY <1>3, <2>1
    <3>2. Ch!Release(Ch!Answer(outcome, task[c].leavers, "joining"), {task[c].awaiting})[r] # "dropped"
      BY <1>2, <3>1
    <3>3. outcome' = [Ch!Release(Ch!Answer(outcome, task[c].leavers, "joining"), {task[c].awaiting})
                        EXCEPT ![task[c].busy] = "pending"]
      BY <2>3 DEF Ch!SubmitJoin
    <3> QED
      BY <1>2, <1>1, <3>2, <3>3
  <2>4. CASE Ch!SubmitSend(c)
    BY <1>7, <2>4 DEF Ch!SubmitSend
  <2> QED
    BY <1>13, <2>2, <2>3, <2>4 DEF Ch!Submit
<1>14. ~Ch!SubmitFails(c)
  BY DEF Ch!SubmitFails
<1> QED
  BY <1>8, <1>9, <1>10, <1>11, <1>12, <1>13, <1>14 DEF Ch!Task

(* A socket that runs drops no call that went on to it.                    *)
LEMMA CallsOfSocket ==
  ASSUME ClientInv, ClientInv', SP!DroppedOnlyAtExit', SocketStep, Remember,
         NEW r \in RequestsOf({"call"}), outcome[r] = "pending", outcome'[r] = "dropped"
  PROVE  pc' = "exited"
<1>1. r \in Request /\ r # NoRequest /\ r.kind = "call" /\ r \in Sends
  BY RequestAssumption DEF RequestsOf, Sends
<1>2. r \in S!Held
  BY <1>1, SocketAnswering DEF Answering
<1>3. r \notin InChannels /\ r \in forwarded
  BY <1>1, <1>2 DEF ClientInv, Link, Apart, SocketHas, GoneOn
<1>4. r \in forwarded'
  <2>1. InChannels' = InChannels
    BY DEF SocketStep, channelOnly, InChannels
  <2> QED
    BY <1>3, <2>1 DEF Remember
<1>5. r \in SocketsRequest /\ SocketsOutcome'[r] = "dropped"
  BY <1>1, <1>4 DEF SocketsRequest, RequestsOf, StateKind, ChanKind, SocketsOutcome, SocketKnows
<1> QED
  BY <1>1, <1>5 DEF SP!DroppedOnlyAtExit, SP!RequestsOf

(* A caller of call is told how it ended, whichever task has its oneshot:  *)
(* the channel it asked and the socket drop it at their own ends only.     *)
THEOREM CallersAreTold == Spec => CallersTold
<1> DEFINE Kept == \A r \in RequestsOf({"call"}) :
             outcome[r] = "pending" /\ outcome'[r] = "dropped" =>
               pc' = "exited" \/ phase'[r.chan] \in Ended
<1>1. ASSUME ClientInv, ClientInv', SP!DroppedOnlyAtExit', [Next]_vars PROVE Kept
  <2> SUFFICES ASSUME NEW r \in RequestsOf({"call"}), outcome[r] = "pending", outcome'[r] = "dropped"
               PROVE  pc' = "exited" \/ phase'[r.chan] \in Ended
    OBVIOUS
  <2>1. CASE SocketStep /\ Remember
    BY <1>1, <2>1, CallsOfSocket
  <2>2. CASE ChannelStep
    BY <1>1, <2>2, CallsOfTask DEF ChannelStep, socketOnly
  <2>3. CASE SocketUser \/ ChannelUser
    <3>1. \/ UNCHANGED outcome
          \/ \E q \in Request, o \in {"pending", "free"} : outcome' = [outcome EXCEPT ![q] = o]
      BY <2>3 DEF SocketUser, ChannelUser, S!SubmitState, S!TakeAnswer, S!GiveUp, S!RequestChannel,
        Ch!UserCommand, Ch!UserSend, Ch!UserReads, Ch!UserShutdown, RequestsOf
    <3>2. outcome = [q \in Request |-> outcome[q]] /\ r \in Request
      BY <1>1 DEF ClientInv, Link, RequestsOf
    <3> QED
      BY <3>1, <3>2
  <2>4. CASE UNCHANGED vars
    BY <2>4 DEF vars, shared
  <2> QED
    BY <1>1, <2>1, <2>2, <2>3, <2>4 DEF Next
<1>2. ClientInv /\ ClientInv' /\ SP!DroppedOnlyAtExit' /\ [Next]_vars => [Kept]_vars
  BY <1>1
<1>3. Spec => []SP!DroppedOnlyAtExit
  <2>1. Spec => SP!Spec
    BY SocketSeesItsEnvironment, SameSocket DEF SocketInItsEnvironment
  <2>2. SP!Spec => []SP!DroppedOnlyAtExit
    BY SP!CallersDroppedOnlyAtExit, SocketsRequestAssumption, ChannelAssumption, PushAssumption,
      BoundAssumption, ClientStrategyAssumption
  <2> QED
    BY <2>1, <2>2, PTL
<1> QED
  BY <1>2, <1>3, ClientInvAlways, PTL DEF Spec, CallersTold, Kept

-----------------------------------------------------------------------------
(***************************************************************************)
(* What is proved of each task alone holds of it in the client.            *)
(***************************************************************************)
(* The socket of the client keeps what SocketListener promises, to its     *)
(* channels as they are: what is registered dies with the connection, who  *)
(* waits for a frame is told how it ended, joins have deadlines, calls get *)
(* the answers to their own frames, and its status is its state unless it  *)
(* is about to publish it.                                                 *)
THEOREM SocketKeepsItsWord ==
  Spec => /\ []AsSocket!RegistrationsScoped /\ []AsSocket!DroppedOnlyAtExit
          /\ []AsSocket!JoinsHaveDeadlines /\ []AsSocket!StatusFollowsState
          /\ AsSocket!SentAreTold /\ AsSocket!CallAnsweredByOwnReply
<1> USE SocketsRequestAssumption, ChannelAssumption, PushAssumption, BoundAssumption,
        ClientStrategyAssumption
<1>1. Spec => SP!Spec
  BY SocketSeesItsEnvironment, SameSocket DEF SocketInItsEnvironment
<1>2. SP!Spec => []SP!RegistrationsScoped
  BY SP!RegistrationsDieWithConnection
<1>3. SP!Spec => []SP!DroppedOnlyAtExit
  BY SP!CallersDroppedOnlyAtExit
<1>4. SP!Spec => SP!SentAreTold
  BY SP!WaitersAreTold
<1>5. SP!Spec => []SP!JoinsHaveDeadlines
  BY SP!EveryJoinHasDeadline
<1>6. SP!Spec => []SP!StatusFollowsState
  BY SP!StatusIsCurrent
<1>7. SP!Spec => SP!CallAnsweredByOwnReply
  BY SP!CallsAnsweredByOwnReply
<1>8. /\ SP!RegistrationsScoped <=> AsSocket!RegistrationsScoped
      /\ SP!DroppedOnlyAtExit <=> AsSocket!DroppedOnlyAtExit
      /\ SP!JoinsHaveDeadlines <=> AsSocket!JoinsHaveDeadlines
      /\ SP!StatusFollowsState <=> AsSocket!StatusFollowsState
  BY SameSocketData
  DEF SP!RegistrationsScoped, AsSocket!RegistrationsScoped, SP!DroppedOnlyAtExit,
    AsSocket!DroppedOnlyAtExit, SP!JoinsHaveDeadlines, AsSocket!JoinsHaveDeadlines, SP!StatusFollowsState,
    AsSocket!StatusFollowsState, SP!StateKind, AsSocket!StateKind
<1>9. UNCHANGED SP!vars <=> UNCHANGED AsSocket!vars
  BY DEF SP!vars, SP!connVars, SP!queueVars, SP!backVars, SP!chanVars,
    SP!pushVars, SP!castVars, AsSocket!vars, AsSocket!connVars,
    AsSocket!queueVars, AsSocket!backVars, AsSocket!chanVars, AsSocket!pushVars,
    AsSocket!castVars
<1>10. [\A r \in SP!RequestsOf({"call"}) :
          SocketsOutcome[r] = "pending" /\ SocketsOutcome'[r] \in {"ok", "rejected"}
            => r \in sent[r.chan] /\ r \notin sent'[r.chan]]_SP!vars
       <=> [\A r \in AsSocket!RequestsOf({"call"}) :
              SocketsOutcome[r] = "pending" /\ SocketsOutcome'[r] \in {"ok", "rejected"}
                => r \in sent[r.chan] /\ r \notin sent'[r.chan]]_AsSocket!vars
  <2>1. SP!RequestsOf({"call"}) = AsSocket!RequestsOf({"call"})
    BY SameSocketData
  <2> QED
    BY <1>9, <2>1
<1>11. [\A r \in SP!RequestsOf({"join", "call"}) :
          SocketsOutcome[r] = "pending" /\ SocketsOutcome'[r] = "dropped" =>
            pc' = "exited" \/ (pc = "writing_state" /\ Head(chanStateQ) = r)]_SP!vars
       <=> [\A r \in AsSocket!RequestsOf({"join", "call"}) :
              SocketsOutcome[r] = "pending" /\ SocketsOutcome'[r] = "dropped" =>
                pc' = "exited" \/ (pc = "writing_state" /\ Head(chanStateQ) = r)]_AsSocket!vars
  <2>1. SP!RequestsOf({"join", "call"}) = AsSocket!RequestsOf({"join", "call"})
    BY SameSocketData
  <2> QED
    BY <1>9, <2>1
<1> QED
  BY <1>1, <1>2, <1>3, <1>4, <1>5, <1>6, <1>7, <1>8, <1>10, <1>11, PTL
  DEF SP!CallAnsweredByOwnReply, AsSocket!CallAnsweredByOwnReply, SP!SentAreTold, AsSocket!SentAreTold

(* The channels of the client keep what ChannelListener promises, over the *)
(* socket as it is: they wait for an answer that can come, their callers   *)
(* are told; one join or leave is under way; attempts are counted on.      *)
THEOREM ChannelsKeepTheirWord ==
  Spec => /\ []AsChannels!WaitsForLiveAnswer /\ []AsChannels!OneUnderWay
          /\ AsChannels!JoinersTold /\ AsChannels!LeaversTold
          /\ AsChannels!RejoinBacksOff
<1> USE ChannelsRequestAssumption, ChannelAssumption, PushAssumption, BoundAssumption
<1>1. Spec => CP!Spec
  BY ChannelsSeeTheirEnvironment, SameChannels DEF ChannelsInTheirEnvironment
<1>2. CP!Spec => CP!JoinersTold
  BY CP!JoinersAreTold
<1>3. CP!Spec => []CP!WaitsForLiveAnswer
  BY CP!WaitingEnds
<1>4. CP!Spec => []CP!OneUnderWay
  BY CP!OneAtATime
<1>5. CP!Spec => CP!LeaversTold
  BY CP!LeaversAreTold
<1>6. CP!Spec => CP!RejoinBacksOff
  BY CP!AttemptsKeepCounting
<1>7. /\ CP!WaitsForLiveAnswer <=> AsChannels!WaitsForLiveAnswer
      /\ CP!OneUnderWay <=> AsChannels!OneUnderWay
  BY SameChannelsData
  DEF CP!WaitsForLiveAnswer, AsChannels!WaitsForLiveAnswer, CP!OneUnderWay, AsChannels!OneUnderWay,
    CP!Busy, AsChannels!Busy
<1>8. UNCHANGED CP!vars <=> UNCHANGED AsChannels!vars
  BY DEF CP!vars, CP!socketVars, CP!privateVars, CP!userVars,
    AsChannels!vars, AsChannels!socketVars, AsChannels!privateVars, AsChannels!userVars
<1>9. [\A u \in CP!RequestsOf({"channel_leave"}) :
         ChannelsOutcome[u] = "pending" /\ ChannelsOutcome'[u] = "dropped" =>
           \/ phase'[u.chan] \in CP!Ended
           \/ phase[u.chan] = "Leaving" /\ phase'[u.chan] = "WaitingToRejoin"]_CP!vars
      <=> [\A u \in AsChannels!RequestsOf({"channel_leave"}) :
             ChannelsOutcome[u] = "pending" /\ ChannelsOutcome'[u] = "dropped" =>
               \/ phase'[u.chan] \in AsChannels!Ended
               \/ phase[u.chan] = "Leaving" /\ phase'[u.chan] = "WaitingToRejoin"]_AsChannels!vars
  BY <1>8, SameChannelsData DEF CP!Ended, AsChannels!Ended
<1>10. [\A c \in Channel : CP!NoRejoin \notin {task[c].rejoin, task'[c].rejoin} =>
          /\ task'[c].rejoin >= task[c].rejoin
          /\ phase[c] = "Joining" /\ phase'[c] = "WaitingToRejoin" =>
               task'[c].rejoin > task[c].rejoin \/ task[c].rejoin = MaxAttempts]_CP!vars
       <=> [\A c \in Channel : AsChannels!NoRejoin \notin {task[c].rejoin, task'[c].rejoin} =>
              /\ task'[c].rejoin >= task[c].rejoin
              /\ phase[c] = "Joining" /\ phase'[c] = "WaitingToRejoin" =>
                   task'[c].rejoin > task[c].rejoin \/ task[c].rejoin = MaxAttempts]_AsChannels!vars
  BY <1>8 DEF CP!NoRejoin, AsChannels!NoRejoin
<1>11. [\A u \in CP!RequestsOf({"channel_join"}) :
          ChannelsOutcome[u] = "pending" /\ ChannelsOutcome'[u] = "dropped" =>
            \/ phase'[u.chan] \in CP!Ended
            \/ u \in CP!Range(commands[u.chan]) /\ phase'[u.chan] = "WaitingToRejoin"]_CP!vars
       <=> [\A u \in AsChannels!RequestsOf({"channel_join"}) :
              ChannelsOutcome[u] = "pending" /\ ChannelsOutcome'[u] = "dropped" =>
                \/ phase'[u.chan] \in AsChannels!Ended
                \/ u \in AsChannels!Range(commands[u.chan]) /\ phase'[u.chan] = "WaitingToRejoin"]_AsChannels!vars
  BY <1>8, SameChannelsData DEF CP!Ended, AsChannels!Ended
<1> QED
  BY <1>1, <1>2, <1>3, <1>4, <1>5, <1>6, <1>7, <1>9, <1>10, <1>11, PTL
  DEF CP!JoinersTold, AsChannels!JoinersTold, CP!LeaversTold, AsChannels!LeaversTold, CP!RejoinBacksOff, AsChannels!RejoinBacksOff
=============================================================================
