--------------------------- MODULE SocketListener ---------------------------
(***************************************************************************)
(* The task behind a Phoenix `Socket` (src/rust/socket/listener.rs).       *)
(*                                                                         *)
(* One tokio task owns the web socket.  It selects, without bias, between  *)
(* the frames of the server, four bounded command queues, the join timers  *)
(* and the heartbeat; a handler runs to its end before the next select.    *)
(* A handler that sends a frame or closes the web socket waits for as long *)
(* as the peer does not read.  A command stays at the head of its queue    *)
(* while its handler waits, and the queue has room for one more meanwhile. *)
(* The channel tasks that use the socket are the environment here;         *)
(* module PhoenixClient puts the real ones in its place.                   *)
(***************************************************************************)
EXTENDS PhoenixCommands

CONSTANTS HasStrategy,  \* whether the user gave a ReconnectStrategy
          Strategy      \* the sleep it asks for after each attempt

ASSUME StrategyAssumption ==
  /\ HasStrategy \in BOOLEAN
  /\ Strategy \in [0..MaxAttempts -> Nat]

VARIABLES
  pc,           \* where the task is: in its select, or at an await of a handler
  state,        \* Listener::state
  status,       \* the status users observe: ObservableStatus<Status>
  attempts,     \* Reconnect::attempts while waiting to reconnect
  delay,        \* the multiplier of connect_timeout of the sleep under way
  serving,      \* the connect command socket_connect is working for
  stateQ,       \* state_command queue
  spawnQ,       \* channel_spawn queue
  chanStateQ,   \* channel_state_command queue
  sendQ,        \* channel_send_command queue
  joins,        \* join_by_reference_by_topic: the pending joined_tx of a channel
  timers,       \* join_timeouts: joins whose deadline has not been reached
  joined,       \* joined_channel_txs_by_join_reference_by_topic: the join that made them
  replies,      \* reply_tx_by_reference_by_join_reference_by_topic
  heartbeat,    \* whether sent_heartbeat_reference is Some
  connectivity, \* the last value sent on the connectivity broadcast
  unread,       \* per subscriber: 0 nothing, 1 the last value, 2 Lagged, then the last value
  outcome,      \* what the receiving half of a oneshot holds
  receiving,    \* the join whose JoinedChannelReceivers a channel task holds
  pushQ,        \* the push queue of the receivers a channel has
  blocked,      \* the push a handler is waiting to put into a full pushQ
  phase,        \* state of the channel task
  sent          \* per channel: frames the server has not answered

connVars  == <<joins, timers, joined, replies, heartbeat, sent>>
queueVars == <<stateQ, spawnQ, chanStateQ, sendQ>>
backVars  == <<attempts, delay>>
chanVars  == <<receiving, phase>>
pushVars  == <<pushQ, blocked>>
castVars  == <<connectivity, unread>>
vars == <<pc, state, status, serving, backVars, queueVars, connVars, castVars,
          outcome, chanVars, pushVars>>

SocketState == {"NeverConnected", "Connected", "WaitingToReconnect",
                "Disconnected", "ShuttingDown", "ShutDown"}
\* Mutant: the select of WaitingToReconnect has no branch for state commands.
PollingStateNotWaiting == {"NeverConnected", "Connected", "Disconnected"}
PollingState == {"NeverConnected", "Connected", "WaitingToReconnect", "Disconnected"}

(* The awaits that only the peer can end: for a command of the head of     *)
(* channel_state_command or channel_send_command, for the heartbeat and    *)
(* for a pong, and at the end of a connection, of a disconnect or shutdown *)
(* at the head of state_command or of the close frame of the server.       *)
Writing == {"writing_state", "writing_send", "writing_heartbeat", "writing_pong",
            "closing", "answering_close"}

(***************************************************************************)
(* Helpers                                                                 *)
(***************************************************************************)
PendingJoins == {joins[c] : c \in Channel} \ {NoRequest}
QueuedRequests == Range(stateQ) \cup Range(chanStateQ) \cup Range(sendQ)
ServerBacklog == UNION {sent[c] : c \in Channel}

(* send of a command queue: a place is free, or its reader has just taken  *)
(* the command at its head.                                                *)
Room(q, taken) == Len(q) < QueueCap + (IF pc = taken THEN 1 ELSE 0)

(* Where the sending half of a oneshot may be held.                        *)
Held == QueuedRequests \cup {serving} \cup PendingJoins \cup replies

(* A oneshot that nothing remembers can be made again under its name.      *)
Fresh(r) ==
  /\ outcome[r] = "free"
  /\ r \notin Held \cup timers \cup ServerBacklog
  /\ \A c \in Channel : r # joined[c] /\ r # receiving[c]

\* Mutant: every value is kept, however slow the subscriber.
BroadcastUnbounded(v) ==
  /\ connectivity' = v
  /\ unread' = [c \in Channel |-> IF phase[c] \in Unspawned \cup Ended THEN unread[c]
                                  ELSE unread[c] + 1]

(* connectivity_tx.send: capacity 1, so a second unread value is a lag.    *)
Broadcast(v) ==
  /\ connectivity' = v
  /\ unread' = [c \in Channel |-> IF phase[c] \in Unspawned \cup Ended THEN unread[c]
                                  ELSE SmallerOf(unread[c] + 1, 2)]

(* The receivers of c's registered join are alive: the channel task holds  *)
(* them, or they lie unread in the oneshot of the join.                    *)
ReceiverAlive(c) == /\ joined[c] # NoRequest
                    /\ receiving[c] = joined[c] \/ outcome[joined[c]] = "ok"

SleepAfterFailure(n) == IF HasStrategy THEN Strategy[n] ELSE SleepMultiplier(n)

\* Mutant: the error of a connect that timed out is lost with its sender.
ConnectErrorsLost == {"error", "dropped"}
ConnectErrors == {"error", "timeout"}

\* Mutant: one timer is thought enough for a topic and join reference.
ArmTimeoutOnce(r) ==
  timers' = IF \E t \in timers : t.chan = r.chan THEN timers ELSE timers \cup {r}
(* join_timeouts.push: a timer of its own for every join sent.             *)
ArmTimeout(r) == timers' = timers \cup {r}

\* Mutant: the senders of joined channels outlive the connection.
EmptyMapsButJoined ==
  /\ joins' = [c \in Channel |-> NoRequest]
  /\ timers' = {} /\ replies' = {} /\ heartbeat' = FALSE
  /\ sent' = [c \in Channel |-> {}]
  /\ UNCHANGED joined
(* A fresh Connected value, and the end of one: every map starts empty.    *)
EmptyMaps ==
  /\ joins' = [c \in Channel |-> NoRequest]
  /\ timers' = {}
  /\ joined' = [c \in Channel |-> NoRequest]
  /\ replies' = {}
  /\ heartbeat' = FALSE
  /\ sent' = [c \in Channel |-> {}]

AtSelect == pc = "select"
Polling  == AtSelect /\ state \in PollingState
Online   == AtSelect /\ state = "Connected"

(* A handler with the connection in its hands awaits its end of a write.   *)
Await(w) ==
  /\ Online
  /\ pc' = w
  /\ UNCHANGED <<state, status, serving, backVars, queueVars, connVars, castVars,
                 outcome, chanVars, pushVars>>
Resumed(w) == pc = w /\ state = "Connected"

\* Mutant: the reply senders are cleared like the joined ones, not answered.
SendDisconnectedToJoins(out, disconnected) ==
  /\ Broadcast(disconnected)
  /\ outcome' = Answer(Answer(out, PendingJoins, "disconnected"), replies, "dropped")
  /\ EmptyMaps
\* Mutant: callers are answered, and the channels are not told.
SendDisconnectedSilent(out, disconnected) ==
  /\ outcome' = Answer(out, PendingJoins \cup replies, "disconnected")
  /\ EmptyMaps
  /\ UNCHANGED castVars
(* send_disconnected: tell the channels, answer what the maps still hold.  *)
SendDisconnected(out, disconnected) ==
  /\ Broadcast(disconnected)
  /\ outcome' = Answer(out, PendingJoins \cup replies, "disconnected")
  /\ EmptyMaps

\* Mutant: the state changes without the end of the iteration that publishes it.
WaitToReconnectUnpublished(out) ==
  /\ SendDisconnected(out, "Reconnect")
  /\ state' = "WaitingToReconnect"
  /\ attempts' = 1 /\ delay' = SleepMultiplier(0)
  /\ pc' = "select"
WaitToReconnectConnected(out) ==
  /\ SendDisconnected(out, "Reconnect")
  /\ state' = "WaitingToReconnect"
  /\ attempts' = 1
  /\ delay' = SleepMultiplier(0)
  /\ pc' = "publish"

-----------------------------------------------------------------------------
(***************************************************************************)
(* The task: state commands                                                *)
(***************************************************************************)
Init ==
  /\ pc = "select" /\ state = "NeverConnected" /\ status = "NeverConnected"
  /\ attempts = 0 /\ delay = 0 /\ serving = NoRequest
  /\ stateQ = <<>> /\ spawnQ = <<>> /\ chanStateQ = <<>> /\ sendQ = <<>>
  /\ joins = [c \in Channel |-> NoRequest]
  /\ joined = [c \in Channel |-> NoRequest]
  /\ timers = {} /\ replies = {} /\ heartbeat = FALSE
  /\ sent = [c \in Channel |-> {}]
  /\ connectivity = "none" /\ unread = [c \in Channel |-> 0]
  /\ outcome = [r \in Request |-> "free"]
  /\ receiving = [c \in Channel |-> NoRequest]
  /\ phase = [c \in Channel |-> "none"]
  /\ pushQ = [c \in Channel |-> <<>>] /\ blocked = <<>>

TakeStateCommand(kind) ==
  /\ stateQ # <<>> /\ Head(stateQ).kind = kind
  /\ stateQ' = Tail(stateQ)
  /\ UNCHANGED <<spawnQ, chanStateQ, sendQ, status, chanVars, pushVars>>

Connect ==
  /\ Polling
  /\ TakeStateCommand("connect")
  /\ UNCHANGED <<state, connVars, castVars>>
  /\ \/ /\ state \in {"NeverConnected", "Disconnected"}
        /\ serving' = Head(stateQ) /\ pc' = "connecting"
        /\ attempts' = 0
        /\ UNCHANGED <<delay, outcome>>
     \/ /\ state = "WaitingToReconnect"
        /\ outcome' = Answer(outcome, {Head(stateQ)}, "waiting")
        /\ UNCHANGED <<pc, serving, backVars>>
     \/ /\ state = "Connected"
        /\ outcome' = Answer(outcome, {Head(stateQ)}, "ok")
        /\ UNCHANGED <<pc, serving, backVars>>

(* connected.socket.close(None).await, of a disconnect or a shutdown.      *)
Close ==
  /\ Await("closing")
  /\ stateQ # <<>> /\ Head(stateQ).kind \in {"disconnect", "shutdown"}

(* disconnect: when there is a connection, after it is closed.             *)
Disconnect ==
  /\ TakeStateCommand("disconnect")
  /\ UNCHANGED <<serving, backVars>>
  /\ \/ /\ Resumed("closing")
        /\ SendDisconnected(Answer(outcome, {Head(stateQ)}, "ok"), "Disconnect")
        /\ state' = "Disconnected" /\ pc' = "publish"
     \/ /\ Polling /\ state # "Connected"
        /\ outcome' = Answer(outcome, {Head(stateQ)}, "ok")
        /\ UNCHANGED <<pc, state, connVars, castVars>>

Shutdown ==
  /\ TakeStateCommand("shutdown")
  /\ state' = "ShuttingDown" /\ pc' = "publish"
  /\ UNCHANGED <<serving, backVars>>
  /\ \/ /\ Resumed("closing")
        /\ SendDisconnected(Answer(outcome, {Head(stateQ)}, "ok"), "Shutdown")
     \/ /\ Polling /\ state # "Connected"
        /\ outcome' = Answer(outcome, {Head(stateQ)}, "ok")
        /\ UNCHANGED <<connVars, castVars>>

\* Mutant: the task gives up at the last attempt it counts.
ReconnectUpToMax ==
  /\ AtSelect /\ state = "WaitingToReconnect" /\ attempts < MaxAttempts
  /\ pc' = "connecting"
  /\ UNCHANGED <<state, status, serving, backVars, queueVars, connVars, castVars,
                 outcome, chanVars, pushVars>>
(* The sleep of WaitingToReconnect ends.                                   *)
Reconnect ==
  /\ AtSelect /\ state = "WaitingToReconnect"
  /\ pc' = "connecting"
  /\ UNCHANGED <<state, status, serving, backVars, queueVars, connVars, castVars,
                 outcome, chanVars, pushVars>>

SocketConnectOk ==
  /\ pc = "connecting"
  /\ state' = "Connected" /\ pc' = "publish"
  /\ outcome' = Answer(outcome, {serving}, "ok")
  /\ serving' = NoRequest
  /\ attempts' = 0 /\ delay' = 0
  /\ Broadcast("Connected")
  /\ EmptyMaps
  /\ UNCHANGED <<status, queueVars, chanVars, pushVars>>

SocketConnectError ==
  /\ pc = "connecting"
  /\ state' = "WaitingToReconnect" /\ pc' = "publish"
  /\ \E o \in ConnectErrors : outcome' = Answer(outcome, {serving}, o)
  /\ serving' = NoRequest
  /\ delay' = SleepAfterFailure(attempts)
  /\ attempts' = NextAttempt(attempts)
  /\ UNCHANGED <<status, queueVars, connVars, castVars, chanVars, pushVars>>

(* socket_status.set at the end of an iteration that changed the state.    *)
Publish ==
  /\ pc = "publish"
  /\ status' = state /\ pc' = "select"
  /\ UNCHANGED <<state, serving, backVars, queueVars, connVars, castVars,
                 outcome, chanVars, pushVars>>

(* The task ends: what it still holds is dropped with it.                  *)
DropEverything ==
  /\ pc' = "exited"
  /\ outcome' = Answer(outcome, Held, "dropped")
  /\ stateQ' = <<>> /\ spawnQ' = <<>> /\ chanStateQ' = <<>> /\ sendQ' = <<>>
  /\ phase' = [c \in Channel |-> IF phase[c] = "Requested" THEN "none" ELSE phase[c]]
  /\ EmptyMaps
  /\ UNCHANGED <<serving, backVars, castVars, receiving, pushVars>>

ShutDown == state' = "ShutDown" /\ status' = "ShutDown" /\ DropEverything

\* Mutant: the task waits for its state commands to be read by nobody.
ExitWhenDrained == AtSelect /\ state = "ShuttingDown" /\ stateQ = <<>> /\ ShutDown
Exit == AtSelect /\ state = "ShuttingDown" /\ ShutDown

(* Socket is dropped, which it is only when no call to it is under way and *)
(* no channel has it: a task without a connection to keep finds its queues *)
(* closed.  A task with one goes on.                                       *)
Dropped ==
  /\ AtSelect /\ state \in {"NeverConnected", "Disconnected"}
  /\ stateQ = <<>> /\ spawnQ = <<>>
  /\ \A c \in Channel : phase[c] \in Unspawned \cup Ended
  /\ ShutDown

-----------------------------------------------------------------------------
(***************************************************************************)
(* The task: channels                                                      *)
(***************************************************************************)
\* Mutant: a new channel is not told that the socket is connected.
SpawnChannelUninformed ==
  /\ Polling
  /\ spawnQ # <<>>
  /\ spawnQ' = Tail(spawnQ)
  /\ \E p \in {"ShutDown", "WaitingForSocketToConnect"} :
       phase' = [phase EXCEPT ![Head(spawnQ)] = p]
  /\ unread' = [unread EXCEPT ![Head(spawnQ)] = 0]
  /\ UNCHANGED <<pc, state, status, serving, backVars, stateQ, chanStateQ, sendQ,
                 connVars, connectivity, outcome, receiving, pushVars>>
(* Channel::spawn, with the state the socket is in; if the caller of       *)
(* Socket::channel went away the new channel is shut down at once.         *)
SpawnChannel ==
  /\ Polling
  /\ spawnQ # <<>>
  /\ spawnQ' = Tail(spawnQ)
  /\ \E p \in {"ShutDown",
               IF state = "Connected" THEN "WaitingToJoin" ELSE "WaitingForSocketToConnect"} :
       phase' = [phase EXCEPT ![Head(spawnQ)] = p]
  /\ unread' = [unread EXCEPT ![Head(spawnQ)] = 0]
  /\ UNCHANGED <<pc, state, status, serving, backVars, stateQ, chanStateQ, sendQ,
                 connVars, connectivity, outcome, receiving, pushVars>>

(* The frame of a join or leave, of a call or cast is being sent.          *)
WriteState == Await("writing_state") /\ chanStateQ # <<>>
WriteSend  == Await("writing_send") /\ sendQ # <<>>

TakeChannelStateCommand(kind) ==
  /\ Resumed("writing_state")
  /\ chanStateQ # <<>> /\ Head(chanStateQ).kind = kind
  /\ chanStateQ' = Tail(chanStateQ)
  /\ UNCHANGED <<stateQ, spawnQ, sendQ, status, serving, chanVars, pushVars>>

TakeSendCommand(kind) ==
  /\ Resumed("writing_send")
  /\ sendQ # <<>> /\ Head(sendQ).kind = kind
  /\ sendQ' = Tail(sendQ)
  /\ UNCHANGED <<stateQ, spawnQ, chanStateQ, status, serving, chanVars, pushVars>>

FrameSent(r) ==
  /\ sent' = [sent EXCEPT ![r.chan] = @ \cup {r}]
  /\ pc' = "select"

(* A join whose frame is sent takes the place of one pending for the same  *)
(* topic and join reference, whose oneshot is dropped.                     *)
StartJoin ==
  /\ TakeChannelStateCommand("join")
  /\ LET r == Head(chanStateQ) IN
     \/ /\ joins' = [joins EXCEPT ![r.chan] = r]
        /\ outcome' = Answer(outcome, {joins[r.chan]}, "dropped")
        /\ ArmTimeout(r)
        /\ FrameSent(r)
        /\ UNCHANGED <<state, backVars, joined, replies, heartbeat, castVars>>
     \/ WaitToReconnectConnected(Answer(outcome, {r}, "dropped"))

Leave ==
  /\ TakeChannelStateCommand("leave")
  /\ LET r == Head(chanStateQ) IN
     \/ /\ joined' = [joined EXCEPT ![r.chan] = NoRequest]
        /\ outcome' = Answer(outcome, {r}, "ok")
        /\ FrameSent(r)
        /\ UNCHANGED <<state, backVars, joins, timers, replies, heartbeat, castVars>>
     \/ WaitToReconnectConnected(Answer(outcome, {r}, "error"))

Call ==
  /\ TakeSendCommand("call")
  /\ LET r == Head(sendQ) IN
     \/ /\ replies' = replies \cup {r}
        /\ FrameSent(r)
        /\ UNCHANGED <<state, backVars, joins, timers, joined, heartbeat, castVars, outcome>>
     \/ WaitToReconnectConnected(Answer(outcome, {r}, "error"))

Cast ==
  /\ TakeSendCommand("cast")
  /\ LET r == Head(sendQ) IN
     \/ /\ outcome' = Answer(outcome, {r}, "ok")
        /\ FrameSent(r)
        /\ UNCHANGED <<state, backVars, joins, timers, joined, replies, heartbeat, castVars>>
     \/ WaitToReconnectConnected(Answer(outcome, {r}, "dropped"))

\* Mutant: the timeout is answered and the join stays registered.
JoinTimedOutRegistered(r) ==
  /\ Online
  /\ r \in timers
  /\ timers' = timers \ {r}
  /\ outcome' = Answer(outcome, {joins[r.chan]}, "timeout")
  /\ UNCHANGED <<pc, state, status, serving, backVars, queueVars, joins, joined, replies,
                 heartbeat, sent, castVars, chanVars, pushVars>>
(* A join_timeouts future completes.  Its key is the topic and the join    *)
(* reference, the same for every join of a channel.                        *)
JoinTimedOut(r) ==
  /\ Online
  /\ r \in timers
  /\ timers' = timers \ {r}
  /\ joins' = [joins EXCEPT ![r.chan] = NoRequest]
  /\ outcome' = Answer(outcome, {joins[r.chan]}, "timeout")
  /\ UNCHANGED <<pc, state, status, serving, backVars, queueVars, joined, replies,
                 heartbeat, sent, castVars, chanVars, pushVars>>

-----------------------------------------------------------------------------
(***************************************************************************)
(* The task: the web socket                                                *)
(***************************************************************************)
(* finish_join: register the channel and hand the receivers over.          *)
FinishJoin(c, s) ==
  /\ joins' = [joins EXCEPT ![c] = NoRequest]
  /\ outcome' = Answer(outcome, {joins[c]}, s)
  /\ joined' = IF s = "ok" THEN [joined EXCEPT ![c] = joins[c]] ELSE joined
  /\ pushQ' = IF s = "ok" /\ outcome[joins[c]] = "pending"
              THEN [pushQ EXCEPT ![c] = <<>>] ELSE pushQ
  /\ UNCHANGED replies

\* Mutant: a reply answers every call of its topic and join reference.
HandleReplyToChannel(c, r, s) ==
  \/ joins[c] # NoRequest /\ FinishJoin(c, s)
  \/ /\ joins[c] = NoRequest
     /\ replies' = {t \in replies : t.chan # c}
     /\ outcome' = Answer(outcome, {t \in replies : t.chan = c}, s)
     /\ UNCHANGED <<joins, joined, pushQ>>
(* handle_reply: a pending join of the channel takes any reply to it.      *)
HandleReply(c, r, s) ==
  \/ joins[c] # NoRequest /\ FinishJoin(c, s)
  \/ /\ joins[c] = NoRequest
     /\ replies' = replies \ {r}
     /\ outcome' = Answer(outcome, {r} \cap replies, s)
     /\ UNCHANGED <<joins, joined, pushQ>>

(* The server answers a frame of a channel, in an order of its own.        *)
Reply(c, r) ==
  /\ Online
  /\ r \in sent[c]
  /\ sent' = [sent EXCEPT ![c] = @ \ {r}]
  /\ \E s \in {"ok", "rejected"} : HandleReply(c, r, s)
  /\ UNCHANGED <<pc, state, status, serving, backVars, queueVars, timers, heartbeat,
                 castVars, chanVars, blocked>>

(* The server leaves a frame without an answer.                            *)
NoReply(c, r) ==
  /\ r \in sent[c]
  /\ sent' = [sent EXCEPT ![c] = @ \ {r}]
  /\ UNCHANGED <<pc, state, status, serving, backVars, queueVars, joins, timers, joined,
                 replies, heartbeat, castVars, outcome, chanVars, pushVars>>

(* handle_push: wait for room in the push queue of the registered join.    *)
HandlePush(c, m) ==
  /\ Online
  /\ ReceiverAlive(c)
  /\ \/ /\ Len(pushQ[c]) < PushCap
        /\ pushQ' = [pushQ EXCEPT ![c] = Append(@, m)]
        /\ UNCHANGED <<pc, blocked>>
     \/ /\ Len(pushQ[c]) = PushCap
        /\ blocked' = <<c, m>> /\ pc' = "pushing"
        /\ UNCHANGED pushQ
  /\ UNCHANGED <<state, status, serving, backVars, queueVars, connVars, castVars,
                 outcome, chanVars>>

\* Mutant: the wait does not see that the receiver goes away.
PushUnblockedByRoom ==
  /\ pc = "pushing"
  /\ LET c == blocked[1] IN
     /\ ReceiverAlive(c) /\ Len(pushQ[c]) < PushCap
     /\ pushQ' = [pushQ EXCEPT ![c] = Append(@, blocked[2])]
  /\ blocked' = <<>> /\ pc' = "select"
  /\ UNCHANGED <<state, status, serving, backVars, queueVars, connVars, castVars,
                 outcome, chanVars>>
(* The push is queued, or its receiver has gone away.                      *)
PushUnblocked ==
  /\ pc = "pushing"
  /\ LET c == blocked[1] IN
     \/ /\ ReceiverAlive(c) /\ Len(pushQ[c]) < PushCap
        /\ pushQ' = [pushQ EXCEPT ![c] = Append(@, blocked[2])]
     \/ ~ReceiverAlive(c) /\ UNCHANGED pushQ
  /\ blocked' = <<>> /\ pc' = "select"
  /\ UNCHANGED <<state, status, serving, backVars, queueVars, connVars, castVars,
                 outcome, chanVars>>

(* The answer to a ping or to a close frame of the server.                 *)
Pong        == Await("writing_pong")
AnswerClose == Await("answering_close")

(* The answer to a close frame is sent or not, or a read error ended the   *)
(* connection.                                                             *)
ConnectionLost ==
  /\ Online \/ Resumed("answering_close")
  /\ WaitToReconnectConnected(outcome)
  /\ UNCHANGED <<status, serving, queueVars, chanVars, pushVars>>

(* A read error that listen returns at once, or the panic of a handler at  *)
(* encode().unwrap(), whose command is dropped with the rest: the task     *)
(* ends without a last status.                                             *)
FatalSocketError ==
  /\ Online
  /\ DropEverything
  /\ UNCHANGED <<state, status>>

(* Every interval: one heartbeat outstanding at most, none is ever late.   *)
Heartbeat == Await("writing_heartbeat") /\ ~heartbeat

(* A heartbeat or a pong is sent, or the connection is lost with it.       *)
Written ==
  /\ Resumed("writing_heartbeat") \/ Resumed("writing_pong")
  /\ \/ /\ heartbeat' = (heartbeat \/ pc = "writing_heartbeat")
        /\ pc' = "select"
        /\ UNCHANGED <<state, backVars, joins, timers, joined, replies, sent,
                       castVars, outcome>>
     \/ WaitToReconnectConnected(outcome)
  /\ UNCHANGED <<status, serving, queueVars, chanVars, pushVars>>

HeartbeatReply ==
  /\ Online
  /\ heartbeat
  /\ heartbeat' = FALSE
  /\ UNCHANGED <<pc, state, status, serving, backVars, queueVars, joins, timers, joined,
                 replies, sent, castVars, outcome, chanVars, pushVars>>

Listener ==
  \/ Connect \/ Close \/ Disconnect \/ Shutdown \/ Reconnect
  \/ SocketConnectOk \/ SocketConnectError \/ Publish \/ Exit \/ Dropped
  \/ SpawnChannel \/ WriteState \/ StartJoin \/ Leave \/ WriteSend \/ Call \/ Cast
  \/ \E r \in Request : JoinTimedOut(r)
  \/ PushUnblocked \/ Heartbeat \/ Pong \/ AnswerClose \/ Written

Network ==
  \/ \E c \in Channel : \/ \E r \in Request : Reply(c, r) \/ NoReply(c, r)
                        \/ \E m \in PushKind : HandlePush(c, m)
  \/ ConnectionLost \/ FatalSocketError \/ HeartbeatReply

-----------------------------------------------------------------------------
(***************************************************************************)
(* The environment: users of the socket and the channel tasks, reduced to  *)
(* what they may do to the variables they share with the task.             *)
(***************************************************************************)
socketVars == <<pc, state, status, serving, backVars, connVars, blocked>>

(* What a channel task holds of the socket: the oneshots of its joins and  *)
(* leaves, and the receivers of its last join.  It drops all of it at once *)
(* whenever it leaves the state it held them in.                           *)
OfChannel(c) == {r \in RequestsOf({"join", "leave"}) : r.chan = c}
DropReceivers(c) ==
  /\ receiving' = [receiving EXCEPT ![c] = NoRequest]
  /\ pushQ' = [pushQ EXCEPT ![c] = <<>>]
Spawned(c) == phase[c] \notin Unspawned \cup Ended

(* The channel task has given its join, or the receivers of it, away.      *)
Idle(c) == /\ Spawned(c)
           /\ receiving[c] = NoRequest
           /\ \A r \in Request : r.kind = "join" /\ r.chan = c =>
                outcome[r] = "free"

SubmitState(r) ==
  /\ pc # "exited"
  /\ r.kind \in StateKind
  /\ Fresh(r)
  /\ Room(stateQ, "closing")
  /\ stateQ' = Append(stateQ, r)
  /\ outcome' = [outcome EXCEPT ![r] = "pending"]
  /\ UNCHANGED <<socketVars, spawnQ, chanStateQ, sendQ, castVars, chanVars, pushQ>>

RequestChannel(c) ==
  /\ pc # "exited"
  /\ phase[c] = "none"
  /\ Len(spawnQ) < QueueCap
  /\ spawnQ' = Append(spawnQ, c)
  /\ phase' = [phase EXCEPT ![c] = "Requested"]
  /\ UNCHANGED <<socketVars, stateQ, chanStateQ, sendQ, castVars, outcome, receiving, pushQ>>

(* A channel may join before the leave it asked for is answered.           *)
SubmitJoin(r) ==
  /\ pc # "exited"
  /\ r.kind = "join"
  /\ Fresh(r) /\ Idle(r.chan)
  /\ Room(chanStateQ, "writing_state")
  /\ chanStateQ' = Append(chanStateQ, r)
  /\ outcome' = [Release(outcome, OfChannel(r.chan)) EXCEPT ![r] = "pending"]
  /\ UNCHANGED <<socketVars, stateQ, spawnQ, sendQ, castVars, chanVars, pushQ>>

(* A channel leaves while it joins or when it has joined.                  *)
SubmitLeave(r) ==
  /\ pc # "exited"
  /\ r.kind = "leave"
  /\ Fresh(r) /\ ~Idle(r.chan) /\ Spawned(r.chan)
  /\ Room(chanStateQ, "writing_state")
  /\ chanStateQ' = Append(chanStateQ, r)
  /\ outcome' = [Release(outcome, OfChannel(r.chan)) EXCEPT ![r] = "pending"]
  /\ DropReceivers(r.chan)
  /\ UNCHANGED <<socketVars, stateQ, spawnQ, sendQ, castVars, phase>>

(* The caller of call may have given up while its channel had the command. *)
SubmitSend(r) ==
  /\ pc # "exited"
  /\ r.kind \in {"call", "cast"}
  /\ Fresh(r)
  /\ receiving[r.chan] # NoRequest
  /\ Room(sendQ, "writing_send")
  /\ sendQ' = Append(sendQ, r)
  /\ \/ outcome' = [outcome EXCEPT ![r] = "pending"]
     \/ r.kind = "call" /\ UNCHANGED outcome
  /\ UNCHANGED <<socketVars, stateQ, spawnQ, chanStateQ, castVars, chanVars, pushQ>>

(* The receiving half is read.                                             *)
TakeAnswer(r) ==
  /\ outcome[r] \in Answers
  /\ outcome' = [outcome EXCEPT ![r] = "free"]
  /\ receiving' = IF r.kind = "join" /\ outcome[r] = "ok"
                  THEN [receiving EXCEPT ![r.chan] = r] ELSE receiving
  /\ UNCHANGED <<socketVars, queueVars, castVars, phase, pushQ>>

(* The user of connect or call gives up at its own timeout.                *)
GiveUp(r) ==
  /\ r.kind \in {"connect", "call"}
  /\ outcome[r] = "pending"
  /\ outcome' = [outcome EXCEPT ![r] = "free"]
  /\ UNCHANGED <<socketVars, queueVars, castVars, chanVars, pushQ>>

(* A channel task leaves its state, or ends.                               *)
Forgo(c) ==
  /\ Spawned(c)
  /\ outcome' = Release(outcome, OfChannel(c))
  /\ DropReceivers(c)
  /\ \E p \in {phase[c], "ShutDown"} : phase' = [phase EXCEPT ![c] = p]
  /\ UNCHANGED <<socketVars, queueVars, castVars>>

ReceivePush(c) ==
  /\ receiving[c] # NoRequest
  /\ pushQ[c] # <<>>
  /\ pushQ' = [pushQ EXCEPT ![c] = Tail(@)]
  /\ UNCHANGED <<socketVars, queueVars, castVars, outcome, chanVars>>

(* The news may end what the channel task was doing.                       *)
ReadConnectivity(c) ==
  /\ Spawned(c)
  /\ unread[c] > 0
  /\ unread' = [unread EXCEPT ![c] = @ - 1]
  /\ \/ UNCHANGED <<outcome, receiving, pushQ>>
     \/ outcome' = Release(outcome, OfChannel(c)) /\ DropReceivers(c)
  /\ UNCHANGED <<socketVars, queueVars, connectivity, phase>>

Clients ==
  \/ \E r \in Request : \/ SubmitState(r) \/ SubmitJoin(r) \/ SubmitLeave(r)
                        \/ SubmitSend(r) \/ TakeAnswer(r) \/ GiveUp(r)
  \/ \E c \in Channel : \/ RequestChannel(c) \/ Forgo(c)
                        \/ ReceivePush(c) \/ ReadConnectivity(c)

Next == Listener \/ Network \/ Clients

Spec == Init /\ [][Next]_vars

-----------------------------------------------------------------------------
(***************************************************************************)
(* Properties                                                              *)
(***************************************************************************)
TaskTypeOK ==
  /\ pc \in {"select", "publish", "connecting", "pushing", "exited"} \cup Writing
  /\ state \in SocketState /\ status \in SocketState
  /\ attempts \in 0..MaxAttempts /\ delay \in Nat
  /\ serving \in RequestsOf({"connect"}) \cup {NoRequest}

QueueTypeOK ==
  /\ stateQ \in Seq(RequestsOf(StateKind)) /\ spawnQ \in Seq(Channel)
  /\ chanStateQ \in Seq(RequestsOf({"join", "leave"}))
  /\ sendQ \in Seq(RequestsOf({"call", "cast"}))

MapTypeOK ==
  /\ joins \in [Channel -> RequestsOf({"join"}) \cup {NoRequest}]
  /\ joined \in [Channel -> RequestsOf({"join"}) \cup {NoRequest}]
  /\ timers \in SUBSET RequestsOf({"join"})
  /\ replies \in SUBSET RequestsOf({"call"})
  /\ heartbeat \in BOOLEAN
  /\ sent \in [Channel -> SUBSET RequestsOf(ChanKind)]

SharedTypeOK ==
  /\ connectivity \in {"none", "Connected", "Disconnect", "Reconnect", "Shutdown"}
  /\ unread \in [Channel -> 0..2]
  /\ outcome \in [Request -> Outcome]
  /\ receiving \in [Channel -> RequestsOf({"join"}) \cup {NoRequest}]
  /\ phase \in [Channel -> Phase]
  /\ pushQ \in [Channel -> Seq(PushKind)]
  /\ blocked \in {<<>>} \cup (Channel \X PushKind)

TypeOK == TaskTypeOK /\ QueueTypeOK /\ MapTypeOK /\ SharedTypeOK

(* The callers of connect, disconnect and call take a dropped oneshot for  *)
(* the end of the task and wait for its JoinHandle (listener_shutdown); a  *)
(* channel that leaves is deaf to it.  The task drops none of theirs while *)
(* it runs, however often the connection is lost and made again.           *)
DroppedOnlyAtExit ==
  \A r \in RequestsOf(StateKind \cup {"leave", "call"}) :
    outcome[r] = "dropped" => pc = "exited"

(* Who waits for a frame that was sent is told how it ended, by the server,*)
(* the join's deadline or the end of the connection: the running task drops*)
(* no other join than the one whose frame it fails to send.                *)
SentAreTold ==
  [][\A r \in RequestsOf({"join", "call"}) :
       outcome[r] = "pending" /\ outcome'[r] = "dropped" =>
         pc' = "exited" \/ (pc = "writing_state" /\ Head(chanStateQ) = r)]_vars

(* What was registered on a connection dies with it: no pending join, join *)
(* timer, joined channel or reply waits for a connection that is gone.     *)
RegistrationsScoped ==
  state # "Connected" \/ pc = "exited" =>
    /\ \A c \in Channel : joins[c] = NoRequest /\ joined[c] = NoRequest
    /\ timers = {} /\ replies = {}

(* A join the task waits for on the connection always has a deadline under *)
(* way, or it could wait for a silent server for ever.                     *)
JoinsHaveDeadlines == \A c \in Channel : joins[c] # NoRequest => joins[c] \in timers

(* A call is answered by the server's answer to its own frame only.        *)
CallAnsweredByOwnReply ==
  [][\A r \in RequestsOf({"call"}) :
       outcome[r] = "pending" /\ outcome'[r] \in {"ok", "rejected"}
         => r \in sent[r.chan] /\ r \notin sent'[r.chan]]_vars

(* But for the end of the iteration that changed the state, the status     *)
(* users see is the state: in every select, in every wait of a handler,    *)
(* and when the task has ended.                                            *)
StatusFollowsState == pc # "publish" => status = state

(* Failed reconnects back off: each sleep is longer than the last one, to  *)
(* the ceiling of the multipliers.                                         *)
BackoffGrows ==
  [][pc = "connecting" /\ pc' # "connecting" /\ {state, state'} = {"WaitingToReconnect"}
       => delay' > delay \/ delay' = SleepMultiplier(4)]_vars

(***************************************************************************)
(* Fairness.  select! picks among its ready branches at random, so one     *)
(* that is ready again and again is taken; a connect ends by its timeout.  *)
(* Nothing is assumed of the server, which need not read what is written   *)
(* to it, nor of the channel tasks, which need not read their pushes.      *)
(***************************************************************************)
TakeStateCommands == Connect \/ Close \/ (AtSelect /\ (Disconnect \/ Shutdown))

Fairness ==
  /\ WF_vars(SocketConnectOk \/ SocketConnectError)
  /\ WF_vars(Publish) /\ WF_vars(Exit) /\ WF_vars(PushUnblocked)
  /\ SF_vars(TakeStateCommands) /\ SF_vars(Reconnect)
  /\ \A r \in RequestsOf({"join"}) : SF_vars(JoinTimedOut(r))

FairSpec == Spec /\ Fairness

(* The task never comes back from a peer that does not read, or from a     *)
(* channel that neither reads its pushes nor drops their receiver.         *)
Stuck == [](pc \in Writing \cup {"pushing"})

(* connect and disconnect are answered, or the task ends and drops them,   *)
(* unless a handler of the task waits for ever.                            *)
StateCommandsAnswered ==
  \A r \in RequestsOf({"connect", "disconnect"}) :
    outcome[r] = "pending" ~> (outcome[r] # "pending" \/ Stuck)

(* A join sent to a server that reads and never answers ends all the same, *)
(* by its timeout or with the connection, unless a handler waits for ever: *)
(* the join timers are polled by the same select.                          *)
SentJoinsEnd ==
  \A c \in Channel : joins[c] # NoRequest ~> (joins[c] = NoRequest \/ Stuck)

(* A lost connection is retried until it is back or a user ends it.        *)
LostConnectionRetried == state = "WaitingToReconnect" ~> pc \in {"connecting", "exited"}

(* A shutdown ends the task, whatever state it finds it in, unless a       *)
(* handler waits for ever.                                                 *)
ShutdownEnds ==
  \A r \in RequestsOf({"shutdown"}) :
    outcome[r] = "pending" ~> (pc = "exited" \/ Stuck)

-----------------------------------------------------------------------------
(***************************************************************************)
(* What a comment says and the code does not do.                           *)
(***************************************************************************)
(* handle_reply is to "check if this is a join reply": what ends a join is *)
(* the answer to a join.                                                   *)
JoinAnsweredByJoinReply ==
  [][\A r \in RequestsOf({"join"}) :
       outcome[r] = "pending" /\ outcome'[r] \in {"ok", "rejected"}
         => \E f \in sent[r.chan] \ sent'[r.chan] : f.kind = "join"]_vars
=============================================================================
