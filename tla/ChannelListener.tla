--------------------------- MODULE ChannelListener ---------------------------
(***************************************************************************)
(* The task behind a Phoenix `Channel` (src/rust/channel/listener.rs).     *)
(*                                                                         *)
(* One tokio task per channel.  Its select is biased: a poll takes the     *)
(* first ready branch in the order shutdown, connectivity of the socket,   *)
(* the answer it awaits or its sleep, state commands, send commands,       *)
(* pushes.  A handler that puts a command into a full queue of the socket  *)
(* waits there, and the task selects nothing in the meantime.  The socket  *)
(* is the environment, reduced to what its channels see of it; module      *)
(* PhoenixClient puts the task of SocketListener in its place.             *)
(***************************************************************************)
EXTENDS PhoenixCommands

VARIABLES
  closed,       \* the socket task has ended, and with it its queues
  writing,      \* the queue whose head the socket task sends, and waits for the peer
  chanStateQ,   \* channel_state_command queue of the socket
  sendQ,        \* channel_send_command queue of the socket
  connectivity, \* the last value sent on the connectivity broadcast
  unread,       \* per channel: 0 nothing, 1 the last value, 2 Lagged, then the last value
  outcome,      \* what the receiving half of a oneshot holds
  receiving,    \* the join whose JoinedChannelReceivers the task holds
  pushQ,        \* push_rx of those receivers
  phase,        \* Listener::state
  task,         \* what the task keeps besides its phase
  commands,     \* state_command queue: the joins and leaves of users
  sends,        \* send_command queue: the calls and casts of users
  stop          \* whether shutdown_rx is resolved

socketVars == <<closed, writing, chanStateQ, sendQ, connectivity>>
userVars   == <<commands, sends, stop>>
vars == <<socketVars, unread, outcome, receiving, pushQ, phase, task, userVars>>

-----------------------------------------------------------------------------
(***************************************************************************)
(* Helpers                                                                 *)
(***************************************************************************)
NoRejoin == -1

(* rejoin: Rejoin::attempts; busy: the command its handler is putting into *)
(* a queue of the socket; awaiting: socket_joined_rx or socket_left_rx;    *)
(* joiners, leavers: channel_joined_txs and channel_left_txs; deaf: the    *)
(* connectivity branch failed, and rests until another one completes.      *)
Blank == [rejoin |-> NoRejoin, busy |-> NoRequest, awaiting |-> NoRequest,
          joiners |-> {}, leavers |-> {}, deaf |-> FALSE]

Spawned(c) == phase[c] \notin Unspawned \cup Ended
Waiters(c) == task[c].joiners \cup task[c].leavers
UserHeld(c) == Waiters(c) \cup Range(commands[c]) \cup Range(sends[c])
Busy(c) == task[c].busy # NoRequest
InTheirHands == {task[c].busy : c \in Channel} \cup UNION {UserHeld(c) : c \in Channel}

(* A oneshot that nobody uses can be made again under its name.            *)
Unused(r) ==
  /\ outcome[r] = "free"
  /\ r \notin InTheirHands \cup Range(chanStateQ) \cup Range(sendQ)
  /\ \A c \in Channel : r # receiving[c]

\* Mutant: the receivers of a join outlive the state that held them.
DropReceiversLate(c) == pushQ' = [pushQ EXCEPT ![c] = <<>>] /\ UNCHANGED receiving
DropReceivers(c) ==
  /\ receiving' = [receiving EXCEPT ![c] = NoRequest]
  /\ pushQ' = [pushQ EXCEPT ![c] = <<>>]

(* The task keeps its state, and its select starts over.                   *)
Stay(c) ==
  /\ task' = [task EXCEPT ![c].deaf = FALSE]
  /\ UNCHANGED <<phase, receiving, pushQ>>

(* The task enters a state without receivers or waiters.  The oneshots of  *)
(* the old state go with it, the waiters' answered in out or not.          *)
Enter(c, p, n, out) ==
  /\ phase' = [phase EXCEPT ![c] = p]
  /\ task' = [task EXCEPT ![c] = [Blank EXCEPT !.rejoin = n]]
  /\ outcome' = Release(Answer(out, Waiters(c), "dropped"), {task[c].awaiting})
  /\ DropReceivers(c)

\* Mutant: the attempts start over whenever the task has to wait.
WaitToRejoinAfresh(c, n, out) == Enter(c, "WaitingToRejoin", NextAttempt(0), out)
(* Rejoin::wait: sleep for the attempt n and count it.                     *)
WaitToRejoin(c, n, out) == Enter(c, "WaitingToRejoin", NextAttempt(n), out)

(* The task ends and drops its queues.                                     *)
End(c, p, out) ==
  /\ Enter(c, p, NoRejoin, Answer(out, UserHeld(c) \cup {task[c].busy}, "dropped"))
  /\ commands' = [commands EXCEPT ![c] = <<>>]
  /\ sends' = [sends EXCEPT ![c] = <<>>]
  /\ UNCHANGED stop

CommandPhase == {"WaitingToJoin", "Joining", "WaitingToRejoin", "Joined", "Leaving", "Left"}
NewsPhase == (CommandPhase \ {"Joining"}) \cup {"WaitingForSocketToConnect"}

\* Mutant: the select has no bias, and shutdown is one branch among others.
SelectingUnbiased(c) == Spawned(c) /\ ~Busy(c)
(* A poll that finds shutdown_rx not ready.                                *)
Selecting(c) == Spawned(c) /\ ~Busy(c) /\ ~stop[c]

NewsReady(c) == phase[c] \in NewsPhase /\ unread[c] > 0 /\ ~task[c].deaf
AnswerReady(c) ==
  \/ phase[c] = "Joining" /\ outcome[task[c].awaiting] \in Answers
  \/ phase[c] = "Leaving" /\ outcome[task[c].awaiting] \in {"ok", "error"}

-----------------------------------------------------------------------------
(***************************************************************************)
(* The task: shutdown and connectivity                                     *)
(***************************************************************************)
Init ==
  /\ closed = FALSE /\ writing = "none" /\ chanStateQ = <<>> /\ sendQ = <<>> /\ connectivity = "none"
  /\ unread = [c \in Channel |-> 0]
  /\ outcome = [r \in Request |-> "free"]
  /\ receiving = [c \in Channel |-> NoRequest] /\ pushQ = [c \in Channel |-> <<>>]
  /\ phase = [c \in Channel |-> "none"] /\ task = [c \in Channel |-> Blank]
  /\ commands = [c \in Channel |-> <<>>] /\ sends = [c \in Channel |-> <<>>]
  /\ stop = [c \in Channel |-> FALSE]

(* shutdown_rx is resolved: whoever waits on this state is told.           *)
Shutdown(c) ==
  /\ Spawned(c) /\ phase[c] # "ShuttingDown" /\ ~Busy(c) /\ stop[c]
  /\ Enter(c, "ShuttingDown", NoRejoin, Answer(outcome, Waiters(c), "shutdown"))
  /\ UNCHANGED <<socketVars, unread, userVars>>

Exit(c) ==
  /\ phase[c] = "ShuttingDown"
  /\ End(c, "ShutDown", outcome)
  /\ UNCHANGED <<socketVars, unread>>

(* recv() fails with Lagged: select! disables the branch and polls on.     *)
Lagged(c) ==
  /\ Selecting(c) /\ NewsReady(c) /\ unread[c] = 2
  /\ unread' = [unread EXCEPT ![c] = 1]
  /\ task' = [task EXCEPT ![c].deaf = TRUE]
  /\ UNCHANGED <<socketVars, outcome, receiving, pushQ, phase, userVars>>

\* Mutant: callers of leave are not told that the connection is gone.
NewsAnswerSilent(c) == outcome
(* A lost or new connection has no place for a leave to be answered from.  *)
NewsAnswer(c) == Answer(outcome, task[c].leavers, "ok")

\* Mutant: a joined channel takes a new connection for the one it joined on.
SocketConnectedStay(c) ==
  /\ connectivity = "Connected"
  /\ \/ /\ phase[c] = "WaitingForSocketToConnect" /\ task[c].rejoin = NoRejoin
        /\ Enter(c, "WaitingToJoin", NoRejoin, outcome)
     \/ /\ phase[c] = "WaitingForSocketToConnect" /\ task[c].rejoin # NoRejoin
        /\ WaitToRejoin(c, task[c].rejoin, outcome)
     \/ /\ phase[c] \in {"WaitingToJoin", "WaitingToRejoin", "Left", "Joined"}
        /\ Stay(c) /\ UNCHANGED outcome
     \/ phase[c] = "Leaving" /\ Enter(c, "Left", NoRejoin, NewsAnswer(c))
SocketConnected(c) ==
  /\ connectivity = "Connected"
  /\ \/ /\ phase[c] = "WaitingForSocketToConnect" /\ task[c].rejoin = NoRejoin
        /\ Enter(c, "WaitingToJoin", NoRejoin, outcome)
     \/ /\ phase[c] = "WaitingForSocketToConnect" /\ task[c].rejoin # NoRejoin
        /\ WaitToRejoin(c, task[c].rejoin, outcome)
     \/ /\ phase[c] \in {"WaitingToJoin", "WaitingToRejoin", "Left"}
        /\ Stay(c) /\ UNCHANGED outcome
     \/ phase[c] = "Joined" /\ Enter(c, "WaitingForSocketToConnect", 0, outcome)
     \/ phase[c] = "Leaving" /\ Enter(c, "Left", NoRejoin, NewsAnswer(c))

SocketDisconnected(c) ==
  /\ connectivity \in {"Disconnect", "Reconnect"}
  /\ \/ /\ phase[c] = "WaitingForSocketToConnect"
        /\ Stay(c) /\ UNCHANGED outcome
     \/ /\ phase[c] # "WaitingForSocketToConnect"
        /\ LET n == IF connectivity = "Disconnect" THEN NoRejoin
                    ELSE IF phase[c] = "WaitingToRejoin" THEN task[c].rejoin
                    ELSE IF phase[c] = "Joined" THEN 0 ELSE NoRejoin
           IN  Enter(c, "WaitingForSocketToConnect", n, NewsAnswer(c))

SocketShutdown(c) ==
  /\ connectivity = "Shutdown"
  /\ Enter(c, "ShuttingDown", NoRejoin, NewsAnswer(c))

(* State::connectivity_changed.                                            *)
ConnectivityChanged(c) ==
  /\ Selecting(c) /\ NewsReady(c) /\ unread[c] = 1
  /\ unread' = [unread EXCEPT ![c] = 0]
  /\ SocketConnected(c) \/ SocketDisconnected(c) \/ SocketShutdown(c)
  /\ UNCHANGED <<socketVars, userVars>>

-----------------------------------------------------------------------------
(***************************************************************************)
(* The task: answers of the socket, its sleep and the commands of users    *)
(***************************************************************************)
(* joined_result_received; a join dropped by the socket ends the task.     *)
JoinedResult(c) ==
  /\ Selecting(c) /\ phase[c] = "Joining" /\ AnswerReady(c)
  /\ LET r == task[c].awaiting
         told(o) == Answer(outcome, task[c].joiners, o)
     IN \/ /\ outcome[r] = "ok"
           /\ phase' = [phase EXCEPT ![c] = "Joined"]
           /\ task' = [task EXCEPT ![c] = Blank]
           /\ outcome' = Release(told("ok"), {r})
           /\ receiving' = [receiving EXCEPT ![c] = r]
           /\ UNCHANGED <<pushQ, userVars>>
        \/ /\ outcome[r] \in {"rejected", "disconnected", "timeout"}
           /\ WaitToRejoin(c, task[c].rejoin, told(outcome[r]))
           /\ UNCHANGED userVars
        \/ outcome[r] = "dropped" /\ End(c, "Gone", told("error"))
  /\ UNCHANGED <<socketVars, unread>>

(* Leaving::left.                                                          *)
LeftResult(c) ==
  /\ Selecting(c) /\ phase[c] = "Leaving" /\ ~NewsReady(c) /\ AnswerReady(c)
  /\ Enter(c, "Left", NoRejoin, Answer(outcome, task[c].leavers, outcome[task[c].awaiting]))
  /\ UNCHANGED <<socketVars, unread, userVars>>

(* The handler has its command for the socket, and waits for room.         *)
Prepare(c, r, t) == task' = [task EXCEPT ![c] = [t EXCEPT !.busy = r, !.deaf = FALSE]]

(* The sleep is over: join again.                                          *)
Rejoin(c, r) ==
  /\ Selecting(c) /\ phase[c] = "WaitingToRejoin" /\ ~NewsReady(c)
  /\ r.kind = "join" /\ r.chan = c /\ Unused(r)
  /\ Prepare(c, r, task[c])
  /\ UNCHANGED <<socketVars, unread, outcome, receiving, pushQ, phase, userVars>>

TakeCommand(c, kind) ==
  /\ Selecting(c) /\ phase[c] \in CommandPhase /\ ~NewsReady(c) /\ ~AnswerReady(c)
  /\ commands[c] # <<>> /\ Head(commands[c]).kind = kind
  /\ commands' = [commands EXCEPT ![c] = Tail(@)]
  /\ UNCHANGED <<socketVars, unread, sends, stop>>

(* socket_join_if_not_timed_out, in time.                                  *)
Join(c, r) ==
  /\ TakeCommand(c, "channel_join")
  /\ phase[c] \in {"WaitingToJoin", "Leaving", "Left"}
  /\ r.kind = "join" /\ r.chan = c /\ Unused(r)
  /\ Prepare(c, r, [task[c] EXCEPT !.joiners = {Head(commands[c])}, !.rejoin = 0])
  /\ UNCHANGED <<outcome, receiving, pushQ, phase>>

(* socket_join_if_not_timed_out, too late: the caller is never answered,   *)
(* nor are those that wait for the leave this join was to interrupt.       *)
JoinTooLate(c) ==
  /\ TakeCommand(c, "channel_join")
  /\ phase[c] \in {"WaitingToJoin", "Leaving", "Left"}
  /\ WaitToRejoin(c, 0, Answer(outcome, {Head(commands[c])}, "dropped"))

JoinAgain(c) ==
  LET u == Head(commands[c]) IN
  /\ TakeCommand(c, "channel_join")
  /\ \/ /\ phase[c] = "Joining"
        /\ task' = [task EXCEPT ![c].joiners = @ \cup {u}]
        /\ UNCHANGED <<outcome, receiving, pushQ, phase>>
     \/ /\ phase[c] = "WaitingToRejoin"
        /\ outcome' = Answer(outcome, {u}, "waiting") /\ Stay(c)
     \/ /\ phase[c] = "Joined"
        /\ outcome' = Answer(outcome, {u}, "ok") /\ Stay(c)

Leave(c, r) ==
  /\ TakeCommand(c, "channel_leave")
  /\ phase[c] \in {"Joining", "Joined"}
  /\ r.kind = "leave" /\ r.chan = c /\ Unused(r)
  /\ Prepare(c, r, [task[c] EXCEPT !.leavers = {Head(commands[c])}])
  /\ UNCHANGED <<outcome, receiving, pushQ, phase>>

LeaveAgain(c) ==
  LET u == Head(commands[c]) IN
  /\ TakeCommand(c, "channel_leave")
  /\ \/ /\ phase[c] \in {"WaitingToJoin", "Left"}
        /\ outcome' = Answer(outcome, {u}, "ok") /\ Stay(c)
     \/ /\ phase[c] = "WaitingToRejoin"
        /\ Enter(c, "Left", NoRejoin, Answer(outcome, {u}, "ok"))
     \/ /\ phase[c] = "Leaving"
        /\ task' = [task EXCEPT ![c] = [task[c] EXCEPT !.leavers = @ \cup {u}, !.deaf = FALSE]]
        /\ UNCHANGED <<outcome, receiving, pushQ, phase>>

(* A call brings its oneshot along; a cast has none.                       *)
TakeSend(c) ==
  /\ Selecting(c) /\ phase[c] = "Joined" /\ ~NewsReady(c) /\ commands[c] = <<>>
  /\ sends[c] # <<>>
  /\ sends' = [sends EXCEPT ![c] = Tail(@)]
  /\ Prepare(c, Head(sends[c]), task[c])
  /\ UNCHANGED <<socketVars, unread, outcome, receiving, pushQ, phase, commands, stop>>

(* push_received: phx_close is the end of this join.                       *)
PushReceived(c) ==
  /\ Selecting(c) /\ phase[c] = "Joined" /\ ~NewsReady(c)
  /\ commands[c] = <<>> /\ sends[c] = <<>>
  /\ pushQ[c] # <<>>
  /\ \/ /\ Head(pushQ[c]) = "phx_close"
        /\ WaitToRejoin(c, 0, outcome)
     \/ /\ Head(pushQ[c]) # "phx_close"
        /\ pushQ' = [pushQ EXCEPT ![c] = Tail(@)]
        /\ task' = [task EXCEPT ![c].deaf = FALSE]
        /\ UNCHANGED <<outcome, receiving, phase>>
  /\ UNCHANGED <<socketVars, unread, userVars>>

-----------------------------------------------------------------------------
(***************************************************************************)
(* The task: handlers that put a command into a queue of the socket        *)
(***************************************************************************)
(* send of a queue of the socket: a place is free, or the socket task has  *)
(* just taken the command that is modelled as its head.                    *)
Room(q, taken) == Len(q) < QueueCap + (IF writing = taken THEN 1 ELSE 0)

\* Mutant: callers of join go with the state the channel leaves.
SubmitLeaveSilent(c) ==
  LET r == task[c].busy
      told == Answer(outcome, task[c].joiners, "dropped") IN
  /\ r.kind = "leave"
  /\ Room(chanStateQ, "state") /\ chanStateQ' = Append(chanStateQ, r)
  /\ outcome' = [Release(told, {task[c].awaiting}) EXCEPT ![r] = "pending"]
  /\ phase' = [phase EXCEPT ![c] = "Leaving"]
  /\ task' = [task EXCEPT ![c] = [Blank EXCEPT !.awaiting = r, !.leavers = task[c].leavers]]
  /\ DropReceivers(c)
  /\ UNCHANGED sendQ
SubmitLeave(c) ==
  LET r == task[c].busy
      told == Answer(outcome, task[c].joiners, "leaving") IN
  /\ r.kind = "leave"
  /\ Room(chanStateQ, "state") /\ chanStateQ' = Append(chanStateQ, r)
  /\ outcome' = [Release(told, {task[c].awaiting}) EXCEPT ![r] = "pending"]
  /\ phase' = [phase EXCEPT ![c] = "Leaving"]
  /\ task' = [task EXCEPT ![c] = [Blank EXCEPT !.awaiting = r, !.leavers = task[c].leavers]]
  /\ DropReceivers(c)
  /\ UNCHANGED sendQ

\* Mutant: callers of a leave under way stay with the channel that joins.
SubmitJoinKeepsLeavers(c) ==
  LET r == task[c].busy IN
  /\ r.kind = "join"
  /\ Room(chanStateQ, "state") /\ chanStateQ' = Append(chanStateQ, r)
  /\ outcome' = [Release(outcome, {task[c].awaiting}) EXCEPT ![r] = "pending"]
  /\ phase' = [phase EXCEPT ![c] = "Joining"]
  /\ task' = [task EXCEPT ![c] = [@ EXCEPT !.busy = NoRequest, !.awaiting = r]]
  /\ UNCHANGED <<sendQ, receiving, pushQ>>
(* socket_join: a leave under way is given up, and its callers told.       *)
SubmitJoin(c) ==
  LET r == task[c].busy
      told == Answer(outcome, task[c].leavers, "joining") IN
  /\ r.kind = "join"
  /\ Room(chanStateQ, "state") /\ chanStateQ' = Append(chanStateQ, r)
  /\ outcome' = [Release(told, {task[c].awaiting}) EXCEPT ![r] = "pending"]
  /\ phase' = [phase EXCEPT ![c] = "Joining"]
  /\ task' = [task EXCEPT ![c] = [@ EXCEPT !.busy = NoRequest, !.awaiting = r, !.leavers = {}]]
  /\ UNCHANGED <<sendQ, receiving, pushQ>>

SubmitSend(c) ==
  LET r == task[c].busy IN
  /\ r.kind \in {"call", "cast"}
  /\ Room(sendQ, "send") /\ sendQ' = Append(sendQ, r)
  /\ task' = [task EXCEPT ![c].busy = NoRequest]
  /\ UNCHANGED <<chanStateQ, outcome, receiving, pushQ, phase>>

Submit(c) ==
  /\ Busy(c) /\ ~closed
  /\ SubmitLeave(c) \/ SubmitJoin(c) \/ SubmitSend(c)
  /\ UNCHANGED <<closed, writing, connectivity, unread, userVars>>

(* The socket task has ended.  Its JoinHandle gives an error to the first  *)
(* that asks, and unwrap_err() panics when it ended with Ok(()).           *)
SubmitFails(c) ==
  LET r == task[c].busy IN
  /\ Busy(c) /\ closed
  /\ \/ End(c, "Gone", outcome)
     \/ r.kind = "join" /\ End(c, "Gone", Answer(outcome, task[c].leavers, "error"))
     \/ /\ r.kind = "leave"
        /\ outcome' = Answer(outcome, task[c].leavers, "error")
        /\ task' = [task EXCEPT ![c] = [@ EXCEPT !.busy = NoRequest, !.leavers = {}]]
        /\ UNCHANGED <<receiving, pushQ, phase, userVars>>
     \/ /\ r.kind \in {"call", "cast"}
        /\ Enter(c, "ShuttingDown", NoRejoin, Answer(outcome, {r}, "dropped"))
        /\ UNCHANGED userVars
  /\ UNCHANGED <<socketVars, unread>>

Task(c) ==
  \/ Shutdown(c) \/ Exit(c) \/ Lagged(c) \/ ConnectivityChanged(c)
  \/ JoinedResult(c) \/ LeftResult(c) \/ JoinTooLate(c) \/ JoinAgain(c) \/ LeaveAgain(c)
  \/ \E r \in Request : Rejoin(c, r) \/ Join(c, r) \/ Leave(c, r)
  \/ TakeSend(c) \/ PushReceived(c) \/ Submit(c) \/ SubmitFails(c)

-----------------------------------------------------------------------------
(***************************************************************************)
(* Users of the channel                                                    *)
(***************************************************************************)
UserCommand(u) ==
  /\ u.kind \in UserKind /\ Spawned(u.chan) /\ Unused(u)
  /\ outcome' = [outcome EXCEPT ![u] = "pending"]
  /\ commands' = [commands EXCEPT ![u.chan] = Append(@, u)]
  /\ UNCHANGED <<socketVars, unread, receiving, pushQ, phase, task, sends, stop>>

UserSend(u) ==
  /\ u.kind \in {"call", "cast"} /\ Spawned(u.chan) /\ Unused(u)
  /\ outcome' = [outcome EXCEPT ![u] = "pending"]
  /\ sends' = [sends EXCEPT ![u.chan] = Append(@, u)]
  /\ UNCHANGED <<socketVars, unread, receiving, pushQ, phase, task, commands, stop>>

(* Channel::shutdown, or the last handle of the channel is dropped.        *)
UserShutdown(c) ==
  /\ Spawned(c) /\ ~stop[c]
  /\ stop' = [stop EXCEPT ![c] = TRUE]
  /\ UNCHANGED <<socketVars, unread, outcome, receiving, pushQ, phase, task, commands, sends>>

(* The answer is read, or join or call gives up at its own timeout.        *)
UserReads(u) ==
  /\ u.kind \in UserKind \cup {"call", "cast"}
  /\ \/ outcome[u] \in Answers
     \/ u.kind \in {"channel_join", "call"} /\ outcome[u] = "pending"
  /\ outcome' = [outcome EXCEPT ![u] = "free"]
  /\ UNCHANGED <<socketVars, unread, receiving, pushQ, phase, task, userVars>>

Users ==
  \/ \E u \in Request : UserCommand(u) \/ UserSend(u) \/ UserReads(u)
  \/ \E c \in Channel : UserShutdown(c)

-----------------------------------------------------------------------------
(***************************************************************************)
(* The environment: the socket task, as its channels see it                *)
(***************************************************************************)
privateVars == <<receiving, task, userVars>>
Online == ~closed /\ connectivity = "Connected"

(* Joins and calls whose frame is sent and that have no answer yet.        *)
Sent == {r \in RequestsOf({"join", "call"}) :
           /\ outcome[r] = "pending"
           /\ r \notin InTheirHands \cup Range(chanStateQ) \cup Range(sendQ)}

Broadcast(v) ==
  /\ connectivity' = v
  /\ unread' = [c \in Channel |-> IF Spawned(c) THEN SmallerOf(unread[c] + 1, 2)
                                  ELSE unread[c]]

(* The connection ends; what was sent on it is answered.                   *)
Disconnected(v, out) ==
  /\ Broadcast(v)
  /\ outcome' = Answer(out, Sent, "disconnected")

RequestChannel(c) ==
  /\ ~closed /\ phase[c] = "none"
  /\ phase' = [phase EXCEPT ![c] = "Requested"]
  /\ UNCHANGED <<socketVars, unread, outcome, pushQ, privateVars>>

SpawnChannel(c) ==
  /\ ~closed /\ connectivity # "Shutdown" /\ phase[c] = "Requested"
  /\ \E p \in {"ShutDown", IF Online THEN "WaitingToJoin" ELSE "WaitingForSocketToConnect"} :
       phase' = [phase EXCEPT ![c] = p]
  /\ unread' = [unread EXCEPT ![c] = 0]
  /\ UNCHANGED <<socketVars, outcome, pushQ, privateVars>>

SocketConnects ==
  /\ ~closed /\ connectivity \notin {"Connected", "Shutdown"}
  /\ Broadcast("Connected")
  /\ UNCHANGED <<closed, writing, chanStateQ, sendQ, outcome, pushQ, phase, privateVars>>

SocketDisconnects ==
  /\ Online
  /\ \E v \in {"Disconnect", "Reconnect", "Shutdown"} : Disconnected(v, outcome)
  /\ UNCHANGED <<closed, writing, chanStateQ, sendQ, pushQ, phase, privateVars>>

SocketWrites ==
  /\ Online
  /\ \/ chanStateQ # <<>> /\ writing' = "state"
     \/ sendQ # <<>> /\ writing' = "send"
  /\ UNCHANGED <<closed, chanStateQ, sendQ, connectivity, unread, outcome, pushQ, phase,
                 privateVars>>

(* A leave is answered when its frame is sent, a cast is then done with;   *)
(* a frame that cannot be sent ends the connection.                        *)
SocketTakes(r) ==
  /\ writing' = "none"
  /\ \/ /\ outcome' = Answer(outcome, IF r.kind \in {"leave", "cast"} THEN {r} ELSE {}, "ok")
        /\ UNCHANGED <<connectivity, unread>>
     \/ Disconnected("Reconnect",
          Answer(outcome, {r}, IF r.kind \in {"leave", "call"} THEN "error" ELSE "dropped"))

SocketTakesState ==
  /\ Online /\ writing = "state" /\ chanStateQ # <<>>
  /\ chanStateQ' = Tail(chanStateQ)
  /\ SocketTakes(Head(chanStateQ))
  /\ UNCHANGED <<closed, sendQ, pushQ, phase, privateVars>>

SocketTakesSend ==
  /\ Online /\ writing = "send" /\ sendQ # <<>>
  /\ sendQ' = Tail(sendQ)
  /\ SocketTakes(Head(sendQ))
  /\ UNCHANGED <<closed, chanStateQ, pushQ, phase, privateVars>>

SocketAnswers(r) ==
  /\ Online /\ r \in Sent
  /\ \E o \in {"ok", "rejected"} \cup (IF r.kind = "join" THEN {"timeout"} ELSE {}) :
       /\ outcome' = Answer(outcome, {r}, o)
       /\ pushQ' = IF r.kind = "join" /\ o = "ok" THEN [pushQ EXCEPT ![r.chan] = <<>>] ELSE pushQ
  /\ UNCHANGED <<socketVars, unread, phase, privateVars>>

SocketPushes(c, m) ==
  /\ Online /\ Len(pushQ[c]) < PushCap
  /\ \/ receiving[c] # NoRequest
     \/ \E r \in RequestsOf({"join"}) : r.chan = c /\ outcome[r] = "ok"
  /\ pushQ' = [pushQ EXCEPT ![c] = Append(@, m)]
  /\ UNCHANGED <<socketVars, unread, outcome, phase, privateVars>>

SocketEnds ==
  /\ ~closed
  /\ closed' = TRUE
  /\ chanStateQ' = <<>> /\ sendQ' = <<>>
  /\ outcome' = Answer(outcome, Sent \cup Range(chanStateQ) \cup Range(sendQ), "dropped")
  /\ phase' = [c \in Channel |-> IF phase[c] = "Requested" THEN "none" ELSE phase[c]]
  /\ UNCHANGED <<writing, connectivity, unread, pushQ, privateVars>>

(* Users may ask for a channel at any time; the task does nothing else     *)
(* while it waits for the peer.                                            *)
Socket ==
  \/ SocketTakesState \/ SocketTakesSend
  \/ \E c \in Channel : RequestChannel(c)
  \/ /\ writing = "none"
     /\ \/ SocketWrites \/ SocketConnects \/ SocketDisconnects \/ SocketEnds
        \/ \E r \in Request : SocketAnswers(r)
        \/ \E c \in Channel : SpawnChannel(c) \/ \E m \in PushKind : SocketPushes(c, m)

Next == Socket \/ Users \/ \E c \in Channel : Task(c)

Spec == Init /\ [][Next]_vars

-----------------------------------------------------------------------------
(***************************************************************************)
(* Properties                                                              *)
(***************************************************************************)
TaskType == [rejoin : {NoRejoin} \cup 0..MaxAttempts,
             busy : RequestsOf(ChanKind) \cup {NoRequest},
             awaiting : RequestsOf({"join", "leave"}) \cup {NoRequest},
             joiners : SUBSET RequestsOf({"channel_join"}),
             leavers : SUBSET RequestsOf({"channel_leave"}),
             deaf : BOOLEAN]

TypeOK ==
  /\ closed \in BOOLEAN
  /\ writing \in {"none", "state", "send"}
  /\ chanStateQ \in Seq(RequestsOf({"join", "leave"}))
  /\ sendQ \in Seq(RequestsOf({"call", "cast"}))
  /\ connectivity \in {"none", "Connected", "Disconnect", "Reconnect", "Shutdown"}
  /\ unread \in [Channel -> 0..2]
  /\ outcome \in [Request -> Outcome]
  /\ receiving \in [Channel -> RequestsOf({"join"}) \cup {NoRequest}]
  /\ pushQ \in [Channel -> Seq(PushKind)]
  /\ phase \in [Channel -> Phase]
  /\ task \in [Channel -> TaskType]
  /\ commands \in [Channel -> Seq(RequestsOf(UserKind))]
  /\ sends \in [Channel -> Seq(RequestsOf({"call", "cast"}))]
  /\ stop \in [Channel -> BOOLEAN]

(* A channel in Joining or Leaving has an answer to come: it has the       *)
(* oneshot of a command that a running socket task still holds, or of an   *)
(* answer that ends the state.  The exception is a leave that the end of   *)
(* the socket task dropped: left_rx fails, its branch rests, and nothing   *)
(* but a shutdown of the channel ends Leaving.  Callers wait in no other   *)
(* state.                                                                  *)
WaitsForLiveAnswer ==
  \A c \in Channel :
    LET t == task[c] IN
    /\ phase[c] \in {"Joining", "Leaving"} =>
         /\ t.awaiting # NoRequest
         /\ \/ outcome[t.awaiting] = "pending" /\ ~closed
            \/ outcome[t.awaiting] = "dropped" /\ closed
            \/ /\ phase[c] = "Joining"
               /\ outcome[t.awaiting] \in {"ok", "rejected", "disconnected", "timeout", "dropped"}
            \/ phase[c] = "Leaving" /\ outcome[t.awaiting] \in {"ok", "error"}
    /\ t.joiners # {} => phase[c] = "Joining" \/ Busy(c)
    /\ t.leavers # {} => phase[c] = "Leaving" \/ Busy(c)

(* A channel has at most one join or leave under way at the socket, and    *)
(* never one beside a join that it has the receivers of: what SocketListener*)
(* relies on when it files a join under topic and join reference only.     *)
OneUnderWay ==
  \A r \in RequestsOf({"join", "leave"}) :
    outcome[r] # "free" =>
      task[r.chan].awaiting = r /\ receiving[r.chan] = NoRequest

(* A caller of join is told how the join ended, by whatever ended it, the  *)
(* news or a leave of another user among them: the running task drops no   *)
(* caller but one whose command it takes up too late.                      *)
JoinersTold ==
  [][\A u \in RequestsOf({"channel_join"}) :
       outcome[u] = "pending" /\ outcome'[u] = "dropped" =>
         \/ phase'[u.chan] \in Ended
         \/ u \in Range(commands[u.chan]) /\ phase'[u.chan] = "WaitingToRejoin"]_vars

(* Nor does it drop a caller of leave while it runs, unless a join that    *)
(* came too late took the place of the leave.                              *)
LeaversTold ==
  [][\A u \in RequestsOf({"channel_leave"}) :
       outcome[u] = "pending" /\ outcome'[u] = "dropped" =>
         \/ phase'[u.chan] \in Ended
         \/ phase[u.chan] = "Leaving" /\ phase'[u.chan] = "WaitingToRejoin"]_vars

(* Rejoins back off: while a channel goes on rejoining, through losses and *)
(* returns of the connection, its attempts are never counted from anew,    *)
(* and a join that failed is counted.                                      *)
RejoinBacksOff ==
  [][\A c \in Channel : NoRejoin \notin {task[c].rejoin, task'[c].rejoin} =>
       /\ task'[c].rejoin >= task[c].rejoin
       /\ phase[c] = "Joining" /\ phase'[c] = "WaitingToRejoin" =>
            task'[c].rejoin > task[c].rejoin \/ task[c].rejoin = MaxAttempts]_vars

-----------------------------------------------------------------------------
(***************************************************************************)
(* What documentation says and the code does not do.                       *)
(***************************************************************************)
(* join answers within its timeout: its caller is not left to wait for the *)
(* end of a task that runs on (listener_shutdown).                         *)
JoinersToldWhileRunning ==
  [][\A u \in RequestsOf({"channel_join"}) :
       outcome[u] = "pending" /\ outcome'[u] = "dropped" => phase'[u.chan] \in Ended]_vars
=============================================================================
