---------------------------- MODULE PhoenixClient ----------------------------
(***************************************************************************)
(* A socket with its channels: the task of SocketListener and those of     *)
(* ChannelListener, each in the place of the other's environment.          *)
(*                                                                         *)
(* They share the command queues of the socket, the oneshots in them, the  *)
(* connectivity broadcast and the push queues of joined channels.          *)
(***************************************************************************)
EXTENDS PhoenixCommands

CONSTANTS HasStrategy, Strategy

ASSUME ClientStrategyAssumption ==
  /\ HasStrategy \in BOOLEAN
  /\ Strategy \in [0..MaxAttempts -> Nat]

VARIABLES
  pc, state, status, attempts, delay, serving, stateQ, spawnQ, joins, timers, joined,
  replies, heartbeat, blocked, sent,                        \* the socket task's own
  chanStateQ, sendQ, connectivity, unread, outcome, receiving, pushQ, phase, \* shared
  task, commands, sends, stop,                              \* the channel tasks' own
  born,         \* history: the state each channel was spawned in
  forwarded     \* history: calls and casts that went on from a channel to the socket

socketOnly  == <<pc, state, status, attempts, delay, serving, stateQ, spawnQ, joins,
                 timers, joined, replies, heartbeat, blocked, sent>>
shared      == <<chanStateQ, sendQ, connectivity, unread, outcome, receiving, pushQ, phase>>
channelOnly == <<task, commands, sends, stop>>
historyVars == <<born, forwarded>>
vars == <<socketOnly, shared, channelOnly, historyVars>>

(* The queue whose head the socket task has in its hands while it writes.  *)
Writes == IF pc = "writing_state" THEN "state"
          ELSE IF pc = "writing_send" THEN "send" ELSE "none"

S  == INSTANCE SocketListener
Ch == INSTANCE ChannelListener WITH closed <- (pc = "exited"), writing <- Writes

Init == S!Init /\ Ch!Init /\ born = phase /\ forwarded = {}

(* A command of a task is made with a oneshot and a reference of its own.  *)
MadeAfresh(c) ==
  LET r == task'[c].busy IN
  r \in RequestsOf({"join", "leave"}) /\ r # task[c].busy => S!Fresh(r)

SocketStep  == (S!Listener \/ S!Network) /\ UNCHANGED channelOnly
ChannelStep == /\ UNCHANGED socketOnly
               /\ \E c \in Channel : Ch!Task(c) /\ MadeAfresh(c)
SocketUser  == /\ \/ \E r \in RequestsOf(StateKind) : \/ S!SubmitState(r) \/ S!TakeAnswer(r)
                                                      \/ S!GiveUp(r)
                  \/ \E c \in Channel : S!RequestChannel(c)
               /\ UNCHANGED channelOnly
ChannelUser == /\ UNCHANGED socketOnly
               /\ \/ \E u \in Request : S!Fresh(u) /\ (Ch!UserCommand(u) \/ Ch!UserSend(u))
                  \/ \E u \in Request : Ch!UserReads(u)
                  \/ \E c \in Channel : Ch!UserShutdown(c)

(* Calls and casts that wait in a channel, for it or in its handler.       *)
InChannels == UNION {Range(sends[c]) \cup {task[c].busy} : c \in Channel}

Remember ==
  /\ born' = [c \in Channel |-> IF phase[c] \in Unspawned THEN phase'[c] ELSE born[c]]
  /\ forwarded' = (forwarded \cup Range(sendQ')) \ InChannels'

Next == (SocketStep \/ ChannelStep \/ SocketUser \/ ChannelUser) /\ Remember

Spec == Init /\ [][Next]_vars

-----------------------------------------------------------------------------
(***************************************************************************)
(* Fairness.  The runtime goes on with a task that can go on, and a select *)
(* takes each of its branches that is ready again and again.  Nothing is   *)
(* assumed of users, of the server, which need not read what is written to *)
(* it, or of when a push finds room.                                       *)
(***************************************************************************)
BySocket(step) == step /\ UNCHANGED channelOnly /\ Remember
SocketAwaits == \/ S!SocketConnectOk \/ S!SocketConnectError
                \/ S!Publish \/ S!PushUnblocked \/ S!Exit
ChannelRuns(c) == UNCHANGED socketOnly /\ Ch!Task(c) /\ MadeAfresh(c) /\ Remember

Fairness ==
  /\ WF_vars(BySocket(SocketAwaits))
  /\ SF_vars(BySocket(S!WriteState)) /\ SF_vars(BySocket(S!WriteSend))
  /\ \A c \in Channel : WF_vars(ChannelRuns(c))

FairSpec == Spec /\ Fairness

-----------------------------------------------------------------------------
(***************************************************************************)
(* Each task is the environment the other's module assumes.                *)
(***************************************************************************)
(* The socket task sees of a channel whether it runs, and of a call or a   *)
(* cast what becomes of it once the channel has sent it on.                *)
SocketSees(c) == IF phase[c] \in Unspawned THEN phase[c]
                 ELSE IF phase[c] \in Ended THEN "ShutDown" ELSE born[c]
SocketsPhase == [c \in Channel |-> SocketSees(c)]
SocketsRequest == RequestsOf(StateKind \cup ChanKind)
SocketKnows(r) == r.kind \in {"call", "cast"} => r \in forwarded
SocketsOutcome == [r \in SocketsRequest |-> IF SocketKnows(r) THEN outcome[r] ELSE "free"]
AsSocket == INSTANCE SocketListener
  WITH Request <- SocketsRequest, outcome <- SocketsOutcome, phase <- SocketsPhase

ChannelsRequest == RequestsOf(ChanKind \cup UserKind)
ChannelsOutcome == [r \in ChannelsRequest |-> outcome[r]]
AsChannels == INSTANCE ChannelListener
  WITH Request <- ChannelsRequest, outcome <- ChannelsOutcome, closed <- (pc = "exited"),
       writing <- Writes

(* What the channel tasks do to the socket is what SocketListener allows   *)
(* its clients: its properties hold of the socket in the client.           *)
SocketInItsEnvironment == AsSocket!Spec

(* What the socket task does to its channels is what ChannelListener       *)
(* expects: its properties hold of the channels in the client.             *)
ChannelsInTheirEnvironment == AsChannels!Spec

-----------------------------------------------------------------------------
(***************************************************************************)
(* Properties                                                              *)
(***************************************************************************)
(* A joined channel has its pushes coming: the socket has the senders of   *)
(* the receivers it holds, or news it has not read will tell it otherwise. *)
JoinedIsRegistered ==
  \A c \in Channel :
    phase[c] = "Joined" /\ pc # "exited" => joined[c] = receiving[c] \/ unread[c] > 0

(* A channel that acts as if the socket were connected, and has read all   *)
(* news of it, is right: missed values of the broadcast never mislead it.   *)
ConnectedAsTheyThink ==
  \A c \in Channel :
    /\ phase[c] \in {"WaitingToJoin", "WaitingToRejoin", "Joined", "Leaving", "Left"}
    /\ unread[c] = 0 /\ pc # "exited"
    => state = "Connected"

(* A caller of call is told how it ended by whichever task has its oneshot,*)
(* through lost connections, rejoins and a shutdown: neither task drops it *)
(* before it ends itself.                                                  *)
CallersTold ==
  [][\A r \in RequestsOf({"call"}) :
       outcome[r] = "pending" /\ outcome'[r] = "dropped" =>
         pc' = "exited" \/ phase'[r.chan] \in Ended]_vars

(* The socket task waits for room in a channel's push queue, while the     *)
(* channel's handler waits for room in a queue of the socket.              *)
CircularWait ==
  /\ pc = "pushing"
  /\ LET c == blocked[1]
         r == task[c].busy IN
     /\ r # NoRequest
     /\ QueueCap = IF r.kind \in {"join", "leave"} THEN Len(chanStateQ) ELSE Len(sendQ)

(* A push to a slow channel holds the socket up only for a time, unless    *)
(* the two wait for each other: then no disconnect, no shutdown and no end *)
(* of a connection gets through to either of them again (handle_push).     *)
(* The channel's select prefers commands of users to pushes, so they must  *)
(* not go on for ever.                                                     *)
PushesGoOn ==
  \A c \in Channel :
    blocked # <<>> /\ blocked[1] = c
      ~> (blocked = <<>> \/ []CircularWait \/ []<>(commands[c] # <<>>))

(* A channel that is shut down ends, however much traffic and news it has: *)
(* unless its handler has a command for a socket that does not take it,    *)
(* for it never connects again, waits for this channel, or for a peer that *)
(* does not read.                                                          *)
ChannelShutdownEnds ==
  \A c \in Channel :
    stop[c] ~> (S!Spawned(c) =>
                  [](/\ Ch!Busy(c)
                     /\ state # "Connected" \/ CircularWait \/ pc \in S!Writing))

-----------------------------------------------------------------------------
(***************************************************************************)
(* What documentation says and the code does not do.                       *)
(***************************************************************************)
(* A channel that is to rejoin does so as soon as the socket reconnects:   *)
(* it does not wait for a connection it has been told of.                  *)
RejoinsWhenConnected ==
  \A c \in Channel :
    phase[c] = "WaitingForSocketToConnect" /\ task[c].rejoin # Ch!NoRejoin
      => connectivity # "Connected" \/ unread[c] > 0
=============================================================================
