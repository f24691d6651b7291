-------------------------- MODULE PhoenixCommands --------------------------
(***************************************************************************)
(* What users, the channel tasks and the socket task exchange.             *)
(*                                                                         *)
(* A command carries the sending half of a tokio oneshot channel and, when *)
(* a frame is sent for it, that frame carries a reference made for it.  A  *)
(* Request stands for all three: the command, its oneshot, its frame.  A   *)
(* cast or a shutdown has no oneshot: its outcome says only whether it is  *)
(* under way.                                                              *)
(***************************************************************************)
EXTENDS Integers, Sequences, FiniteSets, Functions

CONSTANTS Channel,      \* channel tasks: a topic and the JoinReference made for it
          Slot,         \* what tells requests of one kind and channel apart
          Request,      \* commands: records of kind, chan and slot
          NoChannel,    \* the chan of a request that is about the socket
          NoRequest,    \* no command
          QueueCap,     \* capacity of each command queue of the socket (50 in the code)
          PushKind,     \* pushes of the server: whether one closes the channel
          PushCap,      \* capacity of a channel's push queue (10 in the code)
          MaxAttempts   \* largest attempt counted (u16::MAX in the code)

StateKind == {"connect", "disconnect", "shutdown"} \* from a user to the socket task
ChanKind  == {"join", "leave", "call", "cast"}    \* from a channel task to the socket's
UserKind  == {"channel_join", "channel_leave"}    \* from a user to a channel task

ASSUME ChannelAssumption == NoChannel \notin Channel
ASSUME RequestAssumption ==
  /\ Request \subseteq    [kind : StateKind, chan : {NoChannel}, slot : Slot]
                     \cup [kind : ChanKind \cup UserKind, chan : Channel, slot : Slot]
  /\ NoRequest \notin Request
ASSUME PushAssumption == PushKind \subseteq {"message", "phx_close"}
ASSUME BoundAssumption ==
  /\ QueueCap \in Nat \ {0}
  /\ PushCap \in Nat \ {0}
  /\ MaxAttempts \in Nat \ {0}

RequestsOf(kinds) == {r \in Request : r.kind \in kinds}

(* The states of a channel task.  Between a call of Socket::channel and    *)
(* Channel::spawn it is Requested, and Gone once it ended with an error.   *)
Unspawned == {"none", "Requested"}
Ended     == {"ShutDown", "Gone"}
Phase == {"WaitingForSocketToConnect", "WaitingToJoin", "Joining", "WaitingToRejoin",
          "Joined", "Leaving", "Left", "ShuttingDown"} \cup Unspawned \cup Ended

(* What the receiving half of a oneshot can hold; it is free when nobody   *)
(* has it, whether or not its sending half is still held somewhere.        *)
Answers == {"ok", "rejected", "timeout", "disconnected", "waiting", "error",
            "leaving", "joining", "shutdown", "dropped"}
Outcome == Answers \cup {"free", "pending"}

SmallerOf(a, b) == IF a < b THEN a ELSE b

(* oneshot::Sender::send: a receiver that went away never sees the value,  *)
(* and a command without a oneshot is done with.                           *)
Unanswered == RequestsOf({"cast", "shutdown"})
Answer(out, R, o) ==
  [r \in Request |-> IF r \notin R \/ out[r] # "pending" THEN out[r]
                     ELSE IF r \in Unanswered THEN "free" ELSE o]

(* The receiving half goes away, read or not.                              *)
Release(out, R) ==
  [r \in Request |-> IF r \in R THEN "free" ELSE out[r]]

SleepMultiplier(n) == <<0, 1, 2, 5, 10>>[SmallerOf(n, 4) + 1]

\* Mutant: an attempt that failed is not counted.
NextAttemptSame(n) == n
\* Mutant: the attempts are counted past the width of their counter.
NextAttemptUnbounded(n) == n + 1
NextAttempt(n) == SmallerOf(n + 1, MaxAttempts)
=============================================================================
