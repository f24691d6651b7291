------------------------------ MODULE MCSocket ------------------------------
(***************************************************************************)
(* Instances of SocketListener for TLC.  The oneshots that exist bound the *)
(* commands in flight: a slot is used again once nothing remembers it.     *)
(***************************************************************************)
EXTENDS SocketListener, TLC

CONSTANTS One,   \* the slot of requests there is one of
          Twins  \* the slots of requests there are two of, which are alike
Slots == {One} \cup Twins
Alike == Permutations(Twins)

StateRequests(kinds) == [kind : kinds, chan : {NoChannel}, slot : {One}]
ChanRequests(kind, slots) == [kind : {kind}, chan : Channel, slot : slots]

(* Two joins and a call of one channel: retries, and calls meanwhile.      *)
CallRequests == StateRequests({"connect"})
                \cup ChanRequests("join", Twins) \cup ChanRequests("call", {One})

(* Two joins and a leave of one channel: leaving while joining.            *)
LeaveRequests == StateRequests({"connect"})
                 \cup ChanRequests("join", Twins) \cup ChanRequests("leave", {One})

(* Connections that users make and end, with a join, a leave and a cast.   *)
LifecycleRequests == StateRequests({"connect", "disconnect"}) \cup
                     UNION {ChanRequests(kind, {One}) : kind \in {"join", "leave", "cast"}}

(* What users ask of the socket, with one join: small enough for liveness. *)
LivenessRequests == StateRequests({"connect", "disconnect", "shutdown"}) \cup ChanRequests("join", {One})

NoStrategy == [n \in 0..MaxAttempts |-> 0]
=============================================================================
