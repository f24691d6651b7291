------------------------------ MODULE MCChannel ------------------------------
(***************************************************************************)
(* Instances of ChannelListener for TLC.  The oneshots that exist bound    *)
(* what users and the task have under way at a time.                       *)
(***************************************************************************)
EXTENDS ChannelListener

Requests(kind) == [kind : {kind}, chan : Channel, slot : Slot]
SocketCommands == Requests("join") \cup Requests("leave")

(* Joins, leaves and casts of users, so that a command meets the waiters   *)
(* of another, and what the task needs to serve them and to rejoin.        *)
UserRequests == Requests("channel_join") \cup Requests("channel_leave")
                \cup Requests("cast") \cup SocketCommands

(* A user that joins and calls.                                            *)
CallRequests == Requests("channel_join") \cup Requests("join") \cup Requests("call")
=============================================================================
