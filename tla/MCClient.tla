------------------------------ MODULE MCClient ------------------------------
(***************************************************************************)
(* Instances of PhoenixClient for TLC.                                     *)
(***************************************************************************)
EXTENDS PhoenixClient

OfSocket(kinds) == [kind : kinds, chan : {NoChannel}, slot : Slot]
OfChannel(kind) == [kind : {kind}, chan : Channel, slot : Slot]

(* A user that connects the socket and joins a channel.                    *)
JoinRequests == OfSocket({"connect"})
                \cup OfChannel("channel_join") \cup OfChannel("join")

(* The rejoins of a channel that has joined, and a cast and a call of its users. *)
SendRequests == OfChannel("cast") \cup OfChannel("call") \cup OfChannel("join")

(* After the first join: its deadline is still to come.                    *)
JoinedInit ==
  \E join \in [Channel -> RequestsOf({"join"})] :
    /\ \A c \in Channel : join[c].chan = c
    /\ pc = "select" /\ state = "Connected" /\ status = "Connected"
    /\ attempts = 0 /\ delay = 0 /\ serving = NoRequest
    /\ stateQ = <<>> /\ spawnQ = <<>> /\ chanStateQ = <<>> /\ sendQ = <<>>
    /\ joins = [c \in Channel |-> NoRequest] /\ joined = join
    /\ timers = {join[c] : c \in Channel} /\ replies = {} /\ heartbeat = FALSE
    /\ sent = [c \in Channel |-> {}]
    /\ connectivity = "Connected" /\ unread = [c \in Channel |-> 0]
    /\ outcome = [r \in Request |-> "free"]
    /\ receiving = join /\ pushQ = [c \in Channel |-> <<>>] /\ blocked = <<>>
    /\ phase = [c \in Channel |-> "Joined"] /\ task = [c \in Channel |-> Ch!Blank]
    /\ commands = [c \in Channel |-> <<>>] /\ sends = [c \in Channel |-> <<>>]
    /\ stop = [c \in Channel |-> FALSE]
    /\ born = [c \in Channel |-> "WaitingToJoin"] /\ forwarded = {}

JoinedSpec == JoinedInit /\ [][Next]_vars /\ Fairness

NoStrategy == [n \in 0..MaxAttempts |-> 0]
=============================================================================
