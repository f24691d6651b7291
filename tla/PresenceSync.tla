---------------------------- MODULE PresenceSync ----------------------------
(***************************************************************************)
(* The task behind `Presences` (src/rust/presences/listener.rs): it keeps  *)
(* the list of who is present on a channel from the presence_state and     *)
(* presence_diff events of the server, and broadcasts joins and leaves.    *)
(*                                                                         *)
(* A presence is the set of its metas, and a meta its join reference.  The *)
(* server is the environment.  Its presence_state is a push to one channel *)
(* and waits in push_rx, its presence_diff is a broadcast and waits in     *)
(* broadcast_rx, until the channel's task forwards them: what the server   *)
(* sent in one order may be read in another.                               *)
(***************************************************************************)
EXTENDS Integers, Sequences, Functions

CONSTANTS Key,          \* who can be present
          Ref,          \* join references of metas
          PushCap,      \* capacity of push_rx (10 in the code)
          BroadcastCap, \* capacity of broadcast_rx (50 in the code)
          EventCap      \* capacity of event_payload_tx (10 in the code)

ASSUME CapAssumption == /\ PushCap \in Nat \ {0}
                        /\ BroadcastCap \in Nat \ {0}
                        /\ EventCap \in Nat \ {0}

VARIABLES
  pc,         \* the task: "starting", "listening" or "ended"
  presence,   \* presence_by_key: the metas of each listed key
  events,     \* events: what the task has not read of event_payload_tx
  told,       \* history: the metas of each key by the last Join or Leave sent
  truth,      \* the server's list: who is present with which meta
  following,  \* whether the channel is joined, and the server sends it diffs
  owed,       \* whether the presence_state of the last join is still to come
  pushes,     \* push_rx of the joined channel
  broadcasts, \* broadcast_rx of the joined channel
  polled,     \* the channel's select has found push_rx empty and goes on
  intact      \* history: since the last presence_state was sent, no diff was
              \* lost or read before it

serverVars == <<truth, following, owed>>
channelVars == <<pushes, broadcasts, polled>>
vars == <<pc, presence, events, told, serverVars, channelVars, intact>>

-----------------------------------------------------------------------------
(***************************************************************************)
(* PresenceByKey                                                           *)
(***************************************************************************)
PresenceByKey == UNION {[K -> SUBSET Ref] : K \in SUBSET Key}
NoPresence == [k \in {} |-> {}]
Metas(p, k) == IF k \in DOMAIN p THEN p[k] ELSE {}

(* What `new` has and `old` has not, by key; a key that is in both counts  *)
(* only when it has such metas.                                            *)
Beyond(new, old) ==
  [k \in {j \in DOMAIN new : j \notin DOMAIN old \/ new[j] \ old[j] # {}} |->
     new[k] \ Metas(old, k)]

(* The first loop of sync_diff: joined metas are added to the current ones.*)
Merged(cur, joined) ==
  [k \in DOMAIN cur \cup DOMAIN joined |-> Metas(cur, k) \cup Metas(joined, k)]

\* Mutant: a key is kept when its last meta has left.
WithoutKept(cur, left) == [k \in DOMAIN cur |-> cur[k] \ Metas(left, k)]
(* The second loop: a key goes with the last of its metas.                 *)
Without(cur, left) ==
  LET emptied == {k \in DOMAIN cur \cap DOMAIN left : cur[k] \subseteq left[k]} IN
  [k \in DOMAIN cur \ emptied |-> cur[k] \ Metas(left, k)]

\* Mutant: a Join carries the metas that joined, not those now present.
JoinSentJoined(k, cur, joined) == joined[k]
(* The `joined` presence of the Join sent for k.                           *)
JoinSent(k, cur, joined) == Merged(cur, joined)[k]

\* Mutant: a Leave is sent only for who is still listed after it.
SyncDiffQuiet(cur, joined, left) ==
  /\ presence' = Without(Merged(cur, joined), left)
  /\ told' = [k \in Key |->
       IF k \in DOMAIN left /\ k \in DOMAIN Without(Merged(cur, joined), left)
       THEN Merged(cur, joined)[k] \ left[k]
       ELSE IF k \in DOMAIN joined THEN JoinSent(k, cur, joined) ELSE told[k]]
(* sync_diff sends a Join for each joined key, then a Leave for each left  *)
(* key it still lists, with what is left of it as `current`.               *)
SyncDiff(cur, joined, left) ==
  /\ presence' = Without(Merged(cur, joined), left)
  /\ told' = [k \in Key |->
       IF k \in DOMAIN left /\ k \in DOMAIN Merged(cur, joined)
       THEN Merged(cur, joined)[k] \ left[k]
       ELSE IF k \in DOMAIN joined THEN JoinSent(k, cur, joined) ELSE told[k]]

\* Mutant: only keys that left altogether are taken for left.
LeftInKeys(cur, new) == Restrict(cur, DOMAIN cur \ DOMAIN new)
LeftIn(cur, new) == Beyond(cur, new)

(* sync: keys that are not in the new list are taken out first, so that    *)
(* sync_diff does not find them when it is to send their Leave.            *)
Sync(cur, new) ==
  LET kept == Restrict(cur, DOMAIN cur \cap DOMAIN new)
  IN  SyncDiff(kept, Beyond(new, kept), LeftIn(cur, new))

-----------------------------------------------------------------------------
(***************************************************************************)
(* The task                                                                *)
(***************************************************************************)
State(p) == [kind |-> "presence_state", state |-> p]
Diff(joins, leaves) == [kind |-> "presence_diff", joins |-> joins, leaves |-> leaves]
Other == [kind |-> "other"]

Init ==
  /\ pc = "starting" /\ presence = NoPresence /\ events = <<>>
  /\ told = [k \in Key |-> {}]
  /\ truth = {} /\ following = FALSE /\ owed = FALSE
  /\ pushes = <<>> /\ broadcasts = <<>> /\ polled = FALSE /\ intact = FALSE

(* The task runs for the first time and subscribes to the events.          *)
Listen ==
  /\ pc = "starting" /\ pc' = "listening"
  /\ UNCHANGED <<presence, events, told, serverVars, channelVars, intact>>

Receive(kind) ==
  /\ pc = "listening"
  /\ events # <<>> /\ Head(events).kind = kind
  /\ events' = Tail(events)
  /\ UNCHANGED <<pc, serverVars, channelVars, intact>>

PresenceState ==
  /\ Receive("presence_state")
  /\ Sync(presence, Head(events).state)

PresenceDiff ==
  /\ Receive("presence_diff")
  /\ SyncDiff(presence, Head(events).joins, Head(events).leaves)

(* Any other event, and a payload that is not what its event should carry. *)
Ignore == Receive("other") /\ UNCHANGED <<presence, told>>

(* Presences::shutdown, or its last handle is dropped.                     *)
Shutdown ==
  /\ pc = "listening" /\ pc' = "ended"
  /\ UNCHANGED <<presence, events, told, serverVars, channelVars, intact>>

-----------------------------------------------------------------------------
(***************************************************************************)
(* The channel's task, joined: it forwards what the server sends.          *)
(***************************************************************************)
(* A broadcast queue: one value too many overwrites the oldest, and who    *)
(* reads goes on behind it (Lagged).                                       *)
Enqueue(q, cap, e) == Append(IF Len(q) < cap THEN q ELSE Tail(q), e)

StateIn(q) == \E i \in DOMAIN q : q[i].kind = "presence_state"

\* Mutant: nothing is overwritten, however far the task is behind.
SendEventUnbounded(e) == events' = IF pc = "listening" THEN Append(events, e) ELSE events
(* send_event_payload: the task gets the event once it has subscribed.     *)
SendEventPayload(e) == events' = IF pc = "listening" THEN Enqueue(events, EventCap, e) ELSE events

(* What is lost then is made good by a presence_state that is behind it.   *)
Covered(behind) == Len(events) < EventCap \/ StateIn(Tail(events)) \/ StateIn(behind)

(* The select finds push_rx empty, and looks at broadcast_rx next.         *)
PollPushes ==
  /\ following /\ pushes = <<>> /\ ~polled
  /\ polled' = TRUE
  /\ UNCHANGED <<pc, presence, events, told, serverVars, pushes, broadcasts, intact>>

(* push_received.                                                          *)
ForwardPush ==
  /\ pushes # <<>>
  /\ pushes' = Tail(pushes) /\ polled' = FALSE
  /\ SendEventPayload(Head(pushes))
  /\ intact' = (intact /\ IF pc = "listening" THEN Covered(pushes) ELSE StateIn(Tail(pushes)))
  /\ UNCHANGED <<pc, presence, told, serverVars, broadcasts>>

(* A presence_state has come since the select found push_rx empty: on      *)
(* another thread, the socket's task went on.                              *)
Raced == polled /\ StateIn(pushes)

\* Mutant: the select takes what is ready in any order (no `biased;`).
ForwardBroadcastUnbiased ==
  /\ broadcasts # <<>>
  /\ broadcasts' = Tail(broadcasts) /\ polled' = FALSE
  /\ SendEventPayload(Head(broadcasts))
  /\ intact' = (intact /\ pc = "listening" /\ ~Raced /\ Covered(<<>>))
  /\ UNCHANGED <<pc, presence, told, serverVars, pushes>>
(* The select takes a broadcast.                                           *)
ForwardBroadcast ==
  /\ polled /\ broadcasts # <<>>
  /\ broadcasts' = Tail(broadcasts) /\ polled' = FALSE
  /\ SendEventPayload(Head(broadcasts))
  /\ intact' = (intact /\ pc = "listening" /\ ~Raced /\ Covered(<<>>))
  /\ UNCHANGED <<pc, presence, told, serverVars, pushes>>

-----------------------------------------------------------------------------
(***************************************************************************)
(* The environment: Phoenix.Presence, and the connection to it             *)
(***************************************************************************)
Only(k, r) == [j \in {k} |-> {r}]
ListOf(pairs) == [k \in {t[1] : t \in pairs} |-> {t[2] : t \in {u \in pairs : u[1] = k}}]

(* handle_broadcast: a value for every joined channel of the topic.        *)
Broadcast(e) == broadcasts' = Enqueue(broadcasts, BroadcastCap, e)

(* Presence.track, untrack and update, and the diff of each.               *)
Change(now, joins, leaves) ==
  /\ truth' = now
  /\ IF following
     THEN /\ Broadcast(Diff(joins, leaves))
          /\ intact' = (intact /\ Len(broadcasts) < BroadcastCap)
     ELSE intact' = FALSE /\ UNCHANGED broadcasts
  /\ UNCHANGED <<pc, presence, events, told, following, owed, pushes, polled>>

Unknown(r) == \A k \in Key : <<k, r>> \notin truth

Track(k, r) ==
  /\ Unknown(r)
  /\ Change(truth \cup {<<k, r>>}, Only(k, r), NoPresence)
Untrack(k, r) ==
  /\ <<k, r>> \in truth
  /\ Change(truth \ {<<k, r>>}, NoPresence, Only(k, r))
Update(k, r, s) ==
  /\ <<k, r>> \in truth /\ Unknown(s)
  /\ Change((truth \ {<<k, r>>}) \cup {<<k, s>>}, Only(k, s), Only(k, r))

(* The channel joins: the server has a presence_state to send to it.       *)
ChannelJoins ==
  /\ ~following /\ following' = TRUE /\ owed' = TRUE
  /\ UNCHANGED <<pc, presence, events, told, truth, channelVars, intact>>

(* handle_push: the socket waits while there is no room.                   *)
SendState ==
  /\ following /\ owed /\ owed' = FALSE
  /\ Len(pushes) < PushCap
  /\ pushes' = Append(pushes, State(ListOf(truth)))
  /\ intact' = TRUE
  /\ UNCHANGED <<pc, presence, events, told, truth, following, broadcasts, polled>>

(* The channel leaves, or its connection is lost: its receivers are        *)
(* dropped with what is in them.                                           *)
ChannelLeaves ==
  /\ following /\ following' = FALSE /\ owed' = FALSE
  /\ pushes' = <<>> /\ broadcasts' = <<>> /\ polled' = FALSE
  /\ intact' = (intact /\ pushes = <<>> /\ broadcasts = <<>>)
  /\ UNCHANGED <<pc, presence, events, told, truth>>

Chatter ==
  /\ following
  /\ \/ /\ Len(pushes) < PushCap
        /\ pushes' = Append(pushes, Other)
        /\ UNCHANGED <<broadcasts, intact>>
     \/ /\ Broadcast(Other)
        /\ intact' = (intact /\ Len(broadcasts) < BroadcastCap)
        /\ UNCHANGED pushes
  /\ UNCHANGED <<pc, presence, events, told, serverVars, polled>>

Server ==
  \/ ChannelJoins \/ SendState \/ ChannelLeaves \/ Chatter
  \/ \E k \in Key, r \in Ref : Track(k, r) \/ Untrack(k, r) \/ \E s \in Ref : Update(k, r, s)

Next == \/ Listen \/ PresenceState \/ PresenceDiff \/ Ignore \/ Shutdown
        \/ PollPushes \/ ForwardPush \/ ForwardBroadcast \/ Server

Spec == Init /\ [][Next]_vars

-----------------------------------------------------------------------------
(***************************************************************************)
(* Properties                                                              *)
(***************************************************************************)
(* Presences and events are well formed: the server names no key without   *)
(* a meta, and what waits in each queue is bounded.                        *)
Occupied == {p \in PresenceByKey : \A k \in DOMAIN p : p[k] # {}}
PushEvent == [kind : {"presence_state"}, state : Occupied] \cup [kind : {"other"}]
BroadcastEvent == [kind : {"presence_diff"}, joins : Occupied, leaves : Occupied]
                  \cup [kind : {"other"}]
Event == PushEvent \cup BroadcastEvent
TypeOK ==
  /\ pc \in {"starting", "listening", "ended"}
  /\ presence \in PresenceByKey
  /\ events \in Seq(Event) /\ Len(events) <= EventCap
  /\ pushes \in Seq(PushEvent) /\ Len(pushes) <= PushCap
  /\ broadcasts \in Seq(BroadcastEvent) /\ Len(broadcasts) <= BroadcastCap
  /\ told \in [Key -> SUBSET Ref]
  /\ truth \in SUBSET (Key \X Ref)
  /\ following \in BOOLEAN /\ owed \in BOOLEAN /\ polled \in BOOLEAN /\ intact \in BOOLEAN

(* When everything sent has been read, and no diff that matters was lost   *)
(* to a lag of either queue, to a rejoin or to the time before the task    *)
(* listened, nor read before an older presence_state, the list is the      *)
(* server's.  A presence_state that overtakes older diffs does no harm.    *)
CaughtUp ==
  /\ pc = "listening" /\ intact
  /\ pushes = <<>> /\ broadcasts = <<>> /\ events = <<>>
  => presence = ListOf(truth)

(* A user who follows the Joins and Leaves knows the metas of every key    *)
(* that is listed: the broadcasts never fall behind Presences::list.       *)
ListedAsTold == \A k \in DOMAIN presence : told[k] = presence[k]

(* Nobody is listed whose last meta has left.                              *)
NobodyListedEmpty == \A k \in DOMAIN presence : presence[k] # {}

(* leaves "broadcasts when a Presence leaves": a key is taken off the list *)
(* without a Leave only by a presence_state that does not name it, for     *)
(* sync_diff then does not find it any more (sync), and by no diff.        *)
LeavesTold ==
  [][\A k \in DOMAIN presence \ DOMAIN presence' :
       \/ told'[k] = {}
       \/ Head(events).kind = "presence_state" /\ k \notin DOMAIN Head(events).state]_vars
=============================================================================
