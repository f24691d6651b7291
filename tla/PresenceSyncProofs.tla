------------------------- MODULE PresenceSyncProofs -------------------------
(***************************************************************************)
(* Proofs about PresenceSync.                                              *)
(***************************************************************************)
EXTENDS PresenceSync, TLAPS

-----------------------------------------------------------------------------
(***************************************************************************)
(* PresenceByKey                                                           *)
(***************************************************************************)
(* A function from some of the keys to metas is a PresenceByKey, and that  *)
(* is all there is to one.                                                 *)
LEMMA Known ==
  ASSUME NEW p, p \in PresenceByKey
  PROVE  /\ DOMAIN p \subseteq Key
         /\ p = [k \in DOMAIN p |-> p[k]]
         /\ \A k \in DOMAIN p : p[k] \subseteq Ref
  BY DEF PresenceByKey

LEMMA Made ==
  ASSUME NEW K \in SUBSET Key, NEW p, p \in [K -> SUBSET Ref]
  PROVE  p \in PresenceByKey
  BY DEF PresenceByKey

LEMMA MergedType ==
  ASSUME NEW cur \in PresenceByKey, NEW joined \in PresenceByKey
  PROVE  /\ Merged(cur, joined) \in PresenceByKey
         /\ DOMAIN Merged(cur, joined) = DOMAIN cur \cup DOMAIN joined
<1> DEFINE K == DOMAIN cur \cup DOMAIN joined
<1>1. K \in SUBSET Key
  BY Known
<1>2. \A k \in K : Metas(cur, k) \cup Metas(joined, k) \in SUBSET Ref
  BY Known DEF Metas
<1>3. Merged(cur, joined) \in [K -> SUBSET Ref]
  BY <1>2 DEF Merged
<1> QED
  BY <1>1, <1>3, Made DEF Merged

LEMMA WithoutType ==
  ASSUME NEW cur \in PresenceByKey, NEW left
  PROVE  /\ Without(cur, left) \in PresenceByKey
         /\ DOMAIN Without(cur, left) \subseteq DOMAIN cur
<1> DEFINE K == DOMAIN Without(cur, left)
<1>1. K \subseteq DOMAIN cur /\ K \in SUBSET Key
  BY Known DEF Without
<1>2. \A k \in K : cur[k] \ Metas(left, k) \in SUBSET Ref
  BY <1>1, Known
<1>3. Without(cur, left) \in [K -> SUBSET Ref]
  BY <1>2 DEF Without
<1> QED
  BY <1>1, <1>3, Made

(* What a list has beyond another is nowhere empty if the list is not.     *)
LEMMA BeyondType ==
  ASSUME NEW new \in Occupied, NEW old \in PresenceByKey
  PROVE  Beyond(new, old) \in Occupied
<1> DEFINE K == {j \in DOMAIN new : j \notin DOMAIN old \/ new[j] \ old[j] # {}}
<1>1. new \in PresenceByKey /\ \A k \in DOMAIN new : new[k] # {}
  BY DEF Occupied
<1>2. K \in SUBSET Key
  BY <1>1, Known
<1>3. \A k \in K : new[k] \ Metas(old, k) \in SUBSET Ref
  BY <1>1, Known
<1>4. \A k \in K : new[k] \ Metas(old, k) # {}
  BY <1>1 DEF Metas
<1>5. Beyond(new, old) \in [K -> SUBSET Ref]
  BY <1>3 DEF Beyond
<1>6. Beyond(new, old) \in PresenceByKey
  BY <1>2, <1>5, Made
<1>7. \A k \in DOMAIN Beyond(new, old) : Beyond(new, old)[k] # {}
  BY <1>4 DEF Beyond
<1> QED
  BY <1>6, <1>7 DEF Occupied

LEMMA RestrictType ==
  ASSUME NEW cur \in Occupied, NEW K, K \subseteq DOMAIN cur
  PROVE  /\ Restrict(cur, K) \in Occupied
         /\ DOMAIN Restrict(cur, K) = K
         /\ \A k \in K : Restrict(cur, K)[k] = cur[k]
<1>1. cur \in PresenceByKey /\ \A k \in DOMAIN cur : cur[k] # {}
  BY DEF Occupied
<1>2. K \in SUBSET Key /\ \A k \in K : cur[k] \in SUBSET Ref
  BY <1>1, Known
<1>3. Restrict(cur, K) \in [K -> SUBSET Ref]
  BY <1>2 DEF Restrict
<1>4. Restrict(cur, K) \in PresenceByKey
  BY <1>2, <1>3, Made
<1> QED
  BY <1>1, <1>4 DEF Restrict, Occupied

(* The lists the server makes.                                             *)
LEMMA ServerLists ==
  /\ NoPresence \in Occupied
  /\ \A k \in Key, r \in Ref : Only(k, r) \in Occupied
  /\ \A pairs \in SUBSET (Key \X Ref) : ListOf(pairs) \in Occupied
<1>1. NoPresence \in Occupied
  <2>1. NoPresence \in [{} -> SUBSET Ref]
    BY DEF NoPresence
  <2> QED
    BY <2>1, Made DEF Occupied, NoPresence
<1>2. ASSUME NEW k \in Key, NEW r \in Ref
      PROVE  Only(k, r) \in Occupied
  <2>1. Only(k, r) \in [{k} -> SUBSET Ref]
    BY DEF Only
  <2> QED
    BY <2>1, Made DEF Occupied, Only
<1>3. ASSUME NEW pairs \in SUBSET (Key \X Ref)
      PROVE  ListOf(pairs) \in Occupied
  <2> DEFINE K == {t[1] : t \in pairs}
  <2>1. K \in SUBSET Key
    OBVIOUS
  <2>2. \A k \in K : {t[2] : t \in {u \in pairs : u[1] = k}} \in (SUBSET Ref) \ {{}}
    OBVIOUS
  <2>3. ListOf(pairs) \in [K -> SUBSET Ref]
    BY <2>2 DEF ListOf
  <2> QED
    BY <2>1, <2>2, <2>3, Made DEF Occupied, ListOf
<1> QED
  BY <1>1, <1>2, <1>3

-----------------------------------------------------------------------------
(***************************************************************************)
(* The invariant                                                           *)
(***************************************************************************)
IInv == TypeOK /\ presence \in Occupied /\ ListedAsTold

(* Both loops of sync_diff keep the list and the broadcasts together.      *)
LEMMA SyncDiffStep ==
  ASSUME told \in [Key -> SUBSET Ref],
         NEW cur \in Occupied, NEW joined \in Occupied, NEW left \in Occupied,
         \A k \in DOMAIN cur : told[k] = cur[k],
         SyncDiff(cur, joined, left)
  PROVE  /\ presence' \in Occupied
         /\ told' \in [Key -> SUBSET Ref]
         /\ ListedAsTold'
<1> DEFINE m == Merged(cur, joined)
<1>1. cur \in PresenceByKey /\ joined \in PresenceByKey /\ left \in PresenceByKey
  BY DEF Occupied
<1>2. m \in PresenceByKey /\ DOMAIN m = DOMAIN cur \cup DOMAIN joined
  BY <1>1, MergedType
<1>3. \A k \in DOMAIN m : m[k] = Metas(cur, k) \cup Metas(joined, k) /\ m[k] # {}
  BY DEF Merged, Metas, Occupied
<1>4. presence' = Without(m, left)
  BY DEF SyncDiff
<1>5. presence' \in PresenceByKey /\ DOMAIN presence' \subseteq DOMAIN m
  BY <1>2, <1>4, WithoutType
<1>6. \A k \in DOMAIN presence' : presence'[k] = m[k] \ Metas(left, k)
  BY <1>4 DEF Without
<1>7. \A k \in DOMAIN presence' : k \in DOMAIN left => ~(m[k] \subseteq left[k])
  BY <1>4, <1>5 DEF Without
<1>8. presence' \in Occupied
  BY <1>3, <1>5, <1>6, <1>7 DEF Occupied, Metas
<1>9. told' \in [Key -> SUBSET Ref]
  <2>1. \A k \in DOMAIN m : m[k] \in SUBSET Ref
    BY <1>2, Known
  <2>2. \A k \in DOMAIN joined : k \in DOMAIN m
    BY <1>2
  <2> QED
    BY <2>1, <2>2 DEF SyncDiff, JoinSent
<1>10. ASSUME NEW k \in DOMAIN presence'
       PROVE  told'[k] = presence'[k]
  <2>1. k \in DOMAIN m /\ k \in Key
    BY <1>2, <1>5, Known
  <2>2. CASE k \in DOMAIN left
    <3>1. told'[k] = m[k] \ left[k]
      BY <2>1, <2>2 DEF SyncDiff
    <3> QED
      BY <1>6, <2>2, <3>1 DEF Metas
  <2>3. CASE k \notin DOMAIN left /\ k \in DOMAIN joined
    <3>1. told'[k] = m[k]
      BY <2>1, <2>3 DEF SyncDiff, JoinSent
    <3> QED
      BY <1>6, <2>3, <3>1 DEF Metas
  <2>4. CASE k \notin DOMAIN left /\ k \notin DOMAIN joined
    <3>1. told'[k] = told[k]
      BY <2>1, <2>4 DEF SyncDiff
    <3>2. told[k] = cur[k] /\ m[k] = cur[k]
      BY <1>2, <1>3, <2>1, <2>4 DEF Metas
    <3> QED
      BY <1>6, <2>4, <3>1, <3>2 DEF Metas
  <2> QED
    BY <2>2, <2>3, <2>4
<1> QED
  BY <1>8, <1>9, <1>10 DEF ListedAsTold

LEMMA Initially == Init => IInv
<1> SUFFICES ASSUME Init PROVE IInv
  OBVIOUS
<1> USE DEF Init
<1>1. presence \in Occupied
  BY ServerLists
<1>2. ListedAsTold
  BY DEF ListedAsTold, NoPresence
<1>3. /\ EventCap \in Nat /\ Len(events) <= EventCap /\ events \in Seq(Event)
      /\ PushCap \in Nat /\ Len(pushes) <= PushCap /\ pushes \in Seq(PushEvent)
      /\ BroadcastCap \in Nat /\ Len(broadcasts) <= BroadcastCap /\ broadcasts \in Seq(BroadcastEvent)
  BY CapAssumption
<1>4. following \in BOOLEAN /\ owed \in BOOLEAN /\ polled \in BOOLEAN /\ intact \in BOOLEAN
  BY Zenon
<1>5. told \in [Key -> SUBSET Ref] /\ truth \in SUBSET (Key \X Ref)
  OBVIOUS
<1>6. TypeOK
  BY <1>1, <1>3, <1>4, <1>5 DEF TypeOK, Occupied
<1> QED
  BY <1>1, <1>2, <1>6 DEF IInv

(* What waits in a queue stays well formed and bounded, ...                *)
LEMMA EnqueueType ==
  ASSUME NEW S, NEW q \in Seq(S), NEW cap \in Nat \ {0}, Len(q) <= cap, NEW e \in S
  PROVE  Enqueue(q, cap, e) \in Seq(S) /\ Len(Enqueue(q, cap, e)) <= cap
<1>1. CASE Len(q) < cap
  BY <1>1 DEF Enqueue
<1>2. CASE ~(Len(q) < cap)
  <2>1. Tail(q) \in Seq(S) /\ Len(Tail(q)) = Len(q) - 1
    BY <1>2
  <2>2. Enqueue(q, cap, e) = Append(Tail(q), e)
    BY <1>2 DEF Enqueue
  <2> QED
    BY <2>1, <2>2
<1> QED
  BY <1>1, <1>2

(* ... and the channel's and the server's steps touch nothing but queues   *)
(* and the server's list.                                                  *)
QueuesOK ==
  /\ events \in Seq(Event) /\ Len(events) <= EventCap
  /\ pushes \in Seq(PushEvent) /\ Len(pushes) <= PushCap
  /\ broadcasts \in Seq(BroadcastEvent) /\ Len(broadcasts) <= BroadcastCap
FlagsOK ==
  following \in BOOLEAN /\ owed \in BOOLEAN /\ polled \in BOOLEAN /\ intact \in BOOLEAN

LEMMA OutsideStep ==
  ASSUME IInv, UNCHANGED <<presence, told>>,
         pc' \in {"starting", "listening", "ended"},
         truth' \in SUBSET (Key \X Ref), QueuesOK', FlagsOK'
  PROVE  IInv'
  BY DEF IInv, TypeOK, ListedAsTold, QueuesOK, FlagsOK

LEMMA PartsOK ==
  ASSUME IInv
  PROVE  /\ QueuesOK /\ FlagsOK /\ truth \in SUBSET (Key \X Ref)
         /\ pc \in {"starting", "listening", "ended"}
         /\ PushCap \in Nat \ {0} /\ BroadcastCap \in Nat \ {0} /\ EventCap \in Nat \ {0}
  BY CapAssumption DEF IInv, TypeOK, QueuesOK, FlagsOK

LEMMA SendEventType ==
  ASSUME IInv, NEW e \in Event, SendEventPayload(e)
  PROVE  events' \in Seq(Event) /\ Len(events') <= EventCap
  BY PartsOK, EnqueueType DEF QueuesOK, SendEventPayload

(* Events the environment sends are well formed.                           *)
LEMMA EventsMade ==
  /\ Other \in PushEvent /\ Other \in BroadcastEvent
  /\ \A p \in Occupied : State(p) \in PushEvent
  /\ \A p, q \in Occupied : Diff(p, q) \in BroadcastEvent
  BY DEF Other, State, Diff, PushEvent, BroadcastEvent

(* A change of the server's list disturbs neither the task's list nor what *)
(* is told of it.                                                          *)
LEMMA ChangeStep ==
  ASSUME IInv, NEW now \in SUBSET (Key \X Ref),
         NEW joins \in Occupied, NEW leaves \in Occupied,
         Change(now, joins, leaves)
  PROVE  IInv'
<1>1. Diff(joins, leaves) \in BroadcastEvent
  BY EventsMade
<1>2. UNCHANGED <<pc, presence, events, told, following, owed, pushes, polled>> /\ truth' = now
  BY DEF Change
<1>3. intact' \in BOOLEAN
  <2>1. intact \in BOOLEAN
    BY PartsOK DEF FlagsOK
  <2>2. CASE following
    <3>1. intact' = (intact /\ Len(broadcasts) < BroadcastCap)
      BY <2>2, Zenon DEF Change
    <3> QED
      BY <2>1, <3>1, Zenon
  <2>3. CASE ~following
    <3>1. intact' = FALSE
      BY <2>3, Zenon DEF Change
    <3> QED
      BY <3>1, Zenon
  <2> QED
    BY <2>2, <2>3, Zenon
<1>4. broadcasts' \in Seq(BroadcastEvent) /\ Len(broadcasts') <= BroadcastCap
  <2>1. CASE following
    BY <1>1, <2>1, PartsOK, EnqueueType DEF Change, Broadcast, QueuesOK
  <2>2. CASE ~following
    BY <2>2, PartsOK DEF Change, QueuesOK
  <2> QED
    BY <2>1, <2>2
<1>5. QueuesOK'
  BY <1>2, <1>4, PartsOK DEF QueuesOK
<1>6. FlagsOK'
  BY <1>2, <1>3, PartsOK, Zenon DEF FlagsOK
<1> QED
  BY <1>2, <1>5, <1>6, OutsideStep, PartsOK

(* An event is read, and the list brought up to date.                      *)
LEMMA ReceivedStep ==
  ASSUME IInv, NEW kind, Receive(kind)
  PROVE  /\ Head(events) \in Event /\ Head(events).kind = kind
         /\ (presence' \in Occupied /\ told' \in [Key -> SUBSET Ref] /\ ListedAsTold' => IInv')
<1>1. events \in Seq(Event) /\ Len(events) <= EventCap /\ events # <<>> /\ EventCap \in Nat
  BY CapAssumption DEF IInv, TypeOK, Receive
<1>2. Tail(events) \in Seq(Event) /\ Len(Tail(events)) = Len(events) - 1
  BY <1>1
<1>3. events' \in Seq(Event) /\ Len(events') <= EventCap
  BY <1>1, <1>2 DEF Receive
<1>4. UNCHANGED <<pc, truth, pushes, broadcasts>>
  BY DEF Receive, serverVars, channelVars
<1>5. presence' \in Occupied => presence' \in PresenceByKey
  BY DEF Occupied
<1>6. FlagsOK'
  <2>1. UNCHANGED <<following, owed, polled, intact>>
    BY Zenon DEF Receive, serverVars, channelVars
  <2> QED
    BY <2>1, PartsOK, Zenon DEF FlagsOK
<1> QED
  BY <1>1, <1>3, <1>4, <1>5, <1>6 DEF IInv, TypeOK, Receive, FlagsOK

LEMMA PresenceStateStep == ASSUME IInv, PresenceState PROVE IInv'
<1> DEFINE new  == Head(events).state
           kept == Restrict(presence, DOMAIN presence \cap DOMAIN new)
<1>1. Receive("presence_state") /\ Sync(presence, new)
  BY DEF PresenceState
<1>2. new \in Occupied
  BY <1>1, ReceivedStep DEF Event, PushEvent, BroadcastEvent
<1>3. new \in PresenceByKey /\ presence \in Occupied /\ presence \in PresenceByKey
  BY <1>2 DEF Occupied, IInv
<1>4. kept \in Occupied /\ \A k \in DOMAIN kept : k \in DOMAIN presence /\ kept[k] = presence[k]
  BY <1>3, RestrictType
<1>5. \A k \in DOMAIN kept : told[k] = kept[k]
  BY <1>4 DEF IInv, ListedAsTold
<1>6. Beyond(new, kept) \in Occupied
  <2>1. kept \in PresenceByKey
    BY <1>4 DEF Occupied
  <2> QED
    BY <1>2, <2>1, BeyondType
<1>7. LeftIn(presence, new) \in Occupied
  BY <1>3, BeyondType DEF LeftIn
<1>8. SyncDiff(kept, Beyond(new, kept), LeftIn(presence, new))
  BY <1>1 DEF Sync
<1>9. told \in [Key -> SUBSET Ref]
  BY DEF IInv, TypeOK
<1> HIDE DEF new, kept
<1>10. presence' \in Occupied /\ told' \in [Key -> SUBSET Ref] /\ ListedAsTold'
  BY <1>4, <1>5, <1>6, <1>7, <1>8, <1>9, SyncDiffStep
<1> QED
  BY <1>1, <1>10, ReceivedStep

LEMMA PresenceDiffStep == ASSUME IInv, PresenceDiff PROVE IInv'
<1> DEFINE joins == Head(events).joins  leaves == Head(events).leaves
<1>1. Receive("presence_diff") /\ SyncDiff(presence, joins, leaves)
  BY DEF PresenceDiff
<1>2. joins \in Occupied /\ leaves \in Occupied
  BY <1>1, ReceivedStep DEF Event, PushEvent, BroadcastEvent
<1>3. presence \in Occupied /\ told \in [Key -> SUBSET Ref]
  BY DEF IInv, TypeOK
<1>4. \A k \in DOMAIN presence : told[k] = presence[k]
  BY DEF IInv, ListedAsTold
<1> HIDE DEF joins, leaves
<1>5. presence' \in Occupied /\ told' \in [Key -> SUBSET Ref] /\ ListedAsTold'
  BY <1>1, <1>2, <1>3, <1>4, SyncDiffStep
<1> QED
  BY <1>1, <1>5, ReceivedStep

LEMMA IgnoreStep == ASSUME IInv, Ignore PROVE IInv'
<1>1. Receive("other") /\ UNCHANGED <<presence, told>>
  BY DEF Ignore
<1>2. presence' \in Occupied /\ told' \in [Key -> SUBSET Ref] /\ ListedAsTold'
  BY <1>1 DEF IInv, TypeOK, ListedAsTold
<1> QED
  BY <1>1, <1>2, ReceivedStep

(* The channel's task takes what waits for it.                             *)
LEMMA PollStep == ASSUME IInv, PollPushes PROVE IInv'
<1>1. UNCHANGED <<pc, presence, told, truth, events, pushes, broadcasts>>
  BY DEF PollPushes, serverVars
<1>2. polled' = TRUE /\ UNCHANGED <<following, owed, intact>>
  BY Zenon DEF PollPushes, serverVars
<1>3. FlagsOK'
  BY <1>2, PartsOK, Zenon DEF FlagsOK
<1>4. QueuesOK'
  BY <1>1, PartsOK DEF QueuesOK
<1> QED
  BY <1>1, <1>3, <1>4, OutsideStep, PartsOK

LEMMA ForwardPushStep == ASSUME IInv, ForwardPush PROVE IInv'
<1>1. UNCHANGED <<pc, presence, told, truth, broadcasts>>
  BY DEF ForwardPush, serverVars
<1>2. polled' = FALSE /\ intact' \in BOOLEAN /\ UNCHANGED <<following, owed>>
  <2>1. intact' = (intact /\ IF pc = "listening" THEN Covered(pushes) ELSE StateIn(Tail(pushes)))
    BY Zenon DEF ForwardPush
  <2>2. polled' = FALSE /\ UNCHANGED <<following, owed>>
    BY Zenon DEF ForwardPush, serverVars
  <2>3. intact' \in BOOLEAN
    BY <2>1, Zenon DEF Covered, StateIn
  <2> QED
    BY <2>2, <2>3, Zenon
<1>3. FlagsOK'
  BY <1>2, PartsOK, Zenon DEF FlagsOK
<1>4. pushes' \in Seq(PushEvent) /\ Len(pushes') <= PushCap /\ Head(pushes) \in Event
  <2>1. pushes \in Seq(PushEvent) /\ pushes # <<>> /\ pushes' = Tail(pushes) /\ Len(pushes) <= PushCap
    BY PartsOK DEF QueuesOK, ForwardPush
  <2>2. Tail(pushes) \in Seq(PushEvent) /\ Len(Tail(pushes)) = Len(pushes) - 1 /\ Head(pushes) \in PushEvent
    BY <2>1
  <2> QED
    BY <2>1, <2>2, PartsOK DEF Event
<1>5. events' \in Seq(Event) /\ Len(events') <= EventCap
  BY <1>4, SendEventType DEF ForwardPush
<1>6. QueuesOK'
  BY <1>1, <1>4, <1>5, PartsOK DEF QueuesOK
<1> QED
  BY <1>1, <1>3, <1>6, OutsideStep, PartsOK

LEMMA ForwardBroadcastStep == ASSUME IInv, ForwardBroadcast PROVE IInv'
<1>1. UNCHANGED <<pc, presence, told, truth, pushes>>
  BY DEF ForwardBroadcast, serverVars
<1>2. polled' = FALSE /\ intact' \in BOOLEAN /\ UNCHANGED <<following, owed>>
  <2>1. intact' = (intact /\ pc = "listening" /\ ~Raced /\ Covered(<<>>))
    BY Zenon DEF ForwardBroadcast
  <2>2. polled' = FALSE /\ UNCHANGED <<following, owed>>
    BY Zenon DEF ForwardBroadcast, serverVars
  <2>3. intact' \in BOOLEAN
    BY <2>1, Zenon
  <2> QED
    BY <2>2, <2>3, Zenon
<1>3. FlagsOK'
  BY <1>2, PartsOK, Zenon DEF FlagsOK
<1>4. broadcasts' \in Seq(BroadcastEvent) /\ Len(broadcasts') <= BroadcastCap /\ Head(broadcasts) \in Event
  <2>1. /\ broadcasts \in Seq(BroadcastEvent) /\ broadcasts # <<>> /\ broadcasts' = Tail(broadcasts)
        /\ Len(broadcasts) <= BroadcastCap
    BY PartsOK DEF QueuesOK, ForwardBroadcast
  <2>2. /\ Tail(broadcasts) \in Seq(BroadcastEvent) /\ Len(Tail(broadcasts)) = Len(broadcasts) - 1
        /\ Head(broadcasts) \in BroadcastEvent
    BY <2>1
  <2> QED
    BY <2>1, <2>2, PartsOK DEF Event
<1>5. events' \in Seq(Event) /\ Len(events') <= EventCap
  BY <1>4, SendEventType DEF ForwardBroadcast
<1>6. QueuesOK'
  BY <1>1, <1>4, <1>5, PartsOK DEF QueuesOK
<1> QED
  BY <1>1, <1>3, <1>6, OutsideStep, PartsOK

LEMMA ServerStep == ASSUME IInv, Server PROVE IInv'
<1>0. IInv /\ truth \in SUBSET (Key \X Ref)
  BY PartsOK
<1>1. CASE ChannelJoins
  <2>1. UNCHANGED <<pc, presence, told, truth, events, pushes, broadcasts>>
    BY <1>1 DEF ChannelJoins, channelVars
  <2>2. following' = TRUE /\ owed' = TRUE /\ UNCHANGED <<polled, intact>>
    BY <1>1, Zenon DEF ChannelJoins, channelVars
  <2>3. FlagsOK'
    BY <2>2, PartsOK, Zenon DEF FlagsOK
  <2>4. QueuesOK'
    BY <2>1, PartsOK DEF QueuesOK
  <2> QED
    BY <2>1, <2>3, <2>4, OutsideStep, PartsOK
<1>2. CASE ChannelLeaves
  <2>1. UNCHANGED <<pc, presence, told, truth, events>> /\ pushes' = <<>> /\ broadcasts' = <<>>
    BY <1>2 DEF ChannelLeaves
  <2>2. /\ following' = FALSE /\ owed' = FALSE /\ polled' = FALSE
        /\ intact' = (intact /\ pushes = <<>> /\ broadcasts = <<>>)
    BY <1>2, Zenon DEF ChannelLeaves
  <2>3. FlagsOK'
    BY <2>2, Zenon DEF FlagsOK
  <2>4. QueuesOK'
    BY <2>1, PartsOK DEF QueuesOK
  <2> QED
    BY <2>1, <2>3, <2>4, OutsideStep, PartsOK
<1>3. CASE SendState
  <2>1. State(ListOf(truth)) \in PushEvent
    BY <1>0, ServerLists, EventsMade
  <2>2. UNCHANGED <<pc, presence, told, truth, events, broadcasts>>
    BY <1>3 DEF SendState
  <2>3. pushes' \in Seq(PushEvent) /\ Len(pushes') <= PushCap
    BY <1>3, <2>1, PartsOK DEF SendState, QueuesOK
  <2>4. owed' = FALSE /\ intact' = TRUE /\ UNCHANGED <<following, polled>>
    BY <1>3, Zenon DEF SendState
  <2>5. FlagsOK'
    BY <2>4, PartsOK, Zenon DEF FlagsOK
  <2>6. QueuesOK'
    BY <2>2, <2>3, PartsOK DEF QueuesOK
  <2> QED
    BY <2>2, <2>5, <2>6, OutsideStep, PartsOK
<1>4. CASE Chatter
  <2>1. UNCHANGED <<pc, presence, told, truth, events>>
    BY <1>4 DEF Chatter, serverVars
  <2>2. UNCHANGED <<following, owed, polled>>
    BY <1>4, Zenon DEF Chatter, serverVars
  <2>3. intact' \in BOOLEAN
    <3>1. intact' = intact \/ intact' = (intact /\ Len(broadcasts) < BroadcastCap)
      BY <1>4, Zenon DEF Chatter
    <3> QED
      BY <3>1, PartsOK, Zenon DEF FlagsOK
  <2>4. FlagsOK'
    BY <2>2, <2>3, PartsOK, Zenon DEF FlagsOK
  <2>5. \/ pushes' = Append(pushes, Other) /\ Len(pushes) < PushCap /\ UNCHANGED broadcasts
        \/ broadcasts' = Enqueue(broadcasts, BroadcastCap, Other) /\ UNCHANGED pushes
    BY <1>4 DEF Chatter, Broadcast
  <2>6. CASE pushes' = Append(pushes, Other) /\ Len(pushes) < PushCap /\ UNCHANGED broadcasts
    BY <2>1, <2>4, <2>6, PartsOK, EventsMade, OutsideStep DEF QueuesOK
  <2>7. CASE broadcasts' = Enqueue(broadcasts, BroadcastCap, Other) /\ UNCHANGED pushes
    <3>1. /\ Enqueue(broadcasts, BroadcastCap, Other) \in Seq(BroadcastEvent)
          /\ Len(Enqueue(broadcasts, BroadcastCap, Other)) <= BroadcastCap
      BY PartsOK, EventsMade, EnqueueType DEF QueuesOK
    <3> QED
      BY <2>1, <2>4, <2>7, <3>1, PartsOK, OutsideStep DEF QueuesOK
  <2> QED
    BY <2>5, <2>6, <2>7
<1>5. ASSUME NEW k \in Key, NEW r \in Ref,
             Track(k, r) \/ Untrack(k, r) \/ \E s \in Ref : Update(k, r, s)
      PROVE  IInv'
  <2>2. CASE Track(k, r)
    BY <1>0, <2>2, ServerLists, ChangeStep DEF Track
  <2>3. CASE Untrack(k, r)
    BY <1>0, <2>3, ServerLists, ChangeStep DEF Untrack
  <2>4. ASSUME NEW s \in Ref, Update(k, r, s)
        PROVE  IInv'
    BY <1>0, <2>4, ServerLists, ChangeStep DEF Update
  <2> QED
    BY <1>5, <2>2, <2>3, <2>4
<1> QED
  BY <1>1, <1>2, <1>3, <1>4, <1>5 DEF Server

LEMMA Inductive == IInv /\ [Next]_vars => IInv'
<1> SUFFICES ASSUME IInv, [Next]_vars PROVE IInv'
  OBVIOUS
<1>1. CASE Listen \/ Shutdown \/ UNCHANGED vars
  <2>1. /\ UNCHANGED <<presence, told, truth, events, pushes, broadcasts>>
        /\ pc' \in {"starting", "listening", "ended"}
    BY <1>1, PartsOK DEF Listen, Shutdown, vars, serverVars, channelVars
  <2>2. UNCHANGED <<following, owed, polled, intact>>
    BY <1>1, Zenon DEF Listen, Shutdown, vars, serverVars, channelVars
  <2>3. FlagsOK'
    BY <2>2, PartsOK, Zenon DEF FlagsOK
  <2>4. QueuesOK'
    BY <2>1, PartsOK DEF QueuesOK
  <2> QED
    BY <2>1, <2>3, <2>4, OutsideStep, PartsOK
<1> QED
  BY <1>1, PresenceStateStep, PresenceDiffStep, IgnoreStep, PollStep, ForwardPushStep,
     ForwardBroadcastStep, ServerStep DEF Next

-----------------------------------------------------------------------------
(***************************************************************************)
(* Theorems                                                                *)
(***************************************************************************)
LEMMA Invariant == Spec => []IInv
  BY Initially, Inductive, PTL DEF Spec

(* The list, the broadcasts and the unread events are always well formed:  *)
(* sync and sync_diff make presences of presences (rust/presences).        *)
THEOREM TypeCorrect == Spec => []TypeOK
<1>1. IInv => TypeOK
  BY DEF IInv
<1> QED
  BY <1>1, Invariant, PTL

(* What the Joins and Leaves sent say of a listed key is what is listed,   *)
(* however snapshots, diffs, lags and rejoins follow each other.           *)
THEOREM BroadcastsKeepUp == Spec => []ListedAsTold
<1>1. IInv => ListedAsTold
  BY DEF IInv
<1> QED
  BY <1>1, Invariant, PTL

(* sync_diff never leaves a presence without metas in the list.            *)
THEOREM NoEmptyPresence == Spec => []NobodyListedEmpty
<1>1. IInv => NobodyListedEmpty
  BY DEF IInv, Occupied, NobodyListedEmpty
<1> QED
  BY <1>1, Invariant, PTL

-----------------------------------------------------------------------------
(***************************************************************************)
(* Leaves                                                                  *)
(***************************************************************************)
(* A key that the loops of sync_diff find, and that they take off the list,*)
(* has lost all its metas: its Leave says so.                              *)
LEMMA SyncDiffTells ==
  ASSUME NEW cur \in PresenceByKey, NEW joined \in PresenceByKey, NEW left \in PresenceByKey,
         SyncDiff(cur, joined, left),
         NEW k \in DOMAIN cur, k \notin DOMAIN presence'
  PROVE  told'[k] = {}
<1> DEFINE m == Merged(cur, joined)
<1>1. k \in DOMAIN m /\ k \in Key
  <2>1. k \in DOMAIN m
    BY DEF Merged
  <2> QED
    BY <2>1, Known
<1>2. k \in DOMAIN left /\ m[k] \subseteq left[k]
  BY <1>1 DEF SyncDiff, Without
<1>3. told'[k] = m[k] \ left[k]
  BY <1>1, <1>2 DEF SyncDiff
<1> QED
  BY <1>2, <1>3

LEMMA LeavesToldStep ==
  ASSUME IInv, Next, NEW k \in DOMAIN presence \ DOMAIN presence'
  PROVE  \/ told'[k] = {}
         \/ Head(events).kind = "presence_state" /\ k \notin DOMAIN Head(events).state
<1>1. presence \in PresenceByKey /\ presence \in Occupied
  BY DEF IInv, Occupied
<1>2. CASE PresenceState
  <2> DEFINE new  == Head(events).state
             kept == Restrict(presence, DOMAIN presence \cap DOMAIN new)
  <2>1. Receive("presence_state") /\ Sync(presence, new)
    BY <1>2 DEF PresenceState
  <2>2. Head(events).kind = "presence_state" /\ new \in Occupied
    BY <2>1, ReceivedStep DEF Event, PushEvent, BroadcastEvent
  <2>3. kept \in Occupied /\ kept \in PresenceByKey /\ new \in PresenceByKey
    BY <1>1, <2>2, RestrictType DEF Occupied
  <2>4. Beyond(new, kept) \in PresenceByKey /\ LeftIn(presence, new) \in PresenceByKey
    BY <1>1, <2>2, <2>3, BeyondType DEF LeftIn, Occupied
  <2>5. SyncDiff(kept, Beyond(new, kept), LeftIn(presence, new))
    BY <2>1 DEF Sync
  <2>6. k \in DOMAIN new => k \in DOMAIN kept
    BY DEF Restrict
  <2> HIDE DEF new, kept
  <2>7. k \in DOMAIN new => told'[k] = {}
    BY <2>3, <2>4, <2>5, <2>6, SyncDiffTells
  <2> QED
    BY <2>2, <2>7 DEF new
<1>3. CASE PresenceDiff
  <2>1. Receive("presence_diff")
    BY <1>3 DEF PresenceDiff
  <2>2. Head(events).joins \in PresenceByKey /\ Head(events).leaves \in PresenceByKey
    BY <2>1, ReceivedStep DEF Event, PushEvent, BroadcastEvent, Occupied
  <2> QED
    BY <1>1, <1>3, <2>2, SyncDiffTells DEF PresenceDiff
<1>4. CASE Listen \/ Ignore \/ Shutdown \/ PollPushes \/ ForwardPush \/ ForwardBroadcast \/ Server
  BY <1>4 DEF Listen, Ignore, Shutdown, PollPushes, ForwardPush, ForwardBroadcast, Server,
    ChannelJoins, SendState, ChannelLeaves, Chatter, Track, Untrack, Update, Change
<1> QED
  BY <1>2, <1>3, <1>4 DEF Next

(* A key leaves the list with a Leave that names its last metas, but for   *)
(* the keys that a presence_state does not name.                           *)
THEOREM LeavesAreTold == Spec => LeavesTold
<1>1. IInv /\ [Next]_vars =>
        [\A k \in DOMAIN presence \ DOMAIN presence' :
           \/ told'[k] = {}
           \/ Head(events).kind = "presence_state" /\ k \notin DOMAIN Head(events).state]_vars
  BY LeavesToldStep
<1> QED
  BY <1>1, Invariant, PTL DEF Spec, LeavesTold

-----------------------------------------------------------------------------
(***************************************************************************)
(* Catching up: a list is known by its metas, ...                          *)
(***************************************************************************)
LEMMA SameMetas ==
  ASSUME NEW p \in Occupied, NEW q \in Occupied, \A k \in Key : Metas(p, k) = Metas(q, k)
  PROVE  p = q
<1>1. /\ DOMAIN p \subseteq Key /\ p = [k \in DOMAIN p |-> p[k]] /\ \A k \in DOMAIN p : p[k] # {}
      /\ DOMAIN q \subseteq Key /\ q = [k \in DOMAIN q |-> q[k]] /\ \A k \in DOMAIN q : q[k] # {}
  BY Known DEF Occupied
<1>2. DOMAIN p = DOMAIN q
  BY <1>1 DEF Metas
<1>3. \A k \in DOMAIN p : p[k] = q[k]
  BY <1>1, <1>2 DEF Metas
<1> QED
  BY <1>1, <1>2, <1>3

(* ... and what sync_diff and sync do to a list is what they do to metas.  *)
LEMMA MetasOfLists ==
  ASSUME NEW a, NEW b, NEW k
  PROVE  /\ Metas(Merged(a, b), k) = Metas(a, k) \cup Metas(b, k)
         /\ Metas(Without(a, b), k) = Metas(a, k) \ Metas(b, k)
         /\ Metas(Beyond(a, b), k) = Metas(a, k) \ Metas(b, k)
<1>1. Metas(Merged(a, b), k) = Metas(a, k) \cup Metas(b, k)
  BY DEF Merged, Metas
<1>2. Metas(Without(a, b), k) = Metas(a, k) \ Metas(b, k)
  BY DEF Without, Metas
<1>3. Metas(Beyond(a, b), k) = Metas(a, k) \ Metas(b, k)
  BY DEF Beyond, Metas
<1> QED
  BY <1>1, <1>2, <1>3

LEMMA MetasOfPairs ==
  /\ \A k : Metas(NoPresence, k) = {}
  /\ \A r : \A j \in Key, k \in Key : Metas(Only(j, r), k) = IF k = j THEN {r} ELSE {}
  /\ \A pairs \in SUBSET (Key \X Ref), k \in Key :
       Metas(ListOf(pairs), k) = {r \in Ref : <<k, r>> \in pairs}
<1>1. \A k : Metas(NoPresence, k) = {}
  BY DEF Metas, NoPresence
<1>2. \A r : \A j \in Key, k \in Key : Metas(Only(j, r), k) = IF k = j THEN {r} ELSE {}
  BY DEF Metas, Only
<1>3. ASSUME NEW pairs \in SUBSET (Key \X Ref), NEW k \in Key
      PROVE  Metas(ListOf(pairs), k) = {r \in Ref : <<k, r>> \in pairs}
  <2>1. \A t \in pairs : t = <<t[1], t[2]>> /\ t[1] \in Key /\ t[2] \in Ref
    OBVIOUS
  <2>2. {t[2] : t \in {u \in pairs : u[1] = k}} = {r \in Ref : <<k, r>> \in pairs}
    BY <2>1
  <2>3. k \notin {t[1] : t \in pairs} => {r \in Ref : <<k, r>> \in pairs} = {}
    BY <2>1
  <2> QED
    BY <2>2, <2>3 DEF Metas, ListOf
<1> QED
  BY <1>1, <1>2, <1>3

(* Nobody is listed without metas after a diff.                            *)
LEMMA DiffOccupied ==
  ASSUME NEW cur \in Occupied, NEW joined \in Occupied, NEW left
  PROVE  Without(Merged(cur, joined), left) \in Occupied
<1>1. cur \in PresenceByKey /\ joined \in PresenceByKey
  BY DEF Occupied
<1>2. Without(Merged(cur, joined), left) \in PresenceByKey
  BY <1>1, MergedType, WithoutType
<1>3. \A k \in DOMAIN Merged(cur, joined) : Merged(cur, joined)[k] # {}
  BY DEF Merged, Metas, Occupied
<1>4. ASSUME NEW k \in DOMAIN Without(Merged(cur, joined), left)
      PROVE  Without(Merged(cur, joined), left)[k] # {}
  BY <1>3, <1>4 DEF Without, Metas
<1> QED
  BY <1>2, <1>4 DEF Occupied

(* sync makes the list it is given out of whatever list it has.            *)
LEMMA SyncGives ==
  ASSUME NEW cur \in Occupied, NEW new \in Occupied, Sync(cur, new)
  PROVE  presence' = new
<1> DEFINE kept == Restrict(cur, DOMAIN cur \cap DOMAIN new)
           synced == Without(Merged(kept, Beyond(new, kept)), LeftIn(cur, new))
<1>1. presence' = synced
  BY DEF Sync, SyncDiff
<1>2. kept \in Occupied /\ \A k : Metas(kept, k) = IF k \in DOMAIN new THEN Metas(cur, k) ELSE {}
  BY RestrictType DEF Metas
<1>3. synced \in Occupied
  <2>1. Beyond(new, kept) \in Occupied
    BY <1>2, BeyondType DEF Occupied
  <2> QED
    BY <1>2, <2>1, DiffOccupied
<1> HIDE DEF kept
<1>4. \A k : Metas(synced, k) = (Metas(kept, k) \cup (Metas(new, k) \ Metas(kept, k)))
                                \ (Metas(cur, k) \ Metas(new, k))
  BY MetasOfLists DEF LeftIn
<1>5. \A k : Metas(synced, k) = Metas(new, k)
  BY <1>2, <1>4 DEF Metas
<1> QED
  BY <1>1, <1>3, <1>5, SameMetas

-----------------------------------------------------------------------------
(***************************************************************************)
(* Catching up: the events to come make the server's list of the task's.   *)
(***************************************************************************)
(* The list after an event that is read with list p.                       *)
After(p, e) ==
  IF e.kind = "presence_state" THEN e.state
  ELSE IF e.kind = "presence_diff" THEN Without(Merged(p, e.joins), e.leaves) ELSE p

(* Whether event e decides if meta r of key k is listed, and how.          *)
Mentions(e, k, r) ==
  \/ e.kind = "presence_state"
  \/ e.kind = "presence_diff" /\ r \in Metas(e.joins, k) \cup Metas(e.leaves, k)
Says(e, k, r) ==
  \/ e.kind = "presence_state" /\ r \in Metas(e.state, k)
  \/ e.kind = "presence_diff" /\ r \in Metas(e.joins, k) \ Metas(e.leaves, k)

LEMMA ReadMetas ==
  ASSUME NEW p, NEW e, NEW k, NEW r
  PROVE  r \in Metas(After(p, e), k) <=>
           IF Mentions(e, k, r) THEN Says(e, k, r) ELSE r \in Metas(p, k)
<1>1. CASE e.kind = "presence_state"
  BY <1>1 DEF After, Mentions, Says
<1>2. CASE e.kind = "presence_diff"
  <2>1. /\ Metas(Merged(p, e.joins), k) = Metas(p, k) \cup Metas(e.joins, k)
        /\ Metas(Without(Merged(p, e.joins), e.leaves), k) = Metas(Merged(p, e.joins), k) \ Metas(e.leaves, k)
    BY MetasOfLists
  <2> QED
    BY <1>2, <2>1 DEF After, Mentions, Says
<1>3. CASE e.kind # "presence_state" /\ e.kind # "presence_diff"
  BY <1>3 DEF After, Mentions, Says
<1> QED
  BY <1>1, <1>2, <1>3

(* Queue q leaves the meta alone, or its last event about it is right by t.*)
Right(e, k, r, t) == Says(e, k, r) <=> <<k, r>> \in t
Silent(q, k, r) == \A i \in 1..Len(q) : ~Mentions(q[i], k, r)
Ends(q, k, r, t) ==
  \E i \in 1..Len(q) :
    /\ Mentions(q[i], k, r) /\ Right(q[i], k, r, t)
    /\ \A j \in (i + 1)..Len(q) : ~Mentions(q[j], k, r)

LEMMA Appended ==
  ASSUME NEW q \in Seq(Event), NEW e \in Event, NEW k, NEW r, NEW t
  PROVE  /\ Mentions(e, k, r) /\ Right(e, k, r, t) => Ends(Append(q, e), k, r, t)
         /\ ~Mentions(e, k, r) /\ Silent(q, k, r) => Silent(Append(q, e), k, r)
         /\ ~Mentions(e, k, r) /\ Ends(q, k, r, t) => Ends(Append(q, e), k, r, t)
<1>1. PICK n : n = Len(q)
  OBVIOUS
<1>2. PICK a : a = Append(q, e)
  OBVIOUS
<1>3. n \in Nat /\ Len(a) = n + 1 /\ a[n + 1] = e /\ \A i \in 1..n : a[i] = q[i]
  BY <1>1, <1>2
<1>4. Mentions(e, k, r) /\ Right(e, k, r, t) => Ends(a, k, r, t)
  <2>1. n + 1 \in 1..Len(a) /\ ((n + 1) + 1)..Len(a) = {}
    BY <1>3
  <2> QED
    BY <1>3, <2>1 DEF Ends
<1>5. ~Mentions(e, k, r) /\ Silent(q, k, r) => Silent(a, k, r)
  <2>1. \A i \in 1..Len(a) : i \in 1..n \/ i = n + 1
    BY <1>3
  <2> QED
    BY <1>1, <1>3, <2>1 DEF Silent
<1>6. ASSUME ~Mentions(e, k, r), Ends(q, k, r, t) PROVE Ends(a, k, r, t)
  <2>1. PICK i \in 1..n : /\ Mentions(q[i], k, r) /\ Right(q[i], k, r, t)
                         /\ \A j \in (i + 1)..n : ~Mentions(q[j], k, r)
    BY <1>1, <1>6 DEF Ends
  <2>2. i \in 1..Len(a) /\ a[i] = q[i]
    BY <1>3
  <2>3. \A j \in (i + 1)..Len(a) : (j \in (i + 1)..n /\ j \in 1..n) \/ j = n + 1
    BY <1>3
  <2>4. \A j \in (i + 1)..Len(a) : ~Mentions(a[j], k, r)
    BY <1>3, <1>6, <2>1, <2>3
  <2> QED
    BY <2>1, <2>2, <2>4 DEF Ends
<1> QED
  BY <1>2, <1>4, <1>5, <1>6

LEMMA Taken ==
  ASSUME NEW q \in Seq(Event), q # <<>>, NEW k, NEW r, NEW t
  PROVE  /\ Silent(q, k, r) => ~Mentions(Head(q), k, r) /\ Silent(Tail(q), k, r)
         /\ Ends(q, k, r, t) =>
              \/ Ends(Tail(q), k, r, t)
              \/ Mentions(Head(q), k, r) /\ Right(Head(q), k, r, t) /\ Silent(Tail(q), k, r)
<1>1. PICK n : n = Len(q)
  OBVIOUS
<1>2. PICK a : a = Tail(q)
  OBVIOUS
<1>3. /\ n \in Nat \ {0} /\ Len(a) = n - 1 /\ Head(q) = q[1] /\ 1 \in 1..n
      /\ \A i \in 1..(n - 1) : a[i] = q[i + 1] /\ i + 1 \in 2..n /\ i + 1 \in 1..n
  BY <1>1, <1>2
<1>4. ASSUME Silent(q, k, r) PROVE ~Mentions(Head(q), k, r) /\ Silent(a, k, r)
  BY <1>1, <1>3, <1>4 DEF Silent
<1>5. ASSUME Ends(q, k, r, t)
      PROVE  \/ Ends(a, k, r, t)
             \/ Mentions(Head(q), k, r) /\ Right(Head(q), k, r, t) /\ Silent(a, k, r)
  <2>1. PICK i \in 1..n : /\ Mentions(q[i], k, r) /\ Right(q[i], k, r, t)
                         /\ \A j \in (i + 1)..n : ~Mentions(q[j], k, r)
    BY <1>1, <1>5 DEF Ends
  <2>2. CASE i = 1
    <3>1. \A j \in 1..(n - 1) : ~Mentions(a[j], k, r)
      BY <1>3, <2>1, <2>2
    <3> QED
      BY <1>3, <2>1, <2>2, <3>1 DEF Silent
  <2>3. CASE i # 1
    <3>1. i - 1 \in 1..(n - 1) /\ (i - 1) + 1 = i
      BY <1>3, <2>3
    <3>2. a[i - 1] = q[i]
      BY <1>3, <3>1
    <3>3. \A j \in ((i - 1) + 1)..(n - 1) : j \in 1..(n - 1) /\ j + 1 \in (i + 1)..n
      BY <1>3, <3>1
    <3>4. \A j \in ((i - 1) + 1)..(n - 1) : ~Mentions(a[j], k, r)
      BY <1>3, <2>1, <3>3
    <3>5. i - 1 \in 1..Len(a) /\ Len(a) = n - 1
      BY <1>3, <3>1
    <3> QED
      BY <2>1, <3>2, <3>4, <3>5 DEF Ends
  <2> QED
    BY <2>2, <2>3
<1> QED
  BY <1>2, <1>4, <1>5

(* A presence_state is about every meta.                                   *)
LEMMA StateTells ==
  ASSUME NEW q \in Seq(Event), StateIn(q), NEW k, NEW r
  PROVE  ~Silent(q, k, r)
<1>1. DOMAIN q = 1..Len(q)
  OBVIOUS
<1> QED
  BY <1>1 DEF StateIn, Silent, Mentions
LEMMA EndsTells ==
  ASSUME NEW q, NEW k, NEW r, NEW t, Ends(q, k, r, t)
  PROVE  ~Silent(q, k, r)
  BY DEF Ends, Silent

(* An event more in a broadcast queue: it may overwrite an older one, ...  *)
LEMMA Enqueued ==
  ASSUME NEW q \in Seq(Event), NEW e \in Event, NEW cap \in Nat \ {0}, Len(q) <= cap,
         NEW k, NEW r, NEW t
  PROVE  /\ Mentions(e, k, r) /\ Right(e, k, r, t) => Ends(Enqueue(q, cap, e), k, r, t)
         /\ ~Mentions(e, k, r) /\ (Silent(q, k, r) \/ Ends(q, k, r, t)) =>
              Silent(Enqueue(q, cap, e), k, r) \/ Ends(Enqueue(q, cap, e), k, r, t)
<1>1. CASE Len(q) < cap
  BY <1>1, Appended DEF Enqueue
<1>2. CASE ~(Len(q) < cap)
  <2>1. q # <<>> /\ Tail(q) \in Seq(Event) /\ Enqueue(q, cap, e) = Append(Tail(q), e)
    BY <1>2 DEF Enqueue
  <2>2. Silent(q, k, r) \/ Ends(q, k, r, t) => Silent(Tail(q), k, r) \/ Ends(Tail(q), k, r, t)
    BY <2>1, Taken
  <2>3. /\ Mentions(e, k, r) /\ Right(e, k, r, t) => Ends(Append(Tail(q), e), k, r, t)
        /\ ~Mentions(e, k, r) /\ Silent(Tail(q), k, r) => Silent(Append(Tail(q), e), k, r)
        /\ ~Mentions(e, k, r) /\ Ends(Tail(q), k, r, t) => Ends(Append(Tail(q), e), k, r, t)
    BY <2>1, Appended
  <2> QED
    BY <2>1, <2>2, <2>3
<1> QED
  BY <1>1, <1>2

(* ... which does no harm while a presence_state is behind that one.       *)
LEMMA EnqueuedCovered ==
  ASSUME NEW q \in Seq(Event), NEW e \in Event, NEW cap \in Nat \ {0}, Len(q) <= cap,
         Len(q) < cap \/ StateIn(Tail(q)), NEW k, NEW r, NEW t, ~Mentions(e, k, r)
  PROVE  /\ Silent(q, k, r) => Silent(Enqueue(q, cap, e), k, r)
         /\ Ends(q, k, r, t) => Ends(Enqueue(q, cap, e), k, r, t)
<1>1. CASE Len(q) < cap
  BY <1>1, Appended DEF Enqueue
<1>2. CASE ~(Len(q) < cap)
  <2>1. q # <<>> /\ Tail(q) \in Seq(Event) /\ Enqueue(q, cap, e) = Append(Tail(q), e)
    BY <1>2 DEF Enqueue
  <2>2. ~Silent(Tail(q), k, r)
    BY <1>2, <2>1, StateTells
  <2>3. ~Silent(q, k, r) /\ (Ends(q, k, r, t) => Ends(Tail(q), k, r, t))
    BY <2>1, <2>2, Taken
  <2>4. Ends(Tail(q), k, r, t) => Ends(Append(Tail(q), e), k, r, t)
    BY <2>1, Appended
  <2> QED
    BY <2>1, <2>3, <2>4
<1> QED
  BY <1>1, <1>2

(***************************************************************************)
(* Every meta is decided rightly by the last event about it, broadcasts    *)
(* coming after pushes and these after what is forwarded, or by the list.  *)
(***************************************************************************)
Heard(k, r) ==
  \/ Ends(broadcasts, k, r, truth)
  \/ /\ Silent(broadcasts, k, r)
     /\ \/ Ends(pushes, k, r, truth)
        \/ /\ Silent(pushes, k, r)
           /\ \/ Ends(events, k, r, truth)
              \/ Silent(events, k, r) /\ (r \in Metas(presence, k) <=> <<k, r>> \in truth)

(* What waits in broadcast_rx is the latest news, whatever was lost.       *)
Settled(k, r) == Silent(broadcasts, k, r) \/ Ends(broadcasts, k, r, truth)

OnTrack ==
  /\ ~following => broadcasts = <<>>
  /\ \A k \in Key, r \in Ref : Settled(k, r)
  /\ intact => \A k \in Key, r \in Ref : Heard(k, r)

LEMMA QueuesTyped ==
  ASSUME IInv
  PROVE  /\ events \in Seq(Event) /\ Len(events) <= EventCap /\ EventCap \in Nat \ {0}
         /\ pushes \in Seq(Event) /\ pushes \in Seq(PushEvent)
         /\ broadcasts \in Seq(Event) /\ broadcasts \in Seq(BroadcastEvent)
         /\ Len(broadcasts) <= BroadcastCap /\ BroadcastCap \in Nat \ {0}
         /\ truth \in SUBSET (Key \X Ref)
<1>1. PushEvent \subseteq Event /\ BroadcastEvent \subseteq Event
  BY DEF Event
<1>2. pushes \in Seq(Event) /\ broadcasts \in Seq(Event)
  BY <1>1, PartsOK DEF QueuesOK
<1> QED
  BY <1>2, PartsOK DEF QueuesOK

(* An event that is read moves from the queue into the list.               *)
LEMMA ReadOnTrack ==
  ASSUME IInv, OnTrack, NEW kind, Receive(kind), presence' = After(presence, Head(events))
  PROVE  OnTrack'
<1>1. /\ events # <<>> /\ events' = Tail(events)
      /\ UNCHANGED <<truth, pushes, broadcasts, following, intact>>
  BY DEF Receive, serverVars, channelVars
<1>2. ASSUME NEW k \in Key, NEW r \in Ref PROVE Settled(k, r)' /\ (Heard(k, r) => Heard(k, r)')
  <2>1. Settled(k, r)'
    BY <1>1 DEF OnTrack, Settled
  <2>2. /\ Silent(events, k, r) => ~Mentions(Head(events), k, r) /\ Silent(events', k, r)
        /\ Ends(events, k, r, truth) =>
             \/ Ends(events', k, r, truth)
             \/ Mentions(Head(events), k, r) /\ Right(Head(events), k, r, truth) /\ Silent(events', k, r)
    BY <1>1, QueuesTyped, Taken
  <2>3. r \in Metas(presence', k) <=>
          IF Mentions(Head(events), k, r) THEN Says(Head(events), k, r) ELSE r \in Metas(presence, k)
    BY ReadMetas
  <2> QED
    BY <1>1, <2>1, <2>2, <2>3 DEF Heard, Right
<1> QED
  BY <1>1, <1>2 DEF OnTrack

(* A push that is forwarded moves from one queue to the next, ...          *)
LEMMA ForwardPushOnTrack == ASSUME IInv, OnTrack, ForwardPush PROVE OnTrack'
<1>1. /\ pushes # <<>> /\ pushes' = Tail(pushes) /\ SendEventPayload(Head(pushes))
      /\ UNCHANGED <<truth, presence, broadcasts, following>>
      /\ intact' => intact /\ IF pc = "listening" THEN Covered(pushes) ELSE StateIn(Tail(pushes))
  BY DEF ForwardPush, serverVars
<1>2. Head(pushes) \in Event /\ Tail(pushes) \in Seq(Event)
  BY <1>1, QueuesTyped
<1>3. ASSUME NEW k \in Key, NEW r \in Ref PROVE Settled(k, r)'
  BY <1>1 DEF OnTrack, Settled
<1>4. ASSUME NEW k \in Key, NEW r \in Ref, intact' PROVE Heard(k, r)'
  <2>0. Heard(k, r) /\ (Ends(pushes, k, r, truth) => ~Silent(pushes, k, r))
    BY <1>1, <1>4, EndsTells DEF OnTrack
  <2>1. /\ Silent(pushes, k, r) => ~Mentions(Head(pushes), k, r) /\ Silent(pushes', k, r)
        /\ Ends(pushes, k, r, truth) =>
             \/ Ends(pushes', k, r, truth)
             \/ Mentions(Head(pushes), k, r) /\ Right(Head(pushes), k, r, truth) /\ Silent(pushes', k, r)
    BY <1>1, QueuesTyped, Taken
  <2>2. CASE pc # "listening"
    <3>1. ~Silent(pushes', k, r)
      BY <1>1, <1>2, <1>4, <2>2, StateTells
    <3> QED
      BY <1>1, <2>0, <2>1, <3>1 DEF Heard
  <2>3. CASE pc = "listening"
    <3>1. events' = Enqueue(events, EventCap, Head(pushes))
      BY <1>1, <2>3 DEF SendEventPayload
    <3>2. Mentions(Head(pushes), k, r) /\ Right(Head(pushes), k, r, truth) => Ends(events', k, r, truth)
      BY <1>2, <3>1, QueuesTyped, Enqueued
    <3>3. CASE StateIn(pushes)
      <4>1. ~Silent(pushes, k, r)
        BY <3>3, QueuesTyped, StateTells
      <4> QED
        BY <1>1, <2>0, <2>1, <3>2, <4>1 DEF Heard
    <3>4. CASE Len(events) < EventCap \/ StateIn(Tail(events))
      <4>1. ~Mentions(Head(pushes), k, r) =>
              /\ Silent(events, k, r) => Silent(events', k, r)
              /\ Ends(events, k, r, truth) => Ends(events', k, r, truth)
        BY <1>2, <3>1, <3>4, QueuesTyped, EnqueuedCovered
      <4> QED
        BY <1>1, <2>0, <2>1, <3>2, <4>1 DEF Heard
    <3> QED
      BY <1>1, <1>4, <2>3, <3>3, <3>4 DEF Covered
  <2> QED
    BY <2>2, <2>3
<1> QED
  BY <1>1, <1>3, <1>4 DEF OnTrack

(* ... and so does a broadcast, when no push waits that could be about it. *)
LEMMA ForwardBroadcastOnTrack == ASSUME IInv, OnTrack, ForwardBroadcast PROVE OnTrack'
<1>1. /\ broadcasts # <<>> /\ broadcasts' = Tail(broadcasts) /\ SendEventPayload(Head(broadcasts))
      /\ UNCHANGED <<truth, presence, pushes, following>>
      /\ intact' => intact /\ pc = "listening" /\ ~StateIn(pushes) /\ Covered(<<>>)
  BY DEF ForwardBroadcast, serverVars, Raced
<1>2. Head(broadcasts) \in Event /\ Tail(broadcasts) \in Seq(Event)
  BY <1>1, QueuesTyped
<1>3. ASSUME NEW k \in Key, NEW r \in Ref
      PROVE  /\ Silent(broadcasts, k, r) => ~Mentions(Head(broadcasts), k, r) /\ Silent(broadcasts', k, r)
             /\ Ends(broadcasts, k, r, truth) =>
                  \/ Ends(broadcasts', k, r, truth)
                  \/ /\ Mentions(Head(broadcasts), k, r) /\ Right(Head(broadcasts), k, r, truth)
                     /\ Silent(broadcasts', k, r)
  BY <1>1, QueuesTyped, Taken
<1>4. ASSUME NEW k \in Key, NEW r \in Ref PROVE Settled(k, r)'
  BY <1>1, <1>3 DEF OnTrack, Settled
<1>5. ~following' => broadcasts' = <<>>
  BY <1>1 DEF OnTrack
<1>6. ASSUME NEW k \in Key, NEW r \in Ref, intact' PROVE Heard(k, r)'
  <2>0. Heard(k, r)
    BY <1>1, <1>6 DEF OnTrack
  <2>1. Silent(pushes, k, r) /\ ~Ends(pushes, k, r, truth)
    <3>1. \A i \in 1..Len(pushes) : pushes[i] \in PushEvent /\ pushes[i].kind # "presence_state"
      BY <1>1, <1>6, QueuesTyped DEF StateIn
    <3>2. \A i \in 1..Len(pushes) : ~Mentions(pushes[i], k, r)
      BY <3>1 DEF PushEvent, Mentions
    <3> QED
      BY <3>2, EndsTells DEF Silent
  <2>2. /\ events' = Enqueue(events, EventCap, Head(broadcasts))
        /\ Len(events) < EventCap \/ StateIn(Tail(events))
    <3>1. ~StateIn(<<>>)
      BY DEF StateIn
    <3> QED
      BY <1>1, <1>6, <3>1 DEF SendEventPayload, Covered
  <2>3. Mentions(Head(broadcasts), k, r) /\ Right(Head(broadcasts), k, r, truth) => Ends(events', k, r, truth)
    BY <1>2, <2>2, QueuesTyped, Enqueued
  <2>4. ~Mentions(Head(broadcasts), k, r) =>
          /\ Silent(events, k, r) => Silent(events', k, r)
          /\ Ends(events, k, r, truth) => Ends(events', k, r, truth)
    BY <1>2, <2>2, QueuesTyped, EnqueuedCovered
  <2> QED
    BY <1>1, <1>3, <2>0, <2>1, <2>3, <2>4 DEF Heard
<1> QED
  BY <1>4, <1>5, <1>6 DEF OnTrack

(* The server's news is right when it is sent.                             *)
LEMMA BroadcastOnTrack ==
  ASSUME IInv, OnTrack, NEW e \in BroadcastEvent, Broadcast(e), following,
         UNCHANGED <<presence, events, pushes, following>>,
         intact' => intact /\ Len(broadcasts) < BroadcastCap,
         \A k \in Key, r \in Ref :
           IF Mentions(e, k, r) THEN Right(e, k, r, truth') ELSE <<k, r>> \in truth' <=> <<k, r>> \in truth
  PROVE  OnTrack'
<1>1. e \in Event /\ broadcasts' = Enqueue(broadcasts, BroadcastCap, e)
  BY DEF Event, Broadcast
<1>2. ASSUME NEW k \in Key, NEW r \in Ref, ~Mentions(e, k, r), NEW q
      PROVE  Ends(q, k, r, truth) <=> Ends(q, k, r, truth')
  BY <1>2 DEF Ends, Right
<1>3. ASSUME NEW k \in Key, NEW r \in Ref PROVE Settled(k, r)'
  <2>1. /\ Mentions(e, k, r) /\ Right(e, k, r, truth') => Ends(broadcasts', k, r, truth')
        /\ ~Mentions(e, k, r) /\ (Silent(broadcasts, k, r) \/ Ends(broadcasts, k, r, truth')) =>
             Silent(broadcasts', k, r) \/ Ends(broadcasts', k, r, truth')
    BY <1>1, QueuesTyped, Enqueued
  <2>2. Silent(broadcasts, k, r) \/ Ends(broadcasts, k, r, truth)
    BY DEF OnTrack, Settled
  <2> QED
    BY <1>2, <2>1, <2>2 DEF Settled
<1>4. ASSUME NEW k \in Key, NEW r \in Ref, intact' PROVE Heard(k, r)'
  <2>1. broadcasts' = Append(broadcasts, e) /\ Heard(k, r)
    BY <1>1, <1>4 DEF Enqueue, OnTrack
  <2>2. /\ Mentions(e, k, r) /\ Right(e, k, r, truth') => Ends(broadcasts', k, r, truth')
        /\ ~Mentions(e, k, r) /\ Silent(broadcasts, k, r) => Silent(broadcasts', k, r)
        /\ ~Mentions(e, k, r) /\ Ends(broadcasts, k, r, truth') => Ends(broadcasts', k, r, truth')
    BY <1>1, <2>1, QueuesTyped, Appended
  <2>3. CASE Mentions(e, k, r)
    BY <2>2, <2>3 DEF Heard
  <2>4. CASE ~Mentions(e, k, r)
    <3>1. /\ Ends(broadcasts, k, r, truth) <=> Ends(broadcasts, k, r, truth')
          /\ Ends(pushes, k, r, truth) <=> Ends(pushes, k, r, truth')
          /\ Ends(events, k, r, truth) <=> Ends(events, k, r, truth')
      BY <1>2, <2>4
    <3> QED
      BY <2>1, <2>2, <2>4, <3>1 DEF Heard
  <2> QED
    BY <2>3, <2>4
<1> QED
  BY <1>3, <1>4 DEF OnTrack

LEMMA ChangeOnTrack ==
  ASSUME IInv, OnTrack, NEW now \in SUBSET (Key \X Ref), NEW joins \in Occupied, NEW leaves \in Occupied,
         Change(now, joins, leaves),
         \A k \in Key, r \in Ref :
           <<k, r>> \in now <=>
             (<<k, r>> \in truth \/ r \in Metas(joins, k)) /\ r \notin Metas(leaves, k)
  PROVE  OnTrack'
<1> DEFINE e == Diff(joins, leaves)
<1>1. e \in BroadcastEvent /\ e.kind = "presence_diff" /\ e.joins = joins /\ e.leaves = leaves
  BY EventsMade DEF Diff
<1>2. truth' = now /\ UNCHANGED <<presence, events, pushes, following>>
  BY DEF Change
<1>3. CASE following
  <2>1. Broadcast(e) /\ (intact' => intact /\ Len(broadcasts) < BroadcastCap)
    BY <1>3 DEF Change
  <2>2. \A k \in Key, r \in Ref :
          IF Mentions(e, k, r) THEN Right(e, k, r, truth') ELSE <<k, r>> \in truth' <=> <<k, r>> \in truth
    BY <1>1, <1>2 DEF Mentions, Right, Says
  <2> HIDE DEF e
  <2> QED
    BY <1>1, <1>2, <1>3, <2>1, <2>2, BroadcastOnTrack
<1>4. CASE ~following
  <2>1. ~intact' /\ broadcasts' = broadcasts /\ broadcasts = <<>>
    BY <1>4 DEF Change, OnTrack
  <2>2. \A k \in Key, r \in Ref : Settled(k, r)'
    BY <2>1 DEF Settled, Silent
  <2> QED
    BY <2>1, <2>2 DEF OnTrack
<1> QED
  BY <1>3, <1>4

LEMMA ServerOnTrack == ASSUME IInv, OnTrack, Server PROVE OnTrack'
<1>1. CASE ChannelJoins
  BY <1>1 DEF ChannelJoins, channelVars, OnTrack, Settled, Heard
<1>2. CASE ChannelLeaves
  <2>1. /\ broadcasts' = <<>> /\ pushes' = <<>> /\ UNCHANGED <<truth, presence, events>>
        /\ intact' => intact /\ pushes = <<>> /\ broadcasts = <<>>
    BY <1>2 DEF ChannelLeaves
  <2>2. \A k \in Key, r \in Ref : Settled(k, r)'
    BY <2>1 DEF Settled, Silent
  <2>3. intact' => \A k \in Key, r \in Ref : Heard(k, r)'
    BY <2>1 DEF OnTrack, Heard
  <2> QED
    BY <2>1, <2>2, <2>3 DEF OnTrack
<1>3. CASE SendState
  <2>1. /\ pushes' = Append(pushes, State(ListOf(truth)))
        /\ UNCHANGED <<truth, presence, events, broadcasts, following>>
    BY <1>3 DEF SendState
  <2>2. State(ListOf(truth)) \in Event
    BY QueuesTyped, ServerLists, EventsMade DEF Event
  <2>3. ASSUME NEW k \in Key, NEW r \in Ref PROVE Settled(k, r)' /\ Heard(k, r)'
    <3>1. Metas(ListOf(truth), k) = {q \in Ref : <<k, q>> \in truth}
      BY QueuesTyped, MetasOfPairs
    <3>2. Mentions(State(ListOf(truth)), k, r) /\ Right(State(ListOf(truth)), k, r, truth)
      BY <3>1 DEF Mentions, Right, Says, State
    <3>3. Ends(pushes', k, r, truth)
      BY <2>1, <2>2, <3>2, QueuesTyped, Appended
    <3> QED
      BY <2>1, <3>3 DEF OnTrack, Settled, Heard
  <2> QED
    BY <2>1, <2>3 DEF OnTrack
<1>4. CASE Chatter
  <2>0. UNCHANGED <<presence, events, truth, following>> /\ following
    BY <1>4 DEF Chatter, serverVars
  <2>1. CASE pushes' = Append(pushes, Other) /\ UNCHANGED <<broadcasts, intact>>
    <3>1. ASSUME NEW k \in Key, NEW r \in Ref PROVE Settled(k, r)' /\ (Heard(k, r) => Heard(k, r)')
      <4>1. ~Mentions(Other, k, r) /\ Other \in Event
        BY EventsMade DEF Mentions, Other, Event
      <4>2. /\ Silent(pushes, k, r) => Silent(pushes', k, r)
            /\ Ends(pushes, k, r, truth) => Ends(pushes', k, r, truth)
        BY <2>1, <4>1, QueuesTyped, Appended
      <4> QED
        BY <2>0, <2>1, <4>2 DEF OnTrack, Settled, Heard
    <3> QED
      BY <2>0, <2>1, <3>1 DEF OnTrack
  <2>2. CASE /\ Broadcast(Other) /\ UNCHANGED pushes
             /\ intact' = (intact /\ Len(broadcasts) < BroadcastCap)
    <3>1. Other \in BroadcastEvent /\ \A k, r : ~Mentions(Other, k, r)
      BY EventsMade DEF Mentions, Other
    <3> QED
      BY <2>0, <2>2, <3>1, BroadcastOnTrack
  <2> QED
    BY <1>4, <2>1, <2>2 DEF Chatter
<1>5. ASSUME NEW k \in Key, NEW r \in Ref,
             Track(k, r) \/ Untrack(k, r) \/ \E s \in Ref : Update(k, r, s)
      PROVE  OnTrack'
  <2>0. truth \in SUBSET (Key \X Ref) /\ NoPresence \in Occupied /\ \A q \in Ref : Only(k, q) \in Occupied
    BY QueuesTyped, ServerLists
  <2>m. \A j \in Key : \A q : Metas(NoPresence, j) = {} /\ Metas(Only(k, q), j) = IF j = k THEN {q} ELSE {}
    BY MetasOfPairs
  <2>1. CASE Track(k, r)
    <3> DEFINE now == truth \cup {<<k, r>>}
    <3>1. now \in SUBSET (Key \X Ref) /\ Change(now, Only(k, r), NoPresence)
      BY <2>0, <2>1 DEF Track
    <3>2. \A j \in Key, q \in Ref :
            <<j, q>> \in now <=>
              (<<j, q>> \in truth \/ q \in Metas(Only(k, r), j)) /\ q \notin Metas(NoPresence, j)
      BY <2>m
    <3> QED
      BY <2>0, <3>1, <3>2, ChangeOnTrack
  <2>2. CASE Untrack(k, r)
    <3> DEFINE now == truth \ {<<k, r>>}
    <3>1. now \in SUBSET (Key \X Ref) /\ Change(now, NoPresence, Only(k, r))
      BY <2>0, <2>2 DEF Untrack
    <3>2. \A j \in Key, q \in Ref :
            <<j, q>> \in now <=>
              (<<j, q>> \in truth \/ q \in Metas(NoPresence, j)) /\ q \notin Metas(Only(k, r), j)
      BY <2>m
    <3> QED
      BY <2>0, <3>1, <3>2, ChangeOnTrack
  <2>3. ASSUME NEW s \in Ref, Update(k, r, s) PROVE OnTrack'
    <3> DEFINE now == (truth \ {<<k, r>>}) \cup {<<k, s>>}
    <3>1. now \in SUBSET (Key \X Ref) /\ Change(now, Only(k, s), Only(k, r)) /\ r # s
      BY <2>0, <2>3 DEF Update, Unknown
    <3>2. \A j \in Key, q \in Ref :
            <<j, q>> \in now <=>
              (<<j, q>> \in truth \/ q \in Metas(Only(k, s), j)) /\ q \notin Metas(Only(k, r), j)
      BY <2>m, <3>1
    <3> QED
      BY <2>0, <3>1, <3>2, ChangeOnTrack
  <2> QED
    BY <1>5, <2>1, <2>2, <2>3
<1> QED
  BY <1>1, <1>2, <1>3, <1>4, <1>5 DEF Server

LEMMA OnTrackStep == IInv /\ OnTrack /\ [Next]_vars => OnTrack'
<1> SUFFICES ASSUME IInv, OnTrack, [Next]_vars PROVE OnTrack'
  OBVIOUS
<1>1. CASE Listen \/ Shutdown \/ PollPushes \/ UNCHANGED vars
  <2>1. UNCHANGED <<truth, presence, events, pushes, broadcasts, following, intact>>
    BY <1>1 DEF Listen, Shutdown, PollPushes, vars, serverVars, channelVars
  <2> QED
    BY <2>1 DEF OnTrack, Settled, Heard
<1>2. CASE PresenceState
  <2>1. Receive("presence_state") /\ Sync(presence, Head(events).state)
    BY <1>2 DEF PresenceState
  <2>2. Head(events).state \in Occupied /\ presence \in Occupied /\ Head(events).kind = "presence_state"
    BY <2>1, ReceivedStep DEF Event, PushEvent, BroadcastEvent, IInv
  <2>3. presence' = After(presence, Head(events))
    BY <2>1, <2>2, SyncGives DEF After
  <2> QED
    BY <2>1, <2>3, ReadOnTrack
<1>3. CASE PresenceDiff
  <2>1. Receive("presence_diff") /\ SyncDiff(presence, Head(events).joins, Head(events).leaves)
    BY <1>3 DEF PresenceDiff
  <2>2. presence' = After(presence, Head(events))
    BY <2>1 DEF SyncDiff, After, Receive
  <2> QED
    BY <2>1, <2>2, ReadOnTrack
<1>4. CASE Ignore
  <2>1. Receive("other") /\ presence' = After(presence, Head(events))
    BY <1>4 DEF Ignore, Receive, After
  <2> QED
    BY <2>1, ReadOnTrack
<1> QED
  BY <1>1, <1>2, <1>3, <1>4, ForwardPushOnTrack, ForwardBroadcastOnTrack, ServerOnTrack DEF Next

(* Once the task has read all there is to read, and missed nothing that    *)
(* matters, its list is the server's: whatever was synced or merged, lost  *)
(* with a queue's lag before a presence_state, or read behind a            *)
(* presence_state that overtook it (sync and sync_diff; the biased select  *)
(* of the channel's task).                                                 *)
THEOREM ListCatchesUp == Spec => []CaughtUp
<1>1. Init => OnTrack
  BY DEF Init, OnTrack, Settled, Silent
<1>2. IInv /\ OnTrack => CaughtUp
  <2> SUFFICES ASSUME IInv, OnTrack, intact, pushes = <<>>, broadcasts = <<>>, events = <<>>
               PROVE  presence = ListOf(truth)
    BY DEF CaughtUp
  <2>1. ASSUME NEW k \in Key, NEW r \in Ref
        PROVE  r \in Metas(presence, k) <=> <<k, r>> \in truth
    BY DEF OnTrack, Heard, Ends
  <2>2. truth \in SUBSET (Key \X Ref) /\ presence \in Occupied /\ presence \in PresenceByKey
    BY DEF IInv, TypeOK
  <2>3. ASSUME NEW k \in Key PROVE Metas(presence, k) = Metas(ListOf(truth), k)
    <3>1. Metas(ListOf(truth), k) = {r \in Ref : <<k, r>> \in truth}
      BY <2>2, MetasOfPairs
    <3>2. Metas(presence, k) \subseteq Ref
      BY <2>2, Known DEF Metas
    <3> QED
      BY <2>1, <3>1, <3>2
  <2> QED
    BY <2>2, <2>3, ServerLists, SameMetas
<1> QED
  BY <1>1, <1>2, OnTrackStep, Invariant, PTL DEF Spec
=============================================================================
