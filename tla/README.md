# A verification development of phoenix-channels-client

`phoenix-channels-client` is a Rust client of Phoenix Channels with foreign-language
bindings.  This directory models its tasks in TLA+, checks the models with TLC on
small instances, and proves the properties that matter most with TLAPS.

    tlc -workers 2 -config SocketJoins.cfg MCSocket.tla     # a run
    tlapm SocketListenerProofs.tla                          # proofs

Paths below are relative to the repository: `rust/` and `ffi/` stand for `src/rust/`
and `src/ffi/`.

## 1. The system

A user makes a `Socket`, connects it, makes `Channel`s of it and joins them, calls
and casts on them, and may follow who is present with `Presences`.  Each of the three
is a tokio task with a select loop; the FFI objects only send commands to them and
wait for oneshots.

| component | source | state it keeps | operations |
|---|---|---|---|
| socket listener | `rust/socket/listener.rs`, `rust/socket.rs`, `ffi/socket.rs` | `State`; on a connection: pending joins, their timers, senders of joined channels, senders of replies, the heartbeat | connect, disconnect, shutdown, spawn a channel, join, leave, call, cast, reply, push, join timeout, heartbeat, reconnect |
| channel listener | `rust/channel/listener.rs`, `rust/channel.rs`, `ffi/channel.rs` | `State`; the oneshots of its callers, the oneshot it awaits, its receivers, `Rejoin` | join, leave, call, cast, push received, rejoin, connectivity changed, shutdown |
| presences listener | `rust/presences/listener.rs`, `rust/presence*.rs`, `ffi/presences.rs` | `presence_by_key` | presence_state, presence_diff, list, shutdown |
| observable status | `rust/observable_status.rs`, `ffi/observable_status.rs`, `ffi/channel/statuses.rs` | a status and a broadcast of its changes and of errors | set, error, get, subscribe, next status |
| message codec | `rust/message.rs`, `ffi/message.rs` | none | encode, decode JSON and binary frames |
| references | `rust/reference.rs`, `rust/join_reference.rs` | none | fresh UUIDs |
| FFI types | the rest of `ffi/` | none | conversions of values and errors |

How they interact:

- **Commands.**  Bounded mpsc queues carry commands; a command carries a *oneshot*
  whose sender travels through queues and maps and whose receiver a caller awaits.
  Commands of channels reach the socket through `channel_state_command` and
  `channel_send_command` (capacity 50), read only while it is connected.
- **The promise of a dropped oneshot.**  Most callers take a dropped oneshot for the end
  of the task that held it: they await its `JoinHandle` and `unwrap_err` its result
  (`listener_shutdown`).  A oneshot dropped by a task that runs on hangs its caller.
- **Connectivity.**  The socket tells its channels of connections over a broadcast that
  keeps *one* value; a slow channel gets `Lagged`, then the last value only.
- **Receivers.**  An answered join carries `JoinedChannelReceivers`; pushes go through a
  queue of 10, which the socket awaits room in *inside* its handler.
- **Events.**  A channel forwards events over a broadcast of 10; presences read it.
- **Statuses.**  Each task swaps its status in a cell and broadcasts it when it has changed;
  users subscribe (capacity 10), may lag behind, and are told errors over the same broadcast.
- **Frames.**  The socket encodes what channels send and decodes what the server sends; the two
  binary layouts differ, and neither side checks the other's sizes but by reading.

What is hard: joins and leaves of users that interrupt each other, while answers to
frames of an earlier join are under way; connections lost at every point; the one-value
broadcast; timers and references shared by all joins of a channel; biased selects;
handlers that wait for room in each other's queues, or for a peer that does not read; events that
take two ways to a channel; the two-way promise of oneshots.

What makes each part correct:

- *Socket*: who waits for a frame that was sent is told how it ended; no oneshot that would hang its caller is dropped by a
  running task; registrations do not outlive a connection; every pending join has a
  deadline; an answer goes to the caller of the frame it answers; lost connections are
  retried ever more slowly; shutdown ends the task.
- *Channel*: callers wait only where an answer can come, and are told; at most one join or leave is
  under way at the socket (which is what makes topic and join reference a key); rejoins
  back off; shutdown is never starved.
- *Client*: what one side has registered the other side knows of, or is about to read.
- *Presences*: the list converges to the server's; broadcasts agree with the list.
- *Statuses*: who keeps reading ends up with the current status and learns that there will be
  no more; who is told of a status is told of a change.
- *Codec*: what is sent is what is read, at every length; nothing is read into a frame
  that is cut short or foreign.

`PROJECT.json` lists the hazards at their lines, and the properties aimed at each.

## 2. Modules

| module | what it is |
|---|---|
| `PhoenixCommands` | what tasks exchange: requests, what a oneshot holds, phases, backoff |
| `SocketListener` | the socket task; channel tasks are its environment |
| `ChannelListener` | the channel task; the socket is its environment |
| `PhoenixClient` | both tasks, over the variables they share; refinement of either environment |
| `PresenceSync` | the presences task with a server, the queues on the way from it, and rejoins |
| `ObservableStatus` | the status cell of a task and those who follow it |
| `MessageCodec` | frames of the client and of the server, written and read |
| `SocketListenerProofs`, `ChannelListenerProofs`, `PhoenixClientProofs`, `PresenceSyncProofs`, `ObservableStatusProofs`, `MessageCodecProofs` | theorems |
| `QueueLemmas` | what a queue holds when it is read or written, for the first three |
| `ClientViews` | what an operator of one task says of the client's variables, and of each view of them |
| `MCSocket`, `MCChannel`, `MCClient`, `MCPresence`, `MCStatus`, `MCCodec` | instances for TLC |

### Requests and oneshots

A `Request` stands for a command, its oneshot and the frame sent for it.  `outcome[r]` is
what the *receiving* half holds: `pending`, an answer (`ok`, `rejected`, `timeout`,
`dropped`, ...), or `free`: nobody made it yet, took its answer already, or gave it up.  A caller may give
up at any time, also while its command is still with its channel, so the socket can get a call whose
caller has gone (`SubmitSend`).  A name is used again only when no task, queue, map, timer or server remembers it (`Fresh`).  An action
that needs a new request is disabled when its instance has none left: that bounds
how many commands are under way, and nothing else.

### `SocketListener`

| code | model |
|---|---|
| `State`, `socket_status` | `state`, `status`; the loop sets the status after a handler (`Publish`, `pc = "publish"`) |
| `join_by_reference_by_topic`, `join_timeouts` | `joins`, `timers` |
| `joined_channel_txs_by_...`, `reply_tx_by_...` | `joined`, `replies` |
| the four command queues | `stateQ`, `spawnQ`, `chanStateQ`, `sendQ` |
| `connectivity_tx` and its receivers | `connectivity`, `unread` |
| `Reconnect`, its sleep | `attempts`, `delay` |
| `connected.socket` | `sent`: frames the server has not answered, a set per channel; it answers them in any order, or not |

One action per handler.  The select is unbiased, so a step takes any enabled branch.
Handlers that await in the middle are split there (`pc`): `connecting` (`socket_connect`),
`pushing` (`handle_push` waiting for room), and `Writing`: the awaits of `send` and `close` on the web
socket, which last for as long as the peer does not read.  `WriteState` and `WriteSend` begin the write
for a command of a channel, `Close` that of a disconnect or shutdown, `Heartbeat`, `Pong` and `AnswerClose`
the task's own; nothing but the end of the write is enabled then, also no timer.  The write succeeds, or
fails and ends the connection with the command in hand (`StartJoin`, `Leave`, `Call`, `Cast`,
`Disconnect`, `Shutdown`, `Written`, `ConnectionLost`).  The command stays at the head of its queue
meanwhile, and the queue has room for one more (`Room`), as the code has taken it out.  A message that
`encode` refuses panics the task, and a fatal read error ends it: `FatalSocketError`.

The environment (`Clients`) does what channel tasks may do with what they share:
submit, take an answer, give up, drop receivers, read pushes and news.

### `ChannelListener`

`phase` is `Listener::state`; `task` keeps what states carry (`joiners`, `leavers`: the
oneshots of callers; `awaiting`: the oneshot of the socket; `rejoin`), `busy` is the
command whose handler waits for room in a queue of the socket (nothing is selected
meanwhile), and `deaf` says that `recv()` returned `Lagged`: `Ok(..) = recv()` does not match,
and `select!` disables the branch until another branch completes.

The biased select is in the guards: an action requires that the earlier branches are
not ready (`Selecting`, `NewsReady`, `AnswerReady`).  One poll of a select is one step: exact
on a single-threaded runtime; on a multi-threaded one, something that lands on an earlier
branch during a poll is seen as if it had come just after it.

Dead code in the source that has no action: the `left_rx` branch of `Joined` (its sender is
used only after the channel has dropped its receivers by leaving), and the `Joining` arm of
`connectivity_changed` (that select has no connectivity branch).  `broadcast_rx` only forwards, to no
effect on the task (`PresenceSync` has it).

`Gone` is a task that ended with an error or a panic (`unwrap_err` on a socket that ended
with `Ok(())`): either way everything it held is dropped.

`WaitsForLiveAnswer` says when an answer can come: the oneshot is held by a socket task that runs, or
holds an answer that the state's branch takes.  It names one exception, which the code has: the end of
the socket task without news (a fatal read error) drops the oneshot of a leave, `Ok(..) =
socket_left_rx` does not match, and the channel stays in `Leaving`, with its callers, until it is shut
down.

### `PhoenixClient`

The two modules are instantiated over one set of variables (`closed` is `pc = "exited"`), and
each step is a step of one task or of a user.  `SocketInItsEnvironment` and
`ChannelsInTheirEnvironment` say that, seen through a refinement mapping, the composition
implements `SocketListener!Spec` and `ChannelListener!Spec`: the environment each module
assumes is at least what the other task does, so their properties carry over.
`SocketSees` hides the phase a channel is in, which the socket task does not read, and `SocketKnows` the
calls and casts that have not left their channel; `born` and `forwarded` are history variables for
them.  `Writes` tells the channels' module which queue's head the socket task has in hand.  `CallersTold`
follows the oneshot of a call through both tasks: neither drops it before it ends itself.

`CircularWait` is the cycle of the two handlers: the socket task waits for room in a channel's push
queue while that channel's handler waits for room in a queue of the socket.  `PushesGoOn` and
`ChannelShutdownEnds` say that this is the *only* way a push blocks the socket for ever and, besides
a socket that never connects again or waits for a peer that does not read, the only way a channel
outlives its shutdown.  `PushesGoOn` has a
second exception: the select of a channel prefers commands of users to pushes, so users that never
stop sending joins and leaves starve the pushes.

### `PresenceSync`

A presence is the set of its metas, a meta its join reference.  `Beyond`, `Merged`, `Without`,
`SyncDiff` and `Sync` are the loops of `PresenceByKey::sync` and `sync_diff`.  The server keeps
its list as *pairs* (`truth`), a form of its own, and sends diffs of tracks, untracks and
updates.  A `presence_state` is a push to one channel and waits in `push_rx` (`pushes`), a `presence_diff`
a broadcast to the topic and waits in `broadcast_rx` (`broadcasts`), which drops its oldest when it is full
and says so to nobody (`Ok(..) = recv()`).  The channel's biased select forwards both to the event queue,
which lags too: pushes first, but its look at the one queue and at the other are two steps
(`PollPushes`, `ForwardBroadcast`), so a `presence_state` overtakes older diffs, and one that comes
between the looks is read after newer ones.  `told` is what a user who follows `joins()` and `leaves()` knows.
`intact` is history: since the last `presence_state` was sent, no diff was lost to a lag of either queue, to
a rejoin or to the time before the task subscribed, nor read before that state.  `CaughtUp` says that nothing
else matters; that an older diff is read *after* the state does no harm is part of what it shows.

`LeavesTold` is the step property that a key never leaves the list unannounced.  Its one exception
is the code's: a key that is gone from a `presence_state` is removed from the map before `sync_diff`
looks it up there (`rust/presences/listener.rs:144`), so nobody gets a `Leave` for it, though
`ffi/presences.rs:67` says that leaves are sent for those that left.

### `ObservableStatus`

`status` is the cell, `sending` what `set` has swapped in and not yet broadcast, `sent` all that was ever
broadcast, of which a reader can reach the last `Capacity`.  The task and its users are the
environment, reduced to the order in which they do things: an error (a rejected join, a failed
connect) is broadcast by `error`, and the handler that tells it then waits, with a deadline
like no other, so a *changed* status follows (`failing`).  `known` is what the user of a reader knows.

Users who ask `status()` *before* they call `statuses()` can miss the change between the two: the
model's users subscribe first, as `Get` says.  A task that ends with an error leaves its status
as it was; `End` may follow any status.

### `MessageCodec`

A text is a sequence of bytes without the byte `MaxByte`, which stands for what is no UTF-8; a size is
one byte.  `Encode` and `Decode` are the code's; `ServerReads` and `ServerWrites` are the layouts of
the server's V2 serializer (environment): a *client's* binary push has a byte for the size of the reference,
a server's has none.  A behaviour is one message or one frame, from client, server or some other peer.

## 3. Runs

Passing runs:

| run | instance | states | shows |
|---|---|---|---|
| `socket_joins` | 2 joins, 1 call, connect | 0.82 M | every pending join has its own deadline, also when a join replaces another with the same key; who waits for a frame that was sent is told, whatever fails; a call gets the reply to its own frame |
| `socket_lifecycle` | connect, disconnect, a join, a leave, a cast, 5 attempts | 0.55 M | nothing registered outlives its connection; oneshots of connect, disconnect, leave, call are dropped by the end of the task only; the status is the state's but for the end of an iteration; sleeps grow to their ceiling |
| `socket_liveness` | connect, disconnect, shutdown, a join | 0.10 M | state commands are answered, joins end, shutdown ends, unless a handler waits for ever; lost connections are retried |
| `channel_users` | a user's join, leave and cast, the task's join and leave | 0.31 M | joiners and leavers told, channels waiting for a live answer, one join or leave under way, rejoins back off |
| `client` | connect, a user's join, its join | 0.42 M | the refinements above; registration and connection agree up to unread news |
| `client_calls` | a joined channel, a call, a cast, its rejoin, pushes | 0.16 M | a push to a slow channel ends and a channel that is shut down ends, with the exceptions of section 2; callers are told by the task that has their call |
| `presence` | 1 key, 2 metas, a push queue of 1, a broadcast and an event queue of 2, symmetric | PRES | the list converges; broadcasts keep up with it; nobody is listed without a meta; leaves are told, but for a snapshot's |
| `statuses` | 4 statuses, an error, a reader, a broadcast of 2, 5 values sent | 0.04 M | a reader that lags, subscribes or asks at any point ends up with the current status, and with the end once the task has ended and nobody holds it |
| `codec` | every kind of message with empty, short, longest and too long texts; every small frame | 0.01 M | messages and frames agree both ways, nothing is read into a foreign frame |

`CHECK_DEADLOCK FALSE` is set where a system may stop: every task has ended, or the
socket is shut down, its users have nothing to ask, or nobody sends any more.

Runs that find what a comment says and the code does not do:

- `join_reply_misread`: `handle_reply` has "Check if this is a join reply" but compares only
  topic and join reference.  While a join is pending, the reply to an earlier *leave* (or
  timed out join) of the channel ends it, with the wrong result.
- `rejoin_stuck`: a channel that has not read `Reconnect` when `Connected` is sent reads
  `Lagged`, then a `Connected`.  In `Joined` that value means *lost*: it goes to
  `WaitingForSocketToConnect` and waits for a `Connected` that comes only with the next
  connection.
- `join_hangs`: a join that stayed in the queue beyond its timeout is dropped without an
  answer by a task that runs on.  (`created_at` is taken before `join` waits for room in the
  queue, and its timeout starts after: its caller may still wait.)  It takes that for the end of the task and awaits
  its `JoinHandle`, outside of the timeout.

`LeaversTold` names the one exception the code makes (a late join that takes the place of a leave).

### Bounds

- *One channel.*  Channels do not share registrations (every map is keyed by topic and join
  reference), only queues; what one channel can do to another is to fill a queue,
  which a slow socket does to a single channel as well.  The theorems hold for any
  number of channels.
- *Slots.*  A slot tells requests of one kind apart; where there are two they are alike (`SYMMETRY`,
  in runs of safety properties only).  Two joins are what a join replaced by another needs; a join and a
  call what an answer given to the wrong caller needs.  One join, one leave and one of each user command make
  every pair of commands meet.  A call and a cast are what the circular wait needs: one in the queue, one in hand.
- `QueueCap` (50, 10 for some, in the code) and `PushCap` (10) are 1: a full queue is what
  matters, and one element fills it.  The capacity (10) of a channel's own command queues
  is not modelled: slots bound them.
- `MaxAttempts` (`u16::MAX`): 5 in the run about backoff, one beyond the end of the table of
  multipliers; 2 where counting matters; 1 elsewhere.  `NextAttempt` saturates as the code does.
- `EventCap` (10) and `BroadcastCap` (50) are 2: less than a state and the diffs after it, so lags happen on
  both sides of a state; `PushCap` (10) is 1.  Keys do not meet in `sync` and `sync_diff` but in a snapshot that
  names some and not others; one key leaves and comes back with either meta.  The theorems hold for any keys.
- `HasStrategy` is `FALSE` in the runs; a strategy of the user only changes `delay`.
- `client_calls` starts in `JoinedInit`, a state of the client after its first join (which `Init` leads
  to by connecting and joining): what comes before is in `client`.
- `Capacity` of the status broadcast (10, which tokio rounds up to 16) is 2 and `MaxSent` 5: a reader lags, and
  lags again, and there is room for two errors with what follows them.
- `MaxByte` (255) is 3: texts of 0, 1, 3 (the longest) and 4 (one too long) bytes at every place, and all
  binary frames of up to 5 bytes.  The theorems hold for 255 and any texts.

### Fairness

`SocketListener!Fairness` is what tokio gives: a task that is woken is polled, timers fire, and
a branch of an unbiased `select!` that is ready again and again is taken with probability
one (strong fairness of the commands, the sleep and the join timers, which traffic can
disable for a while).  `socket_connect` ends by its timeout (weak).  Nothing is assumed
of the server, which need not read what is written to it, of users, or of channels, which need not read
their pushes.  So a handler may wait for ever, in a write or for room in a push queue, and then the task does
nothing else (`Stuck`).  `StateCommandsAnswered`, `SentJoinsEnd` and `ShutdownEnds` say that this is the only
thing that keeps a command from its answer, a join from its deadline and a shutdown from its end;
`LostConnectionRetried` needs no such exception, as no handler runs while the socket waits to reconnect.

That a channel never reads its pushes is possible: one whose handler waits for room in a queue
of the socket does not, and if the socket is then waiting for room in that channel's push queue,
both wait for ever (`rust/socket/listener.rs:1083` against `rust/channel/listener.rs:515`).  The
composition `PhoenixClient` reaches such a state (with calls and casts, pushes and full queues: `client_calls`
fails without the exception).

`PhoenixClient!Fairness`: what the socket task awaits inside a handler or on its way out goes on when it can
(weak), the unbiased select takes state commands of channels, and calls and casts, that are ready again
and again (strong, for each of the two queues), and a channel task that can go on does (weak).
When a push finds room, whether a write ends, and what users and the server do, is left open.

`ObservableStatus!FairSpec`: a broadcast follows its swap, a handler that told an error goes on to wait,
and readers go on reading.  The last is up to users: `ReadersCatchUp` and `EndIsNoticed` are about those
who do.  That a task ends is *not* assumed, also when nobody holds it any more: a connected `Socket` that is
dropped without `shutdown` runs on (see the hazard at `rust/socket/listener.rs:104`), and a channel whose
handler waits for the socket does not come to its end.  `EndIsNoticed` speaks of tasks that have ended.

## 4. Proofs

`SocketListenerProofs` proves, for any channels, requests, capacities and strategy:

- `TypeCorrect`: `Spec => []TypeOK`;
- `RegistrationsDieWithConnection`: `Spec => []RegistrationsScoped`;
- `CallersDroppedOnlyAtExit`: `Spec => []DroppedOnlyAtExit`;
- `EveryJoinHasDeadline`: `Spec => []JoinsHaveDeadlines`;
- `CallsAnsweredByOwnReply`: `Spec => CallAnsweredByOwnReply`;
- `StatusIsCurrent`: `Spec => []StatusFollowsState`;
- `ReconnectsBackOff`: `Spec => BackoffGrows`, for `~HasStrategy` and `MaxAttempts >= 4`;
- `LastCommandIsLast`: `Spec => [](OneLast /\ LastIsLast)`;
- `WaitersAreTold`: `Spec => SentAreTold`.

They follow from the named assumptions of `PhoenixCommands` and `SocketListener` (what kinds of
requests there are, that the null values are not among them, positive bounds).  Each is
proved from the ones before it and from a strengthening, as none is inductive alone:

- `TypeOK /\ BlockedWhilePushing`: `PushUnblocked` reads the push it waits to deliver, so there is one
  whenever `pc = "pushing"`.
- `RegistrationsScoped /\ ServingWhileConnecting`: while `socket_connect` runs the socket is not
  connected (the maps it replaces were empty), and a connect command is in hand at no other time.
- `TypeOK /\ DroppedOnlyAtExit`: the only steps that drop a oneshot of a running task replace or fail to send
  a *join*, and typing says that `joins` and the head of the queue hold one.
- `TypeOK /\ OwnChannel /\ JoinsHaveDeadlines`: a pending join, and every frame, is filed under its own
  channel; without that a timer could be taken from the join of another.
- `CallsAnsweredByOwnReply` uses `OwnChannel` as well, for the frame that is answered.
- `ReconnectsBackOff` has the hypotheses of the property: a strategy of the user may answer any duration, and a
  limit below the last multiplier would repeat an earlier one (the code's limit is `u16::MAX`).  Its
  invariant `BackingOff` says that a socket that waits sleeps for the attempt before the one it counts.
- `LastInv`: queues hold a command once (`CommandOrder`, `SendOrder`, `SpawnOrder`), a channel waits for, or
  has the receivers of, one join or leave (`OneLast`), and its queue holds nothing of the channel behind
  that one (`LastIsLast`).  That is what `LastCommandIsLast` says: commands that were given up are done
  before the one that counts, never after.
- `NoWaiterLost`, that a oneshot with a waiting caller is held somewhere, is a lemma only: Rust sees to it.  The
  client's invariant needs it to tell which task holds what.
- `SentAreTold` needs `LastInv`: when a join is sent in the place of one that is pending, its channel has
  given that one up, so that nobody waits for the oneshot that is dropped.
- `StatusFollowsState` is inductive: what moves the state goes to `publish`, or ends the task with both set.

`ChannelListenerProofs` proves, for any channels, requests, pushes and capacities:

- `TypeCorrect`: `Spec => []TypeOK`;
- `JoinersAreTold`: `Spec => JoinersTold`;
- `WaitingEnds`: `Spec => []WaitsForLiveAnswer`;
- `OneAtATime`: `Spec => []OneUnderWay`;
- `LeaversAreTold`: `Spec => LeaversTold`;
- `AttemptsKeepCounting`: `Spec => RejoinBacksOff`.

None of the three invariants is inductive alone, not even `TypeOK`: an answered join becomes `receiving`, so
typing needs that a channel in `Joining` awaits a *join*.  The invariant is `TypeOK` and, for each channel,
`InvAt`: what a task holds is about its own channel (`Own`); what it awaits fits its phase and is open
(`Awaits`); whom it has to answer, whether it counts attempts, and what its handler may be about
to submit, by phase (`Hands`); that callers who wait are held (`Held`); and `Alone`, which is `OneUnderWay`.
A step of a task is shown to keep `InvAt` of its channel and to change nothing of another (`OnlyOf`, `Elsewhere`); users and the socket
do no more to a channel than `Outside` says.  The actions share `Enter`, `End`, `Stay` and `Prepare`, and
so do the proofs.  The step properties follow from `Hands`: a count starts over only in phases
that have none, and callers of leave wait only while `Leaving`, where every exit but a late join tells them.
For `WaitingEnds` comes `AllLive`: a join or leave without an answer is held by a running socket task, and any
answer to it ends the state of the channel, but for a leave dropped by the end of that task (`Live`).

`PhoenixClientProofs` proves, for any channels, requests, pushes, capacities and strategy:

- `SocketSeesItsEnvironment`: `Spec => SocketInItsEnvironment`;
- `ChannelsSeeTheirEnvironment`: `Spec => ChannelsInTheirEnvironment`;
- `ChannelsThinkRight`: `Spec => []ConnectedAsTheyThink`;
- `JoinedChannelsAreRegistered`: `Spec => []JoinedIsRegistered`;
- `CallersAreTold`: `Spec => CallersTold`;
- `SocketKeepsItsWord` and `ChannelsKeepTheirWord`: the theorems of the two tasks, as theorems about the
  client.  `CallersAreTold` puts two of them together: a channel drops a call at its own end only, and
  once the call has gone on the socket's `DroppedOnlyAtExit` holds of it.

The two refinements are proved together, as neither holds alone: that a channel submits a join only after it
let go of the last is its own invariant, that a frame of a channel is answered once is the socket's.  The
inductive invariant is `ClientInv`: the socket's (`SocketInv`, of `SocketSees` and `SocketsOutcome`), the
channels' (`Inv`, of `ChannelsOutcome`), and `Link`, which ties the views together: a call is with its
channel or has gone on (`GoneOn`), what is with a channel is with the socket no more (`Apart`), is there
once (`Once`), and nobody waits for a join or leave that is not submitted (`NotAsked`).  A step of
the client is shown to be one of each view or to leave it alone (`StepSeenBySocket`,
`StepSeenByChannels`), so the two invariants go on by the theorems' lemmas of the two modules; only `Link`
is shown action by action.  `ClientViews` says that the operators mean the same in every view.

On top of `ClientInv`, `Told` is what the broadcast of capacity 1 has told: a channel in one of the phases
that suppose a connection has news to read unless the socket is connected (`ThinksRight`), and the
socket has registered what a channel joined on, or the channel has news to read (`RegisteredAs`, for the join
that was answered, which a channel may not know of yet: `JoinedIsRegistered` alone is not inductive).

`PresenceSyncProofs` proves, for any keys, references and queue capacity:

- `TypeCorrect`: `Spec => []TypeOK`;
- `BroadcastsKeepUp`: `Spec => []ListedAsTold`;
- `NoEmptyPresence`: `Spec => []NobodyListedEmpty`;
- `LeavesAreTold`: `Spec => LeavesTold`;
- `ListCatchesUp`: `Spec => []CaughtUp`.

The inductive invariant is `TypeOK /\ presence \in Occupied /\ ListedAsTold`: `NobodyListedEmpty`
alone is not inductive, as a key joined with no meta would be listed empty; that
what waits in the queues names no key without a meta is part of `TypeOK` (`Occupied`).  Lemmas state
what `Beyond`, `Merged`, `Without`, `LeftIn` and `ListOf` return.

`CaughtUp` speaks of empty queues and is far from inductive.  `OnTrack` says it of any, meta by meta: the last
event about a meta is right about it by the server's list, where what waits in `broadcasts` comes after what
waits in `pushes`, and that after what is forwarded (`Heard`); where no event is about it, the task's own list
is right.  The order in which events of two queues are read does not matter to this, as long as a diff is not
read before an older `presence_state`; that is what `intact` excludes.  What waits in `broadcasts` is the latest
news even when some was lost (`Settled`), which is where a new `presence_state` begins anew.

`ObservableStatusProofs` proves `TypeCorrect`, `ReadersUpToDate` (`[]UpToDate`) and `ChangesOnly`
(`[]OnlyChanges`) for any statuses, errors, readers and capacity.  `UpToDate` is strengthened
by `LastSent`: unless a broadcast or a wait is still to come, the last value sent is the status of the cell;
`OnlyChanges` by `LastStatusSent`: the last status among what was sent is the cell's, or else differs
from the one about to be sent.

`MessageCodecProofs` proves all five properties of `MessageCodec` for any `MaxByte` above 1 and messages with
texts and payloads of every length: `TypeCorrect`, `ServerReadsEveryMessage`, `OnlyTooLongRefused`,
`ClientReadsEveryMessage`, `NothingIsReadIntoFrame`.  The invariant says what the frame under way is made of
(`Carried`); the lemmas say what a text is read as wherever it stands in a frame, and so what the frame of a
message is decoded to (`Encoded`, `Written`) and of what message alone a decoded frame is (`Decoded`).

Every invariant and every action property of the passing runs is proved.  Only model-checked: liveness, as the
prover has no rules for fairness (`StateCommandsAnswered`, `SentJoinsEnd`, `LostConnectionRetried`, `ShutdownEnds`,
`PushesGoOn`, `ChannelShutdownEnds`, `ReadersCatchUp`, `EndIsNoticed`), and the three disagreements of section 3,
which are counterexamples.  The theorems assume the constants to be as `PhoenixCommands` and the
modules state by name, and nothing else, but for the hypotheses of `ReconnectsBackOff`.

## 5. Not modelled

- *Contents*: payloads, topics and events are abstract in the tasks; the parsing of JSON text is abstract
  in the codec.  Broadcasts of the server have no effect on a channel's state and are in `PresenceSync` only.
- *A channel's status* in `ChannelListener`: no task reads it.  `ObservableStatus` models the cell and its
  broadcast for any sequence of statuses a task may set.
- *References*: that a UUID is fresh is modelled (`Fresh`, `Unused`, `MadeAfresh`), how it is written is not.
- *Real time*: deadlines are timers that may fire at any step; a sleep may end at any step.
- *Reads that are dropped* (capacity, UTF-8): no effect.
- *FFI types, bindings, build, tests*: conversions without control.

## 6. Plan

Written: all modules of section 2, with theorems about each.  What is left, in this order:

1. What a user is told, across both tasks: that `join` answers with success only for a channel the socket has
   registered at that moment.
2. Safety lemmas that liveness rests on: that a step which must be taken is enabled until it is.
