# A TLA+ verification of rueidis

rueidis is a Redis client. It pipelines the calls of many goroutines over a few
connections, caches replies on the client side and follows the server's invalidation
messages, multiplexes subscriptions, follows sentinel, cluster and standalone topologies, and
comes with a distributed lock and a cache-aside client. This directory models its concurrent
parts in TLA+, model-checks them with TLC and proves the safety properties
of most of them with TLAPS, for any number of goroutines, connections and messages.
`PROJECT.json` lists components, runs, mutants, the map from definitions to source lines,
findings, hazards and theorems.

## The system

From the bottom up:

| part | source | state | operations | module |
|---|---|---|---|---|
| ring | `ring.go` | three counters, slots with a mutex, two condition variables, a mark and a result channel | PutOne, PutMulti, NextWriteCmd, WaitForWrite, NextResultCh, FinishResult | `Ring` |
| flow buffer | `flowbuffer.go` | three Go channels | the same interface; Put gives up when its context is done | `FlowBuffer` |
| pipe | `pipe.go` | wrCounter, state, bgState, blcksig, error, close | Do, DoMulti, syncDo, background, both loops, exit and drain, Close | `Pipe` |
| timers of a pipe | `pipe.go` | lifetime, authentication and ping timers | StopTimer, ResetTimer, their callbacks, the stops of Close, the worker and _exit | `Timers` |
| subscriptions | `pubsub.go`, `pipe.go` | registry of subscribers, their channels, hooks | Subscribe, cancel, Publish, Confirm, Unsubscribe, Close, Receive, SetPubSubHooks | `PubSub` |
| client-side cache | `lru.go`, `pipe.go` | store, list, size, pending flights | Flight, Update, Cancel, Delete, Close, DoCache | `ClientCache` |
| pool | `pool.go` | list, size, down, cleanup timer | Acquire, Store, Close, removeIdleConns | `Pool` |
| mux | `mux.go` | slots of shared connections, the dial under way | _pipe, pipeline, close hook, Close | `Mux` |
| sentinel client | `sentinel.go`, `singleflight.go` | master and replica with their connections, list of sentinels, the watched one | _refresh, listWatch, _switchTarget, refreshRetry, the ticker, Close | `Sentinel` |
| cluster client | `cluster.go`, `singleflight.go` | connections by address, table of slots | _refresh, pick, do, redirectOrNew, the ticker, Close | `Cluster` |
| standalone client | `standalone.go`, `singleflight.go` | primary, the switch under way | Do with redirection, redirectToPrimary, Close | `Standalone` |
| distributed lock | `rueidislock/lock.go` | gates of a name, attempts with a monitor per key, keys on the server | WithContext, TryWithContext, ForceWithContext, try, monitoring, onInvalidations, Close | `Lock` |
| cache aside | `rueidisaside/aside.go` | flights, the client's id, placeholders and markers on the server | Get, Del, onInvalidation, refresh, Close | `Aside` |

A client picks a node's connection (`Sentinel`, `Cluster`, `Standalone`), which is a mux: a
shared pipe or, for blocking commands and streams, one from a pool. The pipe runs the call on
the caller's goroutine while it is alone, or puts it in its queue; one goroutine writes the
queue's commands, one reads replies and pushes. The read loop feeds the cache and the
subscribers, so whatever blocks it blocks all of these. When a loop fails, the same goroutine
answers whatever is still queued, closes the subscribers' channels and calls the close hook,
by which the mux empties its slot and the cluster client refreshes its topology. Lock and
cache aside are built on commands, scripts and invalidations of a client.

## How the modules fit together

`CallQueue` is the contract of a command queue: a bounded FIFO of calls. `Ring` and
`FlowBuffer` are each shown to implement it, together with the two loops (refinement mapping
in their `Abstract`; property `QueuesImplementCallQueue`). `Pipe` uses the queue by that
contract and adds what the loops leave open there: the synchronous mode, failure, drain and
Close. `Timers` has the part of the pipe that other goroutines reach next to its calls.
`PubSub` and `ClientCache` model other parts of the same read loop, each with its own queue of
commands without the pipe's synchronous mode. `Mux` and `Pool` use connections as things that
are dialled, break, and are closed; so do `Sentinel`, `Cluster` and `Standalone`, where one
connection stands for a mux. `Sentinel` also has the subscription it keeps on its sentinel,
with the bounded channel and the blocking reader of `PubSub`.

An `MC` module holds small instances. Where two or three components share a run, each keeps its
own variables, `component` says whose behaviour this is, and the others stay in an initial
state: the states are the sum of those of the components, not the product, and each property
speaks of one component or, for properties of the same kind (every call returns), of each.

| MC module | instances of |
|---|---|
| `MCQueues` | `Ring`, `FlowBuffer` |
| `MCPipe`, `MCPipeTimers` | `Pipe`; `Pipe` and `Timers` |
| `MCPubSub`, `MCPushes` | `PubSub`; `PubSub` and `ClientCache` |
| `MCPool`, `MCConnections` | `Pool`; `Mux` and `Pool` |
| `MCClients` | `Clients`, which composes `Cluster`, `Standalone` and `Aside` |
| `MCSentinel`, `MCWaiters` | `Sentinel`; `Sentinel` and `Lock` |

Conventions: a goroutine's `pc` (or `at`) names the place it has reached. A critical section
is one step unless the code waits, retries or keeps the lock across calls; then the lock is a
variable or a predicate (`Locked` in `Ring`, `lock` in `Pool`, `rd = "publish"` in `PubSub`,
`mu` in `Sentinel`). Every atomic operation that another goroutine can fall between is a step
of its own. Data is abstracted: a command is its caller and its number of redis commands, a
message its number, a cached value the version of its key. An operator that is defined next to
an action and not used by it (`ReloadSkip`, `SwapBlindly`) is the action with a plausible bug;
the mutants in `PROJECT.json` name them.

### Ring

`Claim` is the atomic add of PutOne and PutMulti; `Fill` and `SleepC1` are their critical
section, `Broadcast` their wakeup of the writer. The writer's steps are NextWriteCmd, a flush,
WaitForWrite and one write per redis command into a buffer of `BufCap` commands. The reader
takes one reply per step and has the slot's mutex from NextResultCh to FinishResult. The
counters are modulo `Wrap`. `UnsubPush` is the unsubscribe push nobody asked for, which makes
the read loop look for a slot.

### FlowBuffer

Receiving from one Go channel and sending to the next are separate steps. `PutOne` chooses
freely between room and a context that is done, as Go's select does.

### Pipe

The counter of waiting calls, `state`, `bgState`, `blcksig` and `error` are variables; Do and
DoMulti step through count, load, synchronous call or queue, and count off. Contexts come as
kinds of call: never done, with a deadline, done at any time. `Background` is the goroutine
that reads, exits, drains and waits for the writer. `Exit` takes the three operations of `_exit`
in one step: the error is read only by calls that found the pipe stopping and by the drain, so
what falls between them could as well come before. `Close` has the PING, the timer that cuts
a silent connection (`CloseEscape`) and the final close. `pend` is a history variable: the calls
Close found under way.

### Timers

`armed` is the set of timers that will fire. ResetTimer and the callbacks look at the error,
reset, and look again, in three steps; Close and the worker set the error and stop the three
timers one by one; `_exit`, which the callbacks of the ping and of the authentication refresh
call, stops only the lifetime timer. The mutexes of refreshAuth and backgroundPing are the
guard of `Run`.

### PubSub

One registry stands for the three of a pipe (normal, pattern, shard), which share nothing but
the code. The server executes commands in order and publishes to subscribed channels at any
time. `live`, `got`, `owed` and `cut` are history variables of the properties.

### ClientCache

A slot is a pair of key and command. The server has a version per key and tracks the keys
this client has read; a write by another client sends an invalidation if the key is tracked.
`MaxFilled` stands for the memory limit: entries have one size.

### Pool and Mux

Users of the pool are blocking commands and streams, which differ in who stores the
connection. Its contexts, timers, dials and broken connections are actions of the
environment. Mux models one slot; the slots of a mux do not interact.

### Sentinel

`targets` is what the client serves: a master, a replica, or both (SendToReplicas). `flight`
is the singleflight call with the locals of `_refresh`, which goes from sentinel to sentinel
(`NextSentinel`, `SentinelFailed`), unsubscribes, starts the goroutine of listWatch, asks, and
starts one `_switchTarget` per target. `sw` has the calls of `_switchTarget` (`Dial`, `Role`,
`Store`, `Swap`), which event handlers start too, under `mu`. The replies and pushes of the
sentinel's connection are one sequence, `sc.wire`, and `Read` waits when the channel of the
subscription is full. `Failover` changes the master and `Learn` tells a sentinel. The ticker
exists in scenarios that set `ticks`: TopologyRefreshInterval is 0 by default, which means none.
`sc.missed` and `sc.late` are history variables of clients without a ticker. One simplification:
a goroutine of listWatch that has not called Receive yet when a later refresh unsubscribes ends
with those that have.

### Cluster

`flight` is the singleflight call with the local tables of `_refresh`: `Fetch`, `Merge` under
the read lock, `AZ` without a lock, `Swap` under the lock, `EndFlight`. A command goes through
`Pick`, `Send`, `Redirect` or `Retry`, `Lookup` and `Install`, the two halves of
redirectOrNew. `doomed` has the connections for which a goroutine sleeps before it closes
them. All nodes agree on the slots (`Fetch` reads the current owners); a view is out of date when a
slot moves between `Fetch` and `Swap`. `Reshard` moves a slot, `Rehost` lets a host name lead elsewhere, so that a node
redirects to its own address.

### Standalone

Commands load the primary and use it in two steps. A redirection joins the switch under way,
even one to another address (`HandleRedirect`), and gives up when its context is done
(`StopsJoining`); the goroutine that leads the switch does not. `old` has the connections that are
closed after a delay.

### Lock

One lock name with `2 * majority - 1` keys. An attempt is a record with the keys it has tried
(`next`), what it counted and one monitor per key. `gates` is the gate a locker has for the
name, `gate` the gates by identity, because an attempt can hold one that is no longer in the
map. Starting a key's monitor (`AcquireNext`) and counting its result (`Count`) are two steps, so a
monitor can end before its failure is counted, in all sets of options with `overtakes`.
`Expire` ends keys that nobody extends, `Lose` takes a key away from a holder that does,
`Disconnect` is onInvalidations(nil). Four history variables serve the properties: `stolen` (a key was
lost under its monitor, or taken over by ForceWithContext), `failed` of an attempt (a monitor gave its
key up under a live context), `left` (its last monitor took it off the gate) and `twice` (it then
left the gate again).

### Aside

One key, several goroutines per client, several clients. `store` is the key's value: nothing,
a placeholder with a client's id, or a version of the data; `markers` are the ids that exist.
Each client has a cache of the key and of markers, with tracking and invalidations under way.
Clients close, crash and lose their connection; `version` and `floor` are history variables:
the data now, and at the last Del.

## Runs

| run | expects | instance |
|---|---|---|
| `queues` | pass | ring: 3 goroutines, 2 slots, 5 calls, multis of 2, counters modulo 4, 1 push; flow buffer: 3 goroutines, 2 channels, 4 calls, multis of 3 with a buffer of 2, 1 push |
| `pipe` | pass | 2 callers, 1 Close, queue of 2, 2 calls, starts synchronously, breaks at any time; timers: 2 users, 2 callbacks, Close and the worker, 2 fires, 2 uses |
| `pipe_live` | pass | 2 callers, 1 Close, queue of 1, four fates of the connection |
| `connections` | pass | mux: 3 callers, 2 connections, 3 calls; pool: 3 users, capacity 1, 3 uses, 1 fault |
| `pushes` | pass | 2 receivers, 2 setters of hooks, 2 channels, room for 1 message; cache: 2 callers, 2 commands on 1 key, room for 1 value, 3 calls, 2 writes |
| `clients` | pass | cluster: 2 goroutines, 2 nodes, 1 slot, at most 2 MOVED to follow, seven scenarios; standalone: 2 goroutines, 3 hosts, 2 failovers; aside: 3 goroutines of 2 clients, five scenarios |
| `waiters` | pass | sentinel: 2 nodes, 1 or 2 sentinels, eleven scenarios, four with a ticker; lock: up to 3 callers in 2 processes, 1 or 3 keys, ten sets of options |
| `mux_close` | violation | 1 caller, 2 connections |
| `pipe_close_hang` | violation | 1 caller, 1 Close |
| `pool_cap` | violation | 2 users, capacity 1 |
| `pubsub_return_hook` | violation | 2 receivers with a return hook that waits |
| `sentinel_replicas` | violation | a master and a replica, 1 sentinel, 1 failover |

**`queues`** shows that every reply is filed under the command it answers
(`RepliesMatchCommands`), that the goroutine receiving from a slot's channel is the one whose
command the reader fulfils (`ResultGoesToItsCaller`), that no wakeup of `c1` or `c2` is lost
(`NoLostWakeup`), that no send on the flow buffer's channels blocks (`SendsNeverBlock`), that
calls return (`EveryCallReturns`; for the ring, without a push), and the refinement
(`QueuesImplementCallQueue`). Three goroutines on two slots make one of them wait for a slot in
use, five calls make every slot be used again, and counters modulo 4 wrap within a behaviour.
The flow buffer is also checked with a push and with a buffer smaller than a multi.

**`pipe`** shows that one goroutine at a time owns the connection (`SyncIsAlone`), that the
drain leaves nobody behind (`NoCallLeftBehind`), that Close lets calls finish
(`CloseWaitsForCalls`), that `blcksig` is exact (`BlockSignalExact`), and that no timer outlives
the pipe (`NoTimerOutlivesPipe`). **`pipe_live`** shows that calls and Close return
(`EveryCallReturns`, `CloseReturns`) and that the worker ends (`WorkerStops`), for a connection
that breaks, one that is closed while its peer answers, one that is closed while its peer is
silent, and one that is closed before it is used. Two calls are enough for each step of one to fall between any two of the other, and
of Close; the queue of 1 makes a call, the PING of Close and the PING of the worker wait for
room. Two resets and two callbacks meet each stop of two closers.

**`connections`** shows for the mux that callers share one connection (`SingleConnection`) and
that none is lost while open (`NoOrphan`); for the pool its capacity (`WithinCap`), single
ownership (`WireHasOneOwner`) and that nothing stays open after Close
(`CloseLeavesNothingOpen`); for both that nobody waits for ever (`EveryWaitEnds`). With
capacity 1 and three users two can wait at once, so a Signal that wakes the wrong one would
show; three callers let one lead a dial, one join it and one use the old connection.

**`pushes`** shows that no channel is closed twice or sent to when closed (`NoPanic`), that a
waiting Receive misses no message (`NoMessageMissed`), that nil from Receive means an
unsubscription (`NilMeansUnsubscribed`), that hook channels end (`HookChannelsClose`), that a
cached value is current or its invalidation is on its way (`Coherent`), that a caller never
reads backwards (`MonotonicReads`), and that every Receive and every DoCache returns
(`EveryCallReturns`). The code's channels hold 16 messages; with room for one and two or three
messages the channel is full when its receiver leaves, which is the case that matters. Two
commands on one key meet both per-key and per-command removal; room for one value forces
eviction.

**`clients`** shows that no connection of the cluster or standalone client is lost while open
(`NoConnLost`), that the cluster's map has open connections to the right address
(`ServesOpenConns`), that a value loaded before a Del is not under the key after it
(`NoStaleValue`), that a placeholder covers one load (`OneLoader`), and that every Do and Get
returns (`EveryCallReturns`). Two nodes, one of them the initial address, make a refresh keep,
add and drop connections; two goroutines let one install a connection while the refresh of the
other has its tables half done. Three hosts are needed for a redirection to join a switch to an
address that is not its own. Two goroutines of one client and one of another meet both the
local flight and the placeholder on the server.

**`waiters`** shows for the sentinel client that until Close a client with one target never
serves a closed connection (`NeverServesClosed`), that after Close nothing is open
(`CloseLeavesNothing`), that the client gets back to the right node (`HealsItself`) and that
Close ends every goroutine (`CloseEndsAll`). `HealsItself` is stated for two kinds of client. One
with a ticker gets to the right nodes whatever happens. One without relies on events and on
refreshRetry: it gets back to a subscription, and to the right master unless the failover fell
between two subscriptions (`missed`), both unless its refreshRetry took the success of a refresh
that had begun before the connection broke (`late`; see the known limits). The scenarios without
a ticker are the ones in which a broken refreshRetry shows. For the lock the run shows that two
callers have live contexts only where a key was lost or taken over, or while a monitor that gave up
has deleted its key and not yet cancelled (`MutualExclusion`); that whoever may sleep on a gate has
the one that is woken, unless an attempt left its gate twice (`GateExact`); that a holder that lost
its majority is told (`LostLockIsCancelled`); and that while the lock is free some caller gets it or
all calls return (`FreeLockIsTaken`), with the two exceptions of client side caching that are among
the known limits. A scenario or set of options fixes how many failovers,
events, errors, losses and closes there can be. Each has one or two of them, so that it can be
explored in full; together they have every kind, and those pairs where one falls into the
handling of the other: an error or Close during a failover, Close during a retry, a lost key
next to a waiter.

Deadlock is checked except where the run's description in `PROJECT.json` says why the system
may stop. For each property of a passing run a mutant of the code (a dropped guard, a swapped
order, a missing reset) is given under which TLC finds it violated.

### What the violation runs show

- `pipe_close_hang`: Close on a connection in synchronous mode leaves the start of the worker
  to a call that has counted itself; if that call then finds the pipe stopping, nobody answers
  the PING of Close.
- `pool_cap`: a blocking command whose context is done stores the dead pipe Acquire gave it,
  which lowers `size` although it was not raised; the pool then grows beyond its capacity.
- `mux_close`: a connection dialled while Close runs is stored over the dead pipe, and calls
  after Close are served.
- `pubsub_return_hook`: the return hook of the example in the repository's README waits for
  UNSUBSCRIBE while nobody reads the channel of its Receive; with more messages than the
  channel holds the read loop waits for room and never delivers the reply.
- `sentinel_replicas`: with SendToReplicas `_refresh` does not wait for the second
  `_switchTarget` when the first fails. It goes on next to a later one and can put back a
  connection which that one closed.

## Fairness

Mostly one weak fairness condition per component: as long as a goroutine can run, some
goroutine does. It is weaker than fairness of every goroutine, which the Go scheduler gives,
and enough where each behaviour has finitely many calls. `Lock` needs it per caller, because a
caller without client-side caching can wake up and try again for ever; `Cluster` has one
condition for commands and one for the goroutines in the background; `Sentinel` one for its
steps and one for the ticker, where there is one, which alone could otherwise run for ever.

Timers the code sets are fair (the escape of Close, a context's deadline in `PubSub`, the
sleeps before a delayed close, waitBeforeRetry, the extension of a lost key in `Lock`), as is
the server where the code relies on it: it answers where a run says so, delivers invalidations
on a connection that is up, expires keys nobody extends, and its sentinels learn of a failover
in the end. Nothing else of the environment is fair: calls, breaks, errors, closes, writes,
failovers and messages may or may not happen.

Liveness is stated for all goroutines at once (when one has begun, all come to rest); as each
behaviour has finitely many calls this says the same as one statement each.

## Proofs

| theorem | module | for every value of the constants |
|---|---|---|
| `TypeCorrect` | `RingProofs` | Spec => []TypeOK |
| `RepliesAreFiledRight` | `RingProofs` | Spec => []RepliesMatchCommands |
| `ResultsReachTheirCallers` | `RingProofs` | Spec => []ResultGoesToItsCaller |
| `WakeupsArrive` | `RingProofs` | Spec => []NoLostWakeup |
| `OneAtATime` | `PipeProofs` | if NeverGivesUp: Spec => []SyncIsAlone |
| `NobodyLeftBehind` | `PipeProofs` | Spec => []NoCallLeftBehind |
| `CloseIsGraceful` | `PipeProofs` | if NeverGivesUp: Spec => []CloseWaitsForCalls |
| `BlocksAreCounted` | `PipeProofs` | if NeverGivesUp and TidyCalls: Spec => []BlockSignalExact |
| `NoStrayReply` | `PipeProofs` | Spec => []RepliesHaveItems |
| `TimersEnd` | `PipeProofs` | TimersSpec => []NoTimerOutlivesPipe |
| `NeverPanics` | `PubSubProofs` | Spec => []NoPanic |
| `MissesNothing` | `PubSubProofs` | Spec => []NoMessageMissed |
| `NilIsUnsubscribed` | `PubSubProofs` | Spec => []NilMeansUnsubscribed |
| `CacheIsCoherent` | `PushProofs` | CacheSpec => []Coherent |
| `ReadsNeverGoBack` | `PushProofs` | CacheSpec => MonotonicReads |
| `SharedConnection`, `NoneOrphaned` | `ConnectionProofs` | Spec => []SingleConnection, Spec => []NoOrphan |
| `WiresOwned`, `ClosedIsEmpty` | `ConnectionProofs` | PoolSpec => []WireHasOneOwner, PoolSpec => []CloseLeavesNothingOpen |
| `CapKept` | `ConnectionProofs` | if BlockingUndone: PoolSpec => []WithinCap |
| `ConnectionsKept` | `ClientProofs` | ClusterSpec => [](NoClusterConnLost /\ ServesOpenConns) |
| `LinksKept` | `ClientProofs` | StandaloneSpec => []NoLinkLost |
| `StoredAfterDel`, `LoadedOnce` | `ClientProofs` | AsideSpec => []NoStaleValue, AsideSpec => []OneLoader |
| `ClientsCompose`, `ConnsAccountedFor` | `ClientProofs` | ClientsSpec => ClusterSpec /\ StandaloneSpec /\ AsideSpec, ClientsSpec => []NoConnLost |
| `OneHolder` | `LockProofs` | LockSpec => []MutualExclusion |
| `GatesReachSleepers` | `LockProofs` | LockSpec => []GateExact |

Each rests on an inductive invariant, with one lemma or step per action and a last step that
combines them.
`PipeProofs` extends `PipeSteps`, which has the invariant of `Pipe` and its steps.

**Ring.** The assumptions are those of `Ring`: the size is at least 2 and divides the modulus
of the counters (the code has powers of two), lengths are positive, and nil is not a command.
No property is inductive: that the next reply belongs to the reader's slot depends on
what the writer put on the wire long before. `IInv` adds two halves. `SlotInv`, `CallerInv`
and `ReaderInv` tie a slot's mark and content to the one goroutine that waits on its channel.
`StreamInv`, `EndsInv` and `WriterInv` say that the redis commands on the wire form a chain:
each is followed by the next of its multi or by the first of the next slot, the chain begins
where the reader stands and ends where the writer stands. `MarkInv` says that a slot marked 2
has its last command on the wire or still to be written. `WakeInv` adds who is about to signal
to whom: a caller asleep on `c1` of a free slot has the reader at that slot or another caller
that will take it, and the writer asleep on `c2` of a filled one has a caller at its broadcast.
Counters that wrap are handled by `SlotOfInc`: the slot of the next counter value is the next
slot, also across the wrap.

**Pipe.** From `BoundAssumption`, `SettingAssumption` and `ActorAssumption` of `Pipe`: the queue
has room for one, a setting is what it should be, the goroutines are finitely many, and nil is
neither an error nor a result. That one goroutine at a time owns the connection is decided by a
counter and two flags that are read at different times, so the invariant counts.
`CountInv`: `wrCounter` is the number of goroutines between their count up and their count down,
where a Close that sends its PING counts twice.
`HolderInv`: whoever holds the connection because it was alone is the only one, and while a
worker is about to be started by a goroutine that is no longer counted, somebody who is counted
waits for it, so that nobody new finds itself alone. `QueueInv`: the queue, and the item in the
reader's hands, have exactly those who wait for a result, once each. `WireInv`: replies on the
wire are for items the writer has taken (`NoStrayReply`). `DrainInv`: once the drain has ended on
a count of zero, nobody can come to the queue any more. `CloseInv`: the calls that Close found
are ahead of its PING, or done. `BlockInv`: `blcksig` is the number of blocking calls, and on a
healthy connection no call ended with an error. Two hypotheses are needed where they stand.
`NeverGivesUp` says the queue is the ring: with the flow buffer a put returns the context's
error, and a call that gives up at the wrong moment breaks `SyncIsAlone` (see `pipe.go:1185`
below). `TidyCalls` says that no blocking DoMulti is abandoned, which would not give `blcksig`
back (`pipe.go:1326`). The instance of the run `pipe` satisfies both.

**Timers.** No assumptions. The property speaks of the end; `TimersInv` says what holds on the
way: whoever stops timers has set the error before, and a timer it has already stopped
(`Passed`) can be running only while the goroutine that reset it has not looked at the error
again (`Rechecking`). A reset that is followed by a look is therefore safe wherever the stop
falls, and one that is not would break the invariant at once.

**PubSub.** From `PubSubAssumption` (receivers and channels are finitely many, nil is none of
them) and `SettingsAssumption`. `RegistryInv`: a subscriber is under all its channels or under
none, and its channel is closed once, by whoever took it out. `HooksInv` says the same of the
error channels of hooks, and `ErrorInv` that the error is set before a channel is closed by the
end of the connection. `WireInv` is the hard part: it gives each command that the server has
executed and the reader has not answered a first and a last position in the stream, in the order
of the commands and with its confirmations between the two, so that the reader that meets a
confirmation has the command it belongs to, also when an unsubscription nobody asked for is
between them. `MessageInv` says where a message is that a receiver is owed:
handed over, in its channel, or in the stream with the receiver among those it will be
published to.

**ClientCache.** From `CacheAssumption`. `Coherent` is not inductive because a reply that is
under way will become an entry. `Order` therefore speaks of entries, replies and what callers
have seen at once: what comes later is not older, and between two different versions of a key
an invalidation is on its way. `Owned` says that the caller a reply is for waits for it and for
no other.

**Mux.** From `MuxAssumption` and `SharedAssumption`: nil, `m.init` and `m.dead` are not
connections. `MuxInv`: whoever is between the look at the slot and the end of its dial is the
leader `sc` names (`Leads`), so there is one; while it connects the slot is empty or dead,
since only a leader fills it; and an open connection is in the slot, in the leader's hands or
swapped out by Close.

**Pool.** From `PoolAssumption`: the minimal size is a number, and the marks that stand for
dead pipes are not connections. `PoolInv`: only the steps between Acquire and Store have a
connection, every open one is idle, held or dropped by a stream, and a pool that is down has no
open connection in its list. For the capacity `CountInv` adds that, while the pool is up, `size`
is at least the number of connections idle, in use and dropped, and at most `Cap`. It needs the
hypothesis `BlockingUndone`, no blocking command's context is done, which is what
`pool_cap` shows to be necessary.

**Cluster.** From `ClusterAssumption`, which says what a scenario is and that nil is distinct
from the rest. The hard part is what goroutines hold that is in no table any more: a command
keeps the connection it picked, a refresh the one it read under the read lock. `ClusterInv`
says of all of them that they are closed, in the map, or about to be closed (`Tracked`), so a
command that uses one late cannot open a connection nobody knows; and of the refresh
(`FlightOK`) that what it made for an address is not closed before it is in the map, unless
somebody else has made one for that address since.

**Standalone.** No assumptions. `LinkInv` adds that a switch has a connection only between its
dial and its swap.

**Aside.** From `AsideAssumption`. `AsideInv`: one goroutine of a client populates at a time
(`FlightsAlone`), and its placeholder has an id of its own client (`OwnIds`, `IdsOfHome`). Once a
Del has removed a placeholder nobody but its own goroutine could put it again, and that one does
not before its load has ended; so a value that still finds its placeholder was loaded after the
last Del.

**Lock.** From `LockAssumption`: callers are finitely many and an option has a positive
majority. For `MutualExclusion`, `Undisturbed` says that, unless a key was lost or taken over, a
monitor in its loop has its key on the server, and that a live attempt of which no monitor gave up
has at least as many monitors in their loops as keys it counted (`Extending`). The keys of two holders
are disjoint, two majorities of `2 * Majority - 1` keys are not (a theorem on finite sets), so one of
two live holders has a monitor that gave up. Failing acquisitions and deletions, early timers, lost
connections and monitors that end before they are counted are all in the specification, and none is
excluded. For `GateExact`, `GatesCount` says that the count of a gate in the map is the number of
callers that have joined it and that neither they nor their last monitor took off it, as long as
nobody left a gate twice.

**Composition.** `Clients` has three clients in one behaviour with `component` saying whose
steps these are; `ClientsCompose` shows that such a behaviour is one of each of the three, so
that their theorems carry over to the run's specification.

Only model-checked: liveness (`EveryCallReturns`, `WorkerStops`, `CloseReturns`, `EveryWaitEnds`,
`HookChannelsClose`, `HealsItself`, `CloseEndsAll`, `LostLockIsCancelled`, `FreeLockIsTaken`),
which under fairness is out of the prover's reach; the refinement `QueuesImplementCallQueue`,
whose order of the slots needs a count of those that are marked;
`SendsNeverBlock`; and `NeverServesClosed` and `CloseLeavesNothing` of `Sentinel`, whose
`_switchTarget` calls are numbered as they start and need an invariant on each pair of them.

## Known limits of the code, without a run of their own

These were met while modelling; properties are stated, or instances chosen, so as to leave them
out, and the hazard at the line says so.

- `ring.go:131`: the reader has the slot's mutex until a multi is complete. When a multi is larger
  than the write buffer, the writer that wraps round to its slot blocks on that mutex with the
  rest of the multi not yet flushed. `MCQueues.cfg` gives the buffer room for all (`BufCap = 6`);
  with multis of 3 and room for 2 the ring's calls do not all return.
- `pipe.go:668`: an unsolicited unsubscribe push can make the reader take the mutex of a slot
  whose command is not flushed, on a full ring.
- `pipe.go:1185`: with the flow buffer, a call that gives up between a synchronous call's count
  and its start of the worker lets a third call read the connection next to the worker.
- `pipe.go:1326`: an abandoned DoMulti does not give back `blcksig`.
- `pool.go:55`: the broadcast for a context that is done can be missed by its waiter, so
  `EveryWaitEnds` is stated for behaviours without one.
- `pipe.go:1391`: streams whose context is done do not store their connection.
- `pipe.go:1044`: a Receive without a deadline can wait for its SUBSCRIBE behind messages that
  fill its own channel.
- `pipe.go:900`: a hook can be called once after its error channel was closed.
- `sentinel.go:755`: with as many events as the channel of a subscription holds (16), the event
  handler, the read loop and the refresh wait for each other, and Close with them. The instances
  have fewer events than room.
- `cluster.go:1722`: a connection that a redirection or a refresh installs while Close runs stays
  open, and so does the new primary of a standalone client whose switch ends after Close.
- `cluster.go:678`: without MaxMovedRedirections two nodes that disagree for ever keep a command
  going.
- `sentinel.go:615`: refreshRetry ends when the refresh it joined succeeds. When the sentinel's
  connection breaks while a refresh is past its listWatch, the refreshRetry of the watcher joins that
  refresh and takes its success, and the client stays without a subscription; without a ticker
  nothing repairs it, although the comment at `sentinel.go:580` says "the client always heals itself".
  `HealsItself` excludes it (`sc.late`). A failover between two subscriptions goes unnoticed
  in the same way (`sc.missed`).
- `rueidislock/lock.go:343`: when the last monitor ends before try has counted its failure, or the
  timer fires after the majority was reached, both the monitor and the caller lower the gate's count.
  The gate leaves the map under those who still use it, and with client side caching one that sleeps
  there is not woken when the lock is free, although the lock's `README.md:57` says that a waiting
  WithContext "will try acquiring the lock again automatically and immediately once it has been
  released". `GateExact` and `FreeLockIsTaken` except behaviours in which this happened (`twice`).
- `rueidislock/lock.go:403`: with client side caching a WithContext whose scripts failed, or whose
  timer fired, without a key held by another sleeps at its gate although the lock is free, and no
  release is to come that would wake it. `FreeLockIsTaken` excepts such a sleeper (`Dozes`).
- `rueidislock/lock.go:292`: a monitor that gives up deletes its key before it cancels the context,
  so another caller can have the lock while the first context is live, although the lock's
  `README.md:54` says it "will be canceled automatically and immediately once the `KeyMajority` is not
  held anymore". `MutualExclusion` excepts a holder with such a monitor.
- `rueidislock/lock.go:279`: after a key is lost under its holder there can be two holders
  until the first learns of it; `MutualExclusion` is stated until then.

## Not modelled

- In `pipe.go`: the handshake, what DoStream does with the bytes, and the ping's decision to
  spare a connection with a blocking command. In `lru.go` and `cache.go`: DoMultiCache and
  doCacheMGet, which take several flights in one critical section, the adapter of a user's
  store, and the arithmetic of expiry times.
- In `cluster.go`: DoMulti, DoCache and DoMultiCache, which group commands by connection and
  use the same redirectOrNew; the routing to replicas; the dedicated client. In `mux.go`: the
  choice of a slot, the opt-in command, CLIENT UNBLOCK.
- `client.go` and the dedicated clients: retry loops around one call, and a flag that is set
  once; nothing interleaves there beyond what `Pool` and `Pipe` have.
- `rueidislimiter`, `rueidisprob`, `om`: scripts which the server executes atomically, with
  sequential code around them.
- Parsing and formatting (`resp.go`, `message.go`), options, hooks and mocks, the go-redis
  compatible API and the command builders. The last two are by far most of the repository's
  lines: one method per Redis command, generated or repetitive, without state that two
  goroutines share. A model of them would be a copy, so the share of lines that the map covers
  stays small however completely the concurrent core is modelled.
