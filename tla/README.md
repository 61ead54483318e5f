# Formal specifications of reool

reool is a fixed size connection pool for Redis on tokio 0.1 (`src/src`). This
directory holds TLA+ specifications of it, TLC configurations that model-check
them, and proofs checked by the TLA+ proof system. Paths below are relative to
`src/src` unless they start with `src/`.

    tlc -workers 2 -config PoolWaiting.cfg MCPoolInternal
    tlc -workers 2 -config PerNode.cfg MCPoolPerNode
    tlc -workers 2 -config PoolConfig.cfg MCRedisPoolBuilder
    tlc -workers 2 -config Instrumentation.cfg MCInstrumentation
    tlapm PoolInternal_proofs.tla      (and the other *_proofs)

## 1. The system

### 1.1 Parts, their state and their operations

| Part | State | Operations |
|---|---|---|
| Inner pool and its consumer (`pools/pool_internal/inner_pool/mod.rs`, `pools/pool_internal/mod.rs:416-456`) | idle connections, reservations, time of the last cleanup | `check_in`, `check_out`, `create_reservation`, `cleanup_reservations`, `Drop` |
| PoolInternal and the checkout futures (`pools/pool_internal/mod.rs`, `pools/checkout_constraint.rs`) | sender of the bounded checkout channel; a oneshot channel and maybe a `Timeout` per checkout | `new`, `check_out`, `check_out2`, polling and dropping the future, `Drop` |
| Managed and PoolConnection (`pools/pool_internal/managed.rs`, `pool_connection.rs`) | the connection or nothing, `checked_out_at`, the factory | commands, `Drop` with and without a value, orphanage |
| Connection creation (`pools/pool_internal/extended_connection_factory.rs`) | one task per empty slot: attempt number | probe the channel, attempt, retry after a backoff |
| Counters (`pools/pool_internal/instrumentation/mod.rs`) | five `AtomicUsize` | increments, decrements, `state` |
| Pool per node, single pool (`pools/pool_per_node`, `pools/single_pool`) | round robin counter, the sub pools | `check_out` over the sub pools, `state`, `ping` |
| Retries (`pools/mod.rs`) | none beside the future | `check_out_maybe_retry_on_queue_limit_reached` |
| RedisPool (`lib.rs`) | the flavour, the default checkout mode | `check_out`, `state`, `ping` |
| Configuration (`config/`, `helpers.rs`, `activation_order.rs`) | the settings | setters, updates from the environment, `Config::builder`, `Builder::finish` |
| Backoff strategies (`backoff_strategy.rs`) | none | `get_next_backoff` |
| User instrumentation (`instrumentation/`) | the counters of `StateCounters`, metrics | one callback per event |
| redis-rs connector, commands (`redis_rs/`, `commands.rs`) | none | connect, ping, commands |
| Executor, errors (`executor_flavour.rs`, `error.rs`) | none | `spawn`, error kinds |

### 1.2 How they interact

    client ── check_out ──> checkout channel (bounded) ──┐
       ^                                                 ├─> consumer task
       │                 ┌─> internal channel (unbounded)┘   owns the InnerPool
       │   answer        │    CheckIn, CheckAlive,                  │
       └──── oneshot ────│─── CleanupReservations, Stop ────────────┘
                         │
      Managed::drop, connection tasks, cleanup ticker, PoolInternal::drop

The consumer is the only one that touches the idle connections and the
reservations. Everything else talks to it over the internal channel or over the
checkout channel; it answers a checkout over the oneshot channel whose sender
came with the checkout. A `Managed` returns itself by its destructor, and if it
has lost its connection the destructor starts a task that creates a new one.
The counters are shared memory, changed by the consumer and by destructors;
each event counted there is passed on to the instrumentation of the user, which
all sub pools share. `RedisPool::state` reads the counters of one sub pool after
the other without any lock. `Builder::finish` creates the sub pools one by one, and the
first ones already run when a later one cannot be made.
Nobody waits for the consumer to end: dropping the `PoolInternal` only sends
`Stop`.

### 1.3 What is hard

* The client can drop or time out its future at any time: before the checkout
  is received, while it is being answered, afterwards with a connection in it.
* Clients, connection tasks, the ticker and the consumer run on several
  threads. A handler of the consumer sends a connection first and counts
  it later; the client may already have broken it.
* Connections break and nodes go away; every slot has to be refilled, once.
* Reservations of dead futures fill the queue and have to be cleaned up without
  losing a live one or letting a newcomer in front.
* The pool is dropped while all of this goes on. The channels and the inner
  pool disappear one after the other.
* With several sub pools a call asks one after the other, while other calls take
  positions from the same counter, queues fill and empty, and deadlines
  elapse. Retries repeat such calls with a clone of the pool in their hands.
* Each counter is an atomic of its own. A handler changes up to three of them,
  before or after the effect they describe, while others change or read them.
* A setting takes one of three ways into a pool, and is passed on field by field on
  each. An update from the environment, and the creation of a pool, can fail half
  way.
* The backoff of a connection task goes through a table that ends, with a
  jitter that has its own rule for very small delays.

### 1.4 What makes the parts correct

| Part | Correct if |
|---|---|
| Inner pool | no connection is idle while somebody waits; first come, first served; the queue never outgrows its allocation; a live request is never dropped |
| Checkout futures | as long as a future is unresolved somebody is going to answer it, and it is answered in the end |
| Managed, connection creation | every slot is in exactly one place; broken slots are refilled; nothing is recreated after the end |
| Shutdown | consumer, ticker and tasks end whatever clients do; whoever waits learns it |
| Counters | equal to what they count whenever the consumer is between two messages; never below zero; zero at the end |
| Pool per node | every sub pool is asked before a call gives up; a request is in at most one sub pool; a checkout that may wait is not refused because one pool is empty |
| Retries | a checkout that is bounded ends, with a timeout if its deadline elapsed; a dropped pool ends in spite of the clones |
| Reports | the sum that is reported is never more than there can be; the user's counters are the sum of the pool's |
| Configuration | what was set last is what is used; a failed update is a prefix; the sub pools of a node add up to what was asked for; each node has its turn; nothing is left of a failed build |
| Backoff | within the documented limits for every attempt; a longer outage never means a shorter delay; no delay only if asked for |

The hazards behind these, with their lines, are listed in `PROJECT.json`.

## 2. The modules

| Module | Models |
|---|---|
| `ConnectionPool` | what a pool promises, without queues or messages: each slot has one owner |
| `PoolInternal` | one pool with its clients, tasks, consumer, counters and shutdown |
| `PoolPerNode` | `check_out` over several sub pools, with retries |
| `BackoffStrategy` | the delays `get_next_backoff` can draw |
| `PoolConfig` | the settings, what variables are parsed to, checks and sizes |
| `RedisPoolBuilder` | from a `Config` to running sub pools, their outages and their end |
| `Instrumentation` | the counters of several sub pools and of the user, increment by increment, and `state` |
| `MCPoolInternal`, `MCPoolPerNode` | symmetry sets for TLC |
| `MCRedisPoolBuilder`, `MCInstrumentation` | the lists of nodes and strategies for TLC; nothing else |
| `Filter` | `Without`, which removes the elements of a set from a sequence |
| `DataLemmas` | proofs: induction, what `Without` returns, remainders, sums over functions |
| `RedisPoolBuilder_proofs` | proofs: bounds and growth of the delays, all invariants of `RedisPoolBuilder`, and its action property |
| `PoolInternal_proofs` | proofs: types, waiters beside idle connections, the size of the queue |
| `PoolRequests_proofs` | proofs: no checkout is forgotten or overtaken |
| `PoolSlots_proofs` | proofs: no slot is lost or duplicated |
| `PoolContract_proofs` | proofs: one pool implements `ConnectionPool`, its counters are exact |
| `PoolPerNode_proofs` | proofs: all safety properties of `PoolPerNode` |
| `Instrumentation_proofs` | proofs: all properties of `Instrumentation` |

### 2.1 PoolInternal

State:

| Variable | In the code |
|---|---|
| `pool` | the `PoolInternal`; also the counter `pools` (1 iff alive) |
| `checkouts`, `checkout_open` | content of the bounded channel and whether its receiver exists |
| `internal`, `internal_open` | the same for the unbounded channel |
| `idle`, `reservations` | the fields of `InnerPool` |
| `counters` | the other four `AtomicUsize`s of `PoolInstrumentation`, as integers: a negative value stands for one that wrapped around |
| `pc`, `carried`, `serving`, `scan` | where the consumer is in `process`, `check_in`, `check_out`, `retain` or its own end, and the local variables it has there |
| `checked_out` | the connections whose `checked_out_at` is `Some` |
| `task`, `gone` | the connection task of a slot; the slots that ended as orphans or with their task |
| `ticker` | the cleanup ticker task |
| `phase`, `mode`, `answer` | the client's side of a checkout: the future or connection it has, the constraint, and what lies in or came out of the oneshot channel |

A connection is named by its slot: `desired_pool_size` slots exist, and a
broken connection is replaced by one of the same slot. A name for a request is
used again once nothing is left of the checkout that had it before (no future,
no connection, no sender anywhere), so behaviours are not limited to as many
checkouts as there are names; what is limited is how many exist at a time.

Atomicity. A step of the model is as large as other tasks cannot tell. The
consumer's handlers are split where they can:

* `check_out` is `ProcessCheckOut` (receive, `is_closed`), then `DeliverIdle`
  (take, send, put back on failure) and `Delivered` (`in_flight_inc`, after the
  send), or `NoIdle` (refuse, reserve, or start the cleanup of a full queue).
* `check_in` is `ProcessCheckIn`, one `TryFulfill` per turn of the loop, then
  `Fulfilled` (the counters, after the send) or `NoneFulfilled`.
* `cleanup_reservations` is one `CleanupStep` per element `retain` looks at,
  because futures may be dropped between two looks, and `CleanupDone`, after
  which an interrupted `create_reservation` goes on.
* The end of the consumer is `ProcessStop` (stream ends, internal receiver is
  dropped), `CloseCheckouts` (checkout receiver) and `DropInnerPool`, in the
  order in which the consumer future drops what it owns. Clients act between.

Destructors (`Managed::drop`, `PoolConnection::drop`) are one step: they change
counters and send one message or spawn one task, and nobody observes a
difference in between. The loop of `InnerPool::drop` that takes `in_flight` off
one by one is one step too: a decrement in between and one afterwards have the
same effect.

External code is modelled from how `src/` relies on it: `oneshot::send` fails
iff the receiver is gone, a dropped sender wakes its receiver with an error,
the mpsc channels keep the order and a send fails iff the receiver is gone (or
the bounded channel is full), and a dropped receiver drops what is in the
channel.

Abstractions:

* Time. A deadline may elapse at any moment (`CheckOut` with an elapsed
  deadline, `TimeOut`), a backoff lasts any time, the ticker fires at any time,
  and a cleanup message that comes while there is room in the queue cleans up
  or not, depending on `last_cleanup`. `TimeOut` is weakly fair in the liveness
  runs, so a checkout with a deadline does not stay unresolved forever.
* `Capacity` is a constant of its own, at least `ReservationLimit`. The code
  compares the length of the queue with `VecDeque::capacity()`, of which the
  standard library only promises that it is at least what was asked for.
* `InitNoRuntime`. The results of `executor.spawn` are ignored. If there is no
  runtime none of the tasks exists and both receivers are dropped at once.
* `Backlog` bounds the unprocessed `CheckAlive` messages per slot and the
  unprocessed `CleanupReservations` messages, so that the channel is finite.
  These messages do nothing but to be sendable, respectively to start a cleanup.
* Durations, logging and the calls to the user's instrumentation are left out.

### 2.2 ConnectionPool

Slots, their owners (the pool, a checkout, the factory, the void) and whether
the pool is open. A checkout has at most one connection, connections are granted
only from the pool and only while it is open, broken ones go to the factory,
and once the pool is closed everything ends in the void. `PoolInternal`
implements it under the mapping `Owner`: a connection belongs to a checkout
from the moment it was sent until it is sent back, and to the pool
while it is idle, carried by the consumer or on its way back.

### 2.3 PoolPerNode

Each `CheckOut` is a call of `RedisPool::check_out`: it takes a position from
the counter all calls share (`TakePosition`), and asks one sub pool per
`Attempt`, so that other calls and consumers act in between. What it is
refused with is passed to the retries (`Refused`, `RetryCall`) or to the client.

| Variable | In the code |
|---|---|
| `retry` | `retry_on_checkout_limit`, chosen once by `Init` |
| `handle` | whether the client has a `RedisPool` or clone of it |
| `count` | `Inner::count` |
| `alive`, `queue`, `reserved`, `idle`, `creating` | per sub pool: its consumer, the checkout channel, the reservations, and how many connections are idle or being created |
| `phase`, `mode`, `elapsed`, `error` | the future of a checkout, its constraint, whether the deadline has passed, the error it ended with |
| `first`, `tried` | `position` at the start of the loop, and how many sub pools have refused since |

The sub pools are coarser than in `PoolInternal`: a message is one step, an
answer resolves the future at once, and connections are counted, not named. The
interleavings this leaves out are those inside of one sub pool, which
`PoolInternal` is about. What matters here is kept: a full queue, a full
reservation queue with requests nobody waits for, an empty pool, and a pool
that is gone.

`Constraint` is what a sub pool is asked with, `Immediately` for all but the
last one. `TimeOut` is possible only if a sub pool was given the deadline. The
future has failed then, but its receiver is dropped with it and not before (phase
`expired`): until the client drops the future the sub pool still takes the checkout
for a waiting one and may send it a connection nobody reads (phase `late`), which
comes back when the future is dropped. With retries the
future around it, an `or_else`, drops the inner one at once.
`Period` lets the counter start again earlier than usize does. As long as nothing
overflows, the code looks at positions modulo `N` only, so a multiple of `N`
below the overflow makes no difference; `Period = Usize` is the exact counter.
`DropHandle` waits for calls to return; a future that retries holds a clone
(`HoldsClone`), and `Stop` needs the last clone to be gone.

Not modelled: a failing timer, which ends a retry or a timeout with
`TaskExecution`, and `RedisPool::no_pool`, which refuses everything. `PoolDefault`
is one of the other modes, as configured. With `N = 1` the module is
`pools/single_pool`.

### 2.4 BackoffStrategy, PoolConfig and RedisPoolBuilder

`BackoffStrategy` and `PoolConfig` are pure. A delay that is drawn at random is
the set of delays that can be drawn, in whole milliseconds as in the code; no
delay is the empty set. What a variable of the environment contains is represented by what
`FromStr` makes of it, `Invalid` if that is an error; what the code does on top
is modelled (`ParseConnectTo`, `ParseCheckoutMode`, the different treatment of a
`Duration` of zero by `FromDuration`).

| Variable | In the code |
|---|---|
| `stage` | what the client has: a `Config`, a `Builder`, a call of `finish`, a pool, an error, or nothing any more |
| `origin` | whether it began with `Config::default()` or `RedisPool::builder()` |
| `config` | the `Config`, by itself or in the `Builder` |
| `next` | the variable `update_from_environment` reads next |
| `pools` | `Inner::pools` as it grows, in its order: number `i` belongs to the node `NodeOf(config, i)` |
| `running`, `stopping` | the sub pools with a consumer; those that were sent `Stop` |
| `failed` | attempts in a row of a connection task of the first sub pool |
| `changes`, `wanted`, `before`, `seen` | the bound, and history for the properties |

`ReadAbsent` and `ReadPresent` are one turn of `update_from_environment` each, so
an update is a series of steps that an invalid variable ends (`ReadInvalid`);
`updated_from_environment` of the `Builder` consumes it, the `&mut` one leaves
it to the client. `ToBuilder` is `Config::builder`, `Finish` is `Builder::finish` up to
the decision which kind of pool it makes, `CreateSubPool` and `FactoryFails` are
one turn of the loops of `Inner::new`. With `FactoryFails`, and with
`DropRedisPool`, the vector of sub pools is dropped, and each consumer ends on its own
(`StopReceived`). `PoolInternal` has the details of that.

### 2.5 Instrumentation

Here every increment is a step. A handler is a script: a sequence of increments
and of the effects others can see, in the order of the code, which its actor
works off while the others act in between. `InnerPool` has one
actor per sub pool (`Consumer`), a broken connection is dropped by a second one
(`Dropper`), and `Main` creates and drops the sub pools one after the other
(`CreateSubPool`, `DropSubPool`, each with the event that follows it). The operators named like
methods (`check_in`, `ManagedDrop`, `InnerPoolDrop`, `reservation_added`, ...) are the
scripts of these methods. `flavour` is the `InstrumentationFlavour`: for `Custom`
an event is counted for the sub pool, then for the user.

| Variable | In the code |
|---|---|
| `own`, `user` | the `AtomicUsize`s of each `PoolInstrumentation` and of `StateCounters`, as integers |
| `script` | what is left of the call an actor is in |
| `built`, `ended` | how many turns of the loop of `Inner::new`, and of the drop of its vector, have begun |
| `conn`, `inbox`, `queue`, `alive` | per sub pool: its connection, the internal channel, the number of reservations, whether the consumer has its receivers |
| `at`, `report`, `wrapped` | a call of `RedisPool::state`: its next load, its sum, whether it has met a counter below zero |

Integers below zero stand for wrapped ones; a load takes them modulo `Usize`, and
the addition of two `PoolState`s wraps or panics like the build it is in. A sub
pool has one connection, which is enough for its counters to be wrong by one, and
which checkouts are made and given up is left open.

## 3. What is checked

| Run | Instance | Properties |
|---|---|---|
| `pool_waiting` | 1 slot, 3 checkouts, queue 1, limit 2, FiFo | `TypeOK`, `NoWaiterWhileIdle`, `NoLostRequest`, `ReservationsBounded`, `NoOvertaking` |
| `pool_slots` | 2 slots, 2 checkouts, queue 2, limit 1, LiFo | `SlotConservation`, `CountersExact`, `ImplementsConnectionPool` |
| `pool_runtime` | 1 slot, 2 checkouts, queue 1, limit 1 | `ShutdownCompletes`, `ImmediatelyAnswered`, `SlotRefilled` |
| `pool_fair` | the same | `EveryCheckoutAnswered` |
| `pool_in_flight` | 1 slot, 1 checkout | `InFlightNeverWraps`, violated |
| `per_node` | 2 sub pools with 1 slot, 3 checkouts, queues 1, limits 1 | `TypeOK`, `OneSubPoolHasIt`, `OnlyTheLastLetsWait`, `EverySubPoolIsAsked` |
| `per_node_retry` | 1 sub pool, otherwise the same | `BoundedCheckoutsEnd`, `SubPoolsEnd` |
| `per_node_wait` | as `per_node` | `WaitersAreNotTurnedAway`, violated |
| `per_node_deadline` | as `per_node` | `ElapsedMeansTimeout`, violated |
| `config` | 3 changed settings, 1 or 2 nodes or what `CONNECT_TO` says, multipliers 0, 1, 2, outages of 28 attempts | `TypeOK`, `LastSettingWins`, `UpdateIsPrefix`, `NodeCapacity`, `EveryNodeInTurn`, `RetriesBackOff`, `NeverSooner`, `NothingLeftBehind` |
| `config_order` | 2 changed settings | `ActivationOrderKept`, violated |
| `instrumentation` | 2 sub pools with 1 connection and 1 reservation, 2 checkouts | `TypeOK`, `QuietCountersExact`, `UserCountsTheSum`, `OnlyInFlightWraps`, `CountersBounded`, `ReportAddsUp` |

* `pool_waiting` is about contention. With one connection, two reservations and
  three checkouts the queue is full while a third one arrives, dead
  reservations are cleaned up before it counts, one waiter can be answered while
  another one arrives, and the checkout channel is full while the
  consumer is busy. It shows that nobody waits beside an idle connection, that
  every unresolved future has exactly the sender it needs, that the
  queue keeps within its allocation and that nobody is overtaken.
* `pool_slots` is about slots. Two connections are out, break, come back or are
  lost in futures that timed out at the same time, and LiFo distinguishes the
  end they are taken from. It shows that a slot is always in exactly one place,
  that the counters are exact between two messages and lag by exactly
  the connection being handed over in between, and that the pool implements
  `ConnectionPool`.
* `pool_runtime` and `pool_fair` check liveness, see section 4.
* `per_node` is about calls that run at the same time. Three checkouts, queues
  of one and two sub pools suffice for a call to find the first queue full and
  the second one not, or both, or one of them gone, and for a later call to
  start at the other sub pool. It shows that no call gives up early, that a
  request is never left in a sub pool the client does not wait for, and that
  only the last one asked makes a client wait.
* `per_node_retry` is about retries, see section 4. One sub pool is enough for
  all queues to be full.
* `config` is about the ways of a setting. Three changes suffice for a setting in
  the `Config`, one in the `Builder` made of it and one in an update that fails
  afterwards, or for two nodes, a multiplier and a size that it does not divide. It shows that
  what was set last arrives in every sub pool, that an update that fails leaves
  a prefix, that sizes are rounded up, that the round robin passes all nodes
  wherever it starts, that delays keep within their limits, and that a build that
  fails half way leaves nothing behind.
* `instrumentation` is about single increments. Two checkouts are enough for a
  connection that is handed over, broken and replaced while a second checkout
  is reserved, cleaned up or served, with `state()` reading in between and the pool
  being dropped. It shows that nothing but `in_flight` can wrap, when that of a sub pool and that of the user can, and
  what a report can show. It also shows that the loop of `InnerPool::drop` over
  `in_flight` never runs with a wrapped counter, which would keep it busy for ever.
* The violated ones are claims of the repository the code does not keep,
  section 6.

Bounds. The handlers compare the length of a queue with nothing or with its
capacity, look at its head, or remove one element. Two reservations are enough for
an order among them, a third checkout for the full queue. Two slots are enough
for an order of the idle connections and for one connection being counted
while another one is sent. `MaxAttempts` 28 passes the end of the table of 26 delays, and
`MCBackoffs` has constant delays of 0, 1 and 95 ms, whose jitter is ruled differently.
`MaxChanges` 3 and the values in `PoolConfig.cfg` give each setting at most two values
beside its default: nothing but the multiplier is calculated with, and it takes one that
divides no size evenly, one that is refused, and 1. `CONNECT_TO` may be empty, contain
an empty part, a blank one, or a node twice. `MaxCheckouts` 2 bounds the checkouts of
`Instrumentation` in a behaviour; breaks and returns are bounded by it. `Usize` 8 is above every
sum there can be without a wrapped counter. `Backlog` 1 is enough because the messages it bounds
carry no data. Slots and checkouts are interchangeable, which the safety runs
use (`SYMMETRY`); the liveness runs do not.

Deadlock is not checked: after the pool was dropped and all its tasks ended, the
system has stopped as intended (`ShutdownCompletes` says that it gets there).

## 4. Fairness

* `RuntimeFairness`: tokio polls every task that was notified, so the consumer,
  the ticker, the connection tasks, and futures with an answer or an elapsed
  deadline take their steps (weak fairness). The consumer reads a `Select` of
  its two channels, which starts at the other one each time it is polled: as
  long as both have messages neither is passed over forever. The actions that
  receive from a channel are disabled while a message is processed, so this
  is strong fairness of `ProcessInternal` and of `ProcessCheckOut`.
* `ClientFairness`: clients drop resolved futures they cannot use, their
  commands end, and they return a connection they hold after
  finitely many commands (strong fairness, because a command in between
  disables it). The code does not guarantee any of it: only
  `EveryCheckoutAnswered` assumes it.
* `NodeFairness`: a node that is tried infinitely often can be connected to at
  some time. It is a premise of `SlotRefilled` and part of `FairSpec`.

`ShutdownCompletes` and `ImmediatelyAnswered` hold under `RuntimeFairness`
alone: no client has to return anything and no node has to be up.

`RedisPoolBuilder` assumes only that some consumer that was told to stop runs as long as
there is one (weak fairness), which is the runtime's part of `ShutdownCompletes`.
`Instrumentation` has no liveness property: its scripts always end.

`PoolPerNode` has the same three. Its `RuntimeFairness` also lets calls run to
their end, retries wake up after their delay and deadlines elapse (weak
fairness). `BoundedCheckoutsEnd` holds under it alone: clients may keep every
connection and fill every queue. `SubPoolsEnd` holds under it without
retries; with them a checkout without deadline keeps a dropped pool alive
until it is answered, for which clients have to return connections and nodes
have to be up. `EveryCheckoutAnswered` needs all three, since a checkout without deadline in a
pool whose only connection is kept forever waits forever.

## 5. What is proved

Proved for one pool, for any finite number of slots, any number of checkouts, any queue
size, any reservation limit and allocation and both activation orders:

| Module | Theorem | Says |
|---|---|---|
| `PoolInternal_proofs` | `Invariance` | `Spec => []IInv` |
| | `TypeCorrect` | `Spec => []TypeOK` |
| | `NoWaiterIsLeft` | `Spec => []NoWaiterWhileIdle` |
| | `ReservationsStayBounded` | `Spec => []ReservationsBounded` |
| `PoolRequests_proofs` | `SendersInvariance` | `Spec => []RInv` |
| | `NothingIsForgotten` | `Spec => []NoLostRequest` |
| | `LineWaits` | `Spec => []Expectant` |
| | `NobodyIsOvertaken` | `Spec => NoOvertaking` |
| `PoolSlots_proofs` | `SlotsInvariance` | `Spec => []SInv` |
| | `SlotsAreConserved` | `Spec => []SlotConservation` |
| `PoolContract_proofs` | `Implementation` | `Spec => ImplementsConnectionPool` |
| | `CountersInvariance` | `Spec => []CInv` |
| | `StateTellsTheTruth` | `Spec => []CountersExact` |

for several sub pools, any number of them, of connections and of checkouts, any sizes of
their queues, with and without retries:

| Module | Theorem | Says |
|---|---|---|
| `PoolPerNode_proofs` | `SpecPInv` | `Spec => []PInv` |
| | `PerNodeTypes` | `Spec => []TypeOK` |
| | `NoSubPoolGrows` | `Spec => []ConnectionsBounded` |
| | `OneSubPool` | `Spec => []OneSubPoolHasIt` |
| | `LastLetsWait` | `Spec => []OnlyTheLastLetsWait` |
| | `AskedUnlessWrapped` | all sub pools are asked by a call whose positions do not overflow |
| | `AllSubPoolsAsked` | `Spec => EverySubPoolIsAsked`, if `Period + N <= Usize` |

and, for any values of the settings, lists of nodes, strategies, numbers of changes
and lengths of outages:

| Module | Theorem | Says |
|---|---|---|
| `RedisPoolBuilder_proofs` | `ConfigTypeCorrect` | `Spec => []TypeOK` |
| | `LastSettingWinsHolds` | `Spec => []LastSettingWins` |
| | `UpdateIsPrefixHolds` | `Spec => []UpdateIsPrefix` |
| | `NodeCapacityHolds` | `Spec => []NodeCapacity` |
| | `EveryNodeInTurnHolds` | `Spec => []EveryNodeInTurn` |
| | `RetriesBackOffHolds` | `Spec => []RetriesBackOff` |
| | `NeverSoonerHolds` | `Spec => NeverSooner` |

and, for the counters, for any number of sub pools, reservations and checkouts and any width
of a usize:

| Module | Theorem | Says |
|---|---|---|
| `Instrumentation_proofs` | `CountersInductive` | `Spec => []IInv` |
| | `TypesOfCounters` | `Spec => []TypeOK` |
| | `QuietCounters` | `Spec => []QuietCountersExact` |
| | `UserCounts` | `Spec => []UserCountsTheSum` |
| | `NoOtherWraps` | `Spec => []OnlyInFlightWraps` |
| | `CountersHaveBounds` | `Spec => []CountersBounded` |
| | `ReportsAddUp` | `Spec => []ReportAddsUp` |

Assumptions of the first table: those named in `PoolInternal` (`None` and the fixed names differ
from slots, requests and error kinds, the sizes are naturals, the allocation is
at least the limit, the order is FiFo or LiFo, and there are finitely many slots). They
keep the model's values apart or state what the types and `with_capacity` guarantee.

Assumptions of the second table: those named in `PoolPerNode`: there is a sub pool and its
checkout channel has room, as `Builder::finish` ensures, there are more values of a usize
than sub pools, and `Period` is as in section 2.3. `AllSubPoolsAsked` has a hypothesis of
its own, that no position comes within `N` of the overflow. It is needed: section 6
says what happens otherwise. `AskedUnlessWrapped` is the same without the
hypothesis, call by call, and says of the exact counter which calls ask all sub pools.

Assumptions of the third table: `ValuesAssumption`, that values have their types, lists of
nodes among them; `AbsentAssumption`, that no value is the marker of a variable that is
absent; and `LiteralAssumption`, that the empty literal is a string: the provers have no
theory of `STRING`.

Assumptions of the fourth table: `SizesAssumption`, that there is a sub pool and that all sizes are
naturals, and `MemoryAssumption`, that neither the number of sub pools nor the number
of reservations in all of them reaches `Usize`. The sub pools lie in a vector and every pool has
allocated room for its reservations, so that their bytes alone are fewer than that. Without it
`RedisPool::state` could wrap with no counter wrapped. TLC evaluates all assumptions for the instances of the runs.

### 5.1 One pool

Neither `TypeOK` nor `NoWaiterWhileIdle` is inductive. A step like
`TryFulfill` sends `carried`, which has to be a connection, and `NoneFulfilled`
makes it idle. `NoWaiterWhileIdle` in turn is kept by `CleanupDone`, which
makes a reservation, only if no connection became idle since
`check_out` found none. So `IInv` adds

* `ConsumerOK`: the program counter fixes what the consumer has in its hands,
  and while it looks for a waiter, or makes a reservation after a cleanup, no
  connection is idle;
* `HoldersOK`: a client that holds a connection was answered with one.

`NoLostRequest` rests on `RInv`, which is inductive relative to `IInv`:

* `OneSender`: a sender is in one place and there once. Else answering one
  copy would leave another one that answers again or holds up the queue;
* `Unforgotten`: `NoLostRequest` itself, in terms of the set `Senders`;
* `FreeOK`: there is no answer before there is a checkout.

`NoOvertaking` compares the lines before and after a step: the reservations, the checkout
being served, and the channel, in this order. `InLine` says that a step lets nobody in and
keeps the order; it holds of every step but `CheckOut`, which appends. `FirstIsServed` says that
only the first one of the line is sent a connection. Both need
`Expectant`: whoever is in the line has no connection, so that a second place in
the line cannot come with the next checkout of the same name.

`SlotConservation` counts places; its proof works with six sets of slots
(`Idle`, `Returning`, `Held`, `Carried`, `Creating`, `gone`). `SInv` says that
they are disjoint and make up `Conns` (`OnePlace`), that no slot is twice in the
idle queue, in the internal channel or with two checkouts, and that
`internal_open` goes with the consumer's end (`EndOK`), without which
`DropInnerPool` could let slots go while the pool is open. It is inductive
relative to `IInv` and `RInv`: `TryFulfill` and `DeliverIdle` overwrite an answer
only if there was none, which is `Unforgotten`. Each step moves slots from one
set to another; the lemmas before the invariant say which, and `Cardinality` is only
needed at the end, for the places of a single slot.

The refinement maps a slot to `Owner`, which `OnePlace` determines: `OwnersKnown` turns the
one place of a slot into its one owner, so the owner after a step is known from
the sets the step changes. Most steps are stutters (`OwnersStay`); the others are one lemma each:
a connection is granted (`Granted`, also when an answer goes to a dead receiver: then
there is no step), given back, created, or discarded after the end. `TryFulfill` and
`DeliverIdle` map to `Grant`, `ProcessStop` to `Close` with the connections on their way back,
and `DropInnerPool` to `Discard` of all idle connections at once.

`CountersExact` speaks of the moments between two messages, so `CInv` says for every
moment by how much a counter lags behind. It counts the sets `Away` (with
a checkout, or on the way back from one) and `Known` (all slots but those being created and
new ones on their way). A message does not say which of the two it brings:
the code looks at `checked_out_at`. `Tracked` says that this is right, that every
connection with a checkout has it set and none of a creation task has. The loop of
`InnerPool::drop` is covered because `in_flight` is then `Cardinality(Away)`, which is
not negative.

### 5.2 Several sub pools

`OneSubPoolHasIt` and `OnlyTheLastLetsWait` are about senders in two kinds of queues of
every sub pool. `Placed` takes all places of all queues as one set: no two places have the sender
of the same checkout, who still has a receiver (`Receiving`) has one at the sub pool it waits for
(`Home`), and a sender that may be made to reserve belongs to a checkout that was refused by
`N - 1` sub pools. A step moves places, drops some and adds at most one; `Moved` relates the
places before and after, and `MovedPlaced` is proved
once for all steps (`AppendPlaced` for `Attempt`). A cleanup removes any number of reservations from the middle of a queue, where
what `Without` returns is needed (`WithoutProperties`, an injection that keeps
the order).

`PInv` adds `QueuesBounded`, `CallInBounds` (a call asks no sub pool beyond the
last) and `ConnectionsBounded`, from which the types of the counting variables
follow. `EverySubPoolIsAsked` is about remainders: the positions of a call are `N` in
a row, also when the counter starts again at a multiple of `N` (`AllAsked`).

### 5.3 Configuration and backoff

The properties of `RedisPoolBuilder` say something of `pools` in terms of
`config`, so the invariant `Inv` has to say that the settings do not change any more
once there are pools, and that those built so far come from them:

* `BeforeBuild`, `UpdateBeforeBuild`: before `finish` there is no pool; afterwards no
  update runs;
* `Sane`: what is being built passed the checks, so that the multiplier and the number
  of nodes, by which is divided, are not zero;
* `AllSubPools`: pool `i` is `SubPool(config, i)`, which is what `LastSettingWins`,
  `NodeCapacity` and `EveryNodeInTurn` look at;
* `CountedByOne`: attempts are counted only for a sub pool there is.

`LastSettingWins` needs `Kept` beside it: a client that began with a `Builder` never
has a `Config`, so that `ToBuilder` cannot lose its activation order, and `config`
agrees with what was wanted. `UpdateIsPrefix` is inductive
relative to `Inv` (as `Prefix`, over the numbers of the variables), because no two
variables have the same setting. `NodeCapacity` is
`amount < multiplier * (amount \div multiplier + 1) <= amount + multiplier`.
`EveryNodeInTurn` rests on `Planned`, the number of pools so far, and on three
lemmas about remainders: as many positions in a row as there are nodes meet every
remainder, also past the end, because the number of sub pools is a multiple
of the number of nodes. `RetriesBackOff` and `NeverSooner` rest on the lemmas about
`BackoffStrategy` at the beginning of the module: the table
grows (`TableGrows`), delays are bounded (`DelayBounds`), and the delay without
jitter grows with the attempt (`BackoffGrows`), which makes it the earlier delay
`NeverSooner` asks for.

### 5.4 Counters

None of the properties of `Instrumentation` is inductive: they say what the counters are before
or after a script, and a step is one increment in the middle of one. `IInv` says of every
rest a script can have what it still has to count:

* `PoolOK`: a sub pool that is not built yet has nothing (`Unborn`); of any other one `Agrees`
  says that its channel has at most its connection and a `Stop` (`Posted`), that its
  dropper has `d - 1` events left (`Dropping`), and that its counters are the truth but for four
  numbers, one per counter, that the rest of the consumer's script fixes (`Balanced`, with `Working`
  while the consumer lives and `Ending` while it is dropped). An event that is counted and not
  passed on leaves these numbers alone, so they are a matter of `Core`, the
  rest without it;
* `MainOK`: which sub pools `pools` says are there;
* `PassingOK` and `PassedOnOK`: an event is passed on by the actor that has counted it, and the user
  is told of no sub pool what cannot be;
* `UserOK`: `UserCountsTheSum`;
* `ReaderOK`: a report has at most as many of each thing as the loads it has made
  (`Loaded`) can have brought, and exactly as many pools.

Scripts are unfolded step by step (`Unrolled`, `PlacingSteps`, `CleanupSteps`, `WorkingSteps`, ...). Every
action of a sub pool is shown to be `PoolWorks`: it keeps `Agrees` of its own sub pool, leaves all
others and `Main` and the reader alone (`Untouched`, `Apart`), and either counts, passes on, or
does neither (`Tally`). What this does to the sum over all sub pools is then proved once for all
actions: one term changes by as much as the sum does (`SumChanges`), and a sum of bounded terms is bounded
(`SumBounded`, `SumNatural`), by induction over the sub pools in `DataLemmas`.

`UserCountsTheSum` and `CountersBounded` meet where the user is told late: the counter of a sub pool
is bounded at any moment, but what the user has been told is a mixture of older moments of all sub pools.
It is bounded because each actor passes on one event before it counts the next, and because while the
consumer is late with a connection that connection is in its hands or idle, out of the reach of
the dropper (`PassingOK`). `ReportAddsUp` needs no more than the bounds of single loads, though
no moment need ever have had the state it returns. The `in_flight` of the user is below zero only if a
term of its sum is (`UserWraps`), and what the dropper and `Main` are late with never lowers
that term, only a handover the consumer is late with does.

### 5.5 How the proofs are laid out

`NextInv`, `NextRequests` and their likes have one step per action; under it the conjuncts the
action leaves alone are one step and each conjunct it touches is another. Lemmas before it say
what the helpers (`Send`, `ReturnOrOrphan`, `Enqueue`, `Put`, ...) do to the
types. Every invariant was checked with TLC before it was proved.

What a recursive function returns is proved by induction in `DataLemmas`. The
induction theorems of the library take predicates, which the provers cannot instantiate, but the
well-foundedness of strict inclusion of finite sets is a fact about sets. It gives a minimal element
(`MinimalSubset`), the least natural of a set (`LeastNatural`), and induction for a set of naturals
instead of a predicate (`SetInduction`). That is also why filtering is written with `Without` instead
of `SelectSeq`, whose definition is not visible to the provers.

### 5.6 Only model-checked

The liveness properties (`ShutdownCompletes`,
`ImmediatelyAnswered`, `SlotRefilled`, `EveryCheckoutAnswered`, `BoundedCheckoutsEnd`,
`SubPoolsEnd`, `NothingLeftBehind`), and nothing else: liveness under fairness is out of the prover's
reach.

## 6. Findings

* `pool_in_flight`. The consumer sends the connection, then increments
  `in_flight`. A client that breaks and drops the connection in between
  decrements first: the `AtomicUsize` wraps and `state()` can report it
  (and adding up the states of sub pools overflows, which panics in a debug
  build). The changelog promises signed counters for this purpose.
* `per_node_wait`. With several sub pools a checkout that may wait is first sent
  as one that must not. If a sub pool with room in its queue has no idle
  connection the answer is `NoConnection`, also for `CheckoutMode::Wait`. Only
  if all other queues are full does the last sub pool get the constraint of
  the client; an earlier attempt has neither reservation nor timeout.
* `per_node_deadline`. A deadline that elapses between two retries ends the
  checkout with `CheckoutLimitReached`, not with the documented
  `CheckoutTimeout`.

* `config_order`. `Config::builder` hands over every setting but the activation order.
  A `Config` with `LiFo`, also one that read it from the environment, makes
  pools that use `FiFo`. With `Builder::activation_order` the setting arrives.

Beside the runs:

* With `Usize = 4` and `Period = 4` in `PerNode.cfg`, which stands for the counter
  near the end of usize, `EverySubPoolIsAsked` is violated. The sum `position +
  pools.len()` overflows, which panics in debug builds and makes the loop empty
  in release builds, so that only one sub pool is asked. On 64 bit targets
  the counter does not get there.
* With `ReservationLimit = 0` and `Capacity = 1` `ReservationsWithinLimit` of
  `PoolInternal` is violated: the limit is compared with the allocated capacity,
  which may be larger. Whether it is depends on the standard library; newer ones
  allocate exactly what is asked for.
* `CountersReturnToZero` of `PoolInternal` is violated with one slot and one
  checkout. Dropping a pool that is in use leaves counters that are not zero:
  reservations are not counted off, and connections that were out are not counted when
  they end. `QuietCountersExact` says what the counters of such a pool can be instead.
* A wrapped `in_flight` shows up in `RedisPool::state`, and the addition of the
  `PoolState`s of two sub pools can overflow after it: without `wrapped` both parts of
  `ReportAddsUp` are violated.
* A part of `CONNECT_TO` that is blank, but not empty, becomes a node with an empty
  name (`helpers.rs:193`): the filter comes before `trim`.
* A checkout mode of `0` in the environment is `WaitAtMost(0)`, while a `Duration` of
  zero given to a setter is `Immediately` (`config/config_types.rs`, `FromStr` and
  `From<Duration>`).
* A `desired_pool_size` of zero is refused by a single pool and accepted by a pool
  per node, which creates pools without connections if the multiplier is one.
* The jitter comes on top of the maximum of 10 seconds and of the cap: the default
  strategy draws up to 11.999 seconds, which is what `RetriesBackOff` bounds.

What was looked for and holds is in section 3; in particular `SlotConservation`
holds through timeouts, cancelled futures, broken connections and the shutdown,
and the loop of `InnerPool::drop` never starts with a counter below zero
(`CountersExact`, `OnlyInFlightWraps`).

## 7. What is not modelled, and the plan

Not modelled for good:

* logging and durations other than backoffs (no decision depends on them), error texts;
* Redis itself, the redis-rs connector, `commands.rs` and `ping`: pure input and output on
  connections of their own; what they do to a pool is `Connected`,
  `ConnectFailed`, `CommandDone` and `DropBroken`;
* the flavour Metrix, which turns events into metrics and decides nothing, the events
  of the instrumentation without a counter, and the loads of `StateCounters::state`;
* the setters of the executor and of the instrumentation, the names and prefixes of the
  variables of the environment;
* errors of the timer (`extended_connection_factory.rs:146`, `pools/mod.rs`), which
  occur when the runtime shuts down: a slot that meets one is not refilled;
* `tokio::spawn` outside of a runtime (`extended_connection_factory.rs:95`), which
  panics in the destructor of a broken connection;
* the loop of `create_connection` without a backoff (`extended_connection_factory.rs:154`),
  which does not yield if the factory fails at once: a question about one thread of an
  executor, below the level of steps;
* the time in `last_cleanup` (`inner_pool/mod.rs:279`), which is refreshed by cleanups that are
  skipped. `PoolInternal` lets a cleanup message clean up or not, which covers it.

Done: the modules of section 2 with their runs, and the proofs of section 5, which cover every
safety property that a passing run checks. Next: that `PoolInternal` and `Instrumentation` agree on the order in which
handlers count, as a refinement between their handlers; and more of the abstract pool,
in particular what a pool of several sub pools promises its clients.
