--------------------------- MODULE Instrumentation ---------------------------
(***************************************************************************)
(* The counters of a RedisPool: those of each sub pool, which              *)
(* RedisPool::state() adds up, and those of StateCounters, the             *)
(* instrumentation of a user that all sub pools report to. Each counter is *)
(* an atomic of its own: a handler is a script of single increments, with  *)
(* the effects that others can see at their place in between.              *)
(*                                                                         *)
(* Every sub pool has one connection. Which checkouts are made and when    *)
(* their receivers go away is left open; PoolInternal has the details.     *)
(***************************************************************************)
EXTENDS Integers, SequencesExt

CONSTANTS
  N,      \* the number of sub pools
  Limit,  \* how many reservations a sub pool has room for
  Usize,  \* usize counts to Usize - 1
  MaxCheckouts  \* at most that many checkouts are received

ASSUME SizesAssumption ==
  /\ N \in Nat \ {0} /\ Limit \in Nat /\ Usize \in Nat
  /\ MaxCheckouts \in Nat

\* The sub pools are in a Vec and each has allocated its reservations.
ASSUME MemoryAssumption == N < Usize /\ N * Limit < Usize

SubPools == 1..N

\* The order in which PoolInstrumentation::state loads them.
Counters == <<"in_flight", "reservations", "connections", "idle", "pools">>

Consumer(p) == <<"consumer", p>>  \* the task of InnerPool
Dropper(p)  == <<"dropper", p>>   \* whoever drops a broken connection
Main        == <<"main", 0>>      \* whoever creates and drops the pool
Actors == {Consumer(p) : p \in SubPools} \cup {Dropper(p) : p \in SubPools}
            \cup {Main}

VARIABLES
  flavour,  \* the InstrumentationFlavour
  built,    \* how many sub pools have been created
  ended,    \* how many sub pools have been dropped
  own,      \* the counters of each PoolInstrumentation
  user,     \* the counters of StateCounters
  script,   \* what each actor still has to do in the call it is in
  alive,    \* whether the consumer has its receivers
  conn,     \* where the connection of a sub pool is
  inbox,    \* the internal channel of a sub pool
  queue,    \* how many reservations wait
  received, \* how many checkouts were received
  at,       \* the load a call of RedisPool::state is at, or 0
  report,   \* what this call has added up
  wrapped   \* whether it has loaded a counter that was below zero

counters == <<flavour, own, user>>
pool     == <<built, ended, alive, conn, inbox, queue, received>>
reader   == <<at, report, wrapped>>
vars     == <<counters, script, pool, reader>>

Places == {"none", "connecting", "inbox", "held", "idle", "out", "broken",
           "gone",     \* counted off, or never counted
           "orphan"}   \* closed without being counted off

\* The values of at after the last load.
Returned == N * Len(Counters) + 1
Panicked == N * Len(Counters) + 2

Zero == [c \in ToSet(Counters) |-> 0]

-----------------------------------------------------------------------------
(* Scripts. A step is one increment or one effect.                         *)

Move(p, place) == <<[does |-> "move", pool |-> p, to |-> place]>>
Queue(p, by)   == <<[does |-> "queue", pool |-> p, by |-> by]>>
Create(p)      == <<[does |-> "create", pool |-> p]>>

Steps ==
  [does : {"own", "user"}, pool : SubPools, counter : ToSet(Counters),
   by : {-1, 1}]
    \cup [does : {"move"}, pool : SubPools, to : Places]
    \cup [does : {"queue"}, pool : SubPools, by : {-1, 1}]
    \cup [does : {"create"}, pool : SubPools]

\* The steps n times.
Repeat(n, steps) ==
  [i \in 1..(n * Len(steps)) |-> steps[((i - 1) % Len(steps)) + 1]]

OwnOnly(p, counter, by) ==
  <<[does |-> "own", pool |-> p, counter |-> counter, by |-> by]>>

\* The flavour passes an event on to the Instrumentation of the user, if there
\* is one.
Flavour(p, counter, by) ==
  IF flavour = "Custom"
    THEN <<[does |-> "user", pool |-> p, counter |-> counter, by |-> by]>>
    ELSE <<>>

Count(p, counter, by) == OwnOnly(p, counter, by) \o Flavour(p, counter, by)

\* The events with a counter; the other ones change nothing.
pool_added(p)                == Count(p, "pools", 1)
pool_removed(p)              == Count(p, "pools", -1)
checked_in_new_connection(p) == Count(p, "connections", 1)
connection_dropped(p)        == Count(p, "connections", -1)
idle_inc(p)                  == Count(p, "idle", 1)
idle_dec(p)                  == Count(p, "idle", -1)
in_flight_inc(p)             == Count(p, "in_flight", 1)
in_flight_dec(p)             == Count(p, "in_flight", -1)
reservation_added(p)         == Count(p, "reservations", 1)
reservation_fulfilled(p)     == Count(p, "reservations", -1)
\* Mistake: the event is not passed on.
NotPassedOn(p)               == OwnOnly(p, "reservations", -1)
reservation_not_fulfilled(p) == Count(p, "reservations", -1)

put_idle(p) == idle_inc(p) \o Move(p, "idle")

\* The connection goes to the first reservation whose checkout has not gone
\* away, past the closed ones before it, or becomes idle.
fulfill_or_put_idle(p, closed) ==
  Repeat(closed, Queue(p, -1) \o reservation_not_fulfilled(p))
    \o (IF closed < queue[p]
          THEN Queue(p, -1) \o Move(p, "out")
                 \o reservation_fulfilled(p) \o in_flight_inc(p)
          ELSE put_idle(p))

\* Mistake: a new connection is counted when it has been placed.
CountNewLast(p, returned, closed) ==
  IF returned
    THEN in_flight_dec(p) \o fulfill_or_put_idle(p, closed)
    ELSE fulfill_or_put_idle(p, closed) \o checked_in_new_connection(p)
check_in(p, returned, closed) ==
  IF returned
    THEN in_flight_dec(p) \o fulfill_or_put_idle(p, closed)
    ELSE checked_in_new_connection(p) \o fulfill_or_put_idle(p, closed)

\* An idle connection is sent, or put back if the receiver is gone. Mistake:
\* it is put back without being counted.
PutBackUncounted(p, sent) ==
  Move(p, "held") \o idle_dec(p)
    \o (IF sent THEN Move(p, "out") \o in_flight_inc(p)
                    ELSE Move(p, "idle"))
check_out_idle(p, sent) ==
  Move(p, "held") \o idle_dec(p)
    \o (IF sent THEN Move(p, "out") \o in_flight_inc(p) ELSE put_idle(p))

\* The closed waiting checkouts that have gone away are removed.
cleanup_reservations(p, closed) ==
  Repeat(closed, reservation_not_fulfilled(p) \o Queue(p, -1))

create_reservation(p, closed) ==
  IF queue[p] < Limit THEN Queue(p, 1) \o reservation_added(p)
  ELSE cleanup_reservations(p, closed)
         \o (IF closed > 0 THEN Queue(p, 1) \o reservation_added(p)
                           ELSE <<>>)

\* InnerPool::drop: all connections in flight become orphans, the idle one is
\* closed. Reservations are dropped without being counted.
InnerPoolDrop(p) ==
  Repeat(own[p].in_flight, in_flight_dec(p))
    \o (IF conn[p] = "idle"
          THEN idle_dec(p) \o connection_dropped(p) \o Move(p, "gone")
          ELSE <<>>)

\* Managed::drop of a broken connection that was checked out. Mistake: the new
\* connection is asked for first.
CreateFirst(p) == Create(p) \o connection_dropped(p) \o in_flight_dec(p)
ManagedDrop(p) == connection_dropped(p) \o in_flight_dec(p) \o Create(p)

-----------------------------------------------------------------------------

TypeOK ==
  /\ flavour \in {"NoInstrumentation", "Custom"}
  /\ built \in 0..N /\ ended \in 0..N
  /\ own \in [SubPools -> [ToSet(Counters) -> Int]]
  /\ user \in [ToSet(Counters) -> Int]
  /\ script \in [Actors -> Seq(Steps)]
  /\ alive \in [SubPools -> BOOLEAN]
  /\ conn \in [SubPools -> Places]
  /\ inbox \in [SubPools -> Seq({"fresh", "returned", "stop"})]
  /\ queue \in [SubPools -> 0..Limit]
  /\ received \in 0..MaxCheckouts
  /\ at \in 0..Panicked
  /\ report \in [ToSet(Counters) -> 0..(Usize - 1)]
  /\ wrapped \in BOOLEAN

Init ==
  /\ flavour \in {"NoInstrumentation", "Custom"}
  /\ built = 0 /\ ended = 0
  /\ own = [p \in SubPools |-> Zero]
  /\ user = Zero
  /\ script = [a \in Actors |-> <<>>]
  /\ alive = [p \in SubPools |-> FALSE]
  /\ conn = [p \in SubPools |-> "none"]
  /\ inbox = [p \in SubPools |-> <<>>]
  /\ queue = [p \in SubPools |-> 0]
  /\ received = 0
  /\ at = 0
  /\ report = Zero
  /\ wrapped = FALSE

-----------------------------------------------------------------------------
(* The steps of a script.                                                  *)

Free(a) == script[a] = <<>>

Begin(a, steps) ==
  Free(a) /\ script' = [script EXCEPT ![a] = steps]

\* Actor a takes its next step, which is one of this kind.
TakeStep(a, kind) ==
  /\ ~Free(a)
  /\ Head(script[a]).does = kind
  /\ script' = [script EXCEPT ![a] = Tail(@)]

CountOwn(a) ==
  LET step == Head(script[a])
  IN  /\ TakeStep(a, "own")
      /\ own' = [own EXCEPT ![step.pool][step.counter] = @ + step.by]
      /\ UNCHANGED <<flavour, user, pool, reader>>

\* StateCountersInstrumentation counts the events of all sub pools together.
CountUser(a) ==
  LET step == Head(script[a])
  IN  /\ TakeStep(a, "user")
      /\ user' = [user EXCEPT ![step.counter] = @ + step.by]
      /\ UNCHANGED <<flavour, own, pool, reader>>

MoveConnection(a) ==
  LET step == Head(script[a])
  IN  /\ TakeStep(a, "move")
      /\ conn' = [conn EXCEPT ![step.pool] = step.to]
      /\ UNCHANGED <<counters, built, ended, alive, inbox, queue, received, reader>>

ChangeQueue(a) ==
  LET step == Head(script[a])
  IN  /\ TakeStep(a, "queue")
      /\ queue' = [queue EXCEPT ![step.pool] = @ + step.by]
      /\ UNCHANGED <<counters, built, ended, alive, conn, inbox, received, reader>>

\* create_connection probes whether the pool is there before it connects.
CreateConnection(a) ==
  LET p == Head(script[a]).pool
  IN  /\ TakeStep(a, "create")
      /\ conn' = [conn EXCEPT ![p] =
                    IF alive[p] THEN "connecting" ELSE "gone"]
      /\ UNCHANGED <<counters, built, ended, alive, inbox, queue, received, reader>>

Step(a) ==
  \/ CountOwn(a) \/ CountUser(a) \/ MoveConnection(a) \/ ChangeQueue(a)
  \/ CreateConnection(a)

-----------------------------------------------------------------------------
(* What the actors begin.                                                  *)

\* The consumer of p takes a message of this kind out of the channel.
Receive(p, kinds) ==
  /\ alive[p]
  /\ inbox[p] # <<>> /\ Head(inbox[p]) \in kinds
  /\ inbox' = [inbox EXCEPT ![p] = Tail(@)]

CheckIn(p) ==
  /\ Receive(p, {"fresh", "returned"})
  /\ \E closed \in 0..queue[p] :
       Begin(Consumer(p), check_in(p, Head(inbox[p]) = "returned", closed))
  /\ conn' = [conn EXCEPT ![p] = "held"]
  /\ UNCHANGED <<counters, built, ended, alive, queue, received, reader>>

\* A checkout that finds no connection and may not wait, or is gone already,
\* changes nothing. Nobody has the pool before all its sub pools are there.
CheckOut(p) ==
  /\ alive[p]
  /\ built = N
  /\ received < MaxCheckouts
  /\ received' = received + 1
  /\ IF conn[p] = "idle"
       THEN \E sent \in BOOLEAN :
              Begin(Consumer(p), check_out_idle(p, sent))
       ELSE \E closed \in 0..queue[p] :
              Begin(Consumer(p), create_reservation(p, closed))
  /\ UNCHANGED <<counters, built, ended, alive, conn, inbox, queue, reader>>

CleanupReservations(p) ==
  /\ alive[p]
  /\ \E closed \in 1..queue[p] :
       Begin(Consumer(p), cleanup_reservations(p, closed))
  /\ UNCHANGED <<counters, pool, reader>>

\* What becomes of a connection in a message that is dropped.
Lost(kind) == IF kind = "returned" THEN "orphan" ELSE "gone"

\* The consumer receives Stop and is dropped, with what is in its channels.
StopConsumer(p) ==
  /\ alive[p]
  /\ inbox[p] # <<>> /\ Head(inbox[p]) = "stop"
  /\ Begin(Consumer(p), InnerPoolDrop(p))
  /\ alive' = [alive EXCEPT ![p] = FALSE]
  /\ conn' = [conn EXCEPT ![p] =
                IF conn[p] = "inbox" THEN Lost(Last(inbox[p])) ELSE @]
  /\ inbox' = [inbox EXCEPT ![p] = <<>>]
  /\ queue' = [queue EXCEPT ![p] = 0]
  /\ UNCHANGED <<counters, built, ended, received, reader>>

\* A connection is dropped with its value: it is sent to the pool, or, if the
\* pool is gone, it goes into the void.
SendBack(p, kind) ==
  /\ IF alive[p]
       THEN /\ conn' = [conn EXCEPT ![p] = "inbox"]
            /\ inbox' = [inbox EXCEPT ![p] = Append(@, kind)]
       ELSE /\ conn' = [conn EXCEPT ![p] = Lost(kind)]
            /\ UNCHANGED inbox
  /\ UNCHANGED <<counters, script, built, ended, alive, queue, received, reader>>

Connected(p) == conn[p] = "connecting" /\ SendBack(p, "fresh")
Return(p)    == conn[p] = "out" /\ SendBack(p, "returned")

\* A client breaks the connection it has and drops it.
Break(p) ==
  /\ conn[p] = "out"
  /\ Begin(Dropper(p), ManagedDrop(p))
  /\ conn' = [conn EXCEPT ![p] = "broken"]
  /\ UNCHANGED <<counters, built, ended, alive, inbox, queue, received, reader>>

\* PoolInternal::new of the next sub pool: the consumer and the task that
\* connects are spawned, then the pool is counted.
CreateSubPool ==
  /\ built < N
  /\ Begin(Main, pool_added(built + 1))
  /\ built' = built + 1
  /\ alive' = [alive EXCEPT ![built + 1] = TRUE]
  /\ conn' = [conn EXCEPT ![built + 1] = "connecting"]
  /\ UNCHANGED <<counters, ended, inbox, queue, received, reader>>

\* PoolInternal::drop of the next sub pool. RedisPool::state borrows the pool:
\* nobody drops it meanwhile.
DropSubPool ==
  /\ built = N /\ ended < N /\ at = 0
  /\ Begin(Main, pool_removed(ended + 1))
  /\ ended' = ended + 1
  /\ inbox' = [inbox EXCEPT ![ended + 1] = Append(@, "stop")]
  /\ UNCHANGED <<counters, built, alive, conn, queue, received, reader>>

-----------------------------------------------------------------------------
(* RedisPool::state.                                                       *)

CallState ==
  /\ built = N /\ ended = 0 /\ Free(Main) /\ at = 0
  /\ at' = 1
  /\ UNCHANGED <<counters, script, pool, report, wrapped>>

\* A counter below zero is a usize that has wrapped.
AsUsize(count) == count % Usize

\* The sum of two PoolStates, one counter at a time. Mistakes: the number of
\* pools is not added; a sum has no limit.
AddForgetsPools(counter, amount) ==
  IF counter = "pools" THEN amount ELSE (report[counter] + amount) % Usize
AddUnlimited(counter, amount) == report[counter] + amount
Add(counter, amount) == (report[counter] + amount) % Usize

\* Sub pool by sub pool one counter after the other is loaded and added. An
\* addition that overflows panics in a debug build and wraps in a release
\* build.
Load ==
  /\ at \in 1..(Returned - 1)
  /\ LET p       == ((at - 1) \div Len(Counters)) + 1
         counter == Counters[((at - 1) % Len(Counters)) + 1]
         amount  == AsUsize(own[p][counter])
     IN  /\ report' = [report EXCEPT ![counter] = Add(counter, amount)]
         /\ wrapped' = (wrapped \/ own[p][counter] < 0)
         /\ \/ at' = at + 1
            \/ report[counter] + amount >= Usize /\ at' = Panicked
  /\ UNCHANGED <<counters, script, pool>>

\* The call has returned, or panicked.
ForgetState ==
  /\ at \in {Returned, Panicked}
  /\ at' = 0
  /\ report' = Zero
  /\ wrapped' = FALSE
  /\ UNCHANGED <<counters, script, pool>>

-----------------------------------------------------------------------------

Next ==
  \/ \E a \in Actors : Step(a)
  \/ \E p \in SubPools :
       \/ CheckIn(p) \/ CheckOut(p) \/ CleanupReservations(p)
       \/ StopConsumer(p)
       \/ Connected(p) \/ Return(p) \/ Break(p)
  \/ CreateSubPool \/ DropSubPool
  \/ CallState \/ Load \/ ForgetState

Spec == Init /\ [][Next]_vars

-----------------------------------------------------------------------------
(* Properties.                                                             *)

\* While nothing is under way the counters of a sub pool are the truth:
\* each handler counts exactly what it does, on each of its ways. Once its
\* consumer is gone the idle and the counted off connections are still right,
\* a connection that is closed later stays counted, and there are never more
\* connections in flight than are out (inner_pool/mod.rs:118-311).
QuietCountersExact ==
  \A p \in SubPools :
    Free(Consumer(p)) /\ Free(Dropper(p)) =>
      LET returned == conn[p] = "inbox" /\ "returned" \in ToSet(inbox[p])
          One(truth) == IF truth THEN 1 ELSE 0
          out == One(conn[p] = "out" \/ returned)
      IN  /\ own[p].idle = One(conn[p] = "idle")
          /\ own[p].connections =
               One(conn[p] \in {"idle", "out", "orphan"} \/ returned)
          /\ IF alive[p]
               THEN own[p].in_flight = out /\ own[p].reservations = queue[p]
               ELSE own[p].in_flight \in -1..0

\* What actor a has counted for p and not yet passed on.
Late(a, p, counter) ==
  IF ~Free(a) /\ Head(script[a]).does = "user" /\ Head(script[a]).pool = p
       /\ Head(script[a]).counter = counter
    THEN Head(script[a]).by
    ELSE 0
PassedOn(p, counter) ==
  (own[p][counter] - Late(Consumer(p), p, counter))
     - (Late(Dropper(p), p, counter) + Late(Main, p, counter))

\* StateCounters has the sum of the sub pools, but for the events that are
\* counted and not passed on yet: no event gets lost on the way to the user
\* (instrumentation/mod.rs:54-158).
UserCountsTheSum ==
  flavour = "Custom" =>
    \A counter \in ToSet(Counters) :
      user[counter] = SumFunction([p \in SubPools |-> PassedOn(p, counter)])

\* Whether the consumer of p has handed a connection over, or is about to,
\* and has yet to count it.
HandsOver(p) ==
  \E i \in DOMAIN script[Consumer(p)] :
    LET step == script[Consumer(p)][i]
    IN  step.does = "own" /\ step.counter = "in_flight" /\ step.by = 1

\* No counter wraps, at any moment of any interleaving, but for in_flight:
\* that of a sub pool while its consumer hands a connection over or after it
\* has ended, and that of the user while one of a sub pool has wrapped or its
\* consumer has yet to pass on that it handed a connection over.
OnlyInFlightWraps ==
  /\ \A counter \in ToSet(Counters) \ {"in_flight"} :
       user[counter] >= 0 /\ \A p \in SubPools : own[p][counter] >= 0
  /\ \A p \in SubPools :
       own[p].in_flight < 0 => HandsOver(p) \/ ~alive[p]
  /\ user.in_flight < 0 =>
       \E p \in SubPools : \/ own[p].in_flight < 0
                          \/ Late(Consumer(p), p, "in_flight") = 1

\* No counter ever shows more than there can be: a connection is counted off
\* before its replacement is asked for, and a reservation before there is room
\* for the next one (managed.rs:85-99, inner_pool/mod.rs:224-236).
CountersBounded ==
  /\ \A p \in SubPools :
       /\ own[p].connections <= 1 /\ own[p].idle <= 1
       /\ own[p].in_flight <= 1
       /\ own[p].reservations <= Limit
  /\ user.connections <= N /\ user.idle <= N /\ user.in_flight <= N
  /\ user.reservations <= N * Limit

\* Though RedisPool::state reads while the counters change, what it returns
\* has all sub pools and no more of anything than there can be, unless it met
\* a wrapped in_flight; only then can it panic (lib.rs:411-423).
ReportAddsUp ==
  /\ at = Panicked => wrapped
  /\ at = Returned =>
       /\ report.pools = N
       /\ report.connections <= N /\ report.idle <= N
       /\ report.reservations <= N * Limit
       /\ wrapped \/ report.in_flight <= N
=============================================================================
