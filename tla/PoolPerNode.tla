----------------------------- MODULE PoolPerNode -----------------------------
(***************************************************************************)
(* RedisPool::check_out over several sub pools: the round robin of         *)
(* pools/pool_per_node/inner.rs and the retries of pools/mod.rs. With one  *)
(* sub pool it is what pools/single_pool does.                             *)
(*                                                                         *)
(* A call asks one sub pool after the other while other calls do the same  *)
(* and the consumers of the sub pools run. A sub pool is PoolInternal      *)
(* with coarser steps: a message of its consumer is one step, and an       *)
(* answer resolves the future at once.                                     *)
(***************************************************************************)
EXTENDS Integers, SequencesExt, Filter

CONSTANTS
  N,                 \* the number of sub pools
  PoolSize,          \* connections of each of them
  Requests,          \* names for the checkouts that exist at the same time
  None,              \* no constraint, no error
  QueueSize,         \* checkout_queue_size
  ReservationLimit,  \* what a sub pool allocated for its reservations
  Usize,             \* the number of values of usize
  Period             \* the counter starts again at 0 after that many calls

SubPools == 0..(N - 1)

Modes == {"Immediately", "Until", "Wait"}

Errors == {"NoConnection", "ReservationLimitReached", "CheckoutLimitReached",
           "CheckoutTimeout", "NoPool"}

ASSUME NoneAssumption == None \notin Modes \cup Errors

\* The builder refuses to make a pool without nodes or queues.
ASSUME SizeAssumption ==
  /\ N \in Nat \ {0}
  /\ PoolSize \in Nat
  /\ QueueSize \in Nat \ {0}
  /\ ReservationLimit \in Nat

\* fetch_add wraps around at Usize. As long as nothing overflows only the
\* remainder of a position counts, and the model may start again earlier.
ASSUME PeriodAssumption ==
  /\ Usize \in Nat \ {0} /\ Usize > N
  /\ Period \in Nat \ {0}
  /\ Period = Usize \/ (Period % N = 0 /\ Period + N <= Usize)

VARIABLES
  retry,     \* retry_on_checkout_limit, as configured
  handle,    \* TRUE until the client dropped its RedisPool and all its clones
  count,     \* Inner::count
  alive,     \* the sub pools whose consumer runs
  queue,     \* content of the checkout channel of a sub pool
  reserved,  \* its reservations
  idle,      \* the number of its idle connections
  creating,  \* the number of its connections that are being created
  phase,     \* what the client does with a checkout
  mode,      \* the constraint it asked for
  elapsed,   \* the deadline has passed
  first,     \* the position that check_out got from the counter
  tried,     \* the sub pools that refused in this call
  error      \* the error it failed with

subVars  == <<queue, reserved, idle, creating>>
callVars == <<mode, elapsed, first, tried>>
vars == <<retry, handle, count, alive, subVars, phase, callVars, error>>

Phases == {"free",     \* no future
           "calling",  \* in the loop over the sub pools
           "retry",    \* all queues were full, before the next attempt
           "pending",  \* a sub pool took the request
           "expired",  \* timed out, but the receiver still exists
           "late",     \* the same, with a connection nobody reads
           "failed",   \* resolved with an error
           "holding"}  \* resolved with a connection

\* The sub pool can send an answer.
Receiving == {"pending", "expired"}

Payloads == [request : Requests, reservation_allowed : BOOLEAN]

TypeOK ==
  /\ retry \in BOOLEAN
  /\ handle \in BOOLEAN
  /\ count \in 0..(Period - 1)
  /\ alive \in SUBSET SubPools
  /\ queue \in [SubPools -> Seq(Payloads)]
  /\ reserved \in [SubPools -> Seq(Requests)]
  /\ idle \in [SubPools -> 0..PoolSize]
  /\ creating \in [SubPools -> 0..PoolSize]
  /\ phase \in [Requests -> Phases]
  /\ mode \in [Requests -> Modes \cup {None}]
  /\ elapsed \in [Requests -> BOOLEAN]
  /\ first \in [Requests -> 0..(Period - 1)]
  /\ tried \in [Requests -> 0..(N - 1)]
  /\ error \in [Requests -> Errors \cup {None}]

\* Without a runtime no sub pool has a consumer or connections.
Init ==
  /\ retry \in BOOLEAN
  /\ handle = TRUE
  /\ count = 0
  /\ queue = [p \in SubPools |-> <<>>]
  /\ reserved = [p \in SubPools |-> <<>>]
  /\ idle = [p \in SubPools |-> 0]
  /\ \/ alive = SubPools /\ creating = [p \in SubPools |-> PoolSize]
     \/ alive = {} /\ creating = [p \in SubPools |-> 0]
  /\ phase = [r \in Requests |-> "free"]
  /\ mode = [r \in Requests |-> None]
  /\ elapsed = [r \in Requests |-> FALSE]
  /\ first = [r \in Requests |-> 0]
  /\ tried = [r \in Requests |-> 0]
  /\ error = [r \in Requests |-> None]

-----------------------------------------------------------------------------
(* The loop over the sub pools.                                            *)

\* iteration_bound and last_iteration
IterationBound(r) == (first[r] + N) % Usize
LastIteration(r)  == (IterationBound(r) + Usize - 1) % Usize

\* The position that is tried now, its sub pool, and whether another follows.
\* Mistakes: the loop ends one sub pool too early or too late.
Position(r)    == (first[r] + tried[r]) % Usize
Target(r)      == Position(r) % N
MoreButLast(r) == (first[r] + tried[r] + 1) % Usize < LastIteration(r)
MoreAndOne(r)  == (first[r] + tried[r] + 1) % Usize <= IterationBound(r)
More(r)        == (first[r] + tried[r] + 1) % Usize < IterationBound(r)

\* Only the last sub pool gets the constraint the client asked for.
\* Mistake: every sub pool gets it.
OwnConstraint(r) == mode[r]
Constraint(r) ==
  IF N = 1 \/ (tried[r] > 0 /\ Position(r) >= LastIteration(r))
    THEN mode[r]
    ELSE "Immediately"

With(f, rs, v) == [r \in Requests |-> IF r \in rs THEN v ELSE f[r]]

\* Nothing of these calls is needed any more.
Forget(rs) ==
  /\ mode' = With(mode, rs, None)
  /\ elapsed' = With(elapsed, rs, FALSE)
  /\ first' = With(first, rs, 0)
  /\ tried' = With(tried, rs, 0)

\* An expired future has failed already.
FailAll(rs, e) ==
  /\ phase' = With(phase, rs, "failed")
  /\ error' = With(error, {r \in rs : phase[r] # "expired"}, e)
  /\ Forget(rs)

Fail(r, e) == FailAll({r}, e)

\* The position is taken from the counter all calls share.
TakePosition(r) ==
  /\ phase' = [phase EXCEPT ![r] = "calling"]
  /\ first' = [first EXCEPT ![r] = count]
  /\ tried' = [tried EXCEPT ![r] = 0]
  /\ count' = (count + 1) % Period

SenderAlive(r) ==
  \E p \in SubPools :
    \/ \E i \in DOMAIN queue[p] : queue[p][i].request = r
    \/ \E i \in DOMAIN reserved[p] : reserved[p][i] = r

\* RedisPool::check_out: fails at once if the deadline has elapsed already.
CheckOut(r, m) ==
  /\ handle
  /\ phase[r] = "free"
  /\ ~SenderAlive(r)
  /\ \/ /\ m = "Until"
        /\ Fail(r, "CheckoutTimeout")
        /\ UNCHANGED count
     \/ /\ TakePosition(r)
        /\ mode' = [mode EXCEPT ![r] = m]
        /\ UNCHANGED <<elapsed, error>>
  /\ UNCHANGED <<retry, handle, alive, subVars>>

\* No sub pool accepted the request. With retries a full queue is not the end.
Refused(r, e) ==
  IF retry /\ e = "CheckoutLimitReached"
    THEN /\ phase' = [phase EXCEPT ![r] = "retry"]
         /\ first' = [first EXCEPT ![r] = 0]
         /\ tried' = [tried EXCEPT ![r] = 0]
         /\ UNCHANGED <<mode, elapsed, error>>
    ELSE Fail(r, e)

Enqueue(r) ==
  queue' = [queue EXCEPT ![Target(r)] =
    Append(@, [request |-> r,
               reservation_allowed |-> Constraint(r) # "Immediately"])]

\* One sub pool is asked. Accepting the request is final, whatever comes of it.
\* Mistake: the next sub pool is asked nevertheless.
AcceptAndGoOn(r) ==
  /\ Enqueue(r)
  /\ IF More(r)
       THEN tried' = [tried EXCEPT ![r] = @ + 1] /\ UNCHANGED phase
       ELSE phase' = [phase EXCEPT ![r] = "pending"] /\ UNCHANGED tried
Accept(r) ==
  /\ Enqueue(r)
  /\ phase' = [phase EXCEPT ![r] = "pending"]
  /\ UNCHANGED tried

Attempt(r) ==
  /\ phase[r] = "calling"
  /\ LET p == Target(r)
         late == elapsed[r] /\ (tried[r] > 0 \/ Constraint(r) = "Until")
         full == Len(queue[p]) = QueueSize
         e == IF p \in alive THEN "CheckoutLimitReached" ELSE "NoPool"
     IN  \/ /\ late
            /\ Fail(r, "CheckoutTimeout")
            /\ UNCHANGED queue
         \/ /\ ~late /\ p \in alive /\ ~full
            /\ Accept(r)
            /\ UNCHANGED <<mode, elapsed, first, error>>
         \/ /\ ~late /\ (p \notin alive \/ full)
            /\ More(r)
            /\ tried' = [tried EXCEPT ![r] = @ + 1]
            /\ UNCHANGED <<queue, phase, mode, elapsed, first, error>>
         \/ /\ ~late /\ (p \notin alive \/ full)
            /\ ~More(r)
            /\ Refused(r, e)
            /\ UNCHANGED queue
  /\ UNCHANGED <<retry, handle, count, alive, reserved, idle, creating>>

\* The loop of retry_on_queue_limit_reached: another call if the constraint
\* allows to wait for one.
\* Mistake: nobody asks the constraint.
WaitAnyway(r) == TRUE
CanWait(r) == mode[r] = "Wait" \/ (mode[r] = "Until" /\ ~elapsed[r])

RetryCall(r) ==
  /\ phase[r] = "retry"
  /\ \/ CanWait(r) /\ TakePosition(r) /\ UNCHANGED <<mode, elapsed, error>>
     \/ /\ CanWait(r)
        /\ mode[r] = "Until"
        /\ Fail(r, "CheckoutTimeout")   \* elapsed before check_out looks
        /\ UNCHANGED count
     \/ ~CanWait(r) /\ Fail(r, "CheckoutLimitReached") /\ UNCHANGED count
  /\ UNCHANGED <<retry, handle, alive, subVars>>

-----------------------------------------------------------------------------
(* Time, and what clients do with their futures.                           *)

Elapse(r) ==
  /\ mode[r] = "Until"
  /\ phase[r] \in {"calling", "retry", "pending"}
  /\ ~elapsed[r]
  /\ elapsed' = [elapsed EXCEPT ![r] = TRUE]
  /\ UNCHANGED <<retry, handle, count, alive, subVars, phase, mode, first,
                 tried, error>>

\* The Timeout exists only if the sub pool was given the deadline. The receiver
\* in it lives on until the client drops the future, or is dropped at once by
\* the future that retries around it.
TimeOut(r) ==
  /\ phase[r] = "pending"
  /\ elapsed[r]
  /\ Constraint(r) = "Until"
  /\ \/ retry /\ Fail(r, "CheckoutTimeout")
     \/ /\ ~retry
        /\ phase' = [phase EXCEPT ![r] = "expired"]
        /\ error' = [error EXCEPT ![r] = "CheckoutTimeout"]
        /\ UNCHANGED callVars
  /\ UNCHANGED <<retry, handle, count, alive, subVars>>

DropFuture(r) ==
  /\ phase[r] \in {"retry", "pending", "expired", "failed"}
  /\ phase' = [phase EXCEPT ![r] = "free"]
  /\ error' = [error EXCEPT ![r] = None]
  /\ Forget({r})
  /\ UNCHANGED <<retry, handle, count, alive, subVars>>

\* A connection was sent to r, when the clients' phases are ph.
Sent(r, ph) ==
  [ph EXCEPT ![r] = IF ph[r] = "pending" THEN "holding" ELSE "late"]

\* A connection arrives at sub pool p: the first reservation with a receiver
\* gets it.
HandOver(p, ph) ==
  LET k == SelectInSeq(reserved[p], LAMBDA q : ph[q] \in Receiving)
  IN  IF k = 0
        THEN /\ reserved' = [reserved EXCEPT ![p] = <<>>]
             /\ idle' = [idle EXCEPT ![p] = @ + 1]
             /\ phase' = ph
        ELSE /\ reserved' = [reserved EXCEPT ![p] = SubSeq(@, k + 1, Len(@))]
             /\ phase' = Sent(reserved[p][k], ph)
             /\ UNCHANGED idle

\* The connection, or the expired future with it, is dropped: it goes back to
\* the sub pool it came from.
Return(r) ==
  /\ phase[r] \in {"holding", "late"}
  /\ LET p == Target(r)
         ph == [phase EXCEPT ![r] = "free"]
     IN  IF p \in alive
           THEN HandOver(p, ph)
           ELSE phase' = ph /\ UNCHANGED <<reserved, idle>>
  /\ error' = [error EXCEPT ![r] = None]
  /\ Forget({r})
  /\ UNCHANGED <<retry, handle, count, alive, queue, creating>>

\* The connection broke: its sub pool creates a new one.
Break(r) ==
  /\ phase[r] = "holding"
  /\ creating' = [creating EXCEPT ![Target(r)] =
                    IF Target(r) \in alive THEN @ + 1 ELSE @]
  /\ phase' = [phase EXCEPT ![r] = "free"]
  /\ Forget({r})
  /\ UNCHANGED <<retry, handle, count, alive, queue, reserved, idle, error>>

\* RedisPools are not dropped while one of them is used.
DropHandle ==
  /\ handle
  /\ \A r \in Requests : phase[r] # "calling"
  /\ handle' = FALSE
  /\ UNCHANGED <<retry, count, alive, subVars, phase, callVars, error>>

-----------------------------------------------------------------------------
(* The consumers of the sub pools.                                         *)

Connected(p) ==
  /\ p \in alive
  /\ creating[p] > 0
  /\ creating' = [creating EXCEPT ![p] = @ - 1]
  /\ HandOver(p, phase)
  /\ UNCHANGED <<retry, handle, count, alive, queue, callVars, error>>

\* A full queue is cleaned up before a request is refused.
Waiting(p) ==
  IF Len(reserved[p]) < ReservationLimit
    THEN reserved[p]
    ELSE Without(reserved[p], {q \in Requests : phase[q] \notin Receiving})

ProcessCheckOut(p) ==
  /\ p \in alive
  /\ queue[p] # <<>>
  /\ queue' = [queue EXCEPT ![p] = Tail(@)]
  /\ LET r == Head(queue[p]).request
         patient == Head(queue[p]).reservation_allowed /\ ReservationLimit > 0
     IN  \/ /\ phase[r] \notin Receiving
            /\ UNCHANGED <<reserved, idle, phase, callVars, error>>
         \/ /\ phase[r] \in Receiving
            /\ idle[p] > 0
            /\ idle' = [idle EXCEPT ![p] = @ - 1]
            /\ phase' = Sent(r, phase)
            /\ UNCHANGED <<reserved, callVars, error>>
         \/ /\ phase[r] \in Receiving
            /\ idle[p] = 0 /\ ~patient
            /\ Fail(r, "NoConnection")
            /\ UNCHANGED <<reserved, idle>>
         \/ /\ phase[r] \in Receiving
            /\ idle[p] = 0 /\ patient
            /\ Len(Waiting(p)) < ReservationLimit
            /\ reserved' = [reserved EXCEPT ![p] = Append(Waiting(p), r)]
            /\ UNCHANGED <<idle, phase, callVars, error>>
         \/ /\ phase[r] \in Receiving
            /\ idle[p] = 0 /\ patient
            /\ Len(Waiting(p)) = ReservationLimit
            /\ reserved' = [reserved EXCEPT ![p] = Waiting(p)]
            /\ Fail(r, "ReservationLimitReached")
            /\ UNCHANGED idle
  /\ UNCHANGED <<retry, handle, count, alive, creating>>

\* With retries a future holds a clone of the pool until it is resolved.
\* Mistake: until it is dropped.
HoldsCloneForever(r) ==
  retry /\ phase[r] \in {"calling", "retry", "pending", "failed"}
HoldsClone(r) == retry /\ phase[r] \in {"calling", "retry", "pending"}

\* The last clone is gone, each sub pool was sent a Stop: its consumer ends and
\* drops the senders it has.
Stop(p) ==
  /\ ~handle
  /\ \A r \in Requests : ~HoldsClone(r)
  /\ p \in alive
  /\ alive' = alive \ {p}
  /\ queue' = [queue EXCEPT ![p] = <<>>]
  /\ reserved' = [reserved EXCEPT ![p] = <<>>]
  /\ idle' = [idle EXCEPT ![p] = 0]
  /\ creating' = [creating EXCEPT ![p] = 0]
  /\ FailAll({r \in Requests : phase[r] \in Receiving /\ Target(r) = p},
             "NoPool")
  /\ UNCHANGED <<retry, handle, count>>

-----------------------------------------------------------------------------
Client(r) ==
  \/ \E m \in Modes : CheckOut(r, m)
  \/ Attempt(r) \/ RetryCall(r) \/ Elapse(r) \/ TimeOut(r)
  \/ DropFuture(r) \/ Return(r) \/ Break(r)

SubPool(p) == Connected(p) \/ ProcessCheckOut(p) \/ Stop(p)

Next ==
  \/ \E r \in Requests : Client(r)
  \/ \E p \in SubPools : SubPool(p)
  \/ DropHandle

Spec == Init /\ [][Next]_vars

\* Calls run to their end, futures are polled when they are notified, deadlines
\* elapse, and the consumers run.
RuntimeFairness ==
  /\ \A r \in Requests :
       /\ WF_vars(Attempt(r)) /\ WF_vars(RetryCall(r))
       /\ WF_vars(Elapse(r)) /\ WF_vars(TimeOut(r))
  /\ \A p \in SubPools : WF_vars(ProcessCheckOut(p)) /\ WF_vars(Stop(p))

\* Clients return connections and drop expired futures that got one, and nodes
\* can be connected to.
ClientFairness == \A r \in Requests : WF_vars(Return(r) \/ Break(r))
NodeFairness == \A p \in SubPools : SF_vars(Connected(p))

RuntimeSpec == Spec /\ RuntimeFairness

-----------------------------------------------------------------------------
(* Properties.                                                             *)

\* Where the senders of a request are.
Senders(r) ==
  {p \in SubPools \X {"queue"} \X (1..QueueSize) :
     p[3] \in DOMAIN queue[p[1]] /\ queue[p[1]][p[3]].request = r}
    \cup {p \in SubPools \X {"reserved"} \X (1..ReservationLimit) :
             p[3] \in DOMAIN reserved[p[1]] /\ reserved[p[1]][p[3]] = r}

\* However many sub pools were asked and however often a call was repeated, a
\* checkout that can be answered is with one sub pool, the one its call ended
\* with, and before and after that with none.
OneSubPoolHasIt ==
  \A r \in Requests :
    /\ phase[r] \in Receiving =>
         \E s \in Senders(r) : Senders(r) = {s} /\ s[1] = Target(r)
    /\ phase[r] \in {"calling", "retry", "holding", "late"} =>
         Senders(r) = {}

\* Only the last sub pool a call asks may let a client wait: whoever waits for
\* a connection has been refused by every other sub pool, and may wait.
OnlyTheLastLetsWait ==
  \A p \in SubPools : \A i \in DOMAIN reserved[p] :
    LET r == reserved[p][i] IN
      phase[r] \in Receiving =>
        mode[r] # "Immediately" /\ tried[r] = N - 1

\* "When having more that one sub pool Reool will retry checkout attempts on
\* different sub pools": a call ends without having been accepted only when its
\* deadline has passed or every sub pool was asked.
Asked(r) == {((first[r] + k) % Usize) % N : k \in 0..tried[r]}

EverySubPoolIsAsked ==
  [][\A r \in Requests :
       /\ phase[r] = "calling" /\ phase'[r] \in {"retry", "failed"}
       /\ error'[r] # "CheckoutTimeout"
       => Asked(r) = SubPools]_vars

\* RuntimeSpec: a checkout that must not wait, or has a deadline, is resolved,
\* also if all queues stay full and no client returns anything.
BoundedCheckoutsEnd ==
  \A r \in Requests :
    phase[r] \in {"calling", "retry", "pending"} /\ mode[r] # "Wait"
      ~> phase[r] \notin {"calling", "retry", "pending"}

\* RuntimeSpec: after the client dropped the pool all sub pools end. A future
\* that retries keeps them alive until it is resolved: then connections have to
\* be returned, and nodes have to be reachable, for it.
SubPoolsEnd ==
  /\ ~retry => (~handle ~> alive = {})
  /\ ClientFairness /\ NodeFairness => (~handle ~> alive = {})

-----------------------------------------------------------------------------
(* Claims of the repository that do not hold.                              *)

\* CheckoutMode::Wait: "Wait until there is a connection".
WaitersAreNotTurnedAway ==
  [][\A r \in Requests :
       phase[r] = "pending" /\ mode[r] = "Wait" => error'[r] # "NoConnection"
    ]_vars

\* CheckoutMode::Until: "If the given timeout is elapsed, no attempt to
\* checkout a connection will be made. In that case a
\* CheckoutErrorKind::CheckoutTimeout will be returned."
ElapsedMeansTimeout ==
  [][\A r \in Requests :
       elapsed[r] /\ phase[r] \in {"calling", "retry"}
         /\ phase'[r] = "failed"
       => error'[r] = "CheckoutTimeout"]_vars
=============================================================================
