---------------------------- MODULE PoolInternal ----------------------------
(***************************************************************************)
(* One pool of src/pools/pool_internal: the checkouts of its clients, the  *)
(* consumer task that owns the inner pool, the tasks that create           *)
(* connections and the ticker that asks for cleanups.                      *)
(*                                                                         *)
(* All of them run concurrently and talk over two channels: the bounded    *)
(* checkout channel and the unbounded internal channel. A checkout is      *)
(* answered over a oneshot channel of its own, modelled by answer[r]: its  *)
(* sender travels with the payload through checkouts, serving and          *)
(* reservations, its receiver lives in the client's future.                *)
(*                                                                         *)
(* A connection is named by its slot. Handlers of the consumer are split   *)
(* where another task can observe or disturb them.                         *)
(***************************************************************************)
EXTENDS Integers, FiniteSets, SequencesExt

CONSTANTS
  Conns,            \* the slots: desired_pool_size connections
  Requests,         \* names for the checkouts that exist at the same time
  None,             \* no connection, no answer, no request
  QueueSize,        \* checkout_queue_size: capacity of the checkout channel
  ReservationLimit, \* reservation_limit
  Capacity,         \* allocated by VecDeque::with_capacity(reservation_limit)
  ActivationOrder,  \* "FiFo" or "LiFo"
  Backlog           \* bound of the model: unprocessed messages per sender of
                    \* CheckAlive and CleanupReservations

Modes == {"Immediately", "Until", "Wait"}

Errors == {"NoConnection", "ReservationLimitReached", "CheckoutLimitReached",
           "CheckoutTimeout", "NoPool"}

ASSUME NoneAssumption ==
  /\ None \notin Conns \cup Requests \cup Errors \cup Modes
  /\ None \notin [request : Requests, reservation_allowed : BOOLEAN]
  /\ Conns \cap Errors = {}

\* desired_pool_size connections
ASSUME ConnsAssumption == IsFiniteSet(Conns)

ASSUME RequestsAssumption == Requests \cap {"pool", "factory", "void"} = {}

\* with_capacity allocates room for at least what is asked for
ASSUME SizeAssumption ==
  /\ QueueSize \in Nat
  /\ ReservationLimit \in Nat
  /\ Capacity \in Nat /\ Capacity >= ReservationLimit
  /\ Backlog \in Nat

ASSUME OrderAssumption == ActivationOrder \in {"FiFo", "LiFo"}

VARIABLES
  pool,           \* "alive" until the PoolInternal is dropped
  checkouts,      \* content of the checkout channel
  checkout_open,  \* FALSE once its receiver was dropped
  internal,       \* content of the internal channel
  internal_open,  \* FALSE once its receiver was dropped
  idle,           \* InnerPool::idle
  reservations,   \* InnerPool::reservations: the requests it holds senders of
  counters,       \* the AtomicUsizes of PoolInstrumentation
  pc,             \* what the consumer does next
  carried,        \* the connection being checked in
  serving,        \* the payload of the checkout being processed
  scan,           \* position of retain in cleanup_reservations
  checked_out,    \* the connections whose checked_out_at is Some
  task,           \* the task that fills the slot: "none", "probe" or "connect"
  gone,           \* the slots whose connection and task ended for good
  ticker,         \* TRUE while the cleanup ticker runs
  phase,          \* what the client does with the checkout
  mode,           \* the constraint of a checkout that is pending
  answer          \* what arrived for it: a connection, an error or None

queueVars    == <<checkouts, checkout_open>>
internalVars == <<internal, internal_open>>
innerVars    == <<idle, reservations>>
consumerVars == <<pc, carried, serving, scan>>
slotVars     == <<task, gone>>
clientVars   == <<phase, mode, answer>>

vars == <<pool, queueVars, internalVars, innerVars, counters, consumerVars,
          checked_out, slotVars, ticker, clientVars>>

Phases == {"free",     \* no future
           "pending",  \* the future is polled
           "expired",  \* timed out, but not dropped: the receiver still exists
           "refused",  \* resolved with an error
           "holding",  \* resolved with a connection, the client holds it
           "busy"}     \* a command runs, the value is taken out of the Managed

Payloads == [request : Requests, reservation_allowed : BOOLEAN]

\* Mistake: every checkout may wait.
PatientPayload(r, m) == [request |-> r, reservation_allowed |-> TRUE]
Payload(r, m) == [request |-> r, reservation_allowed |-> m # "Immediately"]

CheckIn(c)          == [type |-> "CheckIn", conn |-> c]
CheckAlive(c)       == [type |-> "CheckAlive", conn |-> c]
CleanupReservations == [type |-> "CleanupReservations", conn |-> None]
Stop                == [type |-> "Stop", conn |-> None]

Messages ==
  [type : {"CheckIn", "CheckAlive"}, conn : Conns]
    \cup [type : {"CleanupReservations", "Stop"}, conn : {None}]

ConsumerSteps == {"receive", "deliver", "delivered", "fulfil", "fulfilled",
                  "cleanup", "close_checkouts", "drop_inner", "stopped"}

ChannelTypes ==
  /\ checkouts \in Seq(Payloads)
  /\ checkout_open \in BOOLEAN
  /\ internal \in Seq(Messages)
  /\ internal_open \in BOOLEAN

InnerTypes ==
  /\ idle \in Seq(Conns)
  /\ reservations \in Seq(Requests)

Counts == [in_flight : Int, connections : Int, idle : Int, reservations : Int]

CounterTypes == counters \in Counts

ConsumerTypes ==
  /\ pc \in ConsumerSteps
  /\ carried \in Conns \cup {None}
  /\ serving \in Payloads \cup {None}
  /\ scan \in Nat \ {0}

SlotTypes ==
  /\ checked_out \in SUBSET Conns
  /\ task \in [Conns -> {"none", "probe", "connect"}]
  /\ gone \in SUBSET Conns

Answers == Conns \cup Errors \cup {None}

ClientTypes ==
  /\ phase \in [Requests -> Phases]
  /\ mode \in [Requests -> Modes \cup {None}]
  /\ answer \in [Requests -> Answers]

TypeOK ==
  /\ pool \in {"alive", "dropped"}
  /\ ticker \in BOOLEAN
  /\ ChannelTypes
  /\ InnerTypes
  /\ CounterTypes
  /\ ConsumerTypes
  /\ SlotTypes
  /\ ClientTypes

-----------------------------------------------------------------------------
(* The initial states: PoolInternal::new has just returned.                *)

NoCounts ==
  [in_flight |-> 0, connections |-> 0, idle |-> 0, reservations |-> 0]

InitCommon ==
  /\ pool = "alive"
  /\ checkouts = <<>>
  /\ internal = <<>>
  /\ idle = <<>>
  /\ reservations = <<>>
  /\ counters = NoCounts
  /\ carried = None
  /\ serving = None
  /\ scan = 1
  /\ checked_out = {}
  /\ phase = [r \in Requests |-> "free"]
  /\ mode = [r \in Requests |-> None]
  /\ answer = [r \in Requests |-> None]

\* The executor took the consumer, a task per slot and the ticker.
InitRunning ==
  /\ pc = "receive"
  /\ checkout_open = TRUE
  /\ internal_open = TRUE
  /\ task = [c \in Conns |-> "probe"]
  /\ gone = {}
  /\ ticker = TRUE

\* Without a runtime every spawn fails, and the results are ignored: the
\* consumer with both receivers is dropped and no task ever runs.
InitNoRuntime ==
  /\ pc = "stopped"
  /\ checkout_open = FALSE
  /\ internal_open = FALSE
  /\ task = [c \in Conns |-> "none"]
  /\ gone = Conns
  /\ ticker = FALSE

Init == InitCommon /\ (InitRunning \/ InitNoRuntime)

-----------------------------------------------------------------------------
(* The channels.                                                           *)

\* Only a dropped receiver makes a send on the unbounded channel fail.
SendInternal(m) ==
  /\ internal_open
  /\ internal' = Append(internal, m)
  /\ UNCHANGED internal_open

Unprocessed(m) == Cardinality({i \in DOMAIN internal : internal[i] = m})

\* The payload, and the sender in it, is in the channel or with the inner pool.
SenderAlive(r) ==
  \/ \E i \in DOMAIN checkouts : checkouts[i].request = r
  \/ \E i \in DOMAIN reservations : reservations[i] = r
  \/ serving # None /\ serving.request = r

\* oneshot::Sender::is_closed, also when send fails: the future is gone.
IsClosed(r) == phase[r] \notin {"pending", "expired"}

\* oneshot::Sender::send
Send(r, a) ==
  answer' = IF IsClosed(r) THEN answer ELSE [answer EXCEPT ![r] = a]

\* Senders dropped without an answer: the receivers map that to NoPool.
\* Mistake: the receivers do not learn of it.
ForgetSenders(rs) == answer' = [r \in Requests |-> answer[r]]
DropSenders(rs) ==
  answer' = [r \in Requests |->
               IF r \in rs /\ ~IsClosed(r) THEN "NoPool" ELSE answer[r]]

-----------------------------------------------------------------------------
(* Dropping a Managed.                                                     *)

\* With a value it goes back to the pool, or into the void with the pool.
ReturnOrOrphan(c) ==
  \/ SendInternal(CheckIn(c)) /\ UNCHANGED gone
  \/ ~internal_open /\ gone' = gone \cup {c} /\ UNCHANGED internalVars

\* Without a value the connection is counted off and a new one requested.
\* Mistake: nobody asks for the new connection.
RequestNone(c) ==
  /\ counters' = [counters EXCEPT
       !.connections = @ - 1,
       !.in_flight = IF c \in checked_out THEN @ - 1 ELSE @]
  /\ checked_out' = checked_out \ {c}
  /\ UNCHANGED task
RequestNew(c) ==
  /\ counters' = [counters EXCEPT
       !.connections = @ - 1,
       !.in_flight = IF c \in checked_out THEN @ - 1 ELSE @]
  /\ checked_out' = checked_out \ {c}
  /\ task' = [task EXCEPT ![c] = "probe"]

-----------------------------------------------------------------------------
(* The clients.                                                            *)

Refuse(r, e) ==
  /\ phase' = [phase EXCEPT ![r] = "refused"]
  /\ answer' = [answer EXCEPT ![r] = e]
  /\ UNCHANGED <<mode, queueVars>>

\* PoolInternal::check_out2. A name is used again once nothing is left of the
\* checkout that had it before.
CheckOut(r, m) ==
  /\ pool = "alive"
  /\ phase[r] = "free"
  /\ ~SenderAlive(r)
  /\ \/ m = "Until" /\ Refuse(r, "CheckoutTimeout")   \* deadline has elapsed
     \/ ~checkout_open /\ Refuse(r, "NoPool")
     \/ /\ checkout_open
        /\ Len(checkouts) = QueueSize
        /\ Refuse(r, "CheckoutLimitReached")
     \/ /\ checkout_open
        /\ Len(checkouts) < QueueSize
        /\ checkouts' = Append(checkouts, Payload(r, m))
        /\ phase' = [phase EXCEPT ![r] = "pending"]
        /\ mode' = [mode EXCEPT ![r] = m]
        /\ UNCHANGED <<answer, checkout_open>>
  /\ UNCHANGED <<pool, internalVars, innerVars, counters, consumerVars,
                 checked_out, slotVars, ticker>>

\* The future is polled after an answer arrived.
Poll(r) ==
  /\ phase[r] = "pending"
  /\ answer[r] # None
  /\ phase' = [phase EXCEPT ![r] =
                 IF answer[r] \in Conns THEN "holding" ELSE "refused"]
  /\ mode' = [mode EXCEPT ![r] = None]
  /\ UNCHANGED <<pool, queueVars, internalVars, innerVars, counters,
                 consumerVars, checked_out, slotVars, ticker, answer>>

\* The deadline elapses before an answer was seen. The receiver inside the
\* Timeout lives on until the client drops the future.
TimeOut(r) ==
  /\ phase[r] = "pending"
  /\ mode[r] = "Until"
  /\ answer[r] = None
  /\ phase' = [phase EXCEPT ![r] = "expired"]
  /\ mode' = [mode EXCEPT ![r] = None]
  /\ UNCHANGED <<pool, queueVars, internalVars, innerVars, counters,
                 consumerVars, checked_out, slotVars, ticker, answer>>

\* The future is dropped, cancelled or not: an unread connection is dropped
\* with it.
DropFuture(r) ==
  /\ phase[r] \in {"pending", "expired", "refused"}
  /\ IF answer[r] \in Conns
       THEN ReturnOrOrphan(answer[r])
       ELSE UNCHANGED <<internalVars, gone>>
  /\ phase' = [phase EXCEPT ![r] = "free"]
  /\ mode' = [mode EXCEPT ![r] = None]
  /\ answer' = [answer EXCEPT ![r] = None]
  /\ UNCHANGED <<pool, queueVars, innerVars, counters, consumerVars,
                 checked_out, task, ticker>>

\* req_packed_command takes the value out of the Managed for the command.
StartCommand(r) ==
  /\ phase[r] = "holding"
  /\ phase' = [phase EXCEPT ![r] = "busy"]
  /\ UNCHANGED <<pool, queueVars, internalVars, innerVars, counters,
                 consumerVars, checked_out, slotVars, ticker, mode, answer>>

\* The command succeeded and the value is back.
CommandDone(r) ==
  /\ phase[r] = "busy"
  /\ phase' = [phase EXCEPT ![r] = "holding"]
  /\ UNCHANGED <<pool, queueVars, internalVars, innerVars, counters,
                 consumerVars, checked_out, slotVars, ticker, mode, answer>>

\* The PoolConnection is dropped while its state is ok.
DropConnection(r) ==
  /\ phase[r] = "holding"
  /\ ReturnOrOrphan(answer[r])
  /\ phase' = [phase EXCEPT ![r] = "free"]
  /\ answer' = [answer EXCEPT ![r] = None]
  /\ UNCHANGED <<pool, queueVars, innerVars, counters, consumerVars,
                 checked_out, task, ticker, mode>>

\* The command failed or was cancelled: the PoolConnection is dropped without
\* a value.
DropBroken(r) ==
  /\ phase[r] = "busy"
  /\ RequestNew(answer[r])
  /\ phase' = [phase EXCEPT ![r] = "free"]
  /\ answer' = [answer EXCEPT ![r] = None]
  /\ UNCHANGED <<pool, queueVars, internalVars, innerVars, consumerVars,
                 gone, ticker, mode>>

\* PoolInternal::drop. Futures and connections may outlive the pool.
DropPool ==
  /\ pool = "alive"
  /\ pool' = "dropped"
  /\ \/ SendInternal(Stop)
     \/ ~internal_open /\ UNCHANGED internalVars
  /\ UNCHANGED <<queueVars, innerVars, counters, consumerVars, checked_out,
                 slotVars, ticker, clientVars>>

-----------------------------------------------------------------------------
(* The tasks that create connections and the cleanup ticker.               *)

\* create_connection first probes the channel to the pool.
Probe(c) ==
  /\ task[c] = "probe"
  /\ \/ /\ Unprocessed(CheckAlive(c)) < Backlog
        /\ SendInternal(CheckAlive(c))
        /\ task' = [task EXCEPT ![c] = "connect"]
        /\ UNCHANGED gone
     \/ /\ ~internal_open
        /\ task' = [task EXCEPT ![c] = "none"]
        /\ gone' = gone \cup {c}
        /\ UNCHANGED internalVars
  /\ UNCHANGED <<pool, queueVars, innerVars, counters, consumerVars,
                 checked_out, ticker, clientVars>>

\* The attempt succeeded: a fresh Managed is dropped to send it to the pool.
\* Mistake: the loop continues after that.
ConnectedAgain(c) ==
  /\ task[c] = "connect"
  /\ task' = [task EXCEPT ![c] = "probe"]
  /\ ReturnOrOrphan(c)
  /\ UNCHANGED <<pool, queueVars, innerVars, counters, consumerVars,
                 checked_out, ticker, clientVars>>
Connected(c) ==
  /\ task[c] = "connect"
  /\ task' = [task EXCEPT ![c] = "none"]
  /\ ReturnOrOrphan(c)
  /\ UNCHANGED <<pool, queueVars, innerVars, counters, consumerVars,
                 checked_out, ticker, clientVars>>

\* The attempt failed: after the backoff the loop starts again.
\* Mistake: the task ends.
GiveUp(c) ==
  /\ task[c] = "connect"
  /\ task' = [task EXCEPT ![c] = "none"]
  /\ UNCHANGED <<pool, queueVars, internalVars, innerVars, counters,
                 consumerVars, checked_out, gone, ticker, clientVars>>
ConnectFailed(c) ==
  /\ task[c] = "connect"
  /\ task' = [task EXCEPT ![c] = "probe"]
  /\ UNCHANGED <<pool, queueVars, internalVars, innerVars, counters,
                 consumerVars, checked_out, gone, ticker, clientVars>>

\* The interval fires: a message is sent, or the ticker ends with the pool.
Tick ==
  /\ ticker
  /\ \/ /\ Unprocessed(CleanupReservations) < Backlog
        /\ SendInternal(CleanupReservations)
        /\ UNCHANGED ticker
     \/ /\ ~internal_open
        /\ ticker' = FALSE
        /\ UNCHANGED internalVars
  /\ UNCHANGED <<pool, queueVars, innerVars, counters, consumerVars,
                 checked_out, slotVars, clientVars>>

-----------------------------------------------------------------------------
(* The consumer: helpers of the inner pool.                                *)

\* IdleConnections: both orders put at the back; FiFo takes the front.
Put(s, c)   == Append(s, c)
NextIdle(s) == IF ActivationOrder = "FiFo" THEN Head(s) ELSE Last(s)
RestIdle(s) == IF ActivationOrder = "FiFo" THEN Tail(s) ELSE Front(s)

\* put_idle: the counter and the queue.
PutIdle(c) ==
  /\ idle' = Put(idle, c)
  /\ counters' = [counters EXCEPT !.idle = @ + 1]

\* The counters after a checked in connection: it was out, or it is new.
\* Mistake: a new connection is taken off in_flight.
CheckedInAsReturned(c) == [counters EXCEPT !.in_flight = @ - 1]
CheckedIn(c) ==
  IF c \in checked_out
    THEN [counters EXCEPT !.in_flight = @ - 1]
    ELSE [counters EXCEPT !.connections = @ + 1]

\* check_in looks for somebody to hand the connection to.
\* Mistake: only a queue of more than one counts.
AwaitedOffByOne == Len(reservations) > 1
Awaited == reservations # <<>>

\* Reservations are compared with the capacity of their queue.
\* Mistake: the comparison is off by one.
QueueFullOffByOne == Len(reservations) > Capacity
QueueFull == Len(reservations) = Capacity

\* A reservation is added at the end of the queue.
\* Mistakes: it replaces those that wait, it is the first of them, or the whole
\* payload is stored.
EnqueueOnly(r) ==
  /\ reservations' = <<r>>
  /\ counters' = [counters EXCEPT !.reservations = @ + 1]
EnqueueFirst(r) ==
  /\ reservations' = <<r>> \o reservations
  /\ counters' = [counters EXCEPT !.reservations = @ + 1]
EnqueuePayload(r) ==
  /\ reservations' = Append(reservations, serving)
  /\ counters' = [counters EXCEPT !.reservations = @ + 1]
Enqueue(r) ==
  /\ reservations' = Append(reservations, r)
  /\ counters' = [counters EXCEPT !.reservations = @ + 1]

\* Both channels are served; messages of one are taken in their order.
NextMessage(type) ==
  /\ pc = "receive"
  /\ internal # <<>>
  /\ Head(internal).type = type

PopInternal == internal' = Tail(internal) /\ UNCHANGED internal_open

-----------------------------------------------------------------------------
(* The consumer: InnerPool::process.                                       *)

\* check_in: without a reservation the connection is idle at once.
ProcessCheckIn ==
  /\ NextMessage("CheckIn")
  /\ PopInternal
  /\ LET c == Head(internal).conn IN
       /\ checked_out' = checked_out \ {c}
       /\ \/ /\ ~Awaited
             /\ idle' = Put(idle, c)
             /\ counters' = [CheckedIn(c) EXCEPT !.idle = @ + 1]
             /\ UNCHANGED consumerVars
          \/ /\ Awaited
             /\ counters' = CheckedIn(c)
             /\ pc' = "fulfil"
             /\ carried' = c
             /\ UNCHANGED <<idle, serving, scan>>
  /\ UNCHANGED <<pool, queueVars, reservations, slotVars, ticker, clientVars>>

\* One turn of the loop of check_in: the first reservation gets the connection,
\* or its future is gone and the next one is tried.
TryFulfill ==
  /\ pc = "fulfil"
  /\ reservations # <<>>
  /\ LET r == Head(reservations) IN
       /\ Send(r, carried)
       /\ reservations' = Tail(reservations)
       /\ IF IsClosed(r)
            THEN /\ counters' = [counters EXCEPT !.reservations = @ - 1]
                 /\ UNCHANGED <<checked_out, consumerVars>>
            ELSE /\ checked_out' = checked_out \cup {carried}
                 /\ pc' = "fulfilled"
                 /\ carried' = None
                 /\ UNCHANGED <<counters, serving, scan>>
  /\ UNCHANGED <<pool, queueVars, internalVars, idle, slotVars, ticker,
                 phase, mode>>

\* The counters follow after the send, when the client may already have used,
\* returned or broken the connection.
Fulfilled ==
  /\ pc = "fulfilled"
  /\ counters' = [counters EXCEPT !.reservations = @ - 1, !.in_flight = @ + 1]
  /\ pc' = "receive"
  /\ UNCHANGED <<pool, queueVars, internalVars, innerVars, carried, serving,
                 scan, checked_out, slotVars, ticker, clientVars>>

\* Nobody was left who wanted the connection.
NoneFulfilled ==
  /\ pc = "fulfil"
  /\ reservations = <<>>
  /\ PutIdle(carried)
  /\ pc' = "receive"
  /\ carried' = None
  /\ UNCHANGED <<pool, queueVars, internalVars, reservations, serving, scan,
                 checked_out, slotVars, ticker, clientVars>>

\* check_out: a request whose future is gone is dropped.
ProcessCheckOut ==
  /\ pc = "receive"
  /\ checkouts # <<>>
  /\ checkouts' = Tail(checkouts)
  /\ IF IsClosed(Head(checkouts).request)
       THEN UNCHANGED consumerVars
       ELSE /\ serving' = Head(checkouts)
            /\ pc' = "deliver"
            /\ UNCHANGED <<carried, scan>>
  /\ UNCHANGED <<pool, checkout_open, internalVars, innerVars, counters,
                 checked_out, slotVars, ticker, clientVars>>

\* check_out with an idle connection. If the future is gone by now it is put
\* back, with its checked_out_at still set.
DeliverIdle ==
  /\ pc = "deliver"
  /\ idle # <<>>
  /\ LET r == serving.request
         c == NextIdle(idle)
     IN  /\ Send(r, c)
         /\ checked_out' = checked_out \cup {c}
         /\ IF IsClosed(r)
              THEN /\ idle' = Put(RestIdle(idle), c)
                   /\ pc' = "receive"
                   /\ UNCHANGED counters
              ELSE /\ idle' = RestIdle(idle)
                   /\ counters' = [counters EXCEPT !.idle = @ - 1]
                   /\ pc' = "delivered"
  /\ serving' = None
  /\ UNCHANGED <<pool, queueVars, internalVars, reservations, carried, scan,
                 slotVars, ticker, phase, mode>>

\* As in Fulfilled, the counter is increased after the send.
Delivered ==
  /\ pc = "delivered"
  /\ counters' = [counters EXCEPT !.in_flight = @ + 1]
  /\ pc' = "receive"
  /\ UNCHANGED <<pool, queueVars, internalVars, innerVars, carried, serving,
                 scan, checked_out, slotVars, ticker, clientVars>>

\* check_out without an idle connection: refuse, or make a reservation, for
\* which a full queue is cleaned up first.
NoIdle ==
  /\ pc = "deliver"
  /\ idle = <<>>
  /\ LET r == serving.request
         reserve == serving.reservation_allowed /\ Capacity # 0
     IN  \/ /\ ~reserve
            /\ Send(r, "NoConnection")
            /\ pc' = "receive" /\ serving' = None
            /\ UNCHANGED <<reservations, counters, scan>>
         \/ /\ reserve
            /\ ~QueueFull
            /\ Enqueue(r)
            /\ pc' = "receive" /\ serving' = None
            /\ UNCHANGED <<answer, scan>>
         \/ /\ reserve
            /\ QueueFull
            /\ pc' = "cleanup" /\ scan' = 1
            /\ UNCHANGED <<reservations, counters, answer, serving>>
  /\ UNCHANGED <<pool, queueVars, internalVars, idle, carried, checked_out,
                 slotVars, ticker, phase, mode>>

\* A cleanup message: nothing to do, too early with room left, or a cleanup.
ProcessCleanup ==
  /\ NextMessage("CleanupReservations")
  /\ PopInternal
  /\ \/ /\ reservations = <<>> \/ ~QueueFull
        /\ UNCHANGED consumerVars
     \/ /\ reservations # <<>>
        /\ pc' = "cleanup" /\ scan' = 1
        /\ UNCHANGED <<carried, serving>>
  /\ UNCHANGED <<pool, queueVars, innerVars, counters, checked_out, slotVars,
                 ticker, clientVars>>

\* retain looks at one reservation after the other.
CleanupStep ==
  /\ pc = "cleanup"
  /\ scan <= Len(reservations)
  /\ IF IsClosed(reservations[scan])
       THEN /\ reservations' = RemoveAt(reservations, scan)
            /\ counters' = [counters EXCEPT !.reservations = @ - 1]
            /\ UNCHANGED scan
       ELSE /\ scan' = scan + 1
            /\ UNCHANGED <<reservations, counters>>
  /\ UNCHANGED <<pool, queueVars, internalVars, idle, pc, carried, serving,
                 checked_out, slotVars, ticker, clientVars>>

\* After the cleanup a waiting create_reservation goes on.
CleanupDone ==
  /\ pc = "cleanup"
  /\ scan > Len(reservations)
  /\ pc' = "receive" /\ scan' = 1 /\ serving' = None
  /\ \/ /\ serving = None
        /\ UNCHANGED <<reservations, counters, answer>>
     \/ /\ serving # None
        /\ QueueFull
        /\ Send(serving.request, "ReservationLimitReached")
        /\ UNCHANGED <<reservations, counters>>
     \/ /\ serving # None
        /\ ~QueueFull
        /\ Enqueue(serving.request)
        /\ UNCHANGED answer
  /\ UNCHANGED <<pool, queueVars, internalVars, idle, carried, checked_out,
                 slotVars, ticker, phase, mode>>

\* A probing message only had to be sendable.
ProcessCheckAlive ==
  /\ NextMessage("CheckAlive")
  /\ PopInternal
  /\ UNCHANGED <<pool, queueVars, innerVars, counters, consumerVars,
                 checked_out, slotVars, ticker, clientVars>>

-----------------------------------------------------------------------------
(* The end of the consumer: its future drops what it owns in this order.   *)

\* Stop ends the stream. The internal receiver is dropped; connections on
\* their way back become orphans.
ProcessStop ==
  /\ NextMessage("Stop")
  /\ internal' = <<>>
  /\ internal_open' = FALSE
  /\ gone' = gone \cup {c \in Conns : CheckIn(c) \in Range(internal)}
  /\ pc' = "close_checkouts"
  /\ UNCHANGED <<pool, queueVars, innerVars, counters, carried, serving, scan,
                 checked_out, task, ticker, clientVars>>

\* The checkout receiver is dropped with the requests nobody received.
CloseCheckouts ==
  /\ pc = "close_checkouts"
  /\ DropSenders({checkouts[i].request : i \in DOMAIN checkouts})
  /\ checkouts' = <<>>
  /\ checkout_open' = FALSE
  /\ pc' = "drop_inner"
  /\ UNCHANGED <<pool, internalVars, innerVars, counters, carried, serving,
                 scan, checked_out, slotVars, ticker, phase, mode>>

\* InnerPool::drop: whoever is in flight now will not be counted when it comes
\* back. The reservations are dropped with their senders, but not counted off.
DropInnerPool ==
  /\ pc = "drop_inner"
  /\ counters' = [counters EXCEPT
       !.in_flight = 0,
       !.idle = @ - Len(idle),
       !.connections = @ - Len(idle)]
  /\ gone' = gone \cup Range(idle)
  /\ idle' = <<>>
  /\ DropSenders(Range(reservations))
  /\ reservations' = <<>>
  /\ pc' = "stopped"
  /\ UNCHANGED <<pool, queueVars, internalVars, carried, serving, scan,
                 checked_out, task, ticker, phase, mode>>

-----------------------------------------------------------------------------
Client(r) ==
  \/ \E m \in Modes : CheckOut(r, m)
  \/ Poll(r) \/ TimeOut(r) \/ DropFuture(r)
  \/ StartCommand(r) \/ CommandDone(r) \/ DropConnection(r) \/ DropBroken(r)

Creation(c) == Probe(c) \/ Connected(c) \/ ConnectFailed(c)

ProcessInternal ==
  ProcessCheckIn \/ ProcessCheckAlive \/ ProcessCleanup \/ ProcessStop

\* The steps of the consumer between two messages.
Process ==
  \/ TryFulfill \/ Fulfilled \/ NoneFulfilled
  \/ DeliverIdle \/ Delivered \/ NoIdle
  \/ CleanupStep \/ CleanupDone
  \/ CloseCheckouts \/ DropInnerPool

Next ==
  \/ \E r \in Requests : Client(r)
  \/ \E c \in Conns : Creation(c)
  \/ DropPool \/ Tick
  \/ ProcessInternal \/ ProcessCheckOut \/ Process

Spec == Init /\ [][Next]_vars

-----------------------------------------------------------------------------
(* Fairness.                                                               *)

\* The runtime polls every task that is ready, and the merged stream of the
\* consumer alternates between its two channels as long as both have messages.
RuntimeFairness ==
  /\ SF_vars(ProcessInternal)
  /\ SF_vars(ProcessCheckOut)
  /\ WF_vars(Process)
  /\ WF_vars(Tick)
  /\ \A c \in Conns :
       WF_vars(Probe(c)) /\ WF_vars(Connected(c) \/ ConnectFailed(c))
  /\ \A r \in Requests : WF_vars(Poll(r)) /\ WF_vars(TimeOut(r))

\* Clients drop futures that are resolved and connections they hold, and their
\* commands end.
ClientFairness ==
  \A r \in Requests :
    /\ WF_vars(phase[r] \in {"expired", "refused"} /\ DropFuture(r))
    /\ SF_vars(DropConnection(r))
    /\ WF_vars(CommandDone(r) \/ DropBroken(r))

\* A node that is tried again and again can be connected to at some time.
NodeFairness == \A c \in Conns : SF_vars(Connected(c))

RuntimeSpec == Spec /\ RuntimeFairness
ClientSpec  == Spec /\ RuntimeFairness /\ ClientFairness
FairSpec    == Spec /\ RuntimeFairness /\ ClientFairness /\ NodeFairness

-----------------------------------------------------------------------------
(* Safety.                                                                 *)

\* Everywhere a connection, or the task that makes it, can be.
Places(c) ==
  {<<"idle", i>> : i \in {j \in DOMAIN idle : idle[j] = c}}
    \cup {<<"internal", i>> :
             i \in {j \in DOMAIN internal : internal[j] = CheckIn(c)}}
    \cup {<<"checkout", r>> : r \in {q \in Requests : answer[q] = c}}
    \cup (IF carried = c THEN {<<"consumer", 1>>} ELSE {})
    \cup (IF task[c] # "none" THEN {<<"task", 1>>} ELSE {})
    \cup (IF c \in gone THEN {<<"gone", 1>>} ELSE {})

\* Every slot is in exactly one place: Managed::drop, the check in of a
\* connection nobody reads and the restarted creation never lose a slot, never
\* duplicate one, and none ends for good while the pool takes connections.
SlotConservation ==
  /\ \A c \in Conns : Cardinality(Places(c)) = 1
  /\ internal_open => gone = {}

\* No connection is idle while a reservation waits for one, however check ins,
\* reservations and cleanups interleave (check_in, check_out).
NoWaiterWhileIdle == idle = <<>> \/ reservations = <<>>

\* As long as a future has no answer the sender that will answer it exists, in
\* the channel or with the inner pool, and afterwards it is used up: no
\* checkout is forgotten by cleanup, failed fulfilment or shutdown.
NoLostRequest ==
  \A r \in Requests :
    phase[r] \in {"pending", "expired"} =>
      (answer[r] = None <=> SenderAlive(r))

\* The reservations never outgrow what was allocated for them, which is what
\* create_reservation compares their number with.
ReservationsBounded == Len(reservations) <= Capacity

\* Connections that were sent out and neither came back nor broke.
Out ==
  {c \in Conns :
     \/ \E r \in Requests : answer[r] = c
     \/ c \in checked_out /\ CheckIn(c) \in Range(internal)}

Pending(steps) == IF pc \in steps THEN 1 ELSE 0

\* Between any two messages PoolState tells the truth; while a connection is
\* handed out in_flight and reservations lag behind by the one in question.
\* During the shutdown in_flight covers at least what InnerPool::drop takes
\* off, else its loop would run through the whole range of usize.
CountersExact ==
  /\ counters.idle = Len(idle)
  /\ pc # "stopped" =>
       counters.reservations = Len(reservations) + Pending({"fulfilled"})
  /\ internal_open =>
       /\ counters.in_flight =
            Cardinality(Out) - Pending({"delivered", "fulfilled"})
       /\ counters.connections =
            Cardinality({c \in Conns :
              /\ task[c] = "none"
              /\ CheckIn(c) \in Range(internal) => c \in checked_out})
  /\ pc \in {"close_checkouts", "drop_inner"} =>
       counters.in_flight >= Cardinality(Out)

\* The checkouts in the order in which they are served.
Line ==
  reservations
    \o (IF serving = None THEN <<>> ELSE <<serving.request>>)
    \o [i \in DOMAIN checkouts |-> checkouts[i].request]

Ahead(q, r) ==
  \E i, j \in DOMAIN Line : i < j /\ Line[i] = q /\ Line[j] = r

\* A checkout never gets in front of one that came earlier, and gets no
\* connection while the earlier one still wants one: fulfilment, cleanup and
\* new checkouts keep the order in which the requests arrived.
NoOvertaking ==
  [][\A q, r \in Requests :
       Ahead(q, r) =>
         /\ ~Ahead(r, q)'
         /\ ~IsClosed(q) => answer'[r] \notin Conns]_vars

-----------------------------------------------------------------------------
(* Claims of the repository that do not hold.                              *)

\* "The number of in flight connections" (PoolState) is a number: a usize that
\* never wraps around below zero.
InFlightNeverWraps == counters.in_flight >= 0

\* When the pool is gone, and every future, connection and task with it, the
\* counters are back at zero, as the tests assert after dropping a pool.
CountersReturnToZero ==
  /\ pc = "stopped"
  /\ \A r \in Requests : phase[r] = "free"
  /\ \A c \in Conns : task[c] = "none"
  => counters = NoCounts

\* reservation_limit is "the maximum length of the queue for waiting
\* checkouts".
ReservationsWithinLimit == Len(reservations) <= ReservationLimit

-----------------------------------------------------------------------------
(* What PoolInternal implements.                                           *)

Owner(c) ==
  IF \E r \in Requests : answer[r] = c
    THEN CHOOSE r \in Requests : answer[r] = c
  ELSE IF task[c] # "none" THEN "factory"
  ELSE IF c \in gone THEN "void"
  ELSE "pool"

Abstract == INSTANCE ConnectionPool
  WITH Pool <- "pool", Factory <- "factory", Void <- "void",
       owner <- [c \in Conns |-> Owner(c)], open <- internal_open

\* The pool hands every slot to one owner at a time, closes once, and then
\* only discards.
ImplementsConnectionPool == Abstract!Spec

-----------------------------------------------------------------------------
(* Liveness.                                                               *)

\* RuntimeSpec: once the PoolInternal is dropped the consumer, the ticker and
\* the creation tasks end for good and every checkout is resolved, whether or
\* not the clients return anything (Drop for PoolInternal, InnerPool).
ShutdownCompletes ==
  pool = "dropped" ~> [](/\ pc = "stopped"
                         /\ ~ticker
                         /\ \A c \in Conns : task[c] = "none"
                         /\ \A r \in Requests : phase[r] # "pending")

\* RuntimeSpec: a checkout that must not wait is answered although no client
\* ever returns a connection and no node can be reached.
ImmediatelyAnswered ==
  \A r \in Requests :
    phase[r] = "pending" /\ mode[r] = "Immediately" ~> phase[r] # "pending"

\* FairSpec: every checkout, also one that waits without a deadline, is
\* resolved, although connections break and futures time out with connections
\* in them.
EveryCheckoutAnswered ==
  \A r \in Requests : phase[r] = "pending" ~> phase[r] # "pending"

\* RuntimeSpec: if the node can be reached again, the slot of a broken
\* connection is usable again, idle or with a checkout, unless the pool ended.
SlotRefilled ==
  NodeFairness =>
    \A c \in Conns :
      task[c] # "none" ~>
        \/ c \in Range(idle)
        \/ \E r \in Requests : answer[r] = c
        \/ c \in gone
=============================================================================
