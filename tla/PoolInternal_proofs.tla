------------------------- MODULE PoolInternal_proofs -------------------------
(***************************************************************************)
(* Proofs about PoolInternal for any number of slots and checkouts, any    *)
(* sizes of the queues and both activation orders.                         *)
(***************************************************************************)
EXTENDS PoolInternal, TLAPS, SequenceTheorems

-----------------------------------------------------------------------------
(* The sequences of the inner pool.                                        *)

\* What SubSeq returns, with its bounds given as integers.
LEMMA Slice ==
  ASSUME NEW S, NEW s \in Seq(S), NEW m \in Int, NEW n \in Int,
         1 <= m, m <= n + 1, n <= Len(s)
  PROVE  /\ SubSeq(s, m, n) \in Seq(S)
         /\ Len(SubSeq(s, m, n)) = n - m + 1
         /\ \A i \in 1..(n - m + 1) : SubSeq(s, m, n)[i] = s[m + i - 1]
  <1>1. \A i \in m..n : s[i] \in S
    BY ElementOfSeq, LenProperties
  <1>2. /\ SubSeq(s, m, n) \in Seq(S)
        /\ Len(SubSeq(s, m, n)) = IF m <= n THEN n - m + 1 ELSE 0
        /\ \A i \in 1..(n - m + 1) : SubSeq(s, m, n)[i] = s[m + i - 1]
    BY <1>1, SubSeqProperties
  <1> QED
    BY <1>2

\* IdleConnections::get returns an idle connection and leaves one less.
LEMMA IdleProperties ==
  ASSUME NEW s \in Seq(Conns), s # <<>>
  PROVE  /\ NextIdle(s) \in Conns
         /\ RestIdle(s) \in Seq(Conns)
         /\ Len(RestIdle(s)) = Len(s) - 1
  <1> DEFINE n == Len(s) - 1
  <1>1. /\ Len(s) \in Nat /\ Len(s) >= 1
        /\ n \in Int /\ 1 <= n + 1 /\ n <= Len(s) /\ n - 1 + 1 = n
    BY EmptySeq, LenProperties
  <1>2. /\ SubSeq(s, 1, n) \in Seq(Conns)
        /\ Len(SubSeq(s, 1, n)) = n
    <2> HIDE DEF n
    <2> QED
      BY <1>1, Slice
  <1>3. Last(s) \in Conns
    BY <1>1, ElementOfSeq, SMT DEF Last
  <1>4. /\ Head(s) \in Conns
        /\ Tail(s) \in Seq(Conns)
        /\ Len(Tail(s)) = n
    BY HeadTailProperties
  <1> QED
    BY <1>2, <1>3, <1>4, Zenon DEF NextIdle, RestIdle, Front

\* retain removes one reservation and keeps the order of the others.
LEMMA RemoveAtProperties ==
  ASSUME NEW S, NEW s \in Seq(S), NEW i \in 1..Len(s)
  PROVE  /\ RemoveAt(s, i) \in Seq(S)
         /\ Len(RemoveAt(s, i)) = Len(s) - 1
         /\ \A j \in 1..(Len(s) - 1) :
              RemoveAt(s, i)[j] = IF j < i THEN s[j] ELSE s[j + 1]
  <1> DEFINE m == i - 1
             k == i + 1
             n == Len(s)
             before == SubSeq(s, 1, m)
             after == SubSeq(s, k, n)
  <1>1. /\ n \in Nat /\ i \in Nat /\ 1 <= i /\ i <= n
        /\ m \in Int /\ k \in Int
    BY LenProperties
  <1>2. /\ before \in Seq(S)
        /\ Len(before) = m
        /\ \A j \in 1..m : before[j] = s[j]
    <2>1. /\ SubSeq(s, 1, m) \in Seq(S)
          /\ Len(SubSeq(s, 1, m)) = m - 1 + 1
          /\ \A j \in 1..(m - 1 + 1) : SubSeq(s, 1, m)[j] = s[1 + j - 1]
      <3>1. 1 \in Int /\ 1 <= 1 /\ 1 <= m + 1 /\ m <= Len(s)
        BY <1>1
      <3> HIDE DEF m
      <3> QED
        BY <1>1, <3>1, Slice
    <2> QED
      BY <1>1, <2>1
  <1>3. /\ after \in Seq(S)
        /\ Len(after) = n - i
        /\ \A j \in 1..(n - i) : after[j] = s[i + j]
    <2>1. /\ after \in Seq(S)
          /\ Len(after) = n - k + 1
          /\ \A j \in 1..(n - k + 1) : after[j] = s[k + j - 1]
      <3>1. 1 <= k /\ k <= n + 1 /\ n <= Len(s)
        BY <1>1
      <3> HIDE DEF k, n
      <3> QED
        BY <1>1, <3>1, Slice
    <2> QED
      BY <1>1, <2>1
  <1>4. RemoveAt(s, i) = before \o after
    BY Zenon DEF RemoveAt
  <1> HIDE DEF before, after
  <1>5. /\ before \o after \in Seq(S)
        /\ Len(before \o after) = n - 1
        /\ \A j \in 1..(n - 1) : (before \o after)[j] =
             IF j <= m THEN before[j] ELSE after[j - m]
    BY <1>1, <1>2, <1>3, ConcatProperties
  <1> QED
    BY <1>1, <1>2, <1>3, <1>4, <1>5

\* A Message at the head of the internal channel has the payload of its type.
LEMMA HeadOfInternal ==
  ASSUME internal \in Seq(Messages), internal # <<>>
  PROVE  /\ Head(internal) \in Messages
         /\ Tail(internal) \in Seq(Messages)
         /\ Head(internal).type = "CheckIn" => Head(internal).conn \in Conns
  <1>1. Head(internal) \in Messages /\ Tail(internal) \in Seq(Messages)
    BY HeadTailProperties
  <1> QED
    BY <1>1 DEF Messages

-----------------------------------------------------------------------------
(* What is invariant beside the types.                                     *)

\* Where the consumer stands fixes what it has in its hands. It only makes
\* reservations, and only hands connections over, while none is idle.
ConsumerOK ==
  /\ pc = "deliver" => serving # None
  /\ pc \notin {"deliver", "cleanup"} => serving = None
  /\ pc = "fulfil" <=> carried # None
  /\ pc = "fulfil" => idle = <<>>
  /\ pc = "cleanup" /\ serving # None => idle = <<>>

\* A client that holds a connection was answered with one.
HoldersOK ==
  \A r \in Requests : phase[r] \in {"holding", "busy"} => answer[r] \in Conns

IInv ==
  /\ TypeOK
  /\ ConsumerOK
  /\ HoldersOK
  /\ NoWaiterWhileIdle
  /\ ReservationsBounded

\* None is no payload.
LEMMA NoPayload == None \notin Payloads
  BY NoneAssumption DEF Payloads

-----------------------------------------------------------------------------
(* The helpers of the model keep the types.                                *)

\* The counters are integers.
LEMMA CountFields ==
  ASSUME NEW x \in Counts
  PROVE  /\ x.in_flight \in Int /\ x.connections \in Int
         /\ x.idle \in Int /\ x.reservations \in Int
  BY DEF Counts

\* Several counters changed by one step.
LEMMA CountUpdates ==
  ASSUME NEW x \in Counts, NEW d \in Int, NEW e \in Int, NEW f \in Int
  PROVE  /\ [x EXCEPT !.connections = d, !.in_flight = e] \in Counts
         /\ [x EXCEPT !.reservations = d, !.in_flight = e] \in Counts
         /\ [x EXCEPT !.in_flight = d, !.idle = e, !.connections = f]
              \in Counts
  <1>1. [x EXCEPT !.connections = d, !.in_flight = e] \in Counts
    BY DEF Counts
  <1>2. [x EXCEPT !.reservations = d, !.in_flight = e] \in Counts
    BY DEF Counts
  <1>3. [x EXCEPT !.in_flight = d, !.idle = e, !.connections = f] \in Counts
    BY DEF Counts
  <1> QED
    BY <1>1, <1>2, <1>3

\* fetch_add and fetch_sub of one counter.
LEMMA CountSteps ==
  ASSUME NEW x \in Counts
  PROVE  /\ [x EXCEPT !.in_flight = @ + 1] \in Counts
         /\ [x EXCEPT !.in_flight = @ - 1] \in Counts
         /\ [x EXCEPT !.connections = @ + 1] \in Counts
         /\ [x EXCEPT !.idle = @ + 1] \in Counts
         /\ [x EXCEPT !.idle = @ - 1] \in Counts
         /\ [x EXCEPT !.reservations = @ + 1] \in Counts
         /\ [x EXCEPT !.reservations = @ - 1] \in Counts
  <1>1. \A d \in Int : [x EXCEPT !.in_flight = d] \in Counts
    BY DEF Counts
  <1>2. \A d \in Int : [x EXCEPT !.connections = d] \in Counts
    BY DEF Counts
  <1>3. \A d \in Int : [x EXCEPT !.idle = d] \in Counts
    BY DEF Counts
  <1>4. \A d \in Int : [x EXCEPT !.reservations = d] \in Counts
    BY DEF Counts
  <1>5. /\ x.in_flight + 1 \in Int /\ x.in_flight - 1 \in Int
        /\ x.connections + 1 \in Int
        /\ x.idle + 1 \in Int /\ x.idle - 1 \in Int
        /\ x.reservations + 1 \in Int /\ x.reservations - 1 \in Int
    BY CountFields
  <1> QED
    BY <1>1, <1>2, <1>3, <1>4, <1>5

\* What is sent on the internal channel is a message.
LEMMA MessageTypes ==
  /\ \A c \in Conns : CheckIn(c) \in Messages /\ CheckAlive(c) \in Messages
  /\ CleanupReservations \in Messages
  /\ Stop \in Messages
  BY DEF CheckIn, CheckAlive, CleanupReservations, Stop, Messages

\* A message sent on the internal channel lands in it.
LEMMA SendInternalTypes ==
  ASSUME ChannelTypes, NEW m \in Messages, SendInternal(m)
  PROVE  internal' \in Seq(Messages) /\ internal_open' \in BOOLEAN
  BY AppendProperties, Zenon DEF ChannelTypes, SendInternal

\* Managed::drop with a value keeps the channel and the orphans typed.
LEMMA ReturnTypes ==
  ASSUME ChannelTypes, SlotTypes, NEW c \in Conns, ReturnOrOrphan(c)
  PROVE  /\ internal' \in Seq(Messages)
         /\ internal_open' \in BOOLEAN
         /\ gone' \in SUBSET Conns
  <1>1. CASE SendInternal(CheckIn(c)) /\ UNCHANGED gone
    BY <1>1, MessageTypes, SendInternalTypes DEF SlotTypes
  <1>2. CASE ~internal_open /\ gone' = gone \cup {c} /\ UNCHANGED internalVars
    BY <1>2 DEF ChannelTypes, SlotTypes, internalVars
  <1> QED
    BY <1>1, <1>2 DEF ReturnOrOrphan

\* An answer reaches an unresolved future only, never somebody who already
\* holds a connection.
LEMMA SendTypes ==
  ASSUME ClientTypes, HoldersOK,
         NEW r, NEW a \in Conns \cup Errors,
         Send(r, a), UNCHANGED <<phase, mode>>
  PROVE  ClientTypes' /\ HoldersOK'
  <1>1. answer' \in [Requests -> Answers]
    BY DEF ClientTypes, Send, Answers
  <1>2. \A q \in Requests :
          phase[q] \in {"holding", "busy"} => answer'[q] = answer[q]
    BY DEF ClientTypes, Send, IsClosed
  <1> QED
    BY <1>1, <1>2 DEF ClientTypes, HoldersOK

\* The same for senders that are dropped.
LEMMA DropSendersTypes ==
  ASSUME ClientTypes, HoldersOK,
         NEW rs, DropSenders(rs), UNCHANGED <<phase, mode>>
  PROVE  ClientTypes' /\ HoldersOK'
  <1>1. answer' \in [Requests -> Answers]
    BY DEF ClientTypes, DropSenders, Answers, Errors
  <1>2. \A q \in Requests :
          phase[q] \in {"holding", "busy"} => answer'[q] = answer[q]
    BY DEF ClientTypes, DropSenders, IsClosed
  <1> QED
    BY <1>1, <1>2 DEF ClientTypes, HoldersOK

\* A reservation added while the queue is not full leaves it within its
\* allocation.
LEMMA EnqueueTypes ==
  ASSUME InnerTypes, CounterTypes, ReservationsBounded,
         NEW r \in Requests, Enqueue(r), ~QueueFull
  PROVE  /\ reservations' \in Seq(Requests)
         /\ counters' \in Counts
         /\ ReservationsBounded'
  <1>1. /\ reservations' \in Seq(Requests)
        /\ Len(reservations') = Len(reservations) + 1
    BY AppendProperties DEF InnerTypes, Enqueue
  <1>2. counters' \in Counts
    BY CountSteps DEF CounterTypes, Enqueue
  <1>3. Len(reservations) \in Nat
    BY LenProperties DEF InnerTypes
  <1> QED
    BY <1>1, <1>2, <1>3, SizeAssumption DEF ReservationsBounded, QueueFull

\* The counters after a check in, of a new or a returned connection.
LEMMA CheckedInTypes ==
  ASSUME CounterTypes, NEW c
  PROVE  /\ CheckedIn(c) \in Counts
         /\ [CheckedIn(c) EXCEPT !.idle = @ + 1] \in Counts
  <1>1. CheckedIn(c) \in Counts
    BY CountSteps DEF CounterTypes, CheckedIn
  <1> QED
    BY <1>1, CountSteps

\* Idle connections are connections.
LEMMA RangeTypes ==
  ASSUME NEW s \in Seq(Conns)
  PROVE  Range(s) \in SUBSET Conns
  BY LenProperties DEF Range

\* IdleConnections::put leaves at least one idle connection.
LEMMA PutTypes ==
  ASSUME NEW s \in Seq(Conns), NEW c \in Conns
  PROVE  Put(s, c) \in Seq(Conns) /\ Put(s, c) # <<>>
  BY AppendProperties DEF Put

-----------------------------------------------------------------------------
(* The inductive invariant.                                                *)

\* PoolInternal::new establishes the invariant, with and without a runtime.
LEMMA InitInv == Init => IInv
  <1> SUFFICES ASSUME Init
               PROVE  IInv
    OBVIOUS
  <1>1. TypeOK
    <2>1. ChannelTypes /\ InnerTypes
      BY EmptySeq
      DEF Init, InitCommon, InitRunning, InitNoRuntime, ChannelTypes,
          InnerTypes
    <2>2. CounterTypes
      BY DEF Init, InitCommon, NoCounts, CounterTypes, Counts
    <2>3. ConsumerTypes /\ SlotTypes
      BY DEF Init, InitCommon, InitRunning, InitNoRuntime, ConsumerTypes,
             ConsumerSteps, SlotTypes
    <2>4. ClientTypes
      BY DEF Init, InitCommon, ClientTypes, Phases, Answers
    <2>5. pool \in {"alive", "dropped"} /\ ticker \in BOOLEAN
      BY DEF Init, InitCommon, InitRunning, InitNoRuntime
    <2> QED
      BY <2>1, <2>2, <2>3, <2>4, <2>5 DEF TypeOK
  <1>2. ConsumerOK /\ HoldersOK /\ NoWaiterWhileIdle
    BY DEF Init, InitCommon, InitRunning, InitNoRuntime, ConsumerOK,
           HoldersOK,
           NoWaiterWhileIdle
  <1>3. ReservationsBounded
    BY EmptySeq, SizeAssumption DEF Init, InitCommon, ReservationsBounded
  <1> QED
    BY <1>1, <1>2, <1>3 DEF IInv

\* Every step of clients, tasks, ticker and consumer keeps it.
LEMMA NextInv == IInv /\ [Next]_vars => IInv'
  <1> SUFFICES ASSUME IInv, [Next]_vars
               PROVE  IInv'
    OBVIOUS
  <1> USE DEF IInv, TypeOK
  <1>1. ASSUME NEW r \in Requests, NEW m \in Modes, CheckOut(r, m)
        PROVE  IInv'
    <2>1. /\ pool' \in {"alive", "dropped"} /\ ticker' \in BOOLEAN
          /\ InnerTypes'
          /\ CounterTypes'
          /\ ConsumerTypes'
          /\ SlotTypes'
          /\ ConsumerOK'
          /\ NoWaiterWhileIdle'
          /\ ReservationsBounded'
      BY <1>1
      DEF CheckOut, InnerTypes, CounterTypes, ConsumerTypes, SlotTypes,
          ConsumerOK, NoWaiterWhileIdle, ReservationsBounded, queueVars,
          internalVars, innerVars, consumerVars, slotVars, clientVars
    <2>2. ChannelTypes'
      <3>1. Payload(r, m) \in Payloads
        BY DEF Payload, Payloads
      <3>2. Append(checkouts, Payload(r, m)) \in Seq(Payloads)
        BY <3>1, AppendProperties DEF ChannelTypes
      <3> QED
        BY <1>1, <3>2
        DEF CheckOut, Refuse, ChannelTypes, queueVars, internalVars
    <2>3. ClientTypes'
      BY <1>1
      DEF CheckOut, Refuse, ClientTypes, Phases, Modes, Errors, Answers
    <2>4. HoldersOK'
      BY <1>1 DEF CheckOut, Refuse, HoldersOK, ClientTypes
    <2> QED
      BY <2>1, <2>2, <2>3, <2>4
  <1>2. ASSUME NEW r \in Requests, Poll(r)
        PROVE  IInv'
    <2>1. /\ pool' \in {"alive", "dropped"} /\ ticker' \in BOOLEAN
          /\ ChannelTypes'
          /\ InnerTypes'
          /\ CounterTypes'
          /\ ConsumerTypes'
          /\ SlotTypes'
          /\ ConsumerOK'
          /\ NoWaiterWhileIdle'
          /\ ReservationsBounded'
      BY <1>2
      DEF Poll, ChannelTypes, InnerTypes, CounterTypes, ConsumerTypes,
          SlotTypes, ConsumerOK, NoWaiterWhileIdle, ReservationsBounded,
          queueVars, internalVars, innerVars, consumerVars, slotVars,
          clientVars
    <2>2. ClientTypes'
      BY <1>2 DEF Poll, ClientTypes, Phases
    <2>3. HoldersOK'
      BY <1>2 DEF Poll, HoldersOK, ClientTypes
    <2> QED
      BY <2>1, <2>2, <2>3
  <1>3. ASSUME NEW r \in Requests, TimeOut(r)
        PROVE  IInv'
    <2>1. /\ pool' \in {"alive", "dropped"} /\ ticker' \in BOOLEAN
          /\ ChannelTypes'
          /\ InnerTypes'
          /\ CounterTypes'
          /\ ConsumerTypes'
          /\ SlotTypes'
          /\ ConsumerOK'
          /\ NoWaiterWhileIdle'
          /\ ReservationsBounded'
      BY <1>3
      DEF TimeOut, ChannelTypes, InnerTypes, CounterTypes, ConsumerTypes,
          SlotTypes, ConsumerOK, NoWaiterWhileIdle, ReservationsBounded,
          queueVars, internalVars, innerVars, consumerVars, slotVars,
          clientVars
    <2>2. ClientTypes'
      BY <1>3 DEF TimeOut, ClientTypes, Phases
    <2>3. HoldersOK'
      BY <1>3 DEF TimeOut, HoldersOK, ClientTypes
    <2> QED
      BY <2>1, <2>2, <2>3
  <1>4. ASSUME NEW r \in Requests, DropFuture(r)
        PROVE  IInv'
    <2>1. /\ pool' \in {"alive", "dropped"} /\ ticker' \in BOOLEAN
          /\ InnerTypes'
          /\ CounterTypes'
          /\ ConsumerTypes'
          /\ ConsumerOK'
          /\ NoWaiterWhileIdle'
          /\ ReservationsBounded'
      BY <1>4
      DEF DropFuture, InnerTypes, CounterTypes, ConsumerTypes, ConsumerOK,
          NoWaiterWhileIdle, ReservationsBounded, queueVars, internalVars,
          innerVars, consumerVars, slotVars, clientVars
    <2>2. ChannelTypes'
      BY <1>4, ReturnTypes
      DEF DropFuture, ChannelTypes, queueVars, internalVars
    <2>3. SlotTypes'
      BY <1>4, ReturnTypes DEF DropFuture, SlotTypes
    <2>4. ClientTypes'
      BY <1>4 DEF DropFuture, ClientTypes, Phases, Answers
    <2>5. HoldersOK'
      BY <1>4 DEF DropFuture, HoldersOK, ClientTypes
    <2> QED
      BY <2>1, <2>2, <2>3, <2>4, <2>5
  <1>5. ASSUME NEW r \in Requests, StartCommand(r)
        PROVE  IInv'
    <2>1. /\ pool' \in {"alive", "dropped"} /\ ticker' \in BOOLEAN
          /\ ChannelTypes'
          /\ InnerTypes'
          /\ CounterTypes'
          /\ ConsumerTypes'
          /\ SlotTypes'
          /\ ConsumerOK'
          /\ NoWaiterWhileIdle'
          /\ ReservationsBounded'
      BY <1>5
      DEF StartCommand, ChannelTypes, InnerTypes, CounterTypes, ConsumerTypes,
          SlotTypes, ConsumerOK, NoWaiterWhileIdle, ReservationsBounded,
          queueVars, internalVars, innerVars, consumerVars, slotVars,
          clientVars
    <2>2. ClientTypes'
      BY <1>5 DEF StartCommand, ClientTypes, Phases
    <2>3. HoldersOK'
      BY <1>5 DEF StartCommand, HoldersOK, ClientTypes
    <2> QED
      BY <2>1, <2>2, <2>3
  <1>6. ASSUME NEW r \in Requests, CommandDone(r)
        PROVE  IInv'
    <2>1. /\ pool' \in {"alive", "dropped"} /\ ticker' \in BOOLEAN
          /\ ChannelTypes'
          /\ InnerTypes'
          /\ CounterTypes'
          /\ ConsumerTypes'
          /\ SlotTypes'
          /\ ConsumerOK'
          /\ NoWaiterWhileIdle'
          /\ ReservationsBounded'
      BY <1>6
      DEF CommandDone, ChannelTypes, InnerTypes, CounterTypes, ConsumerTypes,
          SlotTypes, ConsumerOK, NoWaiterWhileIdle, ReservationsBounded,
          queueVars, internalVars, innerVars, consumerVars, slotVars,
          clientVars
    <2>2. ClientTypes'
      BY <1>6 DEF CommandDone, ClientTypes, Phases
    <2>3. HoldersOK'
      BY <1>6 DEF CommandDone, HoldersOK, ClientTypes
    <2> QED
      BY <2>1, <2>2, <2>3
  <1>7. ASSUME NEW r \in Requests, DropConnection(r)
        PROVE  IInv'
    <2>1. /\ pool' \in {"alive", "dropped"} /\ ticker' \in BOOLEAN
          /\ InnerTypes'
          /\ CounterTypes'
          /\ ConsumerTypes'
          /\ ConsumerOK'
          /\ NoWaiterWhileIdle'
          /\ ReservationsBounded'
      BY <1>7
      DEF DropConnection, InnerTypes, CounterTypes, ConsumerTypes, ConsumerOK,
          NoWaiterWhileIdle, ReservationsBounded, queueVars, internalVars,
          innerVars, consumerVars, slotVars, clientVars
    <2>2. ChannelTypes'
      <3>1. answer[r] \in Conns
        BY <1>7 DEF DropConnection, HoldersOK
      <3> QED
        BY <1>7, <3>1, ReturnTypes DEF DropConnection, ChannelTypes, queueVars
    <2>3. SlotTypes'
      <3>1. answer[r] \in Conns
        BY <1>7 DEF DropConnection, HoldersOK
      <3> QED
        BY <1>7, <3>1, ReturnTypes DEF DropConnection, SlotTypes
    <2>4. ClientTypes'
      BY <1>7 DEF DropConnection, ClientTypes, Phases, Answers
    <2>5. HoldersOK'
      BY <1>7 DEF DropConnection, HoldersOK, ClientTypes
    <2> QED
      BY <2>1, <2>2, <2>3, <2>4, <2>5
  <1>8. ASSUME NEW r \in Requests, DropBroken(r)
        PROVE  IInv'
    <2>1. /\ pool' \in {"alive", "dropped"} /\ ticker' \in BOOLEAN
          /\ ChannelTypes'
          /\ InnerTypes'
          /\ ConsumerTypes'
          /\ ConsumerOK'
          /\ NoWaiterWhileIdle'
          /\ ReservationsBounded'
      BY <1>8
      DEF DropBroken, ChannelTypes, InnerTypes, ConsumerTypes, ConsumerOK,
          NoWaiterWhileIdle, ReservationsBounded, queueVars, internalVars,
          innerVars, consumerVars, slotVars, clientVars
    <2>2. CounterTypes'
      <3>1. /\ counters.connections - 1 \in Int
            /\ (IF answer[r] \in checked_out
                  THEN counters.in_flight - 1 ELSE counters.in_flight) \in Int
        BY CountFields DEF CounterTypes
      <3> QED
        BY <1>8, <3>1, CountUpdates DEF DropBroken, RequestNew, CounterTypes
    <2>3. SlotTypes'
      BY <1>8 DEF DropBroken, RequestNew, SlotTypes
    <2>4. ClientTypes'
      BY <1>8 DEF DropBroken, ClientTypes, Phases, Answers
    <2>5. HoldersOK'
      BY <1>8 DEF DropBroken, HoldersOK, ClientTypes
    <2> QED
      BY <2>1, <2>2, <2>3, <2>4, <2>5
  <1>9. ASSUME DropPool
        PROVE  IInv'
    <2>1. /\ pool' \in {"alive", "dropped"} /\ ticker' \in BOOLEAN
          /\ InnerTypes'
          /\ CounterTypes'
          /\ ConsumerTypes'
          /\ SlotTypes'
          /\ ClientTypes'
          /\ ConsumerOK'
          /\ HoldersOK'
          /\ NoWaiterWhileIdle'
          /\ ReservationsBounded'
      BY <1>9
      DEF DropPool, InnerTypes, CounterTypes, ConsumerTypes, SlotTypes,
          ClientTypes, ConsumerOK, HoldersOK, NoWaiterWhileIdle,
          ReservationsBounded, queueVars, internalVars, innerVars,
          consumerVars, slotVars, clientVars
    <2>2. ChannelTypes'
      BY <1>9, MessageTypes, SendInternalTypes
      DEF DropPool, ChannelTypes, queueVars, internalVars
    <2> QED
      BY <2>1, <2>2
  <1>10. ASSUME NEW c \in Conns, Probe(c)
        PROVE  IInv'
    <2>1. /\ pool' \in {"alive", "dropped"} /\ ticker' \in BOOLEAN
          /\ InnerTypes'
          /\ CounterTypes'
          /\ ConsumerTypes'
          /\ ClientTypes'
          /\ ConsumerOK'
          /\ HoldersOK'
          /\ NoWaiterWhileIdle'
          /\ ReservationsBounded'
      BY <1>10
      DEF Probe, InnerTypes, CounterTypes, ConsumerTypes, ClientTypes,
          ConsumerOK, HoldersOK, NoWaiterWhileIdle, ReservationsBounded,
          queueVars, internalVars, innerVars, consumerVars, slotVars,
          clientVars
    <2>2. ChannelTypes'
      BY <1>10, MessageTypes, SendInternalTypes
      DEF Probe, ChannelTypes, queueVars, internalVars
    <2>3. SlotTypes'
      BY <1>10, Zenon DEF Probe, SlotTypes
    <2> QED
      BY <2>1, <2>2, <2>3
  <1>11. ASSUME NEW c \in Conns, Connected(c)
        PROVE  IInv'
    <2>1. /\ pool' \in {"alive", "dropped"} /\ ticker' \in BOOLEAN
          /\ InnerTypes'
          /\ CounterTypes'
          /\ ConsumerTypes'
          /\ ClientTypes'
          /\ ConsumerOK'
          /\ HoldersOK'
          /\ NoWaiterWhileIdle'
          /\ ReservationsBounded'
      BY <1>11
      DEF Connected, InnerTypes, CounterTypes, ConsumerTypes, ClientTypes,
          ConsumerOK, HoldersOK, NoWaiterWhileIdle, ReservationsBounded,
          queueVars, internalVars, innerVars, consumerVars, slotVars,
          clientVars
    <2>2. ChannelTypes'
      BY <1>11, ReturnTypes DEF Connected, ChannelTypes, queueVars
    <2>3. SlotTypes'
      BY <1>11, ReturnTypes DEF Connected, SlotTypes
    <2> QED
      BY <2>1, <2>2, <2>3
  <1>12. ASSUME NEW c \in Conns, ConnectFailed(c)
        PROVE  IInv'
    <2>1. /\ pool' \in {"alive", "dropped"} /\ ticker' \in BOOLEAN
          /\ ChannelTypes'
          /\ InnerTypes'
          /\ CounterTypes'
          /\ ConsumerTypes'
          /\ ClientTypes'
          /\ ConsumerOK'
          /\ HoldersOK'
          /\ NoWaiterWhileIdle'
          /\ ReservationsBounded'
      BY <1>12
      DEF ConnectFailed, ChannelTypes, InnerTypes, CounterTypes,
          ConsumerTypes, ClientTypes, ConsumerOK, HoldersOK,
          NoWaiterWhileIdle, ReservationsBounded, queueVars, internalVars,
          innerVars, consumerVars, slotVars, clientVars
    <2>2. SlotTypes'
      BY <1>12 DEF ConnectFailed, SlotTypes
    <2> QED
      BY <2>1, <2>2
  <1>13. ASSUME Tick
        PROVE  IInv'
    <2>1. /\ InnerTypes'
          /\ CounterTypes'
          /\ ConsumerTypes'
          /\ SlotTypes'
          /\ ClientTypes'
          /\ ConsumerOK'
          /\ HoldersOK'
          /\ NoWaiterWhileIdle'
          /\ ReservationsBounded'
      BY <1>13
      DEF Tick, InnerTypes, CounterTypes, ConsumerTypes, SlotTypes,
          ClientTypes, ConsumerOK, HoldersOK, NoWaiterWhileIdle,
          ReservationsBounded, queueVars, internalVars, innerVars,
          consumerVars, slotVars, clientVars
    <2>2. pool' \in {"alive", "dropped"} /\ ticker' \in BOOLEAN
      BY <1>13 DEF Tick
    <2>3. ChannelTypes'
      BY <1>13, MessageTypes, SendInternalTypes
      DEF Tick, ChannelTypes, queueVars, internalVars
    <2> QED
      BY <2>1, <2>2, <2>3
  <1>14. ASSUME ProcessCheckIn
        PROVE  IInv'
    <2>1. /\ pool' \in {"alive", "dropped"} /\ ticker' \in BOOLEAN
          /\ ClientTypes'
          /\ HoldersOK'
          /\ ReservationsBounded'
      BY <1>14
      DEF ProcessCheckIn, ClientTypes, HoldersOK, ReservationsBounded,
          queueVars, internalVars, innerVars, consumerVars, slotVars,
          clientVars
    <2>2. ChannelTypes'
      BY <1>14, HeadOfInternal
      DEF ProcessCheckIn, NextMessage, PopInternal, ChannelTypes, queueVars
    <2>3. InnerTypes'
      BY <1>14, HeadOfInternal, PutTypes
      DEF ProcessCheckIn, NextMessage, ChannelTypes, InnerTypes
    <2>4. CounterTypes'
      BY <1>14, CheckedInTypes DEF ProcessCheckIn, CounterTypes
    <2>5. ConsumerTypes'
      BY <1>14, HeadOfInternal
      DEF ProcessCheckIn, NextMessage, ChannelTypes, ConsumerTypes,
          ConsumerSteps,
          consumerVars
    <2>6. SlotTypes'
      BY <1>14 DEF ProcessCheckIn, SlotTypes, slotVars
    <2>7. ConsumerOK'
      BY <1>14, HeadOfInternal, NoneAssumption
      DEF ProcessCheckIn, NextMessage, ChannelTypes, ConsumerOK, Awaited,
          NoWaiterWhileIdle, consumerVars
    <2>8. NoWaiterWhileIdle'
      BY <1>14 DEF ProcessCheckIn, NoWaiterWhileIdle, Awaited
    <2> QED
      BY <2>1, <2>2, <2>3, <2>4, <2>5, <2>6, <2>7, <2>8
  <1>15. ASSUME ProcessCheckAlive
        PROVE  IInv'
    <2>1. /\ pool' \in {"alive", "dropped"} /\ ticker' \in BOOLEAN
          /\ InnerTypes'
          /\ CounterTypes'
          /\ ConsumerTypes'
          /\ SlotTypes'
          /\ ClientTypes'
          /\ ConsumerOK'
          /\ HoldersOK'
          /\ NoWaiterWhileIdle'
          /\ ReservationsBounded'
      BY <1>15
      DEF ProcessCheckAlive, InnerTypes, CounterTypes, ConsumerTypes,
          SlotTypes, ClientTypes, ConsumerOK, HoldersOK, NoWaiterWhileIdle,
          ReservationsBounded, queueVars, internalVars, innerVars,
          consumerVars, slotVars, clientVars
    <2>2. ChannelTypes'
      BY <1>15, HeadOfInternal
      DEF ProcessCheckAlive, NextMessage, PopInternal, ChannelTypes, queueVars
    <2> QED
      BY <2>1, <2>2
  <1>16. ASSUME ProcessCleanup
        PROVE  IInv'
    <2>1. /\ pool' \in {"alive", "dropped"} /\ ticker' \in BOOLEAN
          /\ InnerTypes'
          /\ CounterTypes'
          /\ SlotTypes'
          /\ ClientTypes'
          /\ HoldersOK'
          /\ NoWaiterWhileIdle'
          /\ ReservationsBounded'
      BY <1>16
      DEF ProcessCleanup, InnerTypes, CounterTypes, SlotTypes, ClientTypes,
          HoldersOK, NoWaiterWhileIdle, ReservationsBounded, queueVars,
          internalVars, innerVars, consumerVars, slotVars, clientVars
    <2>2. ChannelTypes'
      BY <1>16, HeadOfInternal
      DEF ProcessCleanup, NextMessage, PopInternal, ChannelTypes, queueVars
    <2>3. ConsumerTypes'
      BY <1>16 DEF ProcessCleanup, ConsumerTypes, ConsumerSteps, consumerVars
    <2>4. ConsumerOK'
      BY <1>16
      DEF ProcessCleanup, NextMessage, ConsumerOK, consumerVars, innerVars
    <2> QED
      BY <2>1, <2>2, <2>3, <2>4
  <1>17. ASSUME ProcessStop
        PROVE  IInv'
    <2>1. /\ pool' \in {"alive", "dropped"} /\ ticker' \in BOOLEAN
          /\ InnerTypes'
          /\ CounterTypes'
          /\ ClientTypes'
          /\ HoldersOK'
          /\ NoWaiterWhileIdle'
          /\ ReservationsBounded'
      BY <1>17
      DEF ProcessStop, InnerTypes, CounterTypes, ClientTypes, HoldersOK,
          NoWaiterWhileIdle, ReservationsBounded, queueVars, internalVars,
          innerVars, consumerVars, slotVars, clientVars
    <2>2. ChannelTypes'
      BY <1>17, EmptySeq DEF ProcessStop, ChannelTypes, queueVars
    <2>3. ConsumerTypes'
      BY <1>17 DEF ProcessStop, ConsumerTypes, ConsumerSteps
    <2>4. SlotTypes'
      BY <1>17 DEF ProcessStop, SlotTypes
    <2>5. ConsumerOK'
      BY <1>17 DEF ProcessStop, NextMessage, ConsumerOK, innerVars
    <2> QED
      BY <2>1, <2>2, <2>3, <2>4, <2>5
  <1>18. ASSUME ProcessCheckOut
        PROVE  IInv'
    <2>1. /\ pool' \in {"alive", "dropped"} /\ ticker' \in BOOLEAN
          /\ InnerTypes'
          /\ CounterTypes'
          /\ SlotTypes'
          /\ ClientTypes'
          /\ HoldersOK'
          /\ NoWaiterWhileIdle'
          /\ ReservationsBounded'
      BY <1>18
      DEF ProcessCheckOut, InnerTypes, CounterTypes, SlotTypes, ClientTypes,
          HoldersOK, NoWaiterWhileIdle, ReservationsBounded, queueVars,
          internalVars, innerVars, consumerVars, slotVars, clientVars
    <2>2. ChannelTypes'
      BY <1>18, HeadTailProperties
      DEF ProcessCheckOut, ChannelTypes, internalVars
    <2>3. ConsumerTypes'
      BY <1>18, HeadTailProperties
      DEF ProcessCheckOut, ChannelTypes, ConsumerTypes, ConsumerSteps,
          consumerVars
    <2>4. ConsumerOK'
      <3>1. Head(checkouts) # None
        BY <1>18, HeadTailProperties, NoPayload
        DEF ProcessCheckOut, ChannelTypes
      <3> QED
        BY <1>18, <3>1
        DEF ProcessCheckOut, ConsumerOK, consumerVars, innerVars
    <2> QED
      BY <2>1, <2>2, <2>3, <2>4
  <1>19. ASSUME TryFulfill
        PROVE  IInv'
    <2>1. /\ pool' \in {"alive", "dropped"} /\ ticker' \in BOOLEAN
          /\ ChannelTypes'
      BY <1>19
      DEF TryFulfill, ChannelTypes, queueVars, internalVars, innerVars,
          consumerVars, slotVars, clientVars
    <2>2. InnerTypes'
      BY <1>19, HeadTailProperties DEF TryFulfill, InnerTypes
    <2>3. CounterTypes'
      BY <1>19, CountSteps DEF TryFulfill, CounterTypes
    <2>4. ConsumerTypes'
      BY <1>19 DEF TryFulfill, ConsumerTypes, ConsumerSteps, consumerVars
    <2>5. SlotTypes'
      BY <1>19 DEF TryFulfill, ConsumerTypes, ConsumerOK, SlotTypes, slotVars
    <2>6. ClientTypes'
      BY <1>19, SendTypes DEF TryFulfill, ConsumerTypes, ConsumerOK
    <2>7. ConsumerOK'
      BY <1>19 DEF TryFulfill, ConsumerOK, consumerVars
    <2>8. HoldersOK'
      BY <1>19, SendTypes DEF TryFulfill, ConsumerTypes, ConsumerOK
    <2>9. NoWaiterWhileIdle'
      BY <1>19 DEF TryFulfill, ConsumerOK, NoWaiterWhileIdle
    <2>10. ReservationsBounded'
      BY <1>19, HeadTailProperties, LenProperties, SizeAssumption
      DEF TryFulfill, InnerTypes, ReservationsBounded
    <2> QED
      BY <2>1, <2>2, <2>3, <2>4, <2>5, <2>6, <2>7, <2>8, <2>9, <2>10
  <1>20. ASSUME Fulfilled
        PROVE  IInv'
    <2>1. /\ pool' \in {"alive", "dropped"} /\ ticker' \in BOOLEAN
          /\ ChannelTypes'
          /\ InnerTypes'
          /\ SlotTypes'
          /\ ClientTypes'
          /\ HoldersOK'
          /\ NoWaiterWhileIdle'
          /\ ReservationsBounded'
      BY <1>20
      DEF Fulfilled, ChannelTypes, InnerTypes, SlotTypes, ClientTypes,
          HoldersOK, NoWaiterWhileIdle, ReservationsBounded, queueVars,
          internalVars, innerVars, consumerVars, slotVars, clientVars
    <2>2. CounterTypes'
      <3>1. counters.reservations - 1 \in Int /\ counters.in_flight + 1 \in Int
        BY CountFields DEF CounterTypes
      <3> QED
        BY <1>20, <3>1, CountUpdates DEF Fulfilled, CounterTypes
    <2>3. ConsumerTypes'
      BY <1>20 DEF Fulfilled, ConsumerTypes, ConsumerSteps
    <2>4. ConsumerOK'
      BY <1>20 DEF Fulfilled, ConsumerOK
    <2> QED
      BY <2>1, <2>2, <2>3, <2>4
  <1>21. ASSUME NoneFulfilled
        PROVE  IInv'
    <2>1. /\ pool' \in {"alive", "dropped"} /\ ticker' \in BOOLEAN
          /\ ChannelTypes'
          /\ SlotTypes'
          /\ ClientTypes'
          /\ HoldersOK'
          /\ ReservationsBounded'
      BY <1>21
      DEF NoneFulfilled, ChannelTypes, SlotTypes, ClientTypes, HoldersOK,
          ReservationsBounded, queueVars, internalVars, innerVars,
          consumerVars, slotVars, clientVars
    <2>2. InnerTypes'
      BY <1>21, PutTypes
      DEF NoneFulfilled, PutIdle, InnerTypes, ConsumerTypes, ConsumerOK
    <2>3. CounterTypes'
      BY <1>21, CountSteps DEF NoneFulfilled, PutIdle, CounterTypes
    <2>4. ConsumerTypes'
      BY <1>21 DEF NoneFulfilled, ConsumerTypes, ConsumerSteps
    <2>5. ConsumerOK'
      BY <1>21 DEF NoneFulfilled, ConsumerOK
    <2>6. NoWaiterWhileIdle'
      BY <1>21 DEF NoneFulfilled, NoWaiterWhileIdle
    <2> QED
      BY <2>1, <2>2, <2>3, <2>4, <2>5, <2>6
  <1>22. ASSUME DeliverIdle
        PROVE  IInv'
    <2>1. /\ pool' \in {"alive", "dropped"} /\ ticker' \in BOOLEAN
          /\ ChannelTypes'
          /\ ReservationsBounded'
      BY <1>22
      DEF DeliverIdle, ChannelTypes, ReservationsBounded, queueVars,
          internalVars, innerVars, consumerVars, slotVars, clientVars
    <2>2. InnerTypes'
      BY <1>22, IdleProperties, PutTypes DEF DeliverIdle, InnerTypes
    <2>3. CounterTypes'
      BY <1>22, CountSteps DEF DeliverIdle, CounterTypes
    <2>4. ConsumerTypes'
      BY <1>22 DEF DeliverIdle, ConsumerTypes, ConsumerSteps
    <2>5. SlotTypes'
      BY <1>22, IdleProperties
      DEF DeliverIdle, InnerTypes, SlotTypes, slotVars
    <2>6. ClientTypes'
      BY <1>22, IdleProperties, SendTypes DEF DeliverIdle, InnerTypes
    <2>7. ConsumerOK'
      BY <1>22 DEF DeliverIdle, ConsumerOK
    <2>8. HoldersOK'
      BY <1>22, IdleProperties, SendTypes DEF DeliverIdle, InnerTypes
    <2>9. NoWaiterWhileIdle'
      BY <1>22 DEF DeliverIdle, NoWaiterWhileIdle
    <2> QED
      BY <2>1, <2>2, <2>3, <2>4, <2>5, <2>6, <2>7, <2>8, <2>9
  <1>23. ASSUME Delivered
        PROVE  IInv'
    <2>1. /\ pool' \in {"alive", "dropped"} /\ ticker' \in BOOLEAN
          /\ ChannelTypes'
          /\ InnerTypes'
          /\ SlotTypes'
          /\ ClientTypes'
          /\ HoldersOK'
          /\ NoWaiterWhileIdle'
          /\ ReservationsBounded'
      BY <1>23
      DEF Delivered, ChannelTypes, InnerTypes, SlotTypes, ClientTypes,
          HoldersOK, NoWaiterWhileIdle, ReservationsBounded, queueVars,
          internalVars, innerVars, consumerVars, slotVars, clientVars
    <2>2. CounterTypes'
      BY <1>23, CountSteps DEF Delivered, CounterTypes
    <2>3. ConsumerTypes'
      BY <1>23 DEF Delivered, ConsumerTypes, ConsumerSteps
    <2>4. ConsumerOK'
      BY <1>23 DEF Delivered, ConsumerOK
    <2> QED
      BY <2>1, <2>2, <2>3, <2>4
  <1>24. ASSUME NoIdle
        PROVE  IInv'
    <2>r. serving.request \in Requests
      BY <1>24 DEF NoIdle, ConsumerTypes, ConsumerOK, Payloads
    <2>1. /\ pool' \in {"alive", "dropped"} /\ ticker' \in BOOLEAN
          /\ ChannelTypes'
          /\ SlotTypes'
      BY <1>24
      DEF NoIdle, ChannelTypes, SlotTypes, queueVars, internalVars, innerVars,
          consumerVars, slotVars, clientVars
    <2>2. InnerTypes'
      BY <1>24, <2>r, EnqueueTypes DEF NoIdle, InnerTypes
    <2>3. CounterTypes'
      BY <1>24, <2>r, EnqueueTypes DEF NoIdle, CounterTypes
    <2>4. ConsumerTypes'
      BY <1>24 DEF NoIdle, ConsumerTypes, ConsumerSteps
    <2>5. ClientTypes'
      BY <1>24, SendTypes DEF NoIdle, ClientTypes, Errors
    <2>6. ConsumerOK'
      BY <1>24 DEF NoIdle, ConsumerOK
    <2>7. HoldersOK'
      BY <1>24, SendTypes DEF NoIdle, HoldersOK, Errors
    <2>8. NoWaiterWhileIdle'
      BY <1>24 DEF NoIdle, NoWaiterWhileIdle
    <2>9. ReservationsBounded'
      BY <1>24, <2>r, EnqueueTypes DEF NoIdle, ReservationsBounded
    <2> QED
      BY <2>1, <2>2, <2>3, <2>4, <2>5, <2>6, <2>7, <2>8, <2>9
  <1>25. ASSUME CleanupStep
        PROVE  IInv'
    <2>r. scan \in 1..Len(reservations) /\ reservations # <<>>
      BY <1>25, LenProperties, EmptySeq
      DEF CleanupStep, ConsumerTypes, InnerTypes
    <2>1. /\ pool' \in {"alive", "dropped"} /\ ticker' \in BOOLEAN
          /\ ChannelTypes'
          /\ SlotTypes'
          /\ ClientTypes'
          /\ HoldersOK'
      BY <1>25
      DEF CleanupStep, ChannelTypes, SlotTypes, ClientTypes, HoldersOK,
          queueVars, internalVars, innerVars, consumerVars, slotVars,
          clientVars
    <2>2. InnerTypes'
      BY <1>25, <2>r, RemoveAtProperties DEF CleanupStep, InnerTypes
    <2>3. CounterTypes'
      BY <1>25, CountSteps DEF CleanupStep, CounterTypes
    <2>4. ConsumerTypes'
      BY <1>25 DEF CleanupStep, ConsumerTypes
    <2>5. ConsumerOK'
      BY <1>25 DEF CleanupStep, ConsumerOK
    <2>6. NoWaiterWhileIdle'
      BY <1>25, <2>r DEF CleanupStep, NoWaiterWhileIdle
    <2>7. ReservationsBounded'
      BY <1>25, <2>r, RemoveAtProperties, LenProperties, SizeAssumption
      DEF CleanupStep, InnerTypes, ReservationsBounded
    <2> QED
      BY <2>1, <2>2, <2>3, <2>4, <2>5, <2>6, <2>7
  <1>26. ASSUME CleanupDone
        PROVE  IInv'
    <2>r. serving # None => serving.request \in Requests
      BY DEF ConsumerTypes, Payloads
    <2>1. /\ pool' \in {"alive", "dropped"} /\ ticker' \in BOOLEAN
          /\ ChannelTypes'
          /\ SlotTypes'
      BY <1>26
      DEF CleanupDone, ChannelTypes, SlotTypes, queueVars, internalVars,
          innerVars, consumerVars, slotVars, clientVars
    <2>2. InnerTypes'
      BY <1>26, <2>r, EnqueueTypes DEF CleanupDone, InnerTypes
    <2>3. CounterTypes'
      BY <1>26, <2>r, EnqueueTypes DEF CleanupDone, CounterTypes
    <2>4. ConsumerTypes'
      BY <1>26 DEF CleanupDone, ConsumerTypes, ConsumerSteps
    <2>5. ClientTypes'
      BY <1>26, SendTypes DEF CleanupDone, ClientTypes, Errors
    <2>6. ConsumerOK'
      BY <1>26 DEF CleanupDone, ConsumerOK
    <2>7. HoldersOK'
      BY <1>26, SendTypes DEF CleanupDone, HoldersOK, Errors
    <2>8. NoWaiterWhileIdle'
      BY <1>26 DEF CleanupDone, ConsumerOK, NoWaiterWhileIdle
    <2>9. ReservationsBounded'
      BY <1>26, <2>r, EnqueueTypes DEF CleanupDone, ReservationsBounded
    <2> QED
      BY <2>1, <2>2, <2>3, <2>4, <2>5, <2>6, <2>7, <2>8, <2>9
  <1>27. ASSUME CloseCheckouts
        PROVE  IInv'
    <2>1. /\ pool' \in {"alive", "dropped"} /\ ticker' \in BOOLEAN
          /\ InnerTypes'
          /\ CounterTypes'
          /\ SlotTypes'
          /\ NoWaiterWhileIdle'
          /\ ReservationsBounded'
      BY <1>27
      DEF CloseCheckouts, InnerTypes, CounterTypes, SlotTypes,
          NoWaiterWhileIdle, ReservationsBounded, queueVars, internalVars,
          innerVars, consumerVars, slotVars, clientVars
    <2>2. ChannelTypes'
      BY <1>27, EmptySeq DEF CloseCheckouts, ChannelTypes, internalVars
    <2>3. ConsumerTypes'
      BY <1>27 DEF CloseCheckouts, ConsumerTypes, ConsumerSteps
    <2>4. ClientTypes'
      BY <1>27, DropSendersTypes DEF CloseCheckouts
    <2>5. ConsumerOK'
      BY <1>27 DEF CloseCheckouts, ConsumerOK, innerVars
    <2>6. HoldersOK'
      BY <1>27, DropSendersTypes DEF CloseCheckouts
    <2> QED
      BY <2>1, <2>2, <2>3, <2>4, <2>5, <2>6
  <1>28. ASSUME DropInnerPool
        PROVE  IInv'
    <2>1. /\ pool' \in {"alive", "dropped"} /\ ticker' \in BOOLEAN
          /\ ChannelTypes'
      BY <1>28
      DEF DropInnerPool, ChannelTypes, queueVars, internalVars, innerVars,
          consumerVars, slotVars, clientVars
    <2>2. InnerTypes'
      BY <1>28, EmptySeq DEF DropInnerPool, InnerTypes
    <2>3. CounterTypes'
      <3>1. /\ 0 \in Int
            /\ counters.idle - Len(idle) \in Int
            /\ counters.connections - Len(idle) \in Int
        BY CountFields, LenProperties DEF CounterTypes, InnerTypes
      <3> QED
        BY <1>28, <3>1, CountUpdates DEF DropInnerPool, CounterTypes
    <2>4. ConsumerTypes'
      BY <1>28 DEF DropInnerPool, ConsumerTypes, ConsumerSteps
    <2>5. SlotTypes'
      BY <1>28, RangeTypes DEF DropInnerPool, SlotTypes, InnerTypes
    <2>6. ClientTypes'
      BY <1>28, DropSendersTypes DEF DropInnerPool
    <2>7. ConsumerOK'
      BY <1>28 DEF DropInnerPool, ConsumerOK
    <2>8. HoldersOK'
      BY <1>28, DropSendersTypes DEF DropInnerPool
    <2>9. NoWaiterWhileIdle'
      BY <1>28 DEF DropInnerPool, NoWaiterWhileIdle
    <2>10. ReservationsBounded'
      BY <1>28, EmptySeq, SizeAssumption
      DEF DropInnerPool, ReservationsBounded
    <2> QED
      BY <2>1, <2>2, <2>3, <2>4, <2>5, <2>6, <2>7, <2>8, <2>9, <2>10
  <1>29. ASSUME UNCHANGED vars
        PROVE  IInv'
    BY <1>29
    DEF vars, queueVars, internalVars, innerVars, consumerVars, slotVars,
        clientVars, ChannelTypes, InnerTypes, CounterTypes, ConsumerTypes,
        SlotTypes, ClientTypes, ConsumerOK, HoldersOK, NoWaiterWhileIdle,
        ReservationsBounded
  <1> QED
    BY <1>1, <1>2, <1>3, <1>4, <1>5, <1>6, <1>7, <1>8, <1>9, <1>10, <1>11,
       <1>12, <1>13, <1>14, <1>15, <1>16, <1>17, <1>18, <1>19, <1>20, <1>21,
       <1>22, <1>23, <1>24, <1>25, <1>26, <1>27, <1>28, <1>29
    DEF Next, Client, Creation, ProcessInternal, Process

-----------------------------------------------------------------------------
(* The theorems.                                                           *)

\* In every behaviour the invariant holds at every step.
THEOREM Invariance == Spec => []IInv
  BY InitInv, NextInv, PTL DEF Spec

\* Every variable has its type, and the handlers never take a connection from
\* an answer, a message or their own hands that is not there.
THEOREM TypeCorrect == Spec => []TypeOK
  BY Invariance, PTL DEF IInv

\* check_in, check_out and cleanup_reservations together never leave a
\* connection idle while a reservation waits, for any number of slots and
\* checkouts, any sizes of the queues and both activation orders.
THEOREM NoWaiterIsLeft == Spec => []NoWaiterWhileIdle
  BY Invariance, PTL DEF IInv

\* create_reservation never lets the queue outgrow its allocation.
THEOREM ReservationsStayBounded == Spec => []ReservationsBounded
  BY Invariance, PTL DEF IInv
=============================================================================
