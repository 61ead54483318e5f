------------------------- MODULE PoolRequests_proofs -------------------------
(***************************************************************************)
(* Proof that PoolInternal never forgets a checkout: as long as a future   *)
(* is unresolved exactly the sender that will answer it exists, and those  *)
(* that wait keep their order, for any number of slots and checkouts and   *)
(* any sizes of the queues.                                                *)
(***************************************************************************)
EXTENDS PoolInternal_proofs

-----------------------------------------------------------------------------
(* Sequences without repetitions.                                          *)

Distinct(s) == \A i, j \in 1..Len(s) : s[i] = s[j] => i = j

\* The elements of a sequence.
LEMMA RangeIs ==
  ASSUME NEW S, NEW s \in Seq(S)
  PROVE  /\ Range(s) \in SUBSET S
         /\ \A x : x \in Range(s) <=> \E i \in 1..Len(s) : s[i] = x
  BY LenProperties DEF Range

\* A new element at the end.
LEMMA AppendDistinct ==
  ASSUME NEW S, NEW s \in Seq(S), NEW e \in S, Distinct(s), e \notin Range(s)
  PROVE  /\ Distinct(Append(s, e))
         /\ Range(Append(s, e)) = Range(s) \cup {e}
  <1> DEFINE t == Append(s, e)
  <1>1. /\ t \in Seq(S) /\ Len(t) = Len(s) + 1 /\ Len(s) \in Nat
        /\ \A i \in 1..Len(s) : t[i] = s[i]
        /\ t[Len(s) + 1] = e
    BY AppendProperties, LenProperties
  <1>2. /\ \A x : x \in Range(s) <=> \E i \in 1..Len(s) : s[i] = x
        /\ \A x : x \in Range(t) <=> \E i \in 1..Len(t) : t[i] = x
    BY <1>1, RangeIs
  <1> HIDE DEF t
  <1>3. Distinct(t)
    BY <1>1, <1>2 DEF Distinct
  <1>4. ASSUME NEW x
        PROVE  x \in Range(t) <=> x \in Range(s) \cup {e}
    BY <1>1, <1>2
  <1>5. Range(t) = Range(s) \cup {e}
    BY <1>4
  <1> QED
    BY <1>3, <1>5 DEF t

\* The first element is taken.
LEMMA TailDistinct ==
  ASSUME NEW S, NEW s \in Seq(S), s # <<>>, Distinct(s)
  PROVE  /\ Head(s) \in Range(s)
         /\ Distinct(Tail(s))
         /\ Range(Tail(s)) = Range(s) \ {Head(s)}
  <1> DEFINE t == Tail(s)
             n == Len(s)
  <1>1. /\ t \in Seq(S) /\ Len(t) = n - 1 /\ n \in Nat /\ n >= 1
        /\ \A i \in 1..(n - 1) : t[i] = s[i + 1]
        /\ Head(s) = s[1]
    BY HeadTailProperties, LenProperties, EmptySeq
  <1>2. /\ \A x : x \in Range(s) <=> \E i \in 1..n : s[i] = x
        /\ \A x : x \in Range(t) <=> \E i \in 1..Len(t) : t[i] = x
    BY <1>1, RangeIs
  <1>d. \A i, j \in 1..n : s[i] = s[j] => i = j
    BY DEF Distinct
  <1> HIDE DEF t, n
  <1>3. Distinct(t)
    BY <1>1, <1>d DEF Distinct
  <1>4. ASSUME NEW x
        PROVE  x \in Range(t) <=> x \in Range(s) \ {s[1]}
    <2>1. ASSUME x \in Range(t)
          PROVE  x \in Range(s) \ {s[1]}
      <3>1. PICK i \in 1..(n - 1) : t[i] = x
        BY <1>1, <1>2, <2>1
      <3>2. i + 1 \in 1..n /\ 1 \in 1..n /\ s[i + 1] = x /\ i + 1 # 1
        BY <1>1, <3>1
      <3> QED
        BY <1>2, <1>d, <3>2
    <2>2. ASSUME x \in Range(s) \ {s[1]}
          PROVE  x \in Range(t)
      <3>1. PICK i \in 1..n : s[i] = x
        BY <1>2, <2>2
      <3>2. i # 1
        BY <2>2, <3>1
      <3>3. i - 1 \in 1..(n - 1) /\ t[i - 1] = x
        BY <1>1, <3>1, <3>2
      <3> QED
        BY <1>1, <1>2, <3>3
    <2> QED
      BY <2>1, <2>2
  <1>5. Range(t) = Range(s) \ {Head(s)}
    BY <1>1, <1>4
  <1>6. Head(s) \in Range(s)
    BY <1>1, <1>2
  <1> QED
    BY <1>3, <1>5, <1>6 DEF t

\* One element is removed.
LEMMA RemoveDistinct ==
  ASSUME NEW S, NEW s \in Seq(S), NEW k \in 1..Len(s), Distinct(s)
  PROVE  /\ Distinct(RemoveAt(s, k))
         /\ Range(RemoveAt(s, k)) = Range(s) \ {s[k]}
  <1> DEFINE t == RemoveAt(s, k)
             n == Len(s)
  <1>1. /\ t \in Seq(S) /\ Len(t) = n - 1 /\ n \in Nat /\ k \in 1..n
        /\ \A j \in 1..(n - 1) : t[j] = IF j < k THEN s[j] ELSE s[j + 1]
    BY RemoveAtProperties, LenProperties
  <1>2. /\ \A x : x \in Range(s) <=> \E i \in 1..n : s[i] = x
        /\ \A x : x \in Range(t) <=> \E i \in 1..Len(t) : t[i] = x
    BY <1>1, RangeIs
  <1>d. \A i, j \in 1..n : s[i] = s[j] => i = j
    BY DEF Distinct
  <1> HIDE DEF t, n
  <1>3. Distinct(t)
    BY <1>1, <1>d DEF Distinct
  <1>4. ASSUME NEW x
        PROVE  x \in Range(t) <=> x \in Range(s) \ {s[k]}
    <2>1. ASSUME x \in Range(t)
          PROVE  x \in Range(s) \ {s[k]}
      <3>1. PICK i \in 1..(n - 1) : t[i] = x
        BY <1>1, <1>2, <2>1
      <3>2. CASE i < k
        <4>1. i \in 1..n /\ s[i] = x /\ i # k
          BY <1>1, <3>1, <3>2
        <4> QED
          BY <1>1, <1>2, <1>d, <4>1
      <3>3. CASE i >= k
        <4>1. i + 1 \in 1..n /\ s[i + 1] = x /\ i + 1 # k
          BY <1>1, <3>1, <3>3
        <4> QED
          BY <1>1, <1>2, <1>d, <4>1
      <3> QED
        BY <1>1, <3>2, <3>3
    <2>2. ASSUME x \in Range(s) \ {s[k]}
          PROVE  x \in Range(t)
      <3>1. PICK i \in 1..n : s[i] = x
        BY <1>2, <2>2
      <3>2. i # k
        BY <2>2, <3>1
      <3>3. CASE i < k
        <4>1. i \in 1..(n - 1) /\ t[i] = x
          BY <1>1, <3>1, <3>3
        <4> QED
          BY <1>1, <1>2, <4>1
      <3>4. CASE i > k
        <4>1. i - 1 \in 1..(n - 1) /\ t[i - 1] = x
          BY <1>1, <3>1, <3>4
        <4> QED
          BY <1>1, <1>2, <4>1
      <3> QED
        BY <1>1, <3>2, <3>3, <3>4
    <2> QED
      BY <2>1, <2>2
  <1>5. Range(t) = Range(s) \ {s[k]}
    BY <1>4
  <1> QED
    BY <1>3, <1>5 DEF t

-----------------------------------------------------------------------------
(* The requests in the checkout channel.                                   *)

RequestsOf(s) == [i \in DOMAIN s |-> s[i].request]

\* They are as many as the payloads, in the same order.
LEMMA RequestsOfPayloads ==
  ASSUME NEW s \in Seq(Payloads)
  PROVE  /\ RequestsOf(s) \in Seq(Requests)
         /\ Len(RequestsOf(s)) = Len(s)
         /\ \A i \in 1..Len(s) : RequestsOf(s)[i] = s[i].request
         /\ Range(RequestsOf(s)) = {s[i].request : i \in DOMAIN s}
  <1>1. /\ Len(s) \in Nat /\ DOMAIN s = 1..Len(s)
        /\ \A i \in 1..Len(s) : s[i].request \in Requests
    <2>1. \A i \in 1..Len(s) : s[i] \in Payloads
      BY ElementOfSeq
    <2> QED
      BY <2>1, LenProperties DEF Payloads
  <1>2. RequestsOf(s) \in [1..Len(s) -> Requests]
    BY <1>1 DEF RequestsOf
  <1>3. RequestsOf(s) \in Seq(Requests) /\ Len(RequestsOf(s)) = Len(s)
    BY <1>1, <1>2
  <1>4. \A i \in 1..Len(s) : RequestsOf(s)[i] = s[i].request
    BY <1>1 DEF RequestsOf
  <1>5. Range(RequestsOf(s)) = {s[i].request : i \in DOMAIN s}
    BY DEF Range, RequestsOf
  <1> QED
    BY <1>3, <1>4, <1>5

\* A payload was sent.
LEMMA RequestsOfAppend ==
  ASSUME NEW s \in Seq(Payloads), NEW p \in Payloads
  PROVE  RequestsOf(Append(s, p)) = Append(RequestsOf(s), p.request)
  <1> DEFINE t == Append(s, p)
             a == RequestsOf(t)
             q == RequestsOf(s)
             b == Append(q, p.request)
  <1>1. p.request \in Requests
    BY DEF Payloads
  <1>2. /\ t \in Seq(Payloads) /\ Len(t) = Len(s) + 1 /\ Len(s) \in Nat
        /\ \A i \in 1..Len(s) : t[i] = s[i]
        /\ t[Len(s) + 1] = p
    BY AppendProperties, LenProperties
  <1>3. /\ q \in Seq(Requests) /\ Len(q) = Len(s)
        /\ \A i \in 1..Len(s) : q[i] = s[i].request
    BY RequestsOfPayloads
  <1>4. /\ b \in Seq(Requests) /\ Len(b) = Len(s) + 1
        /\ \A i \in 1..Len(s) : b[i] = q[i]
        /\ b[Len(s) + 1] = p.request
    BY <1>1, <1>3, AppendProperties
  <1>5. /\ a \in Seq(Requests) /\ Len(a) = Len(t)
        /\ \A i \in 1..Len(t) : a[i] = t[i].request
    BY <1>2, RequestsOfPayloads
  <1> HIDE DEF t, a, b, q
  <1>6. \A i \in 1..Len(a) : a[i] = b[i]
    BY <1>2, <1>3, <1>4, <1>5
  <1>7. a = b
    BY <1>2, <1>4, <1>5, <1>6, SeqEqual
  <1> QED
    BY <1>7 DEF t, a, b, q

\* A payload was received.
LEMMA RequestsOfTail ==
  ASSUME NEW s \in Seq(Payloads), s # <<>>
  PROVE  /\ RequestsOf(s) # <<>>
         /\ RequestsOf(Tail(s)) = Tail(RequestsOf(s))
         /\ Head(RequestsOf(s)) = Head(s).request
  <1> DEFINE t == Tail(s)
             a == RequestsOf(t)
             q == RequestsOf(s)
             b == Tail(q)
  <1>1. /\ t \in Seq(Payloads) /\ Len(t) = Len(s) - 1
        /\ Len(s) \in Nat /\ Len(s) >= 1
        /\ \A i \in 1..(Len(s) - 1) : t[i] = s[i + 1]
        /\ Head(s) = s[1]
    BY HeadTailProperties, LenProperties, EmptySeq
  <1>2. /\ q \in Seq(Requests) /\ Len(q) = Len(s)
        /\ \A i \in 1..Len(s) : q[i] = s[i].request
    BY RequestsOfPayloads
  <1>3. q # <<>>
    BY <1>1, <1>2, EmptySeq
  <1>4. /\ b \in Seq(Requests) /\ Len(b) = Len(s) - 1
        /\ \A i \in 1..(Len(s) - 1) : b[i] = q[i + 1]
        /\ Head(q) = q[1]
    BY <1>2, <1>3, HeadTailProperties
  <1>5. /\ a \in Seq(Requests) /\ Len(a) = Len(t)
        /\ \A i \in 1..Len(t) : a[i] = t[i].request
    BY <1>1, RequestsOfPayloads
  <1> HIDE DEF t, a, b, q
  <1>6. ASSUME NEW i \in 1..Len(a)
        PROVE  a[i] = b[i]
    <2>1. i \in 1..(Len(s) - 1) /\ i \in 1..Len(t) /\ i + 1 \in 1..Len(s)
      BY <1>1, <1>5
    <2> QED
      BY <1>1, <1>2, <1>4, <1>5, <2>1
  <1>7. a = b
    BY <1>1, <1>4, <1>5, <1>6, SeqEqual
  <1>8. Head(q) = Head(s).request
    BY <1>1, <1>2, <1>4
  <1> QED
    BY <1>3, <1>7, <1>8 DEF t, a, b, q
-----------------------------------------------------------------------------
(* Where the sender of a checkout is.                                      *)

Queued   == Range(RequestsOf(checkouts))
Reserved == Range(reservations)
Served   == IF serving = None THEN {} ELSE {serving.request}
Senders  == Queued \cup Reserved \cup Served

\* A request has one sender: it is in one place, and there only once.
OneSender ==
  /\ Distinct(RequestsOf(checkouts))
  /\ Distinct(reservations)
  /\ Queued \cap Reserved = {}
  /\ Served \cap (Queued \cup Reserved) = {}

\* An unresolved future without an answer still has its sender, and a sender
\* that was used up has left an answer.
Unforgotten ==
  \A r \in Requests : ~IsClosed(r) => (answer[r] = None <=> r \in Senders)

\* Before a checkout there is no answer for it.
FreeOK == \A r \in Requests : phase[r] = "free" => answer[r] = None

RInv == OneSender /\ Unforgotten /\ FreeOK

\* SenderAlive, which the model uses as a guard and states NoLostRequest with,
\* is membership in Senders.
LEMMA AliveIsSender ==
  ASSUME TypeOK, NEW r
  PROVE  SenderAlive(r) <=> r \in Senders
  <1>1. r \in Queued <=> \E i \in DOMAIN checkouts : checkouts[i].request = r
    BY RequestsOfPayloads DEF TypeOK, ChannelTypes, Queued
  <1>2. r \in Reserved <=> \E i \in DOMAIN reservations : reservations[i] = r
    BY DEF Reserved, Range
  <1> QED
    BY <1>1, <1>2 DEF SenderAlive, Senders, Served

\* A step that leaves the senders and the clients alone.
LEMMA Quiet ==
  ASSUME RInv, UNCHANGED <<checkouts, reservations, serving, phase, answer>>
  PROVE  RInv'
  BY DEF RInv, OneSender, Unforgotten, FreeOK, Senders, Queued, Reserved,
         Served,
         IsClosed

\* No answer is sent, and senders disappear only where the future is gone.
LEMMA Unanswered ==
  ASSUME Unforgotten, FreeOK, UNCHANGED <<phase, answer>>,
         Senders' \in SUBSET Senders,
         \A r \in Senders \ Senders' : IsClosed(r)
  PROVE  Unforgotten' /\ FreeOK'
  BY DEF Unforgotten, FreeOK, IsClosed

\* An answer uses up its sender.
LEMMA Answered ==
  ASSUME Unforgotten, FreeOK, ClientTypes, UNCHANGED phase,
         NEW r \in Requests, NEW a, a # None, Send(r, a),
         Senders' = Senders \ {r}
  PROVE  Unforgotten' /\ FreeOK'
  <1>1. \A q \in Requests :
          answer'[q] = IF q = r /\ ~IsClosed(q) THEN a ELSE answer[q]
    BY DEF Send, ClientTypes
  <1>2. \A q \in Requests : IsClosed(q)' <=> IsClosed(q)
    BY DEF IsClosed
  <1>3. Unforgotten'
    BY <1>1, <1>2 DEF Unforgotten
  <1>4. FreeOK'
    BY <1>1 DEF FreeOK, IsClosed
  <1> QED
    BY <1>3, <1>4

\* Dropping senders answers the futures that still wait for them.
LEMMA Dropped ==
  ASSUME Unforgotten, FreeOK, UNCHANGED phase,
         NEW rs, DropSenders(rs), Senders' = Senders \ rs
  PROVE  Unforgotten' /\ FreeOK'
  <1>1. \A q \in Requests :
          answer'[q] = IF q \in rs /\ ~IsClosed(q) THEN "NoPool" ELSE answer[q]
    BY DEF DropSenders
  <1>2. \A q \in Requests : IsClosed(q)' <=> IsClosed(q)
    BY DEF IsClosed
  <1>3. "NoPool" # None
    BY NoneAssumption DEF Errors
  <1>4. Unforgotten'
    BY <1>1, <1>2, <1>3 DEF Unforgotten
  <1>5. FreeOK'
    BY <1>1 DEF FreeOK, IsClosed
  <1> QED
    BY <1>4, <1>5

\* The checkout that is processed is answered.
LEMMA ServingEnds ==
  ASSUME OneSender, serving # None, serving' = None,
         UNCHANGED <<checkouts, reservations>>
  PROVE  OneSender' /\ Senders' = Senders \ {serving.request}
  BY DEF OneSender, Senders, Queued, Reserved, Served

\* The checkout that is processed becomes a reservation.
LEMMA ServingReserved ==
  ASSUME InnerTypes, OneSender, serving # None, serving' = None,
         serving.request \in Requests, Enqueue(serving.request),
         UNCHANGED checkouts
  PROVE  OneSender' /\ Senders' = Senders
  <1>1. serving.request \notin Reserved /\ serving.request \notin Queued
    BY DEF OneSender, Served
  <1>2. /\ Distinct(reservations')
        /\ Reserved' = Reserved \cup {serving.request}
    BY <1>1, AppendDistinct DEF InnerTypes, OneSender, Reserved, Enqueue
  <1>3. Queued' = Queued /\ Distinct(RequestsOf(checkouts))'
    BY DEF Queued, OneSender
  <1>4. Served' = {} /\ Served = {serving.request}
    BY DEF Served
  <1> QED
    BY <1>1, <1>2, <1>3, <1>4 DEF OneSender, Senders
-----------------------------------------------------------------------------
(* The invariant.                                                          *)

\* A new pool has no senders and no answers.
LEMMA InitRequests == Init => RInv
  <1> SUFFICES ASSUME Init
               PROVE  RInv
    OBVIOUS
  <1>1. Senders = {} /\ Queued = {} /\ Reserved = {} /\ Served = {}
    BY DEF Init, InitCommon, Senders, Queued, Reserved, Served, Range,
           RequestsOf
  <1>2. /\ RequestsOf(checkouts) \in Seq(Requests)
        /\ Len(RequestsOf(checkouts)) = 0
    BY InitInv, RequestsOfPayloads, EmptySeq
    DEF Init, InitCommon, IInv, TypeOK, ChannelTypes
  <1>3. OneSender
    BY <1>1, <1>2, EmptySeq DEF Init, InitCommon, OneSender, Distinct
  <1>4. Unforgotten /\ FreeOK
    BY DEF Init, InitCommon, Unforgotten, FreeOK, IsClosed
  <1> QED
    BY <1>3, <1>4 DEF RInv

\* Every step of clients, tasks, ticker and consumer keeps it.
LEMMA NextRequests == IInv /\ RInv /\ [Next]_vars => RInv'
  <1> SUFFICES ASSUME IInv, RInv, [Next]_vars
               PROVE  RInv'
    OBVIOUS
  <1> USE DEF IInv, TypeOK, RInv
  <1>s. ASSUME UNCHANGED <<checkouts, reservations, serving>>
        PROVE  OneSender' /\ Senders' = Senders
    BY <1>s DEF OneSender, Senders, Queued, Reserved, Served
  <1>1. ASSUME NEW r \in Requests, NEW m \in Modes, CheckOut(r, m)
        PROVE  RInv'
    <2>1. ASSUME NEW e \in Errors, Refuse(r, e)
          PROVE  RInv'
      <3>1. OneSender' /\ Senders' = Senders
        BY <1>1, <1>s, <2>1
        DEF CheckOut, Refuse, queueVars, innerVars, consumerVars
      <3>2. e # None
        BY NoneAssumption
      <3> QED
        BY <1>1, <2>1, <3>1, <3>2
        DEF CheckOut, Refuse, ClientTypes, Unforgotten, FreeOK, IsClosed
    <2>2. ASSUME checkouts' = Append(checkouts, Payload(r, m)),
                 phase' = [phase EXCEPT ![r] = "pending"],
                 UNCHANGED answer
          PROVE  RInv'
      <3>1. Payload(r, m) \in Payloads /\ Payload(r, m).request = r
        BY DEF Payload, Payloads
      <3>2. RequestsOf(checkouts)' = Append(RequestsOf(checkouts), r)
        BY <2>2, <3>1, RequestsOfAppend DEF ChannelTypes
      <3>3. r \notin Senders
        BY <1>1, AliveIsSender DEF CheckOut
      <3>4. RequestsOf(checkouts) \in Seq(Requests)
        BY RequestsOfPayloads DEF ChannelTypes
      <3>5. /\ Distinct(RequestsOf(checkouts)')
            /\ Queued' = Queued \cup {r}
        BY <3>2, <3>3, <3>4, AppendDistinct DEF OneSender, Senders, Queued
      <3>6. Reserved' = Reserved /\ Served' = Served /\ UNCHANGED reservations
        BY <1>1 DEF CheckOut, Reserved, Served, innerVars, consumerVars
      <3>7. OneSender' /\ Senders' = Senders \cup {r}
        BY <3>3, <3>5, <3>6 DEF OneSender, Senders
      <3> QED
        BY <1>1, <2>2, <3>7
        DEF CheckOut, ClientTypes, Unforgotten, FreeOK, IsClosed
    <2> QED
      BY <1>1, <2>1, <2>2 DEF CheckOut, Errors
  <1>2. ASSUME NEW r \in Requests,
               Poll(r) \/ TimeOut(r) \/ StartCommand(r) \/ CommandDone(r)
        PROVE  RInv'
    <2>1. OneSender' /\ Senders' = Senders
      BY <1>2, <1>s DEF Poll, TimeOut, StartCommand, CommandDone, queueVars,
                        innerVars, consumerVars
    <2> QED
      BY <1>2, <2>1 DEF Poll, TimeOut, StartCommand, CommandDone, ClientTypes,
                        Unforgotten, FreeOK, IsClosed
  <1>3. ASSUME NEW r \in Requests,
               DropFuture(r) \/ DropConnection(r) \/ DropBroken(r)
        PROVE  RInv'
    <2>1. OneSender' /\ Senders' = Senders
      BY <1>3, <1>s DEF DropFuture, DropConnection, DropBroken, queueVars,
                        innerVars, consumerVars
    <2> QED
      BY <1>3, <2>1 DEF DropFuture, DropConnection, DropBroken, ClientTypes,
                        Unforgotten, FreeOK, IsClosed
  <1>4. ASSUME DropPool \/ Tick \/ \E c \in Conns : Creation(c)
        PROVE  RInv'
    BY <1>4, Quiet
    DEF DropPool, Tick, Creation, Probe, Connected, ConnectFailed,
                       queueVars, innerVars, consumerVars, clientVars
  <1>5. ASSUME \/ ProcessCheckIn \/ ProcessCheckAlive
               \/ ProcessCleanup \/ ProcessStop
        PROVE  RInv'
    BY <1>5, Quiet DEF ProcessCheckIn, ProcessCheckAlive, ProcessCleanup,
                       ProcessStop, queueVars, innerVars, consumerVars,
                       clientVars
  <1>6. ASSUME Fulfilled \/ NoneFulfilled \/ Delivered
        PROVE  RInv'
    BY <1>6, Quiet
    DEF Fulfilled, NoneFulfilled, Delivered, queueVars, innerVars,
                       clientVars
  <1>7. ASSUME ProcessCheckOut
        PROVE  RInv'
    <2> DEFINE p == Head(checkouts)
               q == RequestsOf(checkouts)
    <2>1. /\ p \in Payloads /\ p # None /\ p.request = Head(q)
          /\ q \in Seq(Requests) /\ q # <<>>
          /\ RequestsOf(checkouts)' = Tail(q)
      BY <1>7, HeadTailProperties, RequestsOfPayloads, RequestsOfTail,
         NoPayload
      DEF ProcessCheckOut, ChannelTypes
    <2>2. /\ p.request \in Queued
          /\ Distinct(RequestsOf(checkouts)')
          /\ Queued' = Queued \ {p.request}
      BY <2>1, TailDistinct DEF OneSender, Queued
    <2>3. Served = {} /\ Reserved' = Reserved /\ UNCHANGED reservations
      BY <1>7 DEF ProcessCheckOut, ConsumerOK, Served, Reserved, innerVars
    <2>4. UNCHANGED <<phase, answer>>
      BY <1>7 DEF ProcessCheckOut, clientVars
    <2> HIDE DEF p, q
    <2>5. CASE IsClosed(p.request)
      <3>1. Served' = {}
        BY <1>7, <2>3, <2>5 DEF ProcessCheckOut, Served, consumerVars, p
      <3>2. OneSender' /\ Senders' = Senders \ {p.request}
        BY <2>2, <2>3, <3>1 DEF OneSender, Senders
      <3> QED
        BY <2>4, <2>5, <3>2, Unanswered
    <2>6. CASE ~IsClosed(p.request)
      <3>1. Served' = {p.request}
        BY <1>7, <2>1, <2>6 DEF ProcessCheckOut, Served, p
      <3>2. OneSender' /\ Senders' = Senders
        BY <2>2, <2>3, <3>1 DEF OneSender, Senders
      <3> QED
        BY <2>4, <3>2, Unanswered
    <2> QED
      BY <2>5, <2>6
  <1>8. ASSUME TryFulfill
        PROVE  RInv'
    <2> DEFINE r == Head(reservations)
    <2>1. r \in Requests /\ carried # None
      BY <1>8, HeadTailProperties DEF TryFulfill, InnerTypes, ConsumerOK
    <2>2. /\ r \in Reserved
          /\ Distinct(reservations')
          /\ Reserved' = Reserved \ {r}
      BY <1>8, TailDistinct DEF TryFulfill, InnerTypes, OneSender, Reserved
    <2>3. Queued' = Queued /\ Served' = Served /\ UNCHANGED checkouts
      BY <1>8 DEF TryFulfill, Queued, Served, queueVars, consumerVars
    <2>4. Send(r, carried) /\ UNCHANGED phase
      BY <1>8 DEF TryFulfill
    <2> HIDE DEF r
    <2>5. OneSender' /\ Senders' = Senders \ {r}
      BY <2>2, <2>3 DEF OneSender, Senders
    <2> QED
      BY <2>1, <2>4, <2>5, Answered
  <1>9. ASSUME DeliverIdle
        PROVE  RInv'
    <2>1. serving # None /\ serving.request \in Requests
      BY <1>9 DEF DeliverIdle, ConsumerOK, ConsumerTypes, Payloads
    <2>2. OneSender' /\ Senders' = Senders \ {serving.request}
      BY <1>9, <2>1, ServingEnds DEF DeliverIdle, queueVars
    <2>3. NextIdle(idle) # None
      BY <1>9, IdleProperties, NoneAssumption DEF DeliverIdle, InnerTypes
    <2>4. Send(serving.request, NextIdle(idle)) /\ UNCHANGED phase
      BY <1>9 DEF DeliverIdle
    <2> QED
      BY <2>1, <2>2, <2>3, <2>4, Answered
  <1>10. ASSUME serving # None, serving' = None,
                UNCHANGED <<checkouts, reservations, phase>>,
                NEW e \in Errors, Send(serving.request, e)
         PROVE  RInv'
    <2>1. OneSender' /\ Senders' = Senders \ {serving.request}
      BY <1>10, ServingEnds
    <2>2. serving.request \in Requests /\ e # None
      BY <1>10, NoneAssumption DEF ConsumerTypes, Payloads
    <2> QED
      BY <1>10, <2>1, <2>2, Answered
  <1>11. ASSUME serving # None, serving' = None, Enqueue(serving.request),
                UNCHANGED <<checkouts, phase, answer>>
         PROVE  RInv'
    <2>1. serving.request \in Requests
      BY <1>11 DEF ConsumerTypes, Payloads
    <2>2. OneSender' /\ Senders' = Senders
      BY <1>11, <2>1, ServingReserved
    <2> QED
      BY <1>11, <2>2, Unanswered
  <1>12. ASSUME NoIdle
         PROVE  RInv'
    <2>1. serving # None /\ UNCHANGED <<checkouts, phase>>
      BY <1>12 DEF NoIdle, ConsumerOK, queueVars
    <2>2. CASE serving' = None /\ Send(serving.request, "NoConnection")
               /\ UNCHANGED reservations
      BY <1>10, <2>1, <2>2 DEF Errors
    <2>3. CASE serving' = None /\ Enqueue(serving.request) /\ UNCHANGED answer
      BY <1>11, <2>1, <2>3
    <2>4. CASE UNCHANGED <<reservations, answer, serving>>
      BY <2>1, <2>4, Quiet
    <2> QED
      BY <1>12, <2>2, <2>3, <2>4 DEF NoIdle
  <1>13. ASSUME CleanupDone
         PROVE  RInv'
    <2>1. serving' = None /\ UNCHANGED <<checkouts, phase>>
      BY <1>13 DEF CleanupDone, queueVars
    <2>2. CASE serving = None /\ UNCHANGED <<reservations, answer>>
      BY <2>1, <2>2, Quiet
    <2>3. CASE serving # None /\ UNCHANGED reservations
               /\ Send(serving.request, "ReservationLimitReached")
      BY <1>10, <2>1, <2>3 DEF Errors
    <2>4. CASE serving # None /\ Enqueue(serving.request) /\ UNCHANGED answer
      BY <1>11, <2>1, <2>4
    <2> QED
      BY <1>13, <2>2, <2>3, <2>4 DEF CleanupDone
  <1>14. ASSUME CleanupStep
         PROVE  RInv'
    <2>1. /\ scan \in 1..Len(reservations)
          /\ UNCHANGED <<checkouts, serving, phase, answer>>
      BY <1>14, LenProperties
      DEF CleanupStep, ConsumerTypes, InnerTypes, queueVars, clientVars
    <2>2. CASE ~IsClosed(reservations[scan])
      BY <1>14, <2>1, <2>2, Quiet DEF CleanupStep
    <2>3. CASE IsClosed(reservations[scan])
      <3> DEFINE r == reservations[scan]
      <3>1. /\ Distinct(reservations')
            /\ Reserved' = Reserved \ {r}
        BY <1>14, <2>1, <2>3, RemoveDistinct
        DEF CleanupStep, InnerTypes, OneSender, Reserved
      <3>2. Queued' = Queued /\ Served' = Served
        BY <2>1 DEF Queued, Served
      <3> HIDE DEF r
      <3>3. OneSender' /\ Senders' \in SUBSET Senders
            /\ \A q \in Senders \ Senders' : q = r
        BY <2>1, <3>1, <3>2 DEF OneSender, Senders
      <3>4. IsClosed(r)
        BY <2>3 DEF r
      <3> QED
        BY <2>1, <3>3, <3>4, Unanswered
    <2> QED
      BY <2>2, <2>3
  <1>15. ASSUME CloseCheckouts
         PROVE  RInv'
    <2>1. Queued = {checkouts[i].request : i \in DOMAIN checkouts}
      BY RequestsOfPayloads DEF ChannelTypes, Queued
    <2>2. DropSenders(Queued) /\ UNCHANGED <<reservations, serving, phase>>
      BY <1>15, <2>1 DEF CloseCheckouts, innerVars
    <2>3. Queued' = {} /\ Distinct(RequestsOf(checkouts)')
      BY <1>15, EmptySeq
      DEF CloseCheckouts, Queued, RequestsOf, Range, Distinct
    <2>4. Reserved' = Reserved /\ Served' = Served
      BY <2>2 DEF Reserved, Served
    <2>5. OneSender' /\ Senders' = Senders \ Queued
      BY <2>2, <2>3, <2>4 DEF OneSender, Senders
    <2> QED
      BY <2>2, <2>5, Dropped
  <1>16. ASSUME DropInnerPool
         PROVE  RInv'
    <2>1. DropSenders(Reserved) /\ UNCHANGED <<checkouts, serving, phase>>
      BY <1>16 DEF DropInnerPool, Reserved, queueVars
    <2>2. Reserved' = {} /\ Distinct(reservations')
      BY <1>16, EmptySeq DEF DropInnerPool, Reserved, Range, Distinct
    <2>3. Queued' = Queued /\ Served' = Served
      BY <2>1 DEF Queued, Served
    <2>4. OneSender' /\ Senders' = Senders \ Reserved
      BY <2>1, <2>2, <2>3 DEF OneSender, Senders
    <2> QED
      BY <2>1, <2>4, Dropped
  <1>17. ASSUME UNCHANGED vars
         PROVE  RInv'
    BY <1>17, Quiet DEF vars, queueVars, innerVars, consumerVars, clientVars
  <1> QED
    BY <1>1, <1>2, <1>3, <1>4, <1>5, <1>6, <1>7, <1>8, <1>9, <1>12, <1>13,
       <1>14, <1>15, <1>16, <1>17
    DEF Next, Client, ProcessInternal, Process

-----------------------------------------------------------------------------
(* The line of the checkouts.                                              *)

\* q comes before r in a sequence.
InOrder(s, q, r) == \E i, j \in 1..Len(s) : i < j /\ s[i] = q /\ s[j] = r

\* A new element at the end comes after all others.
LEMMA OrderAppend ==
  ASSUME NEW S, NEW s \in Seq(S), NEW e \in S, NEW q, NEW r,
         InOrder(Append(s, e), q, r)
  PROVE  InOrder(s, q, r) \/ (q \in Range(s) /\ r = e)
<1> DEFINE t == Append(s, e)
<1>1. /\ Len(t) = Len(s) + 1 /\ Len(s) \in Nat
      /\ \A i \in 1..Len(s) : t[i] = s[i]
      /\ t[Len(s) + 1] = e
  BY AppendProperties, LenProperties
<1>2. \A x : x \in Range(s) <=> \E i \in 1..Len(s) : s[i] = x
  BY RangeIs
<1>3. PICK i, j \in 1..Len(t) : i < j /\ t[i] = q /\ t[j] = r
  BY DEF InOrder
<1> HIDE DEF t
<1>4. i \in 1..Len(s) /\ (j \in 1..Len(s) \/ j = Len(s) + 1)
  BY <1>1, <1>3
<1> QED
  BY <1>1, <1>2, <1>3, <1>4 DEF InOrder

\* The first element was before all others, which keep their order.
LEMMA OrderTail ==
  ASSUME NEW S, NEW s \in Seq(S), s # <<>>, NEW q, NEW r
  PROVE  /\ InOrder(Tail(s), q, r) => InOrder(s, q, r)
         /\ r \in Range(Tail(s)) => InOrder(s, Head(s), r)
<1> DEFINE t == Tail(s)
           n == Len(s)
<1>1. /\ t \in Seq(S) /\ Len(t) = n - 1 /\ n \in Nat /\ n >= 1
      /\ \A i \in 1..(n - 1) : t[i] = s[i + 1]
      /\ Head(s) = s[1]
  BY HeadTailProperties, LenProperties, EmptySeq
<1>2. \A x : x \in Range(t) <=> \E i \in 1..Len(t) : t[i] = x
  BY <1>1, RangeIs
<1>3. \A i, j \in 1..n : i < j /\ s[i] = q /\ s[j] = r => InOrder(s, q, r)
  BY DEF InOrder
<1>4. \A i, j \in 1..n : i < j => InOrder(s, s[i], s[j])
  BY DEF InOrder
<1>5. ASSUME InOrder(t, q, r)
      PROVE  InOrder(s, q, r)
  <2>1. PICK i, j \in 1..Len(t) : i < j /\ t[i] = q /\ t[j] = r
    BY <1>5 DEF InOrder
  <2> HIDE DEF t, n
  <2>2. /\ i + 1 \in 1..n /\ j + 1 \in 1..n /\ i + 1 < j + 1
        /\ s[i + 1] = q /\ s[j + 1] = r
    BY <1>1, <2>1
  <2> QED
    BY <1>3, <2>2
<1>6. ASSUME r \in Range(t)
      PROVE  InOrder(s, Head(s), r)
  <2>1. PICK i \in 1..Len(t) : t[i] = r
    BY <1>2, <1>6
  <2> HIDE DEF t, n
  <2>2. 1 \in 1..n /\ i + 1 \in 1..n /\ 1 < i + 1 /\ s[i + 1] = r
    BY <1>1, <2>1
  <2> QED
    BY <1>1, <1>4, <2>2
<1> QED
  BY <1>5, <1>6

\* Removing an element keeps the order of the others.
LEMMA OrderRemove ==
  ASSUME NEW S, NEW s \in Seq(S), NEW k \in 1..Len(s), NEW q, NEW r,
         InOrder(RemoveAt(s, k), q, r)
  PROVE  InOrder(s, q, r)
<1> DEFINE t == RemoveAt(s, k)
           n == Len(s)
<1>1. /\ Len(t) = n - 1 /\ n \in Nat
      /\ \A j \in 1..(n - 1) : t[j] = IF j < k THEN s[j] ELSE s[j + 1]
  BY RemoveAtProperties, LenProperties
<1>2. PICK i, j \in 1..Len(t) : i < j /\ t[i] = q /\ t[j] = r
  BY DEF InOrder
<1> DEFINE i2 == IF i < k THEN i ELSE i + 1
           j2 == IF j < k THEN j ELSE j + 1
<1> HIDE DEF t
<1>3. i2 \in 1..n /\ j2 \in 1..n /\ i2 < j2
  BY <1>1, <1>2
<1>4. s[i2] = q /\ s[j2] = r
  BY <1>1, <1>2
<1> QED
  BY <1>3, <1>4 DEF InOrder

\* Everything in one sequence is before everything in the next.
LEMMA OrderConcat ==
  ASSUME NEW S, NEW s \in Seq(S), NEW t \in Seq(S), NEW q, NEW r
  PROVE  /\ InOrder(s \o t, q, r) <=>
              \/ InOrder(s, q, r) \/ InOrder(t, q, r)
              \/ q \in Range(s) /\ r \in Range(t)
         /\ Range(s \o t) = Range(s) \cup Range(t)
<1> DEFINE u == s \o t
           m == Len(s)
           n == Len(t)
<1>1. /\ u \in Seq(S) /\ Len(u) = m + n /\ m \in Nat /\ n \in Nat
      /\ \A i \in 1..(m + n) : u[i] = IF i <= m THEN s[i] ELSE t[i - m]
  BY ConcatProperties, LenProperties
<1>2. /\ \A x : x \in Range(s) <=> \E i \in 1..m : s[i] = x
      /\ \A x : x \in Range(t) <=> \E i \in 1..n : t[i] = x
      /\ \A x : x \in Range(u) <=> \E i \in 1..Len(u) : u[i] = x
  BY <1>1, RangeIs
<1>3. \A i \in 1..m : i \in 1..(m + n) /\ u[i] = s[i]
  BY <1>1
<1>4. \A i \in 1..n : m + i \in 1..(m + n) /\ u[m + i] = t[i]
  BY <1>1
<1>5. \A i \in 1..(m + n) : i \in 1..m \/ i - m \in 1..n
  BY <1>1
<1>6. /\ InOrder(u, q, r) <=>
           \E i, j \in 1..(m + n) : i < j /\ u[i] = q /\ u[j] = r
      /\ InOrder(s, q, r) <=>
           \E i, j \in 1..m : i < j /\ s[i] = q /\ s[j] = r
      /\ InOrder(t, q, r) <=>
           \E i, j \in 1..n : i < j /\ t[i] = q /\ t[j] = r
  BY <1>1 DEF InOrder
<1> HIDE DEF u, m, n
<1>7. ASSUME InOrder(u, q, r)
      PROVE  \/ InOrder(s, q, r) \/ InOrder(t, q, r)
             \/ q \in Range(s) /\ r \in Range(t)
  <2>1. PICK i, j \in 1..(m + n) : i < j /\ u[i] = q /\ u[j] = r
    BY <1>6, <1>7
  <2>2. CASE j \in 1..m
    <3>1. i \in 1..m /\ s[i] = q /\ s[j] = r
      BY <1>1, <2>1, <2>2
    <3> QED
      BY <1>6, <2>1, <2>2, <3>1
  <2>3. CASE i \notin 1..m
    <3>1. /\ i - m \in 1..n /\ j - m \in 1..n /\ i - m < j - m
          /\ t[i - m] = q /\ t[j - m] = r
      BY <1>1, <2>1, <2>3
    <3> QED
      BY <1>6, <3>1
  <2>4. CASE i \in 1..m /\ j \notin 1..m
    <3>1. s[i] = q /\ j - m \in 1..n /\ t[j - m] = r
      BY <1>1, <2>1, <2>4
    <3> QED
      BY <1>2, <2>4, <3>1
  <2> QED
    BY <2>2, <2>3, <2>4
<1>8. ASSUME InOrder(s, q, r)
      PROVE  InOrder(u, q, r)
  BY <1>3, <1>6, <1>8
<1>9. ASSUME InOrder(t, q, r)
      PROVE  InOrder(u, q, r)
  <2>1. PICK i, j \in 1..n : i < j /\ t[i] = q /\ t[j] = r
    BY <1>6, <1>9
  <2>2. m + i < m + j
    BY <1>1, <2>1
  <2> QED
    BY <1>4, <1>6, <2>1, <2>2
<1>10. ASSUME q \in Range(s), r \in Range(t)
       PROVE  InOrder(u, q, r)
  <2>1. PICK i \in 1..m : s[i] = q
    BY <1>2, <1>10
  <2>2. PICK j \in 1..n : t[j] = r
    BY <1>2, <1>10
  <2>3. i < m + j
    BY <1>1, <2>1, <2>2
  <2> QED
    BY <1>3, <1>4, <1>6, <2>1, <2>2, <2>3
<1>11. ASSUME NEW x
       PROVE  x \in Range(u) <=> x \in Range(s) \cup Range(t)
  <2>1. ASSUME x \in Range(u)
        PROVE  x \in Range(s) \cup Range(t)
    <3>1. PICK i \in 1..(m + n) : u[i] = x
      BY <1>1, <1>2, <2>1
    <3>2. \/ i \in 1..m /\ s[i] = x
          \/ i - m \in 1..n /\ t[i - m] = x
      BY <1>1, <1>5, <3>1
    <3> QED
      BY <1>2, <3>2
  <2>2. ASSUME x \in Range(s)
        PROVE  x \in Range(u)
    BY <1>1, <1>2, <1>3, <2>2
  <2>3. ASSUME x \in Range(t)
        PROVE  x \in Range(u)
    BY <1>1, <1>2, <1>4, <2>3
  <2> QED
    BY <2>1, <2>2, <2>3
<1>12. Range(u) = Range(s) \cup Range(t)
  BY <1>11
<1> QED
  BY <1>7, <1>8, <1>9, <1>10, <1>12 DEF u

\* q is served before r: one is reserved and the other is not, or one is being
\* served and the other queued, or they are in order in the same queue.
Before(q, r) ==
  \/ InOrder(reservations, q, r)
  \/ q \in Reserved /\ r \in Served \cup Queued
  \/ q \in Served /\ r \in Queued
  \/ InOrder(RequestsOf(checkouts), q, r)

\* That is the order of the line.
AheadOK == \A q, r \in Requests : Ahead(q, r) <=> Before(q, r)

\* The line is the reservations, who is served, and the channel.
LEMMA AheadIsBefore == IInv => AheadOK
<1> SUFFICES ASSUME IInv, NEW q \in Requests, NEW r \in Requests
             PROVE  Ahead(q, r) <=> Before(q, r)
  BY DEF AheadOK
<1> DEFINE a == reservations
           b == IF serving = None THEN <<>> ELSE <<serving.request>>
           c == RequestsOf(checkouts)
<1>1. a \in Seq(Requests) /\ c \in Seq(Requests)
  BY RequestsOfPayloads DEF IInv, TypeOK, InnerTypes, ChannelTypes
<1>2. b \in Seq(Requests) /\ Range(b) = Served /\ ~InOrder(b, q, r)
  <2>1. CASE serving = None
    <3>1. b = <<>> /\ Len(b) = 0
      BY <2>1
    <3> QED
      BY <2>1, <3>1, EmptySeq DEF InOrder, Range, Served
  <2>2. CASE serving # None
    <3>1. serving.request \in Requests
      BY <2>2 DEF IInv, TypeOK, ConsumerTypes, Payloads
    <3>2. b = <<serving.request>> /\ Len(b) = 1 /\ b \in Seq(Requests)
          /\ b[1] = serving.request
      BY <2>2, <3>1
    <3>3. Range(b) = {serving.request}
      <4>1. \A x : x \in Range(b) <=> \E i \in 1..Len(b) : b[i] = x
        BY <3>2, RangeIs
      <4> HIDE DEF b
      <4>2. \A x : x \in Range(b) <=> x = serving.request
        BY <3>2, <4>1
      <4> QED
        BY <4>2
    <3> QED
      BY <2>2, <3>2, <3>3 DEF InOrder, Served
  <2> QED
    BY <2>1, <2>2
<1>3. Line = (a \o b) \o c
  BY DEF Line, RequestsOf
<1>4. Ahead(q, r) <=> InOrder(Line, q, r)
  <2>1. Line \in Seq(Requests)
    <3> HIDE DEF a, b, c
    <3> QED
      BY <1>1, <1>2, <1>3, ConcatProperties
  <2>2. DOMAIN Line = 1..Len(Line)
    BY <2>1, LenProperties
  <2> QED
    BY <2>2 DEF Ahead, InOrder
<1>5. Reserved = Range(a) /\ Queued = Range(c)
  BY DEF Reserved, Queued
<1> HIDE DEF a, b, c
<1>6. /\ a \o b \in Seq(Requests)
      /\ InOrder(a \o b, q, r) <=>
           InOrder(a, q, r) \/ (q \in Range(a) /\ r \in Range(b))
      /\ Range(a \o b) = Range(a) \cup Range(b)
  <2>1. a \o b \in Seq(Requests)
    BY <1>1, <1>2, ConcatProperties
  <2>2. InOrder(a \o b, q, r) <=>
          \/ InOrder(a, q, r) \/ InOrder(b, q, r)
          \/ q \in Range(a) /\ r \in Range(b)
    BY <1>1, <1>2, OrderConcat
  <2>3. Range(a \o b) = Range(a) \cup Range(b)
    BY <1>1, <1>2, OrderConcat
  <2> QED
    BY <1>2, <2>1, <2>2, <2>3
<1>7. InOrder(Line, q, r) <=>
        \/ InOrder(a \o b, q, r) \/ InOrder(c, q, r)
        \/ q \in Range(a \o b) /\ r \in Range(c)
  BY <1>1, <1>3, <1>6, OrderConcat
<1>8. Before(q, r) <=>
        \/ InOrder(a, q, r)
        \/ q \in Range(a) /\ r \in Served \cup Range(c)
        \/ q \in Served /\ r \in Range(c)
        \/ InOrder(c, q, r)
  BY <1>5 DEF Before, a, c
<1> QED
  BY <1>2, <1>4, <1>6, <1>7, <1>8

\* Both in line: nobody is before somebody who is before him.
LEMMA BeforeIsStrict ==
  ASSUME IInv, RInv, NEW q \in Requests, NEW r \in Requests, Before(q, r)
  PROVE  q \in Senders /\ r \in Senders /\ ~Before(r, q)
<1> DEFINE a == reservations
           c == RequestsOf(checkouts)
<1>1. a \in Seq(Requests) /\ c \in Seq(Requests)
  BY RequestsOfPayloads DEF IInv, TypeOK, InnerTypes, ChannelTypes
<1>2. ASSUME NEW s \in Seq(Requests), Distinct(s), NEW x, NEW y,
             InOrder(s, x, y)
      PROVE  x \in Range(s) /\ y \in Range(s) /\ ~InOrder(s, y, x)
  <2>1. /\ Len(s) \in Nat
        /\ \A z : z \in Range(s) <=> \E i \in 1..Len(s) : s[i] = z
    BY <1>2, RangeIs, LenProperties
  <2> QED
    BY <1>2, <2>1 DEF Distinct, InOrder
<1>3. /\ \A x, y : InOrder(a, x, y) =>
           x \in Reserved /\ y \in Reserved /\ ~InOrder(a, y, x)
      /\ \A x, y : InOrder(c, x, y) =>
           x \in Queued /\ y \in Queued /\ ~InOrder(c, y, x)
  BY <1>1, <1>2 DEF RInv, OneSender, Reserved, Queued
<1>4. /\ Reserved \cap (Served \cup Queued) = {} /\ Served \cap Queued = {}
  BY DEF RInv, OneSender
<1> QED
  BY <1>3, <1>4 DEF Before, Senders

\* Who is in line waits, or its future was dropped, and it has no answer.
Expectant ==
  \A r \in Requests :
    r \in Senders => phase[r] \in {"free", "pending", "expired"}

\* A step that lets nobody into the line keeps its order.
InLine == Senders' \in SUBSET Senders
          /\ \A q, r \in Requests : Before(q, r)' => Before(q, r)

\* Nothing of the line changes.
LEMMA LineStays ==
  ASSUME UNCHANGED <<checkouts, reservations, serving>>
  PROVE  InLine
BY DEF InLine, Before, Senders, Queued, Reserved, Served, InOrder, RequestsOf

\* Who was served leaves the line.
LEMMA LineServed ==
  ASSUME serving' = None, UNCHANGED <<checkouts, reservations>>
  PROVE  InLine
BY DEF InLine, Before, Senders, Queued, Reserved, Served, InOrder, RequestsOf

\* Who was served becomes the last reservation, still before the queue.
LEMMA LineReserved ==
  ASSUME IInv, RInv, serving # None, serving' = None,
         Enqueue(serving.request), UNCHANGED checkouts
  PROVE  InLine
<1> DEFINE e == serving.request
<1>1. e \in Requests /\ Served = {e} /\ reservations \in Seq(Requests)
  BY DEF IInv, TypeOK, ConsumerTypes, InnerTypes, Payloads, Served
<1>2. /\ reservations' = Append(reservations, e)
      /\ Reserved' = Reserved \cup {e} /\ Queued' = Queued /\ Served' = {}
      /\ RequestsOf(checkouts)' = RequestsOf(checkouts)
  <2>1. Distinct(reservations) /\ e \notin Range(reservations)
    BY <1>1 DEF RInv, OneSender, Reserved
  <2>2. reservations' = Append(reservations, e)
    BY DEF Enqueue
  <2>3. Range(Append(reservations, e)) = Range(reservations) \cup {e}
    BY <1>1, <2>1, AppendDistinct
  <2> QED
    BY <2>2, <2>3 DEF Reserved, Queued, Served, RequestsOf
<1>3. Senders' \in SUBSET Senders
  BY <1>1, <1>2 DEF Senders
<1>4. ASSUME NEW q \in Requests, NEW r \in Requests, Before(q, r)'
      PROVE  Before(q, r)
  <2>1. CASE InOrder(reservations, q, r)'
    <3>1. InOrder(Append(reservations, e), q, r)
      BY <1>2, <2>1 DEF InOrder
    <3>2. InOrder(reservations, q, r) \/ (q \in Reserved /\ r = e)
      BY <1>1, <3>1, OrderAppend DEF Reserved
    <3> QED
      BY <1>1, <3>2 DEF Before
  <2>2. CASE q \in Reserved' /\ r \in Queued
    BY <1>1, <1>2, <2>2 DEF Before
  <2>3. CASE InOrder(RequestsOf(checkouts), q, r)'
    BY <1>2, <2>3 DEF Before, InOrder
  <2> QED
    BY <1>2, <1>4, <2>1, <2>2, <2>3 DEF Before
<1> QED
  BY <1>3, <1>4 DEF InLine

\* A reservation is taken off: the first, or one that nobody waits for.
LEMMA LineShortened ==
  ASSUME UNCHANGED <<checkouts, serving>>, Reserved' \in SUBSET Reserved,
         \A q, r : InOrder(reservations, q, r)' => InOrder(reservations, q, r)
  PROVE  InLine
<1>1. /\ Queued' = Queued /\ Served' = Served
      /\ \A q, r : InOrder(RequestsOf(checkouts), q, r)' <=>
                     InOrder(RequestsOf(checkouts), q, r)
  BY DEF Queued, Served, RequestsOf, InOrder
<1> QED
  BY <1>1 DEF InLine, Before, Senders

\* The consumer receives a request.
LEMMA LineReceived ==
  ASSUME IInv, RInv, ProcessCheckOut
  PROVE  InLine
<1> DEFINE s == RequestsOf(checkouts)
           h == Head(checkouts)
<1>1. /\ s \in Seq(Requests) /\ s # <<>> /\ s' = Tail(s)
      /\ Head(s) = h.request /\ h # None
      /\ Served = {} /\ UNCHANGED reservations /\ Distinct(s)
      /\ Served' \in {{}, {h.request}}
  <2>1. checkouts \in Seq(Payloads) /\ checkouts # <<>> /\ h \in Payloads
    BY HeadTailProperties
       DEF IInv, TypeOK, ChannelTypes, ProcessCheckOut
  <2>2. /\ s \in Seq(Requests) /\ s # <<>>
        /\ RequestsOf(Tail(checkouts)) = Tail(s) /\ Head(s) = h.request
    BY <2>1, RequestsOfPayloads, RequestsOfTail
  <2>3. checkouts' = Tail(checkouts) /\ UNCHANGED reservations
    BY DEF ProcessCheckOut, innerVars
  <2>4. s' = Tail(s)
    BY <2>2, <2>3 DEF RequestsOf
  <2>5. h # None
    BY <2>1, NoPayload
  <2>6. serving = None /\ serving' \in {None, h}
    BY DEF IInv, ConsumerOK, ProcessCheckOut, consumerVars
  <2> QED
    BY <2>2, <2>3, <2>4, <2>5, <2>6 DEF Served, RInv, OneSender
<1> HIDE DEF s
<1>2. /\ Reserved' = Reserved
      /\ \A q, r : InOrder(reservations, q, r)' <=> InOrder(reservations, q, r)
  BY <1>1 DEF Reserved, InOrder
<1>3. /\ Head(s) \in Range(s) /\ Range(Tail(s)) = Range(s) \ {Head(s)}
  BY <1>1, TailDistinct
<1>4. Queued = Range(s) /\ Queued' = Range(Tail(s))
  <2>1. Queued = Range(s)
    BY DEF Queued, s
  <2>2. Queued' = Range(s')
    BY DEF Queued, s
  <2> QED
    BY <1>1, <2>1, <2>2
<1>5. Senders' \in SUBSET Senders
  BY <1>1, <1>2, <1>3, <1>4 DEF Senders
<1>6. ASSUME NEW q \in Requests, NEW r \in Requests, Before(q, r)'
      PROVE  Before(q, r)
  <2>1. CASE InOrder(reservations, q, r)'
    BY <1>2, <2>1 DEF Before
  <2>2. CASE q \in Reserved' /\ r \in (Served \cup Queued)'
    BY <1>1, <1>2, <1>3, <1>4, <2>2 DEF Before
  <2>3. CASE q \in Served' /\ r \in Queued'
    <3>1. q = Head(s) /\ r \in Range(Tail(s))
      BY <1>1, <1>4, <2>3
    <3>2. InOrder(s, q, r)
      BY <1>1, <3>1, OrderTail
    <3> QED
      BY <3>2 DEF Before, s
  <2>4. CASE InOrder(RequestsOf(checkouts), q, r)'
    <3>1. InOrder(Tail(s), q, r)
      <4>1. InOrder(s', q, r)
        BY <2>4 DEF s, InOrder
      <4> QED
        BY <1>1, <4>1
    <3>2. InOrder(s, q, r)
      BY <1>1, <3>1, OrderTail
    <3> QED
      BY <3>2 DEF Before, s
  <2> QED
    BY <1>6, <2>1, <2>2, <2>3, <2>4 DEF Before
<1> QED
  BY <1>5, <1>6 DEF InLine

\* No step but a new checkout lets anybody into the line.
LEMMA LineMoves ==
  ASSUME IInv, RInv, [Next]_vars,
         ~(\E r \in Requests, m \in Modes : CheckOut(r, m))
  PROVE  InLine
<1>0. TypeOK /\ ConsumerOK /\ reservations \in Seq(Requests)
  BY DEF IInv, TypeOK, InnerTypes
<1>1. ASSUME NEW r \in Requests, Client(r)
      PROVE  InLine
  <2>1. UNCHANGED <<checkouts, reservations, serving>>
    BY <1>1 DEF Client, Poll, TimeOut, DropFuture, StartCommand, CommandDone,
                DropConnection, DropBroken, queueVars, innerVars,
                consumerVars
  <2> QED
    BY <2>1, LineStays
<1>2. CASE \/ (\E c \in Conns : Creation(c)) \/ DropPool \/ Tick
           \/ ProcessInternal \/ Fulfilled \/ NoneFulfilled \/ Delivered
  <2>1. UNCHANGED <<checkouts, reservations, serving>>
    BY <1>2 DEF Creation, Probe, Connected, ConnectFailed, DropPool, Tick,
                ProcessInternal, ProcessCheckIn, ProcessCheckAlive,
                ProcessCleanup, ProcessStop, Fulfilled, NoneFulfilled,
                Delivered, queueVars, innerVars, consumerVars
  <2> QED
    BY <2>1, LineStays
<1>3. CASE ProcessCheckOut
  BY <1>3, LineReceived
<1>4. CASE TryFulfill
  <2>1. /\ reservations # <<>> /\ reservations' = Tail(reservations)
        /\ UNCHANGED <<checkouts, serving>>
    BY <1>4 DEF TryFulfill, queueVars, consumerVars
  <2>2. Reserved' \in SUBSET Reserved
    BY <1>0, <2>1, TailDistinct DEF RInv, OneSender, Reserved
  <2>3. \A q, r : InOrder(reservations, q, r)' => InOrder(reservations, q, r)
    <3> SUFFICES ASSUME NEW q, NEW r, InOrder(reservations', q, r)
                 PROVE  InOrder(reservations, q, r)
      BY DEF InOrder
    <3> QED
      BY <1>0, <2>1, OrderTail
  <2> QED
    BY <2>1, <2>2, <2>3, LineShortened
<1>5. CASE CleanupStep
  <2>1. UNCHANGED <<checkouts, serving>>
    BY <1>5 DEF CleanupStep, queueVars
  <2>2. CASE UNCHANGED reservations
    BY <2>1, <2>2, LineStays
  <2>3. CASE reservations' = RemoveAt(reservations, scan)
    <3>1. scan \in 1..Len(reservations)
      BY <1>0, <1>5, LenProperties DEF CleanupStep, TypeOK, ConsumerTypes
    <3>2. Reserved' \in SUBSET Reserved
      BY <1>0, <2>3, <3>1, RemoveDistinct DEF RInv, OneSender, Reserved
    <3>3. \A q, r : InOrder(reservations, q, r)' => InOrder(reservations, q, r)
      <4> SUFFICES ASSUME NEW q, NEW r, InOrder(reservations', q, r)
                   PROVE  InOrder(reservations, q, r)
        BY DEF InOrder
      <4> QED
        BY <1>0, <2>3, <3>1, OrderRemove
    <3> QED
      BY <2>1, <3>2, <3>3, LineShortened
  <2> QED
    BY <1>5, <2>2, <2>3 DEF CleanupStep
<1>6. CASE DeliverIdle
  <2>1. serving' = None /\ UNCHANGED <<checkouts, reservations>>
    BY <1>6 DEF DeliverIdle, queueVars
  <2> QED
    BY <2>1, LineServed
<1>7. CASE NoIdle \/ CleanupDone
  <2>1. UNCHANGED checkouts
    BY <1>7 DEF NoIdle, CleanupDone, queueVars
  <2>2. CASE serving' = None /\ UNCHANGED reservations
    BY <2>1, <2>2, LineServed
  <2>3. CASE UNCHANGED <<serving, reservations>>
    BY <2>1, <2>3, LineStays
  <2>4. CASE serving # None /\ serving' = None /\ Enqueue(serving.request)
    BY <2>1, <2>4, LineReserved
  <2> QED
    BY <1>0, <1>7, <2>2, <2>3, <2>4 DEF NoIdle, CleanupDone, ConsumerOK
<1>8. CASE CloseCheckouts
  <2>1. checkouts' = <<>> /\ UNCHANGED <<reservations, serving>>
    BY <1>8 DEF CloseCheckouts, innerVars
  <2>2. RequestsOf(checkouts)' = <<>>
    BY <2>1 DEF RequestsOf
  <2>3. /\ Queued' = {} /\ Reserved' = Reserved /\ Served' = Served
        /\ \A q, r : ~InOrder(RequestsOf(checkouts), q, r)'
        /\ \A q, r : InOrder(reservations, q, r)' <=>
                       InOrder(reservations, q, r)
    BY <2>1, <2>2, EmptySeq DEF Queued, Reserved, Served, Range, InOrder
  <2> QED
    BY <2>3 DEF InLine, Before, Senders
<1>9. CASE DropInnerPool
  <2>1. reservations' = <<>> /\ UNCHANGED <<checkouts, serving>>
    BY <1>9 DEF DropInnerPool, queueVars
  <2>2. Reserved' = {} /\ \A q, r : ~InOrder(reservations, q, r)'
    BY <2>1, EmptySeq DEF Reserved, Range, InOrder
  <2> QED
    BY <2>1, <2>2, LineShortened
<1>10. CASE UNCHANGED vars
  <2>1. UNCHANGED <<checkouts, reservations, serving>>
    BY <1>10 DEF vars, queueVars, innerVars, consumerVars
  <2> QED
    BY <2>1, LineStays
<1> QED
  BY <1>1, <1>2, <1>3, <1>4, <1>5, <1>6, <1>7, <1>8, <1>9, <1>10
     DEF Next, Client, Process

\* A new checkout comes to the end of the line, or does not come in.
LEMMA LineJoined ==
  ASSUME IInv, RInv, NEW x \in Requests, NEW m \in Modes, CheckOut(x, m)
  PROVE  /\ x \notin Senders
         /\ \/ InLine
            \/ Senders' \in SUBSET (Senders \cup {x}) /\ phase'[x] = "pending"
         /\ \A q, r \in Requests : Before(q, r)' => Before(q, r) \/ r = x
<1> DEFINE s == RequestsOf(checkouts)
<1>0. TypeOK /\ UNCHANGED <<reservations, serving>> /\ x \notin Senders
  BY AliveIsSender DEF IInv, CheckOut, innerVars, consumerVars
<1>1. CASE UNCHANGED checkouts
  BY <1>0, <1>1, LineStays DEF InLine
<1>2. CASE /\ checkouts' = Append(checkouts, Payload(x, m))
           /\ phase' = [phase EXCEPT ![x] = "pending"]
  <2>1. /\ s \in Seq(Requests) /\ s' = Append(s, x) /\ Distinct(s)
        /\ x \notin Range(s)
    <3>1. checkouts \in Seq(Payloads) /\ Payload(x, m) \in Payloads
          /\ Payload(x, m).request = x
      BY <1>0 DEF TypeOK, ChannelTypes, Payload, Payloads
    <3>2. RequestsOf(Append(checkouts, Payload(x, m))) = Append(s, x)
      BY <3>1, RequestsOfAppend
    <3>3. s' = Append(s, x)
      BY <1>2, <3>2 DEF RequestsOf
    <3>4. s \in Seq(Requests)
      BY <3>1, RequestsOfPayloads
    <3> QED
      BY <1>0, <3>3, <3>4 DEF RInv, OneSender, Senders, Queued
  <2> HIDE DEF s
  <2>2. /\ Queued = Range(s) /\ Queued' = Range(s) \cup {x}
        /\ Reserved' = Reserved /\ Served' = Served
    <3>1. Queued = Range(s) /\ Queued' = Range(s')
      BY DEF Queued, s
    <3>2. Range(Append(s, x)) = Range(s) \cup {x}
      BY <2>1, AppendDistinct
    <3> QED
      BY <1>0, <2>1, <3>1, <3>2 DEF Reserved, Served
  <2>3. Senders' \in SUBSET (Senders \cup {x})
    BY <2>2 DEF Senders
  <2>4. ASSUME NEW q \in Requests, NEW r \in Requests, Before(q, r)', r # x
        PROVE  Before(q, r)
    <3>1. CASE InOrder(RequestsOf(checkouts), q, r)'
      <4>1. InOrder(s', q, r)
        BY <3>1 DEF s, InOrder
      <4>2. InOrder(s, q, r)
        BY <2>1, <2>4, <4>1, OrderAppend
      <4> QED
        BY <4>2 DEF Before, s
    <3>2. CASE InOrder(reservations, q, r)'
      BY <1>0, <3>2 DEF Before, InOrder
    <3>3. CASE \/ q \in Reserved' /\ r \in (Served \cup Queued)'
               \/ q \in Served' /\ r \in Queued'
      BY <2>2, <2>4, <3>3 DEF Before
    <3> QED
      BY <2>4, <3>1, <3>2, <3>3 DEF Before
  <2>5. phase'[x] = "pending"
    BY <1>0, <1>2 DEF TypeOK, ClientTypes
  <2> QED
    BY <1>0, <2>3, <2>4, <2>5
<1> QED
  BY <1>1, <1>2 DEF CheckOut, Refuse, queueVars

\* Whoever is in line has not been answered: its future waits or is dropped.
LEMMA NextExpectant == IInv /\ RInv /\ Expectant /\ [Next]_vars => Expectant'
<1> SUFFICES ASSUME IInv, RInv, Expectant, [Next]_vars
             PROVE  Expectant'
  OBVIOUS
<1>0. phase \in [Requests -> Phases]
  BY DEF IInv, TypeOK, ClientTypes
<1>1. ASSUME NEW x \in Requests, NEW m \in Modes, CheckOut(x, m)
      PROVE  Expectant'
  <2>1. /\ x \notin Senders /\ Senders' \in SUBSET (Senders \cup {x})
        /\ x \in Senders' => phase'[x] = "pending"
    BY <1>1, LineJoined DEF InLine
  <2>2. \A q \in Requests : q # x => phase'[q] = phase[q]
    BY <1>0, <1>1 DEF CheckOut, Refuse
  <2> QED
    BY <2>1, <2>2 DEF Expectant
<1>2. CASE ~(\E x \in Requests, m \in Modes : CheckOut(x, m))
  <2>1. Senders' \in SUBSET Senders
    BY <1>2, LineMoves DEF InLine
  <2>2. ASSUME UNCHANGED phase
        PROVE  Expectant'
    BY <2>1, <2>2 DEF Expectant
  <2>3. ASSUME NEW x \in Requests, Client(x)
        PROVE  Expectant'
    <3>1. \A q \in Requests : q # x => phase'[q] = phase[q]
      BY <1>0, <1>2, <2>3 DEF Client, Poll, TimeOut, DropFuture, StartCommand,
                              CommandDone, DropConnection, DropBroken
    <3>2. CASE Poll(x) \/ StartCommand(x) \/ CommandDone(x)
               \/ DropConnection(x) \/ DropBroken(x)
      <4>1. x \notin Senders
        BY <3>2 DEF Poll, StartCommand, CommandDone, DropConnection,
                    DropBroken, Expectant, RInv, Unforgotten, IsClosed
      <4> QED
        BY <2>1, <3>1, <4>1 DEF Expectant
    <3>3. CASE TimeOut(x) \/ DropFuture(x)
      <4>1. phase'[x] \in {"expired", "free"}
        BY <1>0, <3>3 DEF TimeOut, DropFuture
      <4> QED
        BY <2>1, <3>1, <4>1 DEF Expectant
    <3> QED
      BY <1>2, <2>3, <3>2, <3>3 DEF Client
  <2>4. CASE \/ (\E c \in Conns : Creation(c)) \/ DropPool \/ Tick
             \/ ProcessInternal \/ ProcessCheckOut \/ Process
             \/ UNCHANGED vars
    <3>1. UNCHANGED phase
      BY <2>4 DEF Creation, Probe, Connected, ConnectFailed, DropPool, Tick,
                  ProcessInternal, ProcessCheckIn, ProcessCheckAlive,
                  ProcessCleanup, ProcessStop, ProcessCheckOut, Process,
                  TryFulfill, Fulfilled, NoneFulfilled, DeliverIdle,
                  Delivered, NoIdle, CleanupStep, CleanupDone,
                  CloseCheckouts, DropInnerPool, clientVars, vars
    <3> QED
      BY <2>2, <3>1
  <2> QED
    BY <2>3, <2>4 DEF Next
<1> QED
  BY <1>1, <1>2

\* Only the first in line is sent a connection.
LEMMA FirstIsServed ==
  ASSUME IInv, RInv, Expectant, [Next]_vars,
         NEW q \in Requests, NEW r \in Requests, Before(q, r)
  PROVE  answer'[r] \notin Conns
<1>0. TypeOK /\ ConsumerOK /\ answer \in [Requests -> Answers]
  BY DEF IInv, TypeOK, ClientTypes
<1>1. r \in Senders /\ answer[r] = None /\ None \notin Conns
  <2>1. r \in Senders
    BY BeforeIsStrict
  <2>2. phase[r] \in {"free", "pending", "expired"}
    BY <2>1 DEF Expectant
  <2>3. answer[r] = None
    BY <2>1, <2>2 DEF RInv, Unforgotten, FreeOK, IsClosed
  <2> QED
    BY <2>1, <2>3, NoneAssumption
<1>2. CASE UNCHANGED answer
  BY <1>1, <1>2
<1>3. ASSUME NEW x \in Requests, NEW a, a \notin Conns,
             answer' = [answer EXCEPT ![x] = a]
      PROVE  answer'[r] \notin Conns
  BY <1>0, <1>1, <1>3
<1>4. ASSUME NEW x, NEW a, Send(x, a), a \in Conns => x # r
      PROVE  answer'[r] \notin Conns
  BY <1>0, <1>1, <1>4 DEF Send
<1>5. \A e \in Errors : e \notin Conns
  BY NoneAssumption
<1>6. ASSUME NEW x \in Requests, Client(x)
      PROVE  answer'[r] \notin Conns
  <2>1. CASE \E m \in Modes : CheckOut(x, m)
    <3>1. ASSUME NEW e \in Errors, Refuse(x, e)
          PROVE  answer'[r] \notin Conns
      BY <1>3, <1>5, <3>1 DEF Refuse
    <3> QED
      BY <1>2, <2>1, <3>1 DEF CheckOut, Errors
  <2>2. CASE DropFuture(x) \/ DropConnection(x) \/ DropBroken(x)
    BY <1>1, <1>3, <2>2 DEF DropFuture, DropConnection, DropBroken
  <2>3. CASE Poll(x) \/ TimeOut(x) \/ StartCommand(x) \/ CommandDone(x)
    BY <1>2, <2>3 DEF Poll, TimeOut, StartCommand, CommandDone
  <2> QED
    BY <1>6, <2>1, <2>2, <2>3 DEF Client
<1>7. CASE TryFulfill
  <2> DEFINE h == Head(reservations)
  <2>1. reservations \in Seq(Requests) /\ reservations # <<>>
    BY <1>0, <1>7 DEF TypeOK, InnerTypes, TryFulfill
  <2>2. h \in Reserved
    BY <2>1, TailDistinct DEF RInv, OneSender, Reserved
  <2>3. ~InOrder(reservations, q, h)
    <3>1. h = reservations[1] /\ Len(reservations) \in Nat
          /\ 1 \in 1..Len(reservations)
      BY <2>1, HeadTailProperties, LenProperties, EmptySeq
    <3>2. \A i, j \in 1..Len(reservations) :
            reservations[i] = reservations[j] => i = j
      BY DEF RInv, OneSender, Distinct
    <3> HIDE DEF h
    <3>3. \A j \in 1..Len(reservations) : reservations[j] = h => j = 1
      BY <3>1, <3>2
    <3> QED
      BY <3>1, <3>3 DEF InOrder
  <2>4. ~InOrder(RequestsOf(checkouts), q, h)
    <3>1. RequestsOf(checkouts) \in Seq(Requests) /\ h \notin Queued
      BY <1>0, <2>2, RequestsOfPayloads
         DEF TypeOK, ChannelTypes, RInv, OneSender
    <3>2. \A j \in 1..Len(RequestsOf(checkouts)) :
            RequestsOf(checkouts)[j] # h
      BY <3>1, RangeIs DEF Queued
    <3> QED
      BY <3>2 DEF InOrder
  <2>5. h # r
    <3>1. h \notin Served \cup Queued
      BY <2>2 DEF RInv, OneSender
    <3> HIDE DEF h
    <3> QED
      BY <2>3, <2>4, <3>1 DEF Before
  <2>6. Send(h, carried)
    BY <1>7 DEF TryFulfill
  <2> HIDE DEF h
  <2> QED
    BY <1>4, <2>5, <2>6
<1>8. CASE DeliverIdle
  <2> DEFINE h == serving.request
  <2>1. serving # None /\ reservations = <<>> /\ Served = {h}
    BY <1>0, <1>8 DEF DeliverIdle, ConsumerOK, IInv, NoWaiterWhileIdle, Served
  <2>2. Reserved = {} /\ \A x, y : ~InOrder(reservations, x, y)
    BY <2>1, EmptySeq DEF Reserved, Range, InOrder
  <2>3. ~InOrder(RequestsOf(checkouts), q, h)
    <3>1. RequestsOf(checkouts) \in Seq(Requests) /\ h \notin Queued
      BY <1>0, <2>1, RequestsOfPayloads
         DEF TypeOK, ChannelTypes, RInv, OneSender
    <3>2. \A j \in 1..Len(RequestsOf(checkouts)) :
            RequestsOf(checkouts)[j] # h
      BY <3>1, RangeIs DEF Queued
    <3> QED
      BY <3>2 DEF InOrder
  <2>4. h # r
    <3>1. h \notin Queued
      BY <2>1 DEF RInv, OneSender
    <3> HIDE DEF h
    <3> QED
      BY <2>1, <2>2, <2>3, <3>1 DEF Before
  <2>5. Send(h, NextIdle(idle))
    BY <1>8 DEF DeliverIdle
  <2> HIDE DEF h
  <2> QED
    BY <1>4, <2>4, <2>5
<1>9. CASE NoIdle \/ CleanupDone
  <2>1. "NoConnection" \in Errors /\ "ReservationLimitReached" \in Errors
    BY DEF Errors
  <2>2. ASSUME NEW e \in Errors, Send(serving.request, e)
        PROVE  answer'[r] \notin Conns
    BY <1>4, <1>5, <2>2
  <2> QED
    BY <1>2, <1>9, <2>1, <2>2 DEF NoIdle, CleanupDone
<1>10. CASE CloseCheckouts \/ DropInnerPool
  <2>1. "NoPool" \notin Conns
    BY <1>5 DEF Errors
  <2> QED
    BY <1>1, <1>10, <2>1 DEF CloseCheckouts, DropInnerPool, DropSenders
<1>11. CASE \/ (\E c \in Conns : Creation(c)) \/ DropPool \/ Tick
            \/ ProcessInternal \/ ProcessCheckOut \/ Fulfilled
            \/ NoneFulfilled \/ Delivered \/ CleanupStep \/ UNCHANGED vars
  <2>1. UNCHANGED answer
    BY <1>11 DEF Creation, Probe, Connected, ConnectFailed, DropPool, Tick,
                 ProcessInternal, ProcessCheckIn, ProcessCheckAlive,
                 ProcessCleanup, ProcessStop, ProcessCheckOut, Fulfilled,
                 NoneFulfilled, Delivered, CleanupStep, clientVars, vars
  <2> QED
    BY <1>2, <2>1
<1> QED
  BY <1>6, <1>7, <1>8, <1>9, <1>10, <1>11 DEF Next, Process

\* Nobody is overtaken, and only the first in line gets a connection: a client
\* that gave up does not let those behind it in before those ahead of it.
LEMMA OrderIsKept ==
  ASSUME IInv, IInv', RInv, Expectant, [Next]_vars,
         NEW q \in Requests, NEW r \in Requests, Ahead(q, r)
  PROVE  ~Ahead(r, q)' /\ answer'[r] \notin Conns
<1>1. AheadOK /\ AheadOK'
  BY AheadIsBefore, PTL
<1>2. Before(q, r)
  BY <1>1 DEF AheadOK
<1>3. q \in Senders /\ r \in Senders /\ ~Before(r, q)
  BY <1>2, BeforeIsStrict
<1>4. ~Before(r, q)'
  <2>1. CASE \E x \in Requests, m \in Modes : CheckOut(x, m)
    <3>1. PICK x \in Requests, m \in Modes : CheckOut(x, m)
      BY <2>1
    <3>2. /\ x \notin Senders
          /\ \A u, v \in Requests : Before(u, v)' => Before(u, v) \/ v = x
      BY <3>1, LineJoined
    <3> QED
      BY <1>3, <3>2
  <2>2. CASE ~(\E x \in Requests, m \in Modes : CheckOut(x, m))
    BY <1>3, <2>2, LineMoves DEF InLine
  <2> QED
    BY <2>1, <2>2
<1>5. ~Ahead(r, q)'
  BY <1>1, <1>4 DEF AheadOK
<1>6. answer'[r] \notin Conns
  BY <1>2, FirstIsServed
<1> QED
  BY <1>5, <1>6

-----------------------------------------------------------------------------
(* The theorems.                                                           *)

\* A checkout has one sender at most, and while its future is unresolved and
\* unanswered exactly one.
THEOREM SendersInvariance == Spec => []RInv
  BY Invariance, InitRequests, NextRequests, PTL DEF Spec

\* No checkout is forgotten by a full or cleaned up queue, by a failed
\* fulfilment or by the shutdown, and none is answered twice.
THEOREM NothingIsForgotten == Spec => []NoLostRequest
  <1>1. IInv /\ RInv => NoLostRequest
    BY AliveIsSender DEF IInv, RInv, NoLostRequest, Unforgotten, IsClosed
  <1> QED
    BY <1>1, Invariance, SendersInvariance, PTL

\* Whoever is in line has no answer yet and does not hold a connection.
THEOREM LineWaits == Spec => []Expectant
<1>1. Init => Expectant
  <2> SUFFICES ASSUME Init PROVE Senders = {}
    BY DEF Expectant
  <2>1. RequestsOf(checkouts) \in Seq(Requests)
        /\ Len(RequestsOf(checkouts)) = 0
    BY InitInv, RequestsOfPayloads, EmptySeq
       DEF Init, InitCommon, IInv, TypeOK, ChannelTypes
  <2>2. Reserved = {} /\ Served = {}
    BY DEF Init, InitCommon, Reserved, Served, Range
  <2>3. Queued = {}
    <3>1. \A x : x \in Queued <=>
            \E i \in 1..Len(RequestsOf(checkouts)) :
              RequestsOf(checkouts)[i] = x
      BY <2>1, RangeIs DEF Queued
    <3> QED
      BY <2>1, <3>1
  <2> QED
    BY <2>2, <2>3 DEF Senders
<1>2. IInv /\ RInv /\ Expectant /\ [Next]_vars => Expectant'
  BY NextExpectant
<1> QED
  BY <1>1, <1>2, Invariance, SendersInvariance, PTL DEF Spec

\* Fulfilment, failed fulfilment, cleanup, reservations and new checkouts keep
\* the order in which the requests arrived, for any number of checkouts, and
\* nobody gets a connection as long as an earlier request is in line.
THEOREM NobodyIsOvertaken == Spec => NoOvertaking
<1>1. IInv /\ IInv' /\ RInv /\ Expectant /\ [Next]_vars
        => [\A q, r \in Requests :
              Ahead(q, r) =>
                /\ ~Ahead(r, q)'
                /\ ~IsClosed(q) => answer'[r] \notin Conns]_vars
  BY OrderIsKept
<1> QED
  BY <1>1, Invariance, SendersInvariance, LineWaits, PTL
     DEF Spec, NoOvertaking
=============================================================================
