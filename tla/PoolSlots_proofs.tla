-------------------------- MODULE PoolSlots_proofs --------------------------
(***************************************************************************)
(* Proof that PoolInternal neither loses nor duplicates a slot: for any    *)
(* number of slots and checkouts every connection, or the task that makes  *)
(* it, is in exactly one place.                                            *)
(***************************************************************************)
EXTENDS PoolRequests_proofs, FiniteSetTheorems

-----------------------------------------------------------------------------
(* The places.                                                             *)

Idle      == Range(idle)
Returning ==
  {c \in Conns : \E i \in 1..Len(internal) : internal[i] = CheckIn(c)}
Held      == {c \in Conns : \E r \in Requests : answer[r] = c}
Carried   == IF carried = None THEN {} ELSE {carried}
Creating  == {c \in Conns : task[c] # "none"}

\* No connection is on its way back twice.
OneReturn ==
  \A c \in Conns : \A i, j \in 1..Len(internal) :
    internal[i] = CheckIn(c) /\ internal[j] = CheckIn(c) => i = j

\* No connection is with two checkouts.
OneHolder ==
  \A q, r \in Requests : answer[q] \in Conns /\ answer[q] = answer[r] => q = r

\* Every slot is in one of the places, and no two places have a slot in common.
OnePlace ==
  /\ Conns = Idle \cup Returning \cup Held \cup Carried \cup Creating \cup gone
  /\ Idle \cap (Returning \cup Held \cup Carried \cup Creating \cup gone) = {}
  /\ Returning \cap (Held \cup Carried \cup Creating \cup gone) = {}
  /\ Held \cap (Carried \cup Creating \cup gone) = {}
  /\ Carried \cap (Creating \cup gone) = {}
  /\ Creating \cap gone = {}

\* The internal channel is closed while the consumer ends, and slots only end
\* for good from then on.
EndOK ==
  /\ internal_open <=> pc \notin {"close_checkouts", "drop_inner", "stopped"}
  /\ internal_open => gone = {}

SInv == Distinct(idle) /\ OneReturn /\ OneHolder /\ OnePlace /\ EndOK

-----------------------------------------------------------------------------
(* Steps from one place to another.                                        *)

\* IdleConnections::put.
LEMMA PutMoves ==
  ASSUME NEW s \in Seq(Conns), NEW c \in Conns, Distinct(s), c \notin Range(s)
  PROVE  Distinct(Put(s, c)) /\ Range(Put(s, c)) = Range(s) \cup {c}
  BY AppendDistinct DEF Put

\* IdleConnections::get, from either end.
LEMMA GetMoves ==
  ASSUME NEW s \in Seq(Conns), s # <<>>, Distinct(s)
  PROVE  /\ NextIdle(s) \in Range(s)
         /\ Distinct(RestIdle(s))
         /\ Range(RestIdle(s)) = Range(s) \ {NextIdle(s)}
  <1>1. CASE ActivationOrder = "FiFo"
    BY <1>1, TailDistinct DEF NextIdle, RestIdle
  <1>2. CASE ActivationOrder # "FiFo"
    <2> DEFINE n == Len(s) - 1
               k == Len(s)
               t == SubSeq(s, 1, n)
    <2>1. /\ k \in Nat /\ k >= 1
          /\ n \in Int /\ 1 <= n + 1 /\ n <= Len(s) /\ n - 1 + 1 = n
      BY EmptySeq, LenProperties
    <2>2. /\ t \in Seq(Conns)
          /\ Len(t) = n
          /\ \A i \in 1..n : t[i] = s[i]
      <3>1. /\ SubSeq(s, 1, n) \in Seq(Conns)
            /\ Len(SubSeq(s, 1, n)) = n - 1 + 1
            /\ \A i \in 1..(n - 1 + 1) : SubSeq(s, 1, n)[i] = s[1 + i - 1]
        <4> HIDE DEF n
        <4> QED
          BY <2>1, Slice
      <3> QED
        BY <2>1, <3>1
    <2>3. NextIdle(s) = s[k] /\ RestIdle(s) = t
      BY <1>2, Zenon DEF NextIdle, RestIdle, Last, Front
    <2>4. /\ \A x : x \in Range(s) <=> \E i \in 1..k : s[i] = x
          /\ \A x : x \in Range(t) <=> \E i \in 1..Len(t) : t[i] = x
      BY <2>2, RangeIs
    <2>5. \A i, j \in 1..k : s[i] = s[j] => i = j
      BY DEF Distinct
    <2>6. n = k - 1
      OBVIOUS
    <2> HIDE DEF n, k, t
    <2>7. Distinct(t)
      BY <2>1, <2>2, <2>5, <2>6 DEF Distinct
    <2>8. ASSUME NEW x
          PROVE  x \in Range(t) <=> x \in Range(s) \ {s[k]}
      <3>1. ASSUME x \in Range(t)
            PROVE  x \in Range(s) \ {s[k]}
        <4>1. PICK i \in 1..n : t[i] = x
          BY <2>2, <2>4, <3>1
        <4>2. i \in 1..k /\ k \in 1..k /\ i # k /\ s[i] = x
          BY <2>1, <2>2, <2>6, <4>1
        <4> QED
          BY <2>4, <2>5, <4>2
      <3>2. ASSUME x \in Range(s) \ {s[k]}
            PROVE  x \in Range(t)
        <4>1. PICK i \in 1..k : s[i] = x
          BY <2>4, <3>2
        <4>2. i \in 1..n
          BY <2>1, <2>6, <3>2, <4>1
        <4> QED
          BY <2>2, <2>4, <4>1, <4>2
      <3> QED
        BY <3>1, <3>2
    <2>9. Range(t) = Range(s) \ {s[k]}
      BY <2>8
    <2>10. s[k] \in Range(s)
      BY <2>1, <2>4
    <2> QED
      BY <2>3, <2>7, <2>9, <2>10
  <1> QED
    BY <1>1, <1>2

\* SendInternal of a connection: it is on its way back.
LEMMA ReturnSent ==
  ASSUME ChannelTypes, OneReturn, NEW c \in Conns, c \notin Returning,
         SendInternal(CheckIn(c))
  PROVE  OneReturn' /\ Returning' = Returning \cup {c}
  <1>1. /\ CheckIn(c) \in Messages
        /\ \A d \in Conns : CheckIn(d) = CheckIn(c) => d = c
    BY MessageTypes DEF CheckIn
  <1>2. /\ internal' = Append(internal, CheckIn(c))
        /\ Len(internal') = Len(internal) + 1
        /\ Len(internal) \in Nat
        /\ \A i \in 1..Len(internal) : internal'[i] = internal[i]
        /\ internal'[Len(internal) + 1] = CheckIn(c)
    BY <1>1, AppendProperties, LenProperties DEF SendInternal, ChannelTypes
  <1>3. \A i \in 1..Len(internal) : internal[i] # CheckIn(c)
    BY DEF Returning
  <1>4. ASSUME NEW d \in Conns,
               NEW i \in 1..Len(internal'), NEW j \in 1..Len(internal'),
               internal'[i] = CheckIn(d), internal'[j] = CheckIn(d)
        PROVE  i = j
    <2>1. CASE d = c
      BY <1>2, <1>3, <1>4, <2>1
    <2>2. CASE d # c
      <3>1. i \in 1..Len(internal) /\ j \in 1..Len(internal)
        BY <1>1, <1>2, <1>4, <2>2
      <3> QED
        BY <1>2, <1>4, <3>1 DEF OneReturn
    <2> QED
      BY <2>1, <2>2
  <1>5. OneReturn'
    BY <1>4 DEF OneReturn
  <1>6. ASSUME NEW d \in Conns
        PROVE  d \in Returning' <=> d \in Returning \cup {c}
    <2>1. ASSUME d \in Returning
          PROVE  d \in Returning'
      <3>1. PICK i \in 1..Len(internal) : internal[i] = CheckIn(d)
        BY <2>1 DEF Returning
      <3>2. i \in 1..Len(internal') /\ internal'[i] = CheckIn(d)
        BY <1>2, <3>1
      <3> QED
        BY <3>2 DEF Returning
    <2>2. c \in Returning'
      <3>1. Len(internal) + 1 \in 1..Len(internal')
        BY <1>2
      <3> QED
        BY <1>2, <3>1 DEF Returning
    <2>3. ASSUME d \in Returning', d # c
          PROVE  d \in Returning
      <3>1. PICK i \in 1..Len(internal') : internal'[i] = CheckIn(d)
        BY <2>3 DEF Returning
      <3>2. i \in 1..Len(internal)
        BY <1>1, <1>2, <2>3, <3>1
      <3> QED
        BY <1>2, <3>1, <3>2 DEF Returning
    <2> QED
      BY <2>1, <2>2, <2>3
  <1>7. Returning \in SUBSET Conns /\ Returning' \in SUBSET Conns
    BY DEF Returning
  <1>8. Returning' = Returning \cup {c}
    BY <1>6, <1>7
  <1> QED
    BY <1>5, <1>8

\* SendInternal of anything else.
LEMMA OtherSent ==
  ASSUME ChannelTypes, OneReturn, NEW m \in Messages, m.type # "CheckIn",
         SendInternal(m)
  PROVE  OneReturn' /\ Returning' = Returning
  <1>1. \A d \in Conns : CheckIn(d) # m
    BY DEF CheckIn
  <1>2. /\ internal' = Append(internal, m)
        /\ Len(internal') = Len(internal) + 1
        /\ Len(internal) \in Nat
        /\ \A i \in 1..Len(internal) : internal'[i] = internal[i]
        /\ internal'[Len(internal) + 1] = m
    BY AppendProperties, LenProperties DEF SendInternal, ChannelTypes
  <1>3. \A d \in Conns : \A i \in 1..Len(internal') :
          internal'[i] = CheckIn(d) <=>
            i \in 1..Len(internal) /\ internal[i] = CheckIn(d)
    BY <1>1, <1>2
  <1>4. 1..Len(internal) \in SUBSET (1..Len(internal'))
    BY <1>2
  <1>5. OneReturn'
    BY <1>3, <1>4 DEF OneReturn
  <1>6. Returning' = Returning
    BY <1>3, <1>4 DEF Returning
  <1> QED
    BY <1>5, <1>6

\* The first message is received.
LEMMA Received ==
  ASSUME ChannelTypes, OneReturn, internal # <<>>, internal' = Tail(internal)
  PROVE  /\ OneReturn'
         /\ Returning' =
              {c \in Returning : Head(internal) # CheckIn(c)}
         /\ \A c \in Conns : Head(internal) = CheckIn(c) => c \in Returning
  <1> DEFINE n == Len(internal)
  <1>1. /\ n \in Nat /\ n >= 1
        /\ Len(internal') = n - 1
        /\ \A i \in 1..(n - 1) : internal'[i] = internal[i + 1]
        /\ Head(internal) = internal[1]
    BY HeadTailProperties, LenProperties, EmptySeq DEF ChannelTypes
  <1>2. \A c \in Conns :
          c \in Returning <=> \E i \in 1..n : internal[i] = CheckIn(c)
    BY DEF Returning
  <1>3. \A c \in Conns : \A i, j \in 1..n :
          internal[i] = CheckIn(c) /\ internal[j] = CheckIn(c) => i = j
    BY DEF OneReturn
  <1>4. \A c \in Conns : c \in Returning' <=>
          \E i \in 1..(n - 1) : internal'[i] = CheckIn(c)
    BY <1>1 DEF Returning
  <1>5. Returning \in SUBSET Conns /\ Returning' \in SUBSET Conns
    BY DEF Returning
  <1> HIDE DEF n
  <1>6. ASSUME NEW c \in Conns, NEW i \in 1..(n - 1), NEW j \in 1..(n - 1),
               internal'[i] = CheckIn(c), internal'[j] = CheckIn(c)
        PROVE  i = j
    <2>1. i + 1 \in 1..n /\ j + 1 \in 1..n
      BY <1>1
    <2>2. internal[i + 1] = CheckIn(c) /\ internal[j + 1] = CheckIn(c)
      BY <1>1, <1>6
    <2>3. i + 1 = j + 1
      BY <1>3, <2>1, <2>2
    <2> QED
      BY <2>3
  <1>7. OneReturn'
    BY <1>1, <1>6 DEF OneReturn
  <1>8. ASSUME NEW c \in Conns
        PROVE  c \in Returning' <=> c \in Returning /\ internal[1] # CheckIn(c)
    <2>1. ASSUME c \in Returning'
          PROVE  c \in Returning /\ internal[1] # CheckIn(c)
      <3>1. PICK i \in 1..(n - 1) : internal'[i] = CheckIn(c)
        BY <1>4, <2>1
      <3>2. /\ i + 1 \in 1..n /\ 1 \in 1..n /\ i + 1 # 1
            /\ internal[i + 1] = CheckIn(c)
        BY <1>1, <3>1
      <3> QED
        BY <1>2, <1>3, <3>2
    <2>2. ASSUME c \in Returning, internal[1] # CheckIn(c)
          PROVE  c \in Returning'
      <3>1. PICK i \in 1..n : internal[i] = CheckIn(c)
        BY <1>2, <2>2
      <3>2. i # 1
        BY <2>2, <3>1
      <3>3. i - 1 \in 1..(n - 1) /\ internal'[i - 1] = CheckIn(c)
        BY <1>1, <3>1, <3>2
      <3> QED
        BY <1>4, <3>3
    <2> QED
      BY <2>1, <2>2
  <1>9. Returning' = {c \in Returning : Head(internal) # CheckIn(c)}
    BY <1>1, <1>5, <1>8
  <1>10. \A c \in Conns : Head(internal) = CheckIn(c) => c \in Returning
    BY <1>1, <1>2
  <1> QED
    BY <1>7, <1>9, <1>10

\* A connection goes back, or is lost once nobody receives it.
Returns(c) ==
  \/ internal_open /\ Returning' = Returning \cup {c} /\ UNCHANGED gone
  \/ ~internal_open /\ gone' = gone \cup {c} /\ Returning' = Returning

\* Managed::drop with a value: back to the pool, or into the void.
LEMMA ReturnMoves ==
  ASSUME ChannelTypes, OneReturn, NEW c \in Conns, c \notin Returning,
         ReturnOrOrphan(c)
  PROVE  OneReturn' /\ UNCHANGED internal_open /\ Returns(c)
  <1>1. CASE SendInternal(CheckIn(c)) /\ UNCHANGED gone
    BY <1>1, ReturnSent DEF SendInternal, Returns
  <1>2. CASE ~internal_open /\ gone' = gone \cup {c} /\ UNCHANGED internalVars
    BY <1>2 DEF internalVars, OneReturn, Returning, Returns
  <1> QED
    BY <1>1, <1>2 DEF ReturnOrOrphan

\* A connection is sent to a checkout, and lost to it only if it is awaited.
LEMMA SendMoves ==
  ASSUME ClientTypes, OneHolder, NEW r \in Requests, NEW c \in Conns,
         c \notin Held, Send(r, c), ~IsClosed(r) => answer[r] \notin Conns
  PROVE  /\ OneHolder'
         /\ Held' = IF IsClosed(r) THEN Held ELSE Held \cup {c}
  <1>1. \A q \in Requests :
          answer'[q] = IF q = r /\ ~IsClosed(q) THEN c ELSE answer[q]
    BY DEF Send, ClientTypes
  <1>2. \A q \in Requests : answer[q] # c
    BY DEF Held
  <1>3. OneHolder'
    BY <1>1, <1>2 DEF OneHolder
  <1>4. ASSUME NEW d \in Conns
        PROVE  (\E q \in Requests : answer'[q] = d) <=>
                 (d \in IF IsClosed(r) THEN Held ELSE Held \cup {c})
    BY <1>1 DEF Held
  <1>5. Held' = IF IsClosed(r) THEN Held ELSE Held \cup {c}
    BY <1>4 DEF Held
  <1> QED
    BY <1>3, <1>5

\* Errors are no connections.
LEMMA RefusalMoves ==
  ASSUME ClientTypes, OneHolder, NEW rs,
         \A q \in rs \cap Requests : ~IsClosed(q) => answer[q] \notin Conns,
         NEW e \in Errors,
         \A q \in Requests :
           answer'[q] = IF q \in rs /\ ~IsClosed(q) THEN e ELSE answer[q]
  PROVE  OneHolder' /\ Held' = Held
  <1>1. e \notin Conns
    BY NoneAssumption
  <1>2. \A q \in Requests : \A c \in Conns : answer'[q] = c <=> answer[q] = c
    BY <1>1
  <1>3. OneHolder'
    BY <1>2 DEF OneHolder
  <1>4. Held' = Held
    BY <1>2 DEF Held
  <1> QED
    BY <1>3, <1>4

\* A checkout gives away what it has.
LEMMA GivenAway ==
  ASSUME ClientTypes, OneHolder, NEW r \in Requests, NEW a, a \notin Conns,
         answer' = [answer EXCEPT ![r] = a]
  PROVE  OneHolder' /\ Held' = Held \ {answer[r]}
  <1>1. \A q \in Requests : answer'[q] = IF q = r THEN a ELSE answer[q]
    BY DEF ClientTypes
  <1>2. OneHolder'
    BY <1>1 DEF OneHolder
  <1>3. ASSUME NEW d \in Conns
        PROVE  (\E q \in Requests : answer'[q] = d)
                 <=> d \in Held \ {answer[r]}
    BY <1>1 DEF Held, OneHolder
  <1>4. Held' = Held \ {answer[r]}
    BY <1>3 DEF Held
  <1> QED
    BY <1>2, <1>4

-----------------------------------------------------------------------------
(* What a step leaves alone.                                               *)

\* A place does not change unless the variables it is read from do.
LEMMA PlacesStay ==
  /\ UNCHANGED idle /\ Distinct(idle) => Idle' = Idle /\ Distinct(idle)'
  /\ UNCHANGED internal /\ OneReturn => Returning' = Returning /\ OneReturn'
  /\ UNCHANGED answer /\ OneHolder => Held' = Held /\ OneHolder'
  /\ UNCHANGED carried => Carried' = Carried
  /\ UNCHANGED task => Creating' = Creating
  /\ UNCHANGED <<pc, internal_open, gone>> /\ EndOK => EndOK'
  BY DEF Idle, Distinct, Returning, OneReturn, Held, OneHolder, Carried,
         Creating, EndOK

\* A step that leaves all places alone.
LEMMA NobodyMoves ==
  ASSUME SInv, EndOK',
         UNCHANGED <<idle, internal, answer, carried, task, gone>>
  PROVE  SInv'
  BY PlacesStay DEF SInv, OnePlace

\* A checkout is answered with an error, or with nothing.
LEMMA NobodyMovesBut ==
  ASSUME SInv, EndOK', UNCHANGED <<idle, internal, carried, task, gone>>,
         OneHolder', Held' = Held
  PROVE  SInv'
  BY PlacesStay DEF SInv, OnePlace

\* A checkout returns its connection.
LEMMA HolderReturns ==
  ASSUME TypeOK, SInv, NEW r \in Requests, answer[r] \in Conns,
         ReturnOrOrphan(answer[r]), answer' = [answer EXCEPT ![r] = None],
         UNCHANGED <<idle, carried, task, pc>>
  PROVE  SInv'
  <1> DEFINE c == answer[r]
  <1>1. c \in Held /\ c \in Conns
    BY DEF Held
  <1>2. c \notin Returning
    BY <1>1 DEF SInv, OnePlace
  <1>3. OneReturn' /\ UNCHANGED internal_open /\ Returns(c)
    BY <1>1, <1>2, ReturnMoves DEF TypeOK, SInv
  <1>4. OneHolder' /\ Held' = Held \ {c}
    BY NoneAssumption, GivenAway DEF TypeOK, SInv
  <1>5. /\ Idle' = Idle /\ Distinct(idle)'
        /\ Carried' = Carried /\ Creating' = Creating
    BY PlacesStay DEF SInv
  <1>6. EndOK'
    BY <1>3 DEF Returns, SInv, EndOK
  <1> HIDE DEF c
  <1>7. OnePlace'
    BY <1>1, <1>3, <1>4, <1>5 DEF Returns, SInv, OnePlace
  <1> QED
    BY <1>3, <1>4, <1>5, <1>6, <1>7 DEF SInv

\* The checkout that the consumer answers has no connection yet.
LEMMA SenderIsEmpty ==
  ASSUME RInv, NEW r \in Requests, r \in Senders, ~IsClosed(r)
  PROVE  answer[r] \notin Conns
  BY NoneAssumption DEF RInv, Unforgotten

\* The consumer refuses the checkout it serves.
LEMMA ServingRefused ==
  ASSUME TypeOK, RInv, SInv, EndOK', serving # None, NEW e \in Errors,
         Send(serving.request, e),
         UNCHANGED <<idle, internal, carried, task, gone>>
  PROVE  SInv'
  <1>1. serving.request \in Requests /\ serving.request \in Senders
    BY DEF TypeOK, ConsumerTypes, Payloads, Senders, Served
  <1>2. \A q \in Requests :
          answer'[q] = IF q \in {serving.request} /\ ~IsClosed(q)
                         THEN e ELSE answer[q]
    BY DEF Send, TypeOK, ClientTypes
  <1>3. \A q \in {serving.request} \cap Requests :
          ~IsClosed(q) => answer[q] \notin Conns
    BY <1>1, SenderIsEmpty
  <1>4. OneHolder' /\ Held' = Held
    BY <1>2, <1>3, RefusalMoves DEF TypeOK, SInv
  <1> QED
    BY <1>4, NobodyMovesBut

\* Senders are dropped: nobody had a connection.
LEMMA SendersDropped ==
  ASSUME TypeOK, RInv, SInv, NEW rs, rs \in SUBSET Senders, DropSenders(rs)
  PROVE  OneHolder' /\ Held' = Held
  <1>1. \A q \in rs \cap Requests : ~IsClosed(q) => answer[q] \notin Conns
    BY SenderIsEmpty
  <1>2. "NoPool" \in Errors
    BY DEF Errors
  <1>3. \A q \in Requests :
          answer'[q] = IF q \in rs /\ ~IsClosed(q) THEN "NoPool" ELSE answer[q]
    BY DEF DropSenders
  <1> QED
    BY <1>1, <1>2, <1>3, RefusalMoves DEF TypeOK, SInv

-----------------------------------------------------------------------------
(* The invariant.                                                          *)

\* A new pool's slots are all being filled, or all lost without a runtime.
LEMMA InitSlots == Init => SInv
  <1> SUFFICES ASSUME Init
               PROVE  SInv
    OBVIOUS
  <1>1. Len(idle) = 0 /\ Len(internal) = 0
    BY InitInv, EmptySeq DEF Init, InitCommon, IInv, TypeOK, ChannelTypes,
                             InnerTypes
  <1>2. Idle = {} /\ Distinct(idle)
    BY <1>1, EmptySeq DEF Init, InitCommon, Idle, Range, Distinct
  <1>3. Returning = {} /\ OneReturn
    BY <1>1 DEF Returning, OneReturn
  <1>4. Held = {} /\ OneHolder
    BY NoneAssumption DEF Init, InitCommon, Held, OneHolder
  <1>5. Carried = {}
    BY DEF Init, InitCommon, Carried
  <1>6. Creating \cup gone = Conns /\ Creating \cap gone = {} /\ EndOK
    BY DEF Init, InitRunning, InitNoRuntime, Creating, EndOK
  <1>7. OnePlace
    BY <1>2, <1>3, <1>4, <1>5, <1>6 DEF OnePlace
  <1> QED
    BY <1>2, <1>3, <1>4, <1>6, <1>7 DEF SInv

\* The steps of a client.
LEMMA ClientSlots ==
  ASSUME IInv, RInv, SInv, NEW r \in Requests, Client(r)
  PROVE  SInv'
  <1> USE DEF IInv, TypeOK
  <1>1. ASSUME NEW m \in Modes, CheckOut(r, m)
        PROVE  SInv'
    <2>1. /\ UNCHANGED <<idle, internal, carried, task, gone>> /\ EndOK'
      BY <1>1, PlacesStay
      DEF CheckOut, innerVars, internalVars, consumerVars, slotVars, SInv
    <2>2. ASSUME NEW e \in Errors, Refuse(r, e)
          PROVE  SInv'
      <3>1. answer[r] = None /\ e \notin Conns
        BY <1>1, NoneAssumption DEF CheckOut, RInv, FreeOK
      <3>2. OneHolder' /\ Held' = Held \ {None}
        BY <2>2, <3>1, GivenAway DEF Refuse, SInv
      <3>3. Held' = Held
        BY <3>2, NoneAssumption DEF Held
      <3> QED
        BY <2>1, <3>2, <3>3, NobodyMovesBut
    <2>3. CASE UNCHANGED answer
      BY <2>1, <2>3, NobodyMoves
    <2> QED
      BY <1>1, <2>2, <2>3 DEF CheckOut, Errors
  <1>2. CASE Poll(r) \/ TimeOut(r) \/ StartCommand(r) \/ CommandDone(r)
    <2>1. UNCHANGED <<idle, internal, answer, carried, task, gone>> /\ EndOK'
      BY <1>2, PlacesStay
      DEF Poll, TimeOut, StartCommand, CommandDone, innerVars, internalVars,
          consumerVars, slotVars, SInv
    <2> QED
      BY <2>1, NobodyMoves
  <1>3. CASE DropFuture(r)
    <2>1. /\ answer' = [answer EXCEPT ![r] = None]
          /\ UNCHANGED <<idle, carried, task, pc>>
      BY <1>3 DEF DropFuture, innerVars, consumerVars
    <2>2. CASE answer[r] \in Conns
      BY <1>3, <2>1, <2>2, HolderReturns DEF DropFuture
    <2>3. CASE answer[r] \notin Conns
      <3>1. UNCHANGED <<internal, internal_open, gone>> /\ EndOK'
        BY <1>3, <2>1, <2>3, PlacesStay DEF DropFuture, internalVars, SInv
      <3>2. OneHolder' /\ Held' = Held \ {answer[r]}
        BY <2>1, NoneAssumption, GivenAway DEF SInv
      <3>3. Held' = Held
        BY <2>3, <3>2 DEF Held
      <3> QED
        BY <2>1, <3>1, <3>2, <3>3, NobodyMovesBut
    <2> QED
      BY <2>2, <2>3
  <1>4. CASE DropConnection(r)
    <2>1. answer[r] \in Conns
      BY <1>4 DEF DropConnection, HoldersOK
    <2> QED
      BY <1>4, <2>1, HolderReturns DEF DropConnection, innerVars, consumerVars
  <1>5. CASE DropBroken(r)
    <2> DEFINE c == answer[r]
    <2>1. c \in Conns /\ c \in Held
      BY <1>5 DEF DropBroken, HoldersOK, Held
    <2>2. Creating' = Creating \cup {c}
      BY <1>5, <2>1 DEF DropBroken, RequestNew, Creating, SlotTypes
    <2>3. OneHolder' /\ Held' = Held \ {c}
      BY <1>5, NoneAssumption, GivenAway DEF DropBroken, SInv
    <2>4. /\ UNCHANGED <<idle, internal, internal_open, carried, pc, gone>>
      BY <1>5 DEF DropBroken, innerVars, internalVars, consumerVars
    <2>5. /\ Idle' = Idle /\ Distinct(idle)' /\ Returning' = Returning
          /\ OneReturn' /\ Carried' = Carried /\ EndOK'
      BY <2>4, PlacesStay DEF SInv
    <2> HIDE DEF c
    <2>6. OnePlace'
      BY <2>1, <2>2, <2>3, <2>4, <2>5 DEF SInv, OnePlace
    <2> QED
      BY <2>3, <2>5, <2>6 DEF SInv
  <1> QED
    BY <1>1, <1>2, <1>3, <1>4, <1>5 DEF Client

\* The steps of the tasks, of the ticker and of the pool's drop.
LEMMA TaskSlots ==
  ASSUME IInv, SInv, DropPool \/ Tick \/ \E c \in Conns : Creation(c)
  PROVE  SInv'
  <1> USE DEF IInv, TypeOK
  <1>1. ASSUME NEW m \in Messages, m.type # "CheckIn",
               SendInternal(m) \/ UNCHANGED internalVars,
               UNCHANGED <<idle, answer, carried, pc, task, gone>>
        PROVE  SInv'
    <2>1. UNCHANGED internal_open
      BY <1>1 DEF SendInternal, internalVars
    <2>2. OneReturn' /\ Returning' = Returning
      BY <1>1, OtherSent, PlacesStay DEF internalVars, SInv
    <2>3. /\ Idle' = Idle /\ Distinct(idle)' /\ Held' = Held /\ OneHolder'
          /\ Carried' = Carried /\ Creating' = Creating /\ EndOK'
      BY <1>1, <2>1, PlacesStay DEF SInv
    <2> QED
      BY <1>1, <2>2, <2>3 DEF SInv, OnePlace
  <1>2. CASE DropPool
    <2>1. Stop \in Messages /\ Stop.type # "CheckIn"
      BY MessageTypes DEF Stop
    <2> QED
      BY <1>1, <1>2, <2>1
      DEF DropPool, innerVars, consumerVars, slotVars, clientVars
  <1>3. CASE Tick
    <2>1. /\ CleanupReservations \in Messages
          /\ CleanupReservations.type # "CheckIn"
      BY MessageTypes DEF CleanupReservations
    <2> QED
      BY <1>1, <1>3, <2>1
      DEF Tick, innerVars, consumerVars, slotVars, clientVars
  <1>4. ASSUME NEW c \in Conns, Probe(c)
        PROVE  SInv'
    <2>1. c \in Creating /\ UNCHANGED <<idle, answer, carried, pc>>
      BY <1>4 DEF Probe, Creating, innerVars, consumerVars, clientVars
    <2>2. /\ Idle' = Idle /\ Distinct(idle)' /\ Held' = Held /\ OneHolder'
          /\ Carried' = Carried
      BY <2>1, PlacesStay DEF SInv
    <2>3. CASE /\ SendInternal(CheckAlive(c))
               /\ task' = [task EXCEPT ![c] = "connect"]
               /\ UNCHANGED gone
      <3>1. CheckAlive(c) \in Messages /\ CheckAlive(c).type # "CheckIn"
        BY MessageTypes DEF CheckAlive
      <3>2. OneReturn' /\ Returning' = Returning
        BY <2>3, <3>1, OtherSent DEF SInv
      <3>3. Creating' = Creating
        BY <2>1, <2>3 DEF Creating, SlotTypes
      <3>4. EndOK'
        BY <2>1, <2>3, PlacesStay DEF SendInternal, SInv
      <3> QED
        BY <2>2, <2>3, <3>2, <3>3, <3>4 DEF SInv, OnePlace
    <2>4. CASE /\ ~internal_open
               /\ task' = [task EXCEPT ![c] = "none"]
               /\ gone' = gone \cup {c}
               /\ UNCHANGED internalVars
      <3>1. Creating' = Creating \ {c}
        BY <2>4 DEF Creating, SlotTypes
      <3>2. OneReturn' /\ Returning' = Returning
        BY <2>4, PlacesStay DEF internalVars, SInv
      <3>3. EndOK'
        BY <2>1, <2>4 DEF internalVars, SInv, EndOK
      <3>4. OnePlace'
        BY <2>1, <2>2, <2>4, <3>1, <3>2 DEF SInv, OnePlace
      <3> QED
        BY <2>2, <3>2, <3>3, <3>4 DEF SInv
    <2> QED
      BY <1>4, <2>3, <2>4 DEF Probe
  <1>5. ASSUME NEW c \in Conns, Connected(c)
        PROVE  SInv'
    <2>1. c \in Creating /\ UNCHANGED <<idle, answer, carried, pc>>
      BY <1>5 DEF Connected, Creating, innerVars, consumerVars, clientVars
    <2>2. /\ Idle' = Idle /\ Distinct(idle)' /\ Held' = Held /\ OneHolder'
          /\ Carried' = Carried
      BY <2>1, PlacesStay DEF SInv
    <2>3. Creating' = Creating \ {c}
      BY <1>5 DEF Connected, Creating, SlotTypes
    <2>4. c \notin Returning
      BY <2>1 DEF SInv, OnePlace
    <2>5. OneReturn' /\ UNCHANGED internal_open /\ Returns(c)
      BY <1>5, <2>4, ReturnMoves DEF Connected, SInv
    <2>6. EndOK'
      BY <2>1, <2>5 DEF Returns, SInv, EndOK
    <2>7. OnePlace'
      BY <2>1, <2>2, <2>3, <2>5 DEF Returns, SInv, OnePlace
    <2> QED
      BY <2>2, <2>5, <2>6, <2>7 DEF SInv
  <1>6. ASSUME NEW c \in Conns, ConnectFailed(c)
        PROVE  SInv'
    <2>1. c \in Creating /\ Creating' = Creating
      BY <1>6 DEF ConnectFailed, Creating, SlotTypes
    <2>2. UNCHANGED <<idle, internal, internal_open, answer, carried, pc,
                      gone>>
      BY <1>6
      DEF ConnectFailed, innerVars, internalVars, consumerVars, clientVars
    <2>3. /\ Idle' = Idle /\ Distinct(idle)' /\ Returning' = Returning
          /\ OneReturn' /\ Held' = Held /\ OneHolder' /\ Carried' = Carried
          /\ EndOK'
      BY <2>2, PlacesStay DEF SInv
    <2> QED
      BY <2>1, <2>2, <2>3 DEF SInv, OnePlace
  <1> QED
    BY <1>2, <1>3, <1>4, <1>5, <1>6 DEF Creation

\* The steps of the consumer.
LEMMA ConsumerSlots ==
  ASSUME IInv, RInv, SInv, ProcessInternal \/ ProcessCheckOut \/ Process
  PROVE  SInv'
  <1> USE DEF IInv, TypeOK
  <1>1. CASE ProcessCheckIn
    <2> DEFINE c == Head(internal).conn
    <2>1. /\ internal # <<>> /\ internal' = Tail(internal)
          /\ UNCHANGED <<internal_open, task, gone, answer>>
          /\ pc = "receive" /\ carried = None
      BY <1>1 DEF ProcessCheckIn, NextMessage, PopInternal, ConsumerOK,
                  slotVars, clientVars
    <2>2. c \in Conns /\ \A d \in Conns : Head(internal) = CheckIn(d) <=> d = c
      <3>1. Head(internal) \in Messages /\ Head(internal).type = "CheckIn"
        BY <1>1, HeadOfInternal DEF ProcessCheckIn, NextMessage, ChannelTypes
      <3> QED
        BY <3>1 DEF Messages, CheckIn
    <2>3. OneReturn' /\ Returning' = Returning \ {c} /\ c \in Returning
      <3>1. /\ OneReturn'
            /\ Returning' = {d \in Returning : Head(internal) # CheckIn(d)}
            /\ \A d \in Conns : Head(internal) = CheckIn(d) => d \in Returning
        BY <2>1, Received DEF SInv
      <3>2. Returning \in SUBSET Conns
        BY DEF Returning
      <3> HIDE DEF c
      <3>3. Returning' = Returning \ {c}
        BY <2>2, <3>1, <3>2
      <3>4. c \in Returning
        BY <2>2, <3>1
      <3> QED
        BY <3>1, <3>3, <3>4
    <2>4. /\ Held' = Held /\ OneHolder' /\ Creating' = Creating /\ Carried = {}
      BY <2>1, PlacesStay DEF Carried, SInv
    <2>5. EndOK'
      BY <1>1, <2>1 DEF ProcessCheckIn, consumerVars, SInv, EndOK
    <2>6. CASE idle' = Put(idle, c) /\ UNCHANGED carried
      <3>1. c \notin Range(idle)
        BY <2>3 DEF SInv, OnePlace, Idle
      <3>2. Distinct(idle)' /\ Idle' = Idle \cup {c}
        BY <2>2, <2>6, <3>1, PutMoves DEF SInv, InnerTypes, Idle
      <3>3. Carried' = {}
        BY <2>1, <2>6 DEF Carried
      <3> HIDE DEF c
      <3>4. OnePlace'
        BY <2>1, <2>2, <2>3, <2>4, <3>2, <3>3 DEF SInv, OnePlace
      <3> QED
        BY <2>3, <2>4, <2>5, <3>2, <3>4 DEF SInv
    <2>7. CASE carried' = c /\ UNCHANGED idle
      <3>1. Carried' = {c}
        BY <2>2, <2>7, NoneAssumption DEF Carried
      <3>2. Idle' = Idle /\ Distinct(idle)'
        BY <2>7, PlacesStay DEF SInv
      <3> HIDE DEF c
      <3>3. OnePlace'
        BY <2>1, <2>2, <2>3, <2>4, <3>1, <3>2 DEF SInv, OnePlace
      <3> QED
        BY <2>3, <2>4, <2>5, <3>2, <3>3 DEF SInv
    <2> QED
      BY <1>1, <2>6, <2>7 DEF ProcessCheckIn, consumerVars
  <1>2. CASE ProcessCheckAlive \/ ProcessCleanup
    <2>1. /\ internal # <<>> /\ internal' = Tail(internal)
          /\ UNCHANGED <<internal_open, idle, task, gone, answer, carried>>
          /\ \A d \in Conns : Head(internal) # CheckIn(d)
      BY <1>2 DEF ProcessCheckAlive, ProcessCleanup, NextMessage, PopInternal,
                  CheckIn, innerVars, consumerVars, slotVars, clientVars
    <2>2. OneReturn' /\ Returning' = Returning
      <3>1. /\ OneReturn'
            /\ Returning' = {c \in Returning : Head(internal) # CheckIn(c)}
        BY <2>1, Received DEF SInv
      <3>2. Returning \in SUBSET Conns
        BY DEF Returning
      <3> QED
        BY <2>1, <3>1, <3>2
    <2>3. EndOK'
      BY <1>2, <2>1 DEF ProcessCheckAlive, ProcessCleanup, NextMessage,
                        consumerVars, SInv, EndOK
    <2>4. /\ Idle' = Idle /\ Distinct(idle)' /\ Held' = Held /\ OneHolder'
          /\ Carried' = Carried /\ Creating' = Creating
      BY <2>1, PlacesStay DEF SInv
    <2> QED
      BY <2>1, <2>2, <2>3, <2>4 DEF SInv, OnePlace
  <1>3. CASE ProcessStop
    <2>1. /\ UNCHANGED <<idle, answer, carried, task>>
      BY <1>3 DEF ProcessStop, innerVars, clientVars
    <2>2. internal' \in Seq(Messages) /\ Len(internal') = 0
      BY <1>3, EmptySeq DEF ProcessStop
    <2>3. OneReturn' /\ Returning' = {}
      BY <2>2 DEF OneReturn, Returning
    <2>4. gone' = gone \cup Returning
      <3>1. \A d : d \in Range(internal) <=>
                     \E i \in 1..Len(internal) : internal[i] = d
        BY RangeIs DEF ChannelTypes
      <3> QED
        BY <1>3, <3>1 DEF ProcessStop, Returning
    <2>5. EndOK'
      BY <1>3 DEF ProcessStop, EndOK
    <2>6. /\ Idle' = Idle /\ Distinct(idle)' /\ Held' = Held /\ OneHolder'
          /\ Carried' = Carried /\ Creating' = Creating
      BY <2>1, PlacesStay DEF SInv
    <2>7. OnePlace'
      BY <2>3, <2>4, <2>6 DEF SInv, OnePlace
    <2> QED
      BY <2>3, <2>5, <2>6, <2>7 DEF SInv
  <1>4. CASE ProcessCheckOut \/ Fulfilled \/ Delivered \/ CleanupStep
    <2>1. UNCHANGED <<idle, internal, internal_open, answer, carried, task,
                      gone>>
      BY <1>4 DEF ProcessCheckOut, Fulfilled, Delivered, CleanupStep,
                  innerVars, internalVars, consumerVars, slotVars, clientVars
    <2>2. EndOK'
      BY <1>4, <2>1 DEF ProcessCheckOut, Fulfilled, Delivered, CleanupStep,
                        consumerVars, SInv, EndOK
    <2> QED
      BY <2>1, <2>2, NobodyMoves
  <1>5. CASE TryFulfill
    <2> DEFINE r == Head(reservations)
               c == carried
    <2>1. c \in Conns /\ Carried = {c}
      BY <1>5 DEF TryFulfill, ConsumerOK, ConsumerTypes, Carried
    <2>2. r \in Requests /\ r \in Senders
      BY <1>5, HeadTailProperties, TailDistinct
      DEF TryFulfill, InnerTypes, RInv, OneSender, Senders, Reserved
    <2>3. c \notin Held
      BY <2>1 DEF SInv, OnePlace
    <2>4. /\ OneHolder'
          /\ Held' = IF IsClosed(r) THEN Held ELSE Held \cup {c}
      BY <1>5, <2>1, <2>2, <2>3, SenderIsEmpty, SendMoves
      DEF TryFulfill, SInv
    <2>5. Carried' = IF IsClosed(r) THEN {c} ELSE {}
      BY <1>5, <2>1 DEF TryFulfill, consumerVars, Carried
    <2>6. UNCHANGED <<idle, internal, internal_open, task, gone>> /\ EndOK'
      BY <1>5
      DEF TryFulfill, internalVars, slotVars, consumerVars, SInv, EndOK
    <2>7. /\ Idle' = Idle /\ Distinct(idle)' /\ Returning' = Returning
          /\ OneReturn' /\ Creating' = Creating
      BY <2>6, PlacesStay DEF SInv
    <2> HIDE DEF r, c
    <2>8. OnePlace'
      BY <2>1, <2>4, <2>5, <2>6, <2>7 DEF SInv, OnePlace
    <2> QED
      BY <2>4, <2>6, <2>7, <2>8 DEF SInv
  <1>6. CASE NoneFulfilled
    <2> DEFINE c == carried
    <2>1. c \in Conns /\ Carried = {c} /\ Carried' = {}
      BY <1>6 DEF NoneFulfilled, ConsumerOK, ConsumerTypes, Carried
    <2>2. c \notin Range(idle)
      BY <2>1 DEF SInv, OnePlace, Idle
    <2>3. Distinct(idle)' /\ Idle' = Idle \cup {c}
      BY <1>6, <2>1, <2>2, PutMoves
      DEF NoneFulfilled, PutIdle, SInv, InnerTypes, Idle
    <2>4. UNCHANGED <<internal, internal_open, answer, task, gone>> /\ EndOK'
      BY <1>6
      DEF NoneFulfilled, internalVars, slotVars, clientVars, SInv, EndOK
    <2>5. /\ Returning' = Returning /\ OneReturn' /\ Held' = Held /\ OneHolder'
          /\ Creating' = Creating
      BY <2>4, PlacesStay DEF SInv
    <2> HIDE DEF c
    <2>6. OnePlace'
      BY <2>1, <2>3, <2>4, <2>5 DEF SInv, OnePlace
    <2> QED
      BY <2>3, <2>4, <2>5, <2>6 DEF SInv
  <1>7. CASE DeliverIdle
    <2> DEFINE r == serving.request
               c == NextIdle(idle)
    <2>1. r \in Requests /\ r \in Senders
      BY <1>7 DEF DeliverIdle, ConsumerOK, ConsumerTypes, Payloads, Senders,
                  Served
    <2>2. /\ c \in Conns /\ c \in Idle
          /\ RestIdle(idle) \in Seq(Conns)
          /\ Distinct(RestIdle(idle))
          /\ Range(RestIdle(idle)) = Idle \ {c}
      BY <1>7, IdleProperties, GetMoves
      DEF DeliverIdle, InnerTypes, SInv, Idle
    <2>3. c \notin Held
      BY <2>2 DEF SInv, OnePlace
    <2>4. /\ OneHolder'
          /\ Held' = IF IsClosed(r) THEN Held ELSE Held \cup {c}
      BY <1>7, <2>1, <2>2, <2>3, SenderIsEmpty, SendMoves
      DEF DeliverIdle, SInv
    <2>5. UNCHANGED <<internal, internal_open, carried, task, gone>> /\ EndOK'
      BY <1>7 DEF DeliverIdle, internalVars, slotVars, SInv, EndOK
    <2>6. /\ Returning' = Returning /\ OneReturn'
          /\ Carried' = Carried /\ Creating' = Creating
      BY <2>5, PlacesStay DEF SInv
    <2>7. Distinct(idle)' /\ Idle' = IF IsClosed(r) THEN Idle ELSE Idle \ {c}
      <3>1. CASE IsClosed(r)
        <4>1. idle' = Put(RestIdle(idle), c)
          BY <1>7, <3>1 DEF DeliverIdle
        <4>2. Distinct(idle)' /\ Idle' = (Idle \ {c}) \cup {c}
          BY <2>2, <4>1, PutMoves DEF Idle
        <4> QED
          BY <2>2, <3>1, <4>2
      <3>2. CASE ~IsClosed(r)
        <4>1. idle' = RestIdle(idle)
          BY <1>7, <3>2 DEF DeliverIdle
        <4>2. Distinct(idle)' /\ Idle' = Idle \ {c}
          BY <2>2, <4>1 DEF Idle
        <4> QED
          BY <3>2, <4>2
      <3> QED
        BY <3>1, <3>2
    <2> HIDE DEF r, c
    <2>8. OnePlace'
      BY <2>2, <2>4, <2>5, <2>6, <2>7 DEF SInv, OnePlace
    <2> QED
      BY <2>4, <2>5, <2>6, <2>7, <2>8 DEF SInv
  <1>8. CASE NoIdle
    <2>1. serving # None /\ UNCHANGED <<idle, internal, carried, task, gone>>
      BY <1>8 DEF NoIdle, ConsumerOK, internalVars, slotVars
    <2>2. EndOK'
      BY <1>8 DEF NoIdle, internalVars, slotVars, SInv, EndOK
    <2>3. CASE UNCHANGED answer
      BY <2>1, <2>2, <2>3, NobodyMoves
    <2>4. CASE Send(serving.request, "NoConnection")
      BY <2>1, <2>2, <2>4, ServingRefused DEF Errors
    <2> QED
      BY <1>8, <2>3, <2>4 DEF NoIdle
  <1>9. CASE CleanupDone
    <2>1. UNCHANGED <<idle, internal, carried, task, gone>>
      BY <1>9 DEF CleanupDone, internalVars, slotVars
    <2>2. EndOK'
      BY <1>9 DEF CleanupDone, internalVars, slotVars, SInv, EndOK
    <2>3. CASE UNCHANGED answer
      BY <2>1, <2>2, <2>3, NobodyMoves
    <2>4. CASE /\ serving # None
               /\ Send(serving.request, "ReservationLimitReached")
      BY <2>1, <2>2, <2>4, ServingRefused DEF Errors
    <2> QED
      BY <1>9, <2>3, <2>4 DEF CleanupDone
  <1>10. CASE CloseCheckouts
    <2>1. UNCHANGED <<idle, internal, carried, task, gone>>
      BY <1>10 DEF CloseCheckouts, innerVars, internalVars, slotVars
    <2>2. EndOK'
      BY <1>10 DEF CloseCheckouts, internalVars, slotVars, SInv, EndOK
    <2>3. Queued = {checkouts[i].request : i \in DOMAIN checkouts}
      BY RequestsOfPayloads DEF ChannelTypes, Queued
    <2>4. OneHolder' /\ Held' = Held
      BY <1>10, <2>3, SendersDropped DEF CloseCheckouts, Senders
    <2> QED
      BY <2>1, <2>2, <2>4, NobodyMovesBut
  <1>11. CASE DropInnerPool
    <2>1. UNCHANGED <<internal, internal_open, carried, task>>
      BY <1>11 DEF DropInnerPool, internalVars
    <2>2. EndOK'
      BY <1>11, <2>1 DEF DropInnerPool, SInv, EndOK
    <2>3. OneHolder' /\ Held' = Held
      BY <1>11, SendersDropped DEF DropInnerPool, Senders, Reserved
    <2>4. Idle' = {} /\ Distinct(idle)' /\ gone' = gone \cup Idle
      BY <1>11, EmptySeq DEF DropInnerPool, Idle, Range, Distinct
    <2>5. /\ Returning' = Returning /\ OneReturn'
          /\ Carried' = Carried /\ Creating' = Creating
      BY <2>1, PlacesStay DEF SInv
    <2>6. OnePlace'
      BY <2>3, <2>4, <2>5 DEF SInv, OnePlace
    <2> QED
      BY <2>2, <2>3, <2>4, <2>5, <2>6 DEF SInv
  <1> QED
    BY <1>1, <1>2, <1>3, <1>4, <1>5, <1>6, <1>7, <1>8, <1>9, <1>10, <1>11
    DEF ProcessInternal, Process

\* Every step keeps it.
LEMMA NextSlots == IInv /\ RInv /\ SInv /\ [Next]_vars => SInv'
  <1> SUFFICES ASSUME IInv, RInv, SInv, [Next]_vars
               PROVE  SInv'
    OBVIOUS
  <1>1. CASE UNCHANGED vars
    <2>1. UNCHANGED <<idle, internal, internal_open, answer, carried, pc,
                      task, gone>>
      BY <1>1 DEF vars, innerVars, internalVars, clientVars, consumerVars,
                  slotVars
    <2> QED
      BY <2>1, NobodyMoves, PlacesStay DEF SInv
  <1> QED
    BY <1>1, ClientSlots, TaskSlots, ConsumerSlots DEF Next

-----------------------------------------------------------------------------
(* The theorems.                                                           *)

\* The places share no slot, and none is missing.
THEOREM SlotsInvariance == Spec => []SInv
  BY Invariance, SendersInvariance, InitSlots, NextSlots, PTL DEF Spec

\* Every slot is in exactly one place: no interleaving of the drop of a
\* connection, its check in, a cancelled checkout and the shutdown loses or
\* duplicates one, and none ends for good while the pool takes connections.
THEOREM SlotsAreConserved == Spec => []SlotConservation
  <1>1. ASSUME IInv, SInv
        PROVE  SlotConservation
    <2>a. idle \in Seq(Conns) /\ internal \in Seq(Messages)
      BY <1>1 DEF IInv, TypeOK, InnerTypes, ChannelTypes
    <2>b. Distinct(idle) /\ OneReturn /\ OneHolder /\ OnePlace /\ EndOK
      BY <1>1 DEF SInv
    <2>1. ASSUME NEW c \in Conns
          PROVE  Cardinality(Places(c)) = 1
      <3> DEFINE InIdle == {<<"idle", i>> :
                   i \in {j \in DOMAIN idle : idle[j] = c}}
                 InInternal == {<<"internal", i>> :
                   i \in {j \in DOMAIN internal : internal[j] = CheckIn(c)}}
                 InCheckout == {<<"checkout", r>> :
                   r \in {q \in Requests : answer[q] = c}}
                 InConsumer == IF carried = c THEN {<<"consumer", 1>>} ELSE {}
                 InTask == IF task[c] # "none" THEN {<<"task", 1>>} ELSE {}
                 InGone == IF c \in gone THEN {<<"gone", 1>>} ELSE {}
      <3>1. /\ c \notin Idle => InIdle = {}
            /\ c \in Idle => \E x : InIdle = {x}
        <4>1. /\ c \in Idle <=> \E i \in 1..Len(idle) : idle[i] = c
              /\ DOMAIN idle = 1..Len(idle)
          BY <2>a, RangeIs, LenProperties DEF Idle
        <4>2. \A i, j \in 1..Len(idle) : idle[i] = c /\ idle[j] = c => i = j
          BY <2>b DEF Distinct
        <4>3. ASSUME c \in Idle
              PROVE  \E x : InIdle = {x}
          <5>1. PICK i \in 1..Len(idle) : idle[i] = c
            BY <4>1, <4>3
          <5>2. {j \in DOMAIN idle : idle[j] = c} = {i}
            BY <4>1, <4>2, <5>1
          <5>3. InIdle = {<<"idle", i>>}
            BY <5>2
          <5> QED
            BY <5>3
        <4> QED
          BY <4>1, <4>3
      <3>2. /\ c \notin Returning => InInternal = {}
            /\ c \in Returning => \E x : InInternal = {x}
        <4>1. DOMAIN internal = 1..Len(internal)
          BY <2>a, LenProperties
        <4>2. ASSUME c \in Returning
              PROVE  \E x : InInternal = {x}
          <5>1. PICK i \in 1..Len(internal) : internal[i] = CheckIn(c)
            BY <4>2 DEF Returning
          <5>2. {j \in DOMAIN internal : internal[j] = CheckIn(c)} = {i}
            BY <2>b, <4>1, <5>1 DEF OneReturn
          <5>3. InInternal = {<<"internal", i>>}
            BY <5>2
          <5> QED
            BY <5>3
        <4> QED
          BY <4>1, <4>2 DEF Returning
      <3>3. /\ c \notin Held => InCheckout = {}
            /\ c \in Held => \E x : InCheckout = {x}
        <4>1. ASSUME c \in Held
              PROVE  \E x : InCheckout = {x}
          <5>1. PICK r \in Requests : answer[r] = c
            BY <4>1 DEF Held
          <5>2. {q \in Requests : answer[q] = c} = {r}
            BY <2>b, <5>1 DEF OneHolder
          <5>3. InCheckout = {<<"checkout", r>>}
            BY <5>2
          <5> QED
            BY <5>3
        <4> QED
          BY <4>1 DEF Held
      <3>4. /\ c \notin Carried => InConsumer = {}
            /\ c \in Carried => \E x : InConsumer = {x}
        BY NoneAssumption DEF Carried
      <3>5. /\ c \notin Creating => InTask = {}
            /\ c \in Creating => \E x : InTask = {x}
        BY DEF Creating
      <3>6. /\ c \notin gone => InGone = {}
            /\ c \in gone => \E x : InGone = {x}
        OBVIOUS
      <3>7. Places(c) = InIdle \cup InInternal \cup InCheckout \cup InConsumer
                          \cup InTask \cup InGone
        BY DEF Places
      <3> HIDE DEF InIdle, InInternal, InCheckout, InConsumer, InTask, InGone
      <3>8. \E x : Places(c) = {x}
        <4>1. \/ c \in Idle \/ c \in Returning \/ c \in Held
              \/ c \in Carried \/ c \in Creating \/ c \in gone
          BY <2>b DEF OnePlace
        <4>2. /\ c \in Idle => c \notin Returning \cup Held \cup Carried
                                         \cup Creating \cup gone
              /\ c \in Returning => c \notin Held \cup Carried \cup Creating
                                              \cup gone
              /\ c \in Held => c \notin Carried \cup Creating \cup gone
              /\ c \in Carried => c \notin Creating \cup gone
              /\ c \in Creating => c \notin gone
          BY <2>b DEF OnePlace
        <4>3. CASE c \in Idle
          <5>1. Places(c) = InIdle
            BY <3>2, <3>3, <3>4, <3>5, <3>6, <3>7, <4>2, <4>3
          <5> QED
            BY <3>1, <4>3, <5>1
        <4>4. CASE c \in Returning
          <5>1. Places(c) = InInternal
            BY <3>1, <3>3, <3>4, <3>5, <3>6, <3>7, <4>2, <4>4
          <5> QED
            BY <3>2, <4>4, <5>1
        <4>5. CASE c \in Held
          <5>1. Places(c) = InCheckout
            BY <3>1, <3>2, <3>4, <3>5, <3>6, <3>7, <4>2, <4>5
          <5> QED
            BY <3>3, <4>5, <5>1
        <4>6. CASE c \in Carried
          <5>1. Places(c) = InConsumer
            BY <3>1, <3>2, <3>3, <3>5, <3>6, <3>7, <4>2, <4>6
          <5> QED
            BY <3>4, <4>6, <5>1
        <4>7. CASE c \in Creating
          <5>1. Places(c) = InTask
            BY <3>1, <3>2, <3>3, <3>4, <3>6, <3>7, <4>2, <4>7
          <5> QED
            BY <3>5, <4>7, <5>1
        <4>8. CASE c \in gone
          <5>1. Places(c) = InGone
            BY <3>1, <3>2, <3>3, <3>4, <3>5, <3>7, <4>2, <4>8
          <5> QED
            BY <3>6, <4>8, <5>1
        <4> QED
          BY <4>1, <4>3, <4>4, <4>5, <4>6, <4>7, <4>8
      <3> QED
        BY <3>8, FS_Singleton
    <2>2. internal_open => gone = {}
      BY <2>b DEF EndOK
    <2> QED
      BY <2>1, <2>2 DEF SlotConservation
  <1> QED
    BY <1>1, Invariance, SlotsInvariance, PTL
=============================================================================
