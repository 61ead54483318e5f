------------------------ MODULE PoolContract_proofs ------------------------
(***************************************************************************)
(* Proofs of what a pool promises its clients, for any number of slots and *)
(* checkouts and any sizes of the queues: it implements ConnectionPool,    *)
(* and PoolState counts exactly what there is.                             *)
(***************************************************************************)
EXTENDS PoolSlots_proofs

-----------------------------------------------------------------------------
(* Who owns a slot.                                                        *)

\* A slot belongs to the checkout that was answered with it, to the task that
\* fills it, to nobody any more, or to the pool: idle, on its way back, or in
\* the hands of the consumer.
OwnerOK ==
  \A c \in Conns :
    /\ \A r \in Requests : Owner(c) = r <=> answer[r] = c
    /\ Owner(c) = "factory" <=> task[c] # "none"
    /\ Owner(c) = "void" <=> c \in gone
    /\ Owner(c) = "pool" <=> c \in Idle \cup Returning \cup Carried
    /\ Owner(c) \in Requests \cup {"pool", "factory", "void"}

\* Owner(c) says where the slot is.
LEMMA OwnersKnown == SInv => OwnerOK
<1> SUFFICES ASSUME SInv, NEW c \in Conns
             PROVE  /\ \A r \in Requests : Owner(c) = r <=> answer[r] = c
                    /\ Owner(c) = "factory" <=> task[c] # "none"
                    /\ Owner(c) = "void" <=> c \in gone
                    /\ Owner(c) = "pool" <=>
                         c \in Idle \cup Returning \cup Carried
                    /\ Owner(c) \in Requests \cup {"pool", "factory", "void"}
  BY DEF OwnerOK
<1>1. /\ \/ c \in Held \/ c \in Creating \/ c \in gone
         \/ c \in Idle \cup Returning \cup Carried
      /\ c \in Held => c \notin Creating \cup gone
      /\ c \in Creating => c \notin gone
      /\ c \in Idle \cup Returning \cup Carried =>
           c \notin Held \cup Creating \cup gone
  BY DEF SInv, OnePlace
<1>2. c \in Creating <=> task[c] # "none"
  BY DEF Creating
<1>3. CASE c \in Held
  <2>1. PICK r \in Requests : answer[r] = c
    BY <1>3 DEF Held
  <2>2. \A q \in Requests : answer[q] = c <=> q = r
    BY <2>1 DEF SInv, OneHolder
  <2>3. Owner(c) = r
    BY <2>1, <2>2 DEF Owner
  <2> QED
    BY <1>1, <1>2, <1>3, <2>2, <2>3, RequestsAssumption
<1>4. CASE c \notin Held
  <2>1. \A r \in Requests : answer[r] # c
    BY <1>4 DEF Held
  <2>2. Owner(c) = IF task[c] # "none" THEN "factory"
                   ELSE IF c \in gone THEN "void" ELSE "pool"
    BY <2>1 DEF Owner
  <2> QED
    BY <1>1, <1>2, <1>4, <2>1, <2>2, RequestsAssumption
<1> QED
  BY <1>3, <1>4

own == [c \in Conns |-> Owner(c)]

\* Nothing that ownership depends on changes.
LEMMA OwnersStay ==
  ASSUME SInv, SInv', UNCHANGED <<task, gone, internal_open>>,
         \A r \in Requests : \A c \in Conns : answer'[r] = c <=> answer[r] = c
  PROVE  own' = own /\ UNCHANGED internal_open
<1>1. OwnerOK /\ OwnerOK'
  BY OwnersKnown, PTL
<1>2. ASSUME NEW c \in Conns
      PROVE  Owner(c)' = Owner(c)
  BY <1>1, <1>2 DEF OwnerOK
<1> QED
  BY <1>2 DEF own

\* A checkout gives its connection back, to the pool or into the void.
LEMMA GivenBack ==
  ASSUME IInv, SInv, SInv', NEW r \in Requests, NEW c \in Conns,
         answer[r] = c, ReturnOrOrphan(c),
         answer' = [answer EXCEPT ![r] = None], UNCHANGED task
  PROVE  Abstract!Next
<1>1. OwnerOK /\ OwnerOK'
  BY OwnersKnown, PTL
<1>2. /\ \A q \in Requests : answer'[q] = IF q = r THEN None ELSE answer[q]
      /\ \A q \in Requests : answer[q] = c => q = r
      /\ None \notin Conns
  BY NoneAssumption DEF IInv, TypeOK, ClientTypes, SInv, OneHolder
<1>3. Owner(c) = r /\ own[c] = r /\ c \in Conns
  BY <1>1 DEF OwnerOK, own
<1>4. ASSUME NEW d \in Conns, d # c, gone' \ {c} = gone \ {c}
      PROVE  Owner(d)' = Owner(d)
  <2>1. d \in gone' <=> d \in gone
    BY <1>4
  <2>2. \A q \in Requests : answer'[q] = d <=> answer[q] = d
    BY <1>2, <1>4, NoneAssumption
  <2> QED
    BY <1>1, <2>1, <2>2 DEF OwnerOK
<1>5. CASE SendInternal(CheckIn(c)) /\ UNCHANGED gone
  <2>1. Owner(c)' = "pool"
    <3>1. /\ \A q \in Requests : answer'[q] # c
          /\ task[c] = "none" /\ c \notin gone
      BY <1>2, <1>3, <1>1, RequestsAssumption DEF OwnerOK
    <3> QED
      BY <1>1, <1>3, <1>5, <3>1 DEF OwnerOK
  <2>2. own' = [own EXCEPT ![c] = "pool"]
    BY <1>4, <1>5, <2>1 DEF own
  <2>3. internal_open /\ UNCHANGED internal_open
    BY <1>5 DEF SendInternal
  <2>4. Abstract!Release(c)
    BY <1>3, <2>2, <2>3 DEF Abstract!Release, own
  <2> QED
    BY <1>3, <2>4 DEF Abstract!Next
<1>6. CASE ~internal_open /\ gone' = gone \cup {c} /\ UNCHANGED internalVars
  <2>1. Owner(c)' = "void"
    BY <1>1, <1>3, <1>6 DEF OwnerOK
  <2>2. own' = [d \in Conns |-> IF d \in {c} THEN "void" ELSE own[d]]
    BY <1>4, <1>6, <2>1 DEF own
  <2>3. ~internal_open /\ UNCHANGED internal_open
    BY <1>6 DEF internalVars
  <2>4. own[c] # "void"
    BY <1>3, RequestsAssumption
  <2>5. Abstract!Discard({c})
    BY <2>2, <2>3, <2>4 DEF Abstract!Discard, own
  <2> QED
    BY <1>3, <2>5 DEF Abstract!Next
<1> QED
  BY <1>5, <1>6 DEF ReturnOrOrphan

\* A checkout that waits without a connection is sent one.
LEMMA Granted ==
  ASSUME IInv, SInv, SInv', NEW r \in Requests, NEW c \in Conns,
         c \in Idle \cup Carried, internal_open, answer[r] \notin Conns,
         answer' = [answer EXCEPT ![r] = c],
         UNCHANGED <<task, gone, internal_open>>
  PROVE  Abstract!Next
<1>1. OwnerOK /\ OwnerOK'
  BY OwnersKnown, PTL
<1>2. \A q \in Requests : answer'[q] = IF q = r THEN c ELSE answer[q]
  BY DEF IInv, TypeOK, ClientTypes
<1>3. own[c] = "pool"
  BY <1>1 DEF OwnerOK, own
<1>4. \A d \in Conns : own[d] # r
  BY <1>1 DEF OwnerOK, own
<1>5. Owner(c)' = r
  BY <1>1, <1>2 DEF OwnerOK
<1>6. ASSUME NEW d \in Conns, d # c
      PROVE  Owner(d)' = Owner(d)
  <2>1. \A q \in Requests : answer'[q] = d <=> answer[q] = d
    BY <1>2, <1>6
  <2> QED
    BY <1>1, <2>1 DEF OwnerOK
<1>7. own' = [own EXCEPT ![c] = r]
  BY <1>5, <1>6 DEF own
<1>8. Abstract!Grant(c, r)
  BY <1>3, <1>4, <1>7 DEF Abstract!Grant, Abstract!Owns, own
<1> QED
  BY <1>8 DEF Abstract!Next

\* The steps of a client.
LEMMA ClientImplements ==
  ASSUME IInv, RInv, SInv, SInv', NEW r \in Requests, Client(r)
  PROVE  Abstract!Next \/ (own' = own /\ UNCHANGED internal_open)
<1>0. phase \in [Requests -> Phases] /\ answer \in [Requests -> Answers]
  BY DEF IInv, TypeOK, ClientTypes
<1>1. CASE \E m \in Modes : CheckOut(r, m)
  <2>1. UNCHANGED <<task, gone, internal_open>>
    BY <1>1 DEF CheckOut, slotVars, internalVars
  <2>2. CASE UNCHANGED answer
    BY <2>1, <2>2, OwnersStay
  <2>3. ASSUME NEW e \in Errors, Refuse(r, e)
        PROVE  own' = own /\ UNCHANGED internal_open
    <3>1. answer[r] = None
      BY <1>1 DEF CheckOut, RInv, FreeOK
    <3>2. \A q \in Requests : \A c \in Conns : answer'[q] = c <=> answer[q] = c
      BY <1>0, <2>3, <3>1, NoneAssumption DEF Refuse
    <3> QED
      BY <2>1, <3>2, OwnersStay
  <2> QED
    BY <1>1, <2>2, <2>3 DEF CheckOut, Errors
<1>2. CASE Poll(r) \/ TimeOut(r) \/ StartCommand(r) \/ CommandDone(r)
  <2>1. UNCHANGED <<task, gone, internal_open, answer>>
    BY <1>2 DEF Poll, TimeOut, StartCommand, CommandDone, slotVars,
                internalVars
  <2> QED
    BY <2>1, OwnersStay
<1>3. CASE DropFuture(r)
  <2>1. CASE answer[r] \in Conns
    BY <1>3, <2>1, GivenBack DEF DropFuture
  <2>2. CASE answer[r] \notin Conns
    <3>1. UNCHANGED <<task, gone, internal_open>>
      BY <1>3, <2>2 DEF DropFuture, internalVars
    <3>2. \A q \in Requests : \A c \in Conns : answer'[q] = c <=> answer[q] = c
      BY <1>0, <1>3, <2>2, NoneAssumption DEF DropFuture
    <3> QED
      BY <3>1, <3>2, OwnersStay
  <2> QED
    BY <2>1, <2>2
<1>4. CASE DropConnection(r)
  <2>1. answer[r] \in Conns
    BY <1>4 DEF DropConnection, IInv, HoldersOK
  <2> QED
    BY <1>4, <2>1, GivenBack DEF DropConnection
<1>5. CASE DropBroken(r)
  <2>1. PICK c \in Conns : c = answer[r]
    BY <1>5 DEF DropBroken, IInv, HoldersOK
  <2>2. OwnerOK /\ OwnerOK'
    BY OwnersKnown, PTL
  <2>3. /\ task' = [task EXCEPT ![c] = "probe"]
        /\ answer' = [answer EXCEPT ![r] = None]
        /\ UNCHANGED <<gone, internal_open>>
    BY <1>5, <2>1 DEF DropBroken, RequestNew, internalVars
  <2>4. /\ \A q \in Requests : answer'[q] = IF q = r THEN None ELSE answer[q]
        /\ \A d \in Conns : task'[d] = IF d = c THEN "probe" ELSE task[d]
        /\ None \notin Conns
    BY <1>0, <2>3, NoneAssumption DEF IInv, TypeOK, SlotTypes
  <2>5. own[c] = r
    BY <2>1, <2>2 DEF OwnerOK, own
  <2>6. Owner(c)' = "factory"
    BY <2>2, <2>4 DEF OwnerOK
  <2>7. ASSUME NEW d \in Conns, d # c
        PROVE  Owner(d)' = Owner(d)
    <3>1. \A q \in Requests : answer'[q] = d <=> answer[q] = d
      BY <2>1, <2>4, <2>7
    <3> QED
      BY <2>2, <2>3, <2>4, <2>7, <3>1 DEF OwnerOK
  <2>8. own' = [own EXCEPT ![c] = "factory"]
    BY <2>6, <2>7 DEF own
  <2>9. Abstract!Break(c)
    BY <2>3, <2>5, <2>8 DEF Abstract!Break, own
  <2> QED
    BY <2>9 DEF Abstract!Next
<1> QED
  BY <1>1, <1>2, <1>3, <1>4, <1>5 DEF Client

\* A slot's task ends after the pool did.
LEMMA TaskDiscarded ==
  ASSUME IInv, SInv, SInv', NEW c \in Conns, task[c] # "none",
         task' = [task EXCEPT ![c] = "none"], gone' = gone \cup {c},
         ~internal_open, UNCHANGED <<internal_open, answer>>
  PROVE  Abstract!Next
<1>1. OwnerOK /\ OwnerOK'
  BY OwnersKnown, PTL
<1>2. \A d \in Conns : task'[d] = IF d = c THEN "none" ELSE task[d]
  BY DEF IInv, TypeOK, SlotTypes
<1>3. own[c] = "factory" /\ Owner(c)' = "void"
  BY <1>1 DEF OwnerOK, own
<1>4. ASSUME NEW d \in Conns, d # c
      PROVE  Owner(d)' = Owner(d)
  <2>1. d \in gone' <=> d \in gone
    BY <1>4
  <2> QED
    BY <1>1, <1>2, <1>4, <2>1 DEF OwnerOK
<1>5. own' = [d \in Conns |-> IF d \in {c} THEN "void" ELSE own[d]]
  BY <1>3, <1>4 DEF own
<1>6. Abstract!Discard({c})
  BY <1>3, <1>5 DEF Abstract!Discard, own
<1> QED
  BY <1>6 DEF Abstract!Next

\* The steps of the tasks, of the ticker and of the pool's drop.
LEMMA TaskImplements ==
  ASSUME IInv, SInv, SInv',
         (\E c \in Conns : Creation(c)) \/ Tick \/ DropPool
  PROVE  Abstract!Next \/ (own' = own /\ UNCHANGED internal_open)
<1>0. task \in [Conns -> {"none", "probe", "connect"}]
  BY DEF IInv, TypeOK, SlotTypes
<1>1. CASE Tick \/ DropPool
  <2>1. UNCHANGED <<task, gone, internal_open, answer>>
    BY <1>1 DEF Tick, DropPool, slotVars, internalVars, clientVars,
                SendInternal
  <2> QED
    BY <2>1, OwnersStay
<1>2. ASSUME NEW c \in Conns, Creation(c)
      PROVE  Abstract!Next \/ (own' = own /\ UNCHANGED internal_open)
  <2>1. OwnerOK /\ OwnerOK'
    BY OwnersKnown, PTL
  <2>2. ASSUME task[c] # "none", UNCHANGED <<gone, internal_open, answer>>,
               NEW v \in {"probe", "connect"}, task' = [task EXCEPT ![c] = v]
        PROVE  own' = own
    <3>1. ASSUME NEW d \in Conns
          PROVE  Owner(d)' = Owner(d)
      <4>1. task'[d] # "none" <=> task[d] # "none"
        BY <1>0, <2>2
      <4> QED
        BY <2>1, <2>2, <4>1 DEF OwnerOK
    <3> QED
      BY <3>1 DEF own
  <2>3. CASE Probe(c)
    <3>1. CASE SendInternal(CheckAlive(c))
               /\ task' = [task EXCEPT ![c] = "connect"] /\ UNCHANGED gone
      BY <2>2, <2>3, <3>1 DEF Probe, SendInternal, clientVars
    <3>2. CASE /\ ~internal_open
               /\ task' = [task EXCEPT ![c] = "none"]
               /\ gone' = gone \cup {c}
               /\ UNCHANGED internalVars
      BY <2>3, <3>2, TaskDiscarded DEF Probe, internalVars, clientVars
    <3> QED
      BY <2>3, <3>1, <3>2 DEF Probe
  <2>4. CASE Connected(c)
    <3>1. CASE SendInternal(CheckIn(c)) /\ UNCHANGED gone
      <4>1. internal_open /\ UNCHANGED <<gone, internal_open, answer>>
        BY <2>4, <3>1 DEF Connected, SendInternal, clientVars
      <4>2. \A d \in Conns : task'[d] = IF d = c THEN "none" ELSE task[d]
        BY <1>0, <2>4 DEF Connected
      <4>3. own[c] = "factory"
        BY <2>1, <2>4 DEF OwnerOK, own, Connected
      <4>4. Owner(c)' = "pool"
        <5>1. /\ \A q \in Requests : answer[q] # c
              /\ c \notin gone
          BY <2>1, <4>3, RequestsAssumption DEF OwnerOK, own
        <5> QED
          BY <2>1, <4>1, <4>2, <5>1 DEF OwnerOK
      <4>5. \A d \in Conns : d # c => Owner(d)' = Owner(d)
        BY <2>1, <4>1, <4>2 DEF OwnerOK
      <4>6. own' = [own EXCEPT ![c] = "pool"]
        BY <4>4, <4>5 DEF own
      <4>7. Abstract!Open(c)
        BY <4>1, <4>3, <4>6 DEF Abstract!Open, own
      <4> QED
        BY <4>7 DEF Abstract!Next
    <3>2. CASE /\ ~internal_open /\ gone' = gone \cup {c}
               /\ UNCHANGED internalVars
      BY <2>4, <3>2, TaskDiscarded DEF Connected, internalVars, clientVars
    <3> QED
      BY <2>4, <3>1, <3>2 DEF Connected, ReturnOrOrphan
  <2>5. CASE ConnectFailed(c)
    BY <2>2, <2>5 DEF ConnectFailed, internalVars, clientVars
  <2> QED
    BY <1>2, <2>3, <2>4, <2>5 DEF Creation
<1> QED
  BY <1>1, <1>2

\* The consumer sends a connection it has to a checkout.
LEMMA SentImplements ==
  ASSUME IInv, RInv, SInv, SInv', NEW r \in Requests, r \in Senders,
         NEW c \in Conns, c \in Idle \cup Carried, internal_open, Send(r, c),
         UNCHANGED <<task, gone, internal_open>>
  PROVE  Abstract!Next \/ (own' = own /\ UNCHANGED internal_open)
<1>1. CASE IsClosed(r)
  BY <1>1, OwnersStay DEF Send
<1>2. CASE ~IsClosed(r)
  BY <1>2, SenderIsEmpty, Granted DEF Send
<1> QED
  BY <1>1, <1>2

\* Some checkouts learn that they get no connection: they had none.
LEMMA RefusedImplements ==
  ASSUME IInv, RInv, SInv, SInv', NEW rs, rs \in SUBSET Senders,
         NEW e \in Errors,
         \A q \in Requests :
           answer'[q] = IF q \in rs /\ ~IsClosed(q) THEN e ELSE answer[q]
  PROVE  \A q \in Requests : \A c \in Conns : answer'[q] = c <=> answer[q] = c
<1>1. \A q \in rs \cap Requests : ~IsClosed(q) => answer[q] \notin Conns
  BY SenderIsEmpty
<1>2. e \notin Conns
  BY NoneAssumption
<1> QED
  BY <1>1, <1>2

\* The inner pool ends with the connections that are idle.
LEMMA EndImplements ==
  ASSUME IInv, RInv, SInv, SInv', DropInnerPool
  PROVE  Abstract!Next
<1>0. TypeOK
  BY DEF IInv
<1>1. OwnerOK /\ OwnerOK'
  BY OwnersKnown, PTL
<1>2. /\ pc = "drop_inner" /\ ~internal_open
      /\ UNCHANGED <<task, internal_open>>
      /\ gone' = gone \cup Idle
      /\ DropSenders(Reserved)
  BY DEF DropInnerPool, internalVars, SInv, EndOK, Idle, Reserved
<1>3. \A q \in Requests : \A c \in Conns : answer'[q] = c <=> answer[q] = c
  <2>1. "NoPool" \in Errors /\ Reserved \in SUBSET Senders
    BY DEF Errors, Senders
  <2> QED
    BY <1>2, <2>1, RefusedImplements DEF DropSenders
<1>4. Idle \in SUBSET Conns
  BY <1>0, RangeIs DEF TypeOK, InnerTypes, Idle
<1>5. ASSUME NEW c \in Idle
      PROVE  own[c] # "void" /\ Owner(c)' = "void"
  <2>1. c \in Conns /\ own[c] = "pool"
    BY <1>1, <1>4, <1>5 DEF OwnerOK, own
  <2>2. Owner(c)' = "void"
    BY <1>1, <1>2, <1>5, <2>1 DEF OwnerOK
  <2> QED
    BY <2>1, <2>2
<1>6. ASSUME NEW c \in Conns, c \notin Idle
      PROVE  Owner(c)' = Owner(c)
  <2>1. c \in gone' <=> c \in gone
    BY <1>2, <1>6
  <2> QED
    BY <1>1, <1>2, <1>3, <2>1 DEF OwnerOK
<1>7. own' = [c \in Conns |-> IF c \in Idle THEN "void" ELSE own[c]]
  BY <1>5, <1>6 DEF own
<1>8. Abstract!Discard(Idle)
  BY <1>2, <1>4, <1>5, <1>7 DEF Abstract!Discard, own
<1> QED
  BY <1>4, <1>8 DEF Abstract!Next

\* The consumer stops: the connections on their way back are lost.
LEMMA StopImplements ==
  ASSUME IInv, SInv, SInv', ProcessStop
  PROVE  Abstract!Next
<1>1. OwnerOK /\ OwnerOK'
  BY OwnersKnown, PTL
<1>2. /\ internal_open /\ internal_open' = FALSE
      /\ UNCHANGED <<task, answer>>
  BY DEF ProcessStop, NextMessage, clientVars, SInv, EndOK
<1>3. gone' = gone \cup Returning
  <2>1. \A d : d \in Range(internal) <=>
                 \E i \in 1..Len(internal) : internal[i] = d
    BY RangeIs DEF IInv, TypeOK, ChannelTypes
  <2> QED
    BY <2>1 DEF ProcessStop, Returning
<1>4. Returning \in SUBSET Conns
  BY DEF Returning
<1>5. ASSUME NEW c \in Conns, c \in Returning
      PROVE  own[c] = "pool"
  BY <1>1, <1>5 DEF OwnerOK, own
<1>6. ASSUME NEW c \in Conns
      PROVE  Owner(c)' = IF c \in Returning THEN "void" ELSE Owner(c)
  <2> DEFINE R == Returning
  <2>1. c \in gone' <=> c \in gone \/ c \in R
    BY <1>3
  <2>2. CASE c \in R
    <3>1. Owner(c)' = "void"
      BY <1>1, <2>1, <2>2 DEF OwnerOK
    <3> QED
      BY <2>2, <3>1
  <2>3. CASE c \notin R
    <3>1. Owner(c)' = Owner(c)
      BY <1>1, <1>2, <2>1, <2>3 DEF OwnerOK
    <3> QED
      BY <2>3, <3>1
  <2> QED
    BY <2>2, <2>3
<1>7. own' = [c \in Conns |-> IF c \in Returning THEN "void" ELSE own[c]]
  BY <1>6 DEF own
<1>8. Abstract!Close(Returning)
  BY <1>2, <1>4, <1>5, <1>7 DEF Abstract!Close, own
<1> QED
  BY <1>4, <1>8 DEF Abstract!Next

\* The steps of the consumer.
LEMMA ConsumerImplements ==
  ASSUME IInv, RInv, SInv, SInv',
         ProcessInternal \/ ProcessCheckOut \/ Process
  PROVE  Abstract!Next \/ (own' = own /\ UNCHANGED internal_open)
<1>0. TypeOK /\ ConsumerOK
  BY DEF IInv
<1>1. CASE \/ ProcessCheckIn \/ ProcessCheckAlive \/ ProcessCleanup
           \/ ProcessCheckOut \/ Fulfilled \/ NoneFulfilled \/ Delivered
           \/ CleanupStep
  <2>1. UNCHANGED <<task, gone, internal_open, answer>>
    BY <1>1 DEF ProcessCheckIn, ProcessCheckAlive, ProcessCleanup,
                ProcessCheckOut, Fulfilled, NoneFulfilled, Delivered,
                CleanupStep, PopInternal, slotVars, internalVars, clientVars
  <2> QED
    BY <2>1, OwnersStay
<1>2. CASE TryFulfill
  <2>1. carried \in Conns /\ Carried = {carried} /\ internal_open
    BY <1>0, <1>2
       DEF TryFulfill, ConsumerOK, TypeOK, ConsumerTypes, Carried, SInv, EndOK
  <2>2. Head(reservations) \in Requests /\ Head(reservations) \in Senders
    BY <1>0, <1>2, HeadTailProperties, TailDistinct
       DEF TypeOK, TryFulfill, InnerTypes, RInv, OneSender, Senders, Reserved
  <2>3. UNCHANGED <<task, gone, internal_open>>
    BY <1>2 DEF TryFulfill, slotVars, internalVars
  <2>4. Send(Head(reservations), carried)
    BY <1>2 DEF TryFulfill
  <2> QED
    BY <2>1, <2>2, <2>3, <2>4, SentImplements
<1>3. CASE DeliverIdle
  <2>1. serving.request \in Requests /\ serving.request \in Senders
    BY <1>0, <1>3 DEF DeliverIdle, ConsumerOK, TypeOK, ConsumerTypes,
                      Payloads, Senders, Served
  <2>2. NextIdle(idle) \in Conns /\ NextIdle(idle) \in Idle
    BY <1>0, <1>3, IdleProperties, GetMoves
       DEF DeliverIdle, TypeOK, InnerTypes, SInv, Idle
  <2>3. UNCHANGED <<task, gone, internal_open>> /\ internal_open
    BY <1>3 DEF DeliverIdle, slotVars, internalVars, SInv, EndOK
  <2>4. Send(serving.request, NextIdle(idle))
    BY <1>3 DEF DeliverIdle
  <2> QED
    BY <2>1, <2>2, <2>3, <2>4, SentImplements
<1>4. CASE NoIdle \/ CleanupDone
  <2>1. UNCHANGED <<task, gone, internal_open>>
    BY <1>4 DEF NoIdle, CleanupDone, slotVars, internalVars
  <2>2. CASE UNCHANGED answer
    BY <2>1, <2>2, OwnersStay
  <2>3. ASSUME serving # None, NEW e \in Errors, Send(serving.request, e)
        PROVE  own' = own /\ UNCHANGED internal_open
    <3>1. {serving.request} \in SUBSET Senders
      BY <2>3 DEF Senders, Served
    <3>2. \A q \in Requests :
            answer'[q] = IF q \in {serving.request} /\ ~IsClosed(q)
                           THEN e ELSE answer[q]
      BY <1>0, <2>3 DEF Send, TypeOK, ClientTypes
    <3>3. \A q \in Requests : \A c \in Conns :
            answer'[q] = c <=> answer[q] = c
      BY <3>1, <3>2, RefusedImplements
    <3> QED
      BY <2>1, <3>3, OwnersStay
  <2> QED
    BY <1>0, <1>4, <2>2, <2>3 DEF NoIdle, CleanupDone, ConsumerOK, Errors
<1>5. CASE CloseCheckouts
  <2>1. UNCHANGED <<task, gone, internal_open>>
    BY <1>5 DEF CloseCheckouts, slotVars, internalVars
  <2>2. DropSenders(Queued)
    BY <1>0, <1>5, RequestsOfPayloads
       DEF CloseCheckouts, TypeOK, ChannelTypes, Queued
  <2>3. "NoPool" \in Errors /\ Queued \in SUBSET Senders
    BY DEF Errors, Senders
  <2>4. \A q \in Requests : \A c \in Conns : answer'[q] = c <=> answer[q] = c
    BY <2>2, <2>3, RefusedImplements DEF DropSenders
  <2> QED
    BY <2>1, <2>4, OwnersStay
<1>6. CASE ProcessStop
  BY <1>6, StopImplements
<1>7. CASE DropInnerPool
  BY <1>7, EndImplements
<1> QED
  BY <1>1, <1>2, <1>3, <1>4, <1>5, <1>6, <1>7 DEF ProcessInternal, Process

\* A new pool is a new abstract pool: all slots with the tasks that fill them,
\* or lost without a runtime.
LEMMA InitImplements == Init => Abstract!Init
<1> SUFFICES ASSUME Init PROVE Abstract!Init
  OBVIOUS
<1>1. OwnerOK
  BY InitSlots, OwnersKnown
<1>2. CASE InitRunning
  <2>1. \A c \in Conns : Owner(c) = "factory"
    BY <1>1, <1>2 DEF OwnerOK, InitRunning
  <2> QED
    BY <1>2, <2>1 DEF Abstract!Init, InitRunning
<1>3. CASE InitNoRuntime
  <2>1. \A c \in Conns : Owner(c) = "void"
    BY <1>1, <1>3 DEF OwnerOK, InitNoRuntime
  <2> QED
    BY <1>3, <2>1 DEF Abstract!Init, InitNoRuntime
<1> QED
  BY <1>2, <1>3 DEF Init

\* Every step is one of the abstract pool, or none that it sees.
LEMMA NextImplements ==
  IInv /\ RInv /\ SInv /\ SInv' /\ [Next]_vars
    => [Abstract!Next]_(Abstract!vars)
<1> SUFFICES ASSUME IInv, RInv, SInv, SInv', [Next]_vars
             PROVE  Abstract!Next \/ (own' = own /\ UNCHANGED internal_open)
  BY DEF Abstract!vars, own
<1>1. CASE UNCHANGED vars
  <2>1. UNCHANGED <<task, gone, internal_open, answer>>
    BY <1>1 DEF vars, slotVars, internalVars, clientVars
  <2> QED
    BY <2>1, OwnersStay
<1>2. CASE ProcessInternal \/ ProcessCheckOut \/ Process
  BY <1>2, ConsumerImplements
<1>3. CASE (\E c \in Conns : Creation(c)) \/ Tick \/ DropPool
  BY <1>3, TaskImplements
<1>4. ASSUME NEW r \in Requests, Client(r)
      PROVE  Abstract!Next \/ (own' = own /\ UNCHANGED internal_open)
  BY <1>4, ClientImplements
<1> QED
  BY <1>1, <1>2, <1>3, <1>4 DEF Next

-----------------------------------------------------------------------------
(* The counters of PoolState.                                              *)

\* Connections that were sent out, are with a checkout or on their way back.
Away == Held \cup (checked_out \cap Returning)

\* Connections that were created and not yet counted off.
Known == Conns \ (Creating \cup (Returning \ checked_out))

\* What checked_out_at tells: only new connections come back without it.
Tracked ==
  /\ Held \subseteq checked_out
  /\ Creating \cap checked_out = {}
  /\ ~internal_open => Returning = {}

IdleCounted == counters.idle = Len(idle)

ReservationsCounted ==
  pc # "stopped" =>
    counters.reservations = Len(reservations) + Pending({"fulfilled"})

OutCounted ==
  /\ internal_open =>
       /\ counters.in_flight =
            Cardinality(Away) - Pending({"delivered", "fulfilled"})
       /\ counters.connections = Cardinality(Known)
  /\ pc \in {"close_checkouts", "drop_inner"} =>
       counters.in_flight >= Cardinality(Away)

CInv == IdleCounted /\ ReservationsCounted /\ Tracked /\ OutCounted

\* Sets of slots are finite: one more, one less.
LEMMA CountSlots ==
  ASSUME NEW S \in SUBSET Conns
  PROVE  /\ Cardinality(S) \in Nat
         /\ \A c \in Conns \ S : Cardinality(S \cup {c}) = Cardinality(S) + 1
         /\ \A c \in S : Cardinality(S \ {c}) = Cardinality(S) - 1
<1>1. IsFiniteSet(S)
  BY ConnsAssumption, FS_Subset
<1> QED
  BY <1>1, FS_CardinalityType, FS_AddElement, FS_RemoveElement

\* Away and Known are sets of slots.
LEMMA CountedAreSlots == Away \in SUBSET Conns /\ Known \in SUBSET Conns
  BY DEF Away, Known, Held, Returning

\* The connections and the checkouts that are out do not change.
LEMMA NothingCounted ==
  ASSUME Tracked, OutCounted, Away' = Away, Known' = Known,
         counters'.in_flight = counters.in_flight,
         counters'.connections = counters.connections,
         UNCHANGED <<internal_open, pc>>
  PROVE  OutCounted'
  BY DEF OutCounted, Pending

\* A checkout returns its connection: it is still out until it is checked in.
LEMMA ReturnCounted ==
  ASSUME IInv, SInv, Tracked, OutCounted, NEW r \in Requests,
         answer[r] \in Conns, ReturnOrOrphan(answer[r]),
         answer' = [answer EXCEPT ![r] = None],
         UNCHANGED <<counters, checked_out, task, pc>>
  PROVE  Tracked' /\ OutCounted'
<1> DEFINE c == answer[r]
<1>1. c \in Held /\ c \in Conns
  BY DEF Held
<1>2. c \notin Returning /\ c \notin Creating
  BY <1>1 DEF SInv, OnePlace
<1>3. UNCHANGED internal_open /\ Returns(c)
  BY <1>1, <1>2, ReturnMoves DEF IInv, TypeOK, SInv
<1>4. Held' = Held \ {c}
  BY NoneAssumption, GivenAway DEF IInv, TypeOK, SInv
<1>5. Creating' = Creating
  BY PlacesStay
<1> HIDE DEF c
<1>6. Tracked'
  BY <1>3, <1>4, <1>5 DEF Tracked, Returns
<1>7. CASE internal_open
  <2>1. Away' = Away /\ Known' = Known
    BY <1>1, <1>2, <1>3, <1>4, <1>5, <1>7
       DEF Returns, Away, Known, Tracked
  <2> QED
    BY <1>3, <1>6, <2>1, NothingCounted
<1>8. CASE ~internal_open
  <2>1. Away = Held /\ Away' = Away \ {c} /\ c \in Away
    BY <1>1, <1>3, <1>4, <1>8 DEF Returns, Away, Tracked
  <2>2. /\ Cardinality(Away') = Cardinality(Away) - 1
        /\ Cardinality(Away) \in Nat
    BY <2>1, CountSlots, CountedAreSlots
  <2>3. counters.in_flight \in Int
    BY CountFields DEF IInv, TypeOK, CounterTypes
  <2> QED
    BY <1>3, <1>6, <1>8, <2>2, <2>3 DEF OutCounted
<1> QED
  BY <1>7, <1>8

\* The steps of a client.
LEMMA ClientCounted ==
  ASSUME IInv, RInv, SInv, Tracked, OutCounted, NEW r \in Requests, Client(r)
  PROVE  Tracked' /\ OutCounted'
<1>0. /\ TypeOK
      /\ counters \in Counts
  BY DEF IInv, TypeOK, CounterTypes
<1>1. ASSUME UNCHANGED <<counters, checked_out, internal, internal_open, task,
                         pc>>,
             Held' = Held
      PROVE  Tracked' /\ OutCounted'
  <2>1. Returning' = Returning /\ Creating' = Creating
    BY <1>1, PlacesStay DEF SInv
  <2>2. Away' = Away /\ Known' = Known /\ Tracked'
    BY <1>1, <2>1 DEF Away, Known, Tracked
  <2> QED
    BY <1>1, <2>2, NothingCounted
<1>2. ASSUME NEW m \in Modes, CheckOut(r, m)
      PROVE  Tracked' /\ OutCounted'
  <2>1. UNCHANGED <<counters, checked_out, internal, internal_open, task, pc>>
    BY <1>2 DEF CheckOut, internalVars, consumerVars, slotVars
  <2>2. CASE UNCHANGED answer
    BY <1>1, <2>1, <2>2, PlacesStay DEF SInv
  <2>3. ASSUME NEW e \in Errors, Refuse(r, e)
        PROVE  Tracked' /\ OutCounted'
    <3>1. answer[r] = None /\ e \notin Conns
      BY <1>2, NoneAssumption DEF CheckOut, RInv, FreeOK
    <3>2. Held' = Held \ {None}
      BY <1>0, <2>3, <3>1, GivenAway DEF Refuse, SInv, TypeOK
    <3>3. Held' = Held
      BY <3>2, NoneAssumption DEF Held
    <3> QED
      BY <1>1, <2>1, <3>3
  <2> QED
    BY <1>2, <2>2, <2>3 DEF CheckOut, Errors
<1>3. CASE Poll(r) \/ TimeOut(r) \/ StartCommand(r) \/ CommandDone(r)
  <2>1. UNCHANGED <<counters, checked_out, internal, internal_open, task, pc,
                    answer>>
    BY <1>3 DEF Poll, TimeOut, StartCommand, CommandDone, internalVars,
                consumerVars, slotVars
  <2> QED
    BY <1>1, <2>1, PlacesStay DEF SInv
<1>4. CASE DropFuture(r)
  <2>1. /\ answer' = [answer EXCEPT ![r] = None]
        /\ UNCHANGED <<counters, checked_out, task, pc>>
    BY <1>4 DEF DropFuture, consumerVars
  <2>2. CASE answer[r] \in Conns
    BY <1>4, <2>1, <2>2, ReturnCounted DEF DropFuture
  <2>3. CASE answer[r] \notin Conns
    <3>1. UNCHANGED <<internal, internal_open>>
      BY <1>4, <2>3 DEF DropFuture, internalVars
    <3>2. Held' = Held \ {answer[r]}
      BY <1>0, <2>1, NoneAssumption, GivenAway DEF SInv, TypeOK
    <3>3. Held' = Held
      BY <2>3, <3>2 DEF Held
    <3> QED
      BY <1>1, <2>1, <3>1, <3>3
  <2> QED
    BY <2>2, <2>3
<1>5. CASE DropConnection(r)
  <2>1. answer[r] \in Conns
    BY <1>5 DEF DropConnection, IInv, HoldersOK
  <2> QED
    BY <1>5, <2>1, ReturnCounted DEF DropConnection, consumerVars
<1>6. CASE DropBroken(r)
  <2> DEFINE c == answer[r]
  <2>1. c \in Conns /\ c \in Held
    BY <1>6 DEF DropBroken, IInv, HoldersOK, Held
  <2>2. c \in checked_out /\ c \notin Returning /\ c \notin Creating
    BY <2>1 DEF SInv, OnePlace, Tracked
  <2>3. Creating' = Creating \cup {c}
    BY <1>0, <1>6, <2>1 DEF DropBroken, RequestNew, Creating, SlotTypes,
                            TypeOK
  <2>4. Held' = Held \ {c}
    BY <1>0, <1>6, NoneAssumption, GivenAway DEF DropBroken, SInv, TypeOK
  <2>5. UNCHANGED <<internal, internal_open, pc>> /\ Returning' = Returning
    BY <1>6, PlacesStay DEF DropBroken, internalVars, consumerVars, SInv
  <2>6. /\ checked_out' = checked_out \ {c}
        /\ counters' = [counters EXCEPT !.connections = @ - 1,
                                        !.in_flight = @ - 1]
    BY <1>6, <2>2 DEF DropBroken, RequestNew
  <2>7. /\ counters'.connections = counters.connections - 1
        /\ counters'.in_flight = counters.in_flight - 1
        /\ counters.connections \in Int /\ counters.in_flight \in Int
    BY <1>0, <2>6 DEF Counts
  <2> HIDE DEF c
  <2>8. Tracked'
    BY <2>3, <2>4, <2>5, <2>6 DEF Tracked
  <2>9. /\ Away' = Away \ {c} /\ c \in Away
        /\ Known' = Known \ {c} /\ c \in Known
    BY <2>1, <2>2, <2>3, <2>4, <2>5, <2>6 DEF Away, Known
  <2>10. /\ Cardinality(Away') = Cardinality(Away) - 1
         /\ Cardinality(Known') = Cardinality(Known) - 1
         /\ Cardinality(Away) \in Nat /\ Cardinality(Known) \in Nat
    BY <2>9, CountSlots, CountedAreSlots
  <2> QED
    BY <2>5, <2>7, <2>8, <2>10 DEF OutCounted, Pending
<1> QED
  BY <1>2, <1>3, <1>4, <1>5, <1>6 DEF Client

\* The steps of the tasks, of the ticker and of the pool's drop.
LEMMA TaskCounted ==
  ASSUME IInv, SInv, Tracked, OutCounted,
         DropPool \/ Tick \/ \E c \in Conns : Creation(c)
  PROVE  Tracked' /\ OutCounted'
<1>0. TypeOK
  BY DEF IInv
<1>1. UNCHANGED <<counters, checked_out, pc, answer>> /\ Held' = Held
  BY PlacesStay DEF DropPool, Tick, Creation, Probe, Connected, ConnectFailed,
                    consumerVars, clientVars, SInv
<1>2. ASSUME UNCHANGED internal_open, Returning' = Returning,
             Creating' = Creating
      PROVE  Tracked' /\ OutCounted'
  <2>1. Away' = Away /\ Known' = Known /\ Tracked'
    BY <1>1, <1>2 DEF Away, Known, Tracked
  <2> QED
    BY <1>1, <1>2, <2>1, NothingCounted
<1>3. ASSUME NEW m \in Messages, m.type # "CheckIn",
             SendInternal(m) \/ UNCHANGED internalVars,
             Creating' = Creating
      PROVE  Tracked' /\ OutCounted'
  <2>1. UNCHANGED internal_open
    BY <1>3 DEF SendInternal, internalVars
  <2>2. Returning' = Returning
    BY <1>0, <1>3, OtherSent, PlacesStay DEF internalVars, SInv, TypeOK
  <2> QED
    BY <1>2, <1>3, <2>1, <2>2
<1>4. CASE DropPool
  <2>1. Stop \in Messages /\ Stop.type # "CheckIn"
    BY MessageTypes DEF Stop
  <2> QED
    BY <1>3, <1>4, <2>1, PlacesStay DEF DropPool, slotVars
<1>5. CASE Tick
  <2>1. /\ CleanupReservations \in Messages
        /\ CleanupReservations.type # "CheckIn"
    BY MessageTypes DEF CleanupReservations
  <2> QED
    BY <1>3, <1>5, <2>1, PlacesStay DEF Tick, slotVars
<1>6. ASSUME NEW c \in Conns, task[c] # "none", ~internal_open,
             task' = [task EXCEPT ![c] = "none"], UNCHANGED internalVars
      PROVE  Tracked' /\ OutCounted'
  <2>1. Creating' = Creating \ {c} /\ UNCHANGED internal_open
    BY <1>0, <1>6 DEF Creating, TypeOK, SlotTypes, internalVars
  <2>2. Returning' = Returning
    BY <1>6, PlacesStay DEF internalVars, SInv
  <2>3. Away' = Away /\ Tracked'
    BY <1>1, <2>1, <2>2 DEF Away, Tracked
  <2> QED
    BY <1>1, <1>6, <2>1, <2>3 DEF OutCounted
<1>7. ASSUME NEW c \in Conns, Probe(c)
      PROVE  Tracked' /\ OutCounted'
  <2>1. CASE SendInternal(CheckAlive(c))
             /\ task' = [task EXCEPT ![c] = "connect"]
    <3>1. CheckAlive(c) \in Messages /\ CheckAlive(c).type # "CheckIn"
      BY MessageTypes DEF CheckAlive
    <3>2. Creating' = Creating
      BY <1>0, <1>7, <2>1 DEF Probe, Creating, TypeOK, SlotTypes
    <3> QED
      BY <1>3, <2>1, <3>1, <3>2
  <2>2. CASE /\ ~internal_open
             /\ task' = [task EXCEPT ![c] = "none"]
             /\ UNCHANGED internalVars
    BY <1>6, <1>7, <2>2 DEF Probe
  <2> QED
    BY <1>7, <2>1, <2>2 DEF Probe
<1>8. ASSUME NEW c \in Conns, Connected(c)
      PROVE  Tracked' /\ OutCounted'
  <2>1. /\ c \in Creating /\ c \notin checked_out
        /\ task' = [task EXCEPT ![c] = "none"]
    BY <1>8 DEF Connected, Creating, Tracked
  <2>2. c \notin Returning /\ c \notin Held
    BY <2>1 DEF SInv, OnePlace
  <2>3. CASE ~internal_open /\ UNCHANGED internalVars
    BY <1>6, <1>8, <2>1, <2>3 DEF Connected
  <2>4. CASE SendInternal(CheckIn(c))
    <3>1. /\ internal_open /\ UNCHANGED internal_open
          /\ Returning' = Returning \cup {c}
      BY <1>0, <2>2, <2>4, ReturnSent DEF SendInternal, TypeOK, SInv
    <3>2. Creating' = Creating \ {c}
      BY <1>0, <2>1 DEF Creating, TypeOK, SlotTypes
    <3>3. Away' = Away /\ Known' = Known /\ Tracked'
      BY <1>1, <2>1, <3>1, <3>2 DEF Away, Known, Tracked
    <3> QED
      BY <1>1, <3>1, <3>3, NothingCounted
  <2> QED
    BY <1>8, <2>3, <2>4 DEF Connected, ReturnOrOrphan
<1>9. ASSUME NEW c \in Conns, ConnectFailed(c)
      PROVE  Tracked' /\ OutCounted'
  <2>1. Creating' = Creating
    BY <1>0, <1>9 DEF ConnectFailed, Creating, TypeOK, SlotTypes
  <2>2. UNCHANGED internal_open /\ Returning' = Returning
    BY <1>9, PlacesStay DEF ConnectFailed, internalVars, SInv
  <2> QED
    BY <1>2, <2>1, <2>2
<1> QED
  BY <1>4, <1>5, <1>7, <1>8, <1>9 DEF Creation

\* A checkout is sent a connection, which is from then on out. The counter
\* follows with the next step of the consumer.
LEMMA SendCounted ==
  ASSUME IInv, RInv, SInv, Tracked, OutCounted, NEW r \in Requests,
         r \in Senders, ~IsClosed(r), NEW c \in Conns, c \in Idle \cup Carried,
         Send(r, c), checked_out' = checked_out \cup {c},
         counters'.in_flight = counters.in_flight,
         counters'.connections = counters.connections,
         pc \notin {"delivered", "fulfilled"},
         pc' \in {"delivered", "fulfilled"},
         UNCHANGED <<internal, internal_open, task>>
  PROVE  Tracked' /\ OutCounted'
<1>1. c \notin Held \cup Returning \cup Creating
  BY DEF SInv, OnePlace
<1>2. Held' = Held \cup {c}
  BY <1>1, SenderIsEmpty, SendMoves DEF IInv, TypeOK, SInv
<1>3. Returning' = Returning /\ Creating' = Creating
  BY PlacesStay DEF SInv
<1>4. Tracked'
  BY <1>1, <1>2, <1>3 DEF Tracked
<1>5. Known' = Known /\ Away' = Away \cup {c} /\ c \notin Away
  BY <1>1, <1>2, <1>3 DEF Known, Away
<1>6. /\ Cardinality(Away') = Cardinality(Away) + 1
      /\ Cardinality(Away) \in Nat
  BY <1>5, CountSlots, CountedAreSlots
<1>7. counters.in_flight \in Int
  BY CountFields DEF IInv, TypeOK, CounterTypes
<1> QED
  BY <1>4, <1>5, <1>6, <1>7 DEF OutCounted, Pending

\* The counter catches up with the connection that was sent.
LEMMA SentCounted ==
  ASSUME IInv, SInv, Tracked, OutCounted, Fulfilled \/ Delivered
  PROVE  Tracked' /\ OutCounted'
<1>1. UNCHANGED <<internal, internal_open, task, answer, checked_out>>
  BY DEF Fulfilled, Delivered, internalVars, slotVars, clientVars
<1>2. Returning' = Returning /\ Creating' = Creating /\ Held' = Held
  BY <1>1, PlacesStay DEF SInv
<1>3. Known' = Known /\ Away' = Away /\ Tracked'
  BY <1>1, <1>2 DEF Known, Away, Tracked
<1>4. /\ counters'.in_flight = counters.in_flight + 1
      /\ counters'.connections = counters.connections
      /\ counters.in_flight \in Int
  BY DEF Fulfilled, Delivered, IInv, TypeOK, CounterTypes, Counts
<1>5. pc \in {"delivered", "fulfilled"} /\ pc' = "receive"
  BY DEF Fulfilled, Delivered
<1>6. Cardinality(Away) \in Nat
  BY CountSlots, CountedAreSlots
<1> QED
  BY <1>1, <1>3, <1>4, <1>5, <1>6 DEF OutCounted, Pending

\* A connection is checked in: it is no longer out, or it is a new one.
LEMMA CheckInCounted ==
  ASSUME IInv, SInv, Tracked, OutCounted, ProcessCheckIn
  PROVE  Tracked' /\ OutCounted'
<1> DEFINE c == Head(internal).conn
<1>0. TypeOK
  BY DEF IInv
<1>1. /\ internal # <<>> /\ internal' = Tail(internal)
      /\ UNCHANGED <<internal_open, task, answer>>
      /\ pc = "receive" /\ pc' \in {"receive", "fulfil"}
      /\ checked_out' = checked_out \ {c}
  BY DEF ProcessCheckIn, NextMessage, PopInternal, consumerVars, slotVars,
         clientVars
<1>2. c \in Conns /\ \A d \in Conns : Head(internal) = CheckIn(d) <=> d = c
  <2>1. Head(internal) \in Messages /\ Head(internal).type = "CheckIn"
    BY <1>0, HeadOfInternal
       DEF ProcessCheckIn, NextMessage, ChannelTypes, TypeOK
  <2> QED
    BY <2>1 DEF Messages, CheckIn
<1>3. /\ counters'.in_flight = CheckedIn(c).in_flight
      /\ counters'.connections = CheckedIn(c).connections
  <2>1. \/ counters' = CheckedIn(c)
        \/ counters' = [CheckedIn(c) EXCEPT !.idle = @ + 1]
    BY DEF ProcessCheckIn
  <2>2. CheckedIn(c) \in Counts
    BY <1>0, CheckedInTypes DEF TypeOK
  <2> HIDE DEF c
  <2> QED
    BY <2>1, <2>2 DEF Counts
<1>4. /\ c \in checked_out =>
           /\ CheckedIn(c).in_flight = counters.in_flight - 1
           /\ CheckedIn(c).connections = counters.connections
      /\ c \notin checked_out =>
           /\ CheckedIn(c).in_flight = counters.in_flight
           /\ CheckedIn(c).connections = counters.connections + 1
  BY <1>0 DEF CheckedIn, TypeOK, CounterTypes, Counts
<1> HIDE DEF c
<1>5. Returning' = Returning \ {c} /\ c \in Returning
  <2>1. /\ Returning' = {d \in Returning : Head(internal) # CheckIn(d)}
        /\ \A d \in Conns : Head(internal) = CheckIn(d) => d \in Returning
    BY <1>0, <1>1, Received DEF SInv, TypeOK
  <2>2. Returning \in SUBSET Conns
    BY DEF Returning
  <2>3. Returning' = Returning \ {c}
    BY <1>2, <2>1, <2>2
  <2> QED
    BY <1>2, <2>1, <2>3
<1>6. c \notin Held \cup Creating /\ Held' = Held /\ Creating' = Creating
  BY <1>1, <1>5, PlacesStay DEF SInv, OnePlace
<1>7. Tracked'
  BY <1>1, <1>5, <1>6 DEF Tracked
<1>8. /\ counters.in_flight \in Int /\ counters.connections \in Int
      /\ Cardinality(Away) \in Nat /\ Cardinality(Known) \in Nat
  BY <1>0, CountFields, CountSlots, CountedAreSlots DEF TypeOK, CounterTypes
<1>9. CASE c \in checked_out
  <2>1. Away' = Away \ {c} /\ c \in Away /\ Known' = Known
    BY <1>1, <1>2, <1>5, <1>6, <1>9 DEF Away, Known
  <2>2. Cardinality(Away') = Cardinality(Away) - 1
    BY <2>1, CountSlots, CountedAreSlots
  <2> QED
    BY <1>1, <1>3, <1>4, <1>7, <1>8, <1>9, <2>1, <2>2
       DEF OutCounted, Pending
<1>10. CASE c \notin checked_out
  <2>1. Away' = Away
    BY <1>1, <1>5, <1>6, <1>10 DEF Away
  <2>2. Known' = Known \cup {c} /\ c \notin Known
    BY <1>1, <1>2, <1>5, <1>6, <1>10 DEF Known
  <2>3. Cardinality(Known') = Cardinality(Known) + 1
    BY <1>2, <2>2, CountSlots, CountedAreSlots
  <2> QED
    BY <1>1, <1>3, <1>4, <1>7, <1>8, <1>10, <2>1, <2>3
       DEF OutCounted, Pending
<1> QED
  BY <1>9, <1>10

\* The consumer stops: what was on its way back stays counted as in flight.
LEMMA StopCounted ==
  ASSUME IInv, SInv, Tracked, OutCounted, ProcessStop
  PROVE  Tracked' /\ OutCounted'
<1>1. /\ UNCHANGED <<task, answer, checked_out, counters>>
      /\ internal_open' = FALSE /\ pc = "receive" /\ pc' = "close_checkouts"
  BY DEF ProcessStop, NextMessage, clientVars
<1>2. internal' \in Seq(Messages) /\ Len(internal') = 0
  BY EmptySeq DEF ProcessStop
<1>3. Returning' = {} /\ Held' = Held /\ Creating' = Creating
  BY <1>1, <1>2, PlacesStay DEF Returning, SInv
<1>4. Tracked'
  BY <1>1, <1>3 DEF Tracked
<1>5. Away' \in SUBSET Away
  BY <1>1, <1>3 DEF Away
<1>6. /\ Cardinality(Away') <= Cardinality(Away)
      /\ Cardinality(Away') \in Nat /\ Cardinality(Away) \in Nat
  <2>1. IsFiniteSet(Away)
    BY CountedAreSlots, ConnsAssumption, FS_Subset
  <2> QED
    BY <1>5, <2>1, FS_Subset, FS_CardinalityType
<1>7. internal_open
  BY <1>1 DEF SInv, EndOK
<1> QED
  BY <1>1, <1>4, <1>6, <1>7 DEF OutCounted, Pending

\* The steps of the consumer.
LEMMA ConsumerCounted ==
  ASSUME IInv, RInv, SInv, Tracked, OutCounted,
         ProcessInternal \/ ProcessCheckOut \/ Process
  PROVE  Tracked' /\ OutCounted'
<1>0. TypeOK /\ ConsumerOK /\ counters \in Counts
  BY DEF IInv, TypeOK, CounterTypes
<1>1. ASSUME counters'.in_flight = counters.in_flight,
             counters'.connections = counters.connections,
             UNCHANGED <<internal_open, task>>, Held' = Held,
             Returning' = Returning,
             checked_out \subseteq checked_out',
             checked_out' \ checked_out \subseteq Idle,
             \/ UNCHANGED pc
             \/ /\ pc \notin {"delivered", "fulfilled"}
                /\ pc' \in {"receive", "deliver", "cleanup"}
             \/ pc = "close_checkouts" /\ pc' = "drop_inner"
      PROVE  Tracked' /\ OutCounted'
  <2>1. Creating' = Creating
    BY <1>1, PlacesStay
  <2>2. Idle \cap (Returning \cup Creating) = {}
    BY DEF SInv, OnePlace
  <2>3. Away' = Away /\ Known' = Known /\ Tracked'
    BY <1>1, <2>1, <2>2 DEF Away, Known, Tracked
  <2> QED
    BY <1>1, <2>3 DEF OutCounted, Pending
<1>2. CASE ProcessCheckIn
  BY <1>2, CheckInCounted
<1>3. CASE Fulfilled \/ Delivered
  BY <1>3, SentCounted
<1>4. CASE ProcessStop
  BY <1>4, StopCounted
<1>5. CASE ProcessCheckAlive \/ ProcessCleanup
  <2>1. /\ internal # <<>> /\ internal' = Tail(internal)
        /\ UNCHANGED <<internal_open, task, answer, counters, checked_out>>
        /\ \A d \in Conns : Head(internal) # CheckIn(d)
        /\ pc = "receive" /\ pc' \in {"receive", "cleanup"}
    BY <1>5 DEF ProcessCheckAlive, ProcessCleanup, NextMessage, PopInternal,
                CheckIn, consumerVars, slotVars, clientVars
  <2>2. Returning' = Returning
    <3>1. Returning' = {c \in Returning : Head(internal) # CheckIn(c)}
      BY <1>0, <2>1, Received DEF SInv, TypeOK
    <3>2. Returning \in SUBSET Conns
      BY DEF Returning
    <3> QED
      BY <2>1, <3>1, <3>2
  <2>3. Held' = Held
    BY <2>1, PlacesStay DEF SInv
  <2> QED
    BY <1>1, <2>1, <2>2, <2>3
<1>6. CASE ProcessCheckOut \/ CleanupStep \/ NoneFulfilled
  <2>1. UNCHANGED <<internal, internal_open, task, answer, checked_out>>
    BY <1>6 DEF ProcessCheckOut, CleanupStep, NoneFulfilled, internalVars,
                slotVars, clientVars
  <2>2. /\ counters'.in_flight = counters.in_flight
        /\ counters'.connections = counters.connections
    BY <1>0, <1>6 DEF ProcessCheckOut, CleanupStep, NoneFulfilled, PutIdle,
                      Counts
  <2>3. \/ UNCHANGED pc
        \/ pc \in {"receive", "fulfil"} /\ pc' \in {"receive", "deliver"}
    BY <1>6 DEF ProcessCheckOut, CleanupStep, NoneFulfilled, consumerVars
  <2>4. Held' = Held /\ Returning' = Returning
    BY <2>1, PlacesStay DEF SInv
  <2> QED
    BY <1>1, <2>1, <2>2, <2>3, <2>4
<1>7. CASE TryFulfill
  <2>1. carried \in Conns /\ carried \in Carried
    BY <1>0, <1>7 DEF TryFulfill, ConsumerOK, TypeOK, ConsumerTypes, Carried
  <2>2. Head(reservations) \in Requests /\ Head(reservations) \in Senders
    BY <1>0, <1>7, HeadTailProperties, TailDistinct
       DEF TypeOK, TryFulfill, InnerTypes, RInv, OneSender, Senders, Reserved
  <2>3. /\ UNCHANGED <<internal, internal_open, task>>
        /\ Send(Head(reservations), carried) /\ pc = "fulfil"
    BY <1>7 DEF TryFulfill, internalVars, slotVars
  <2>4. CASE IsClosed(Head(reservations))
    <3>1. UNCHANGED <<answer, checked_out, pc>>
      BY <1>7, <2>3, <2>4 DEF TryFulfill, consumerVars, Send
    <3>2. /\ counters'.in_flight = counters.in_flight
          /\ counters'.connections = counters.connections
      BY <1>0, <1>7, <2>4 DEF TryFulfill, Counts
    <3>3. Held' = Held /\ Returning' = Returning
      BY <2>3, <3>1, PlacesStay DEF SInv
    <3> QED
      BY <1>1, <2>3, <3>1, <3>2, <3>3
  <2>5. CASE ~IsClosed(Head(reservations))
    <3>1. /\ UNCHANGED counters /\ pc' = "fulfilled"
          /\ checked_out' = checked_out \cup {carried}
      BY <1>7, <2>5 DEF TryFulfill
    <3> QED
      BY <2>1, <2>2, <2>3, <2>5, <3>1, SendCounted
  <2> QED
    BY <2>4, <2>5
<1>8. CASE DeliverIdle
  <2>1. serving.request \in Requests /\ serving.request \in Senders
    BY <1>0, <1>8 DEF DeliverIdle, ConsumerOK, TypeOK, ConsumerTypes,
                      Payloads, Senders, Served
  <2>2. NextIdle(idle) \in Conns /\ NextIdle(idle) \in Idle
    BY <1>0, <1>8, IdleProperties, GetMoves
       DEF DeliverIdle, TypeOK, InnerTypes, SInv, Idle
  <2>3. /\ UNCHANGED <<internal, internal_open, task>> /\ pc = "deliver"
        /\ Send(serving.request, NextIdle(idle))
        /\ checked_out' = checked_out \cup {NextIdle(idle)}
    BY <1>8 DEF DeliverIdle, internalVars, slotVars
  <2>4. CASE IsClosed(serving.request)
    <3>1. UNCHANGED <<counters, answer>> /\ pc' = "receive"
      BY <1>8, <2>3, <2>4 DEF DeliverIdle, Send
    <3>2. Held' = Held /\ Returning' = Returning
      BY <2>3, <3>1, PlacesStay DEF SInv
    <3> QED
      BY <1>1, <2>2, <2>3, <3>1, <3>2
  <2>5. CASE ~IsClosed(serving.request)
    <3>1. /\ counters'.in_flight = counters.in_flight
          /\ counters'.connections = counters.connections
          /\ pc' = "delivered"
      BY <1>0, <1>8, <2>5 DEF DeliverIdle, Counts
    <3> QED
      BY <2>1, <2>2, <2>3, <2>5, <3>1, SendCounted
  <2> QED
    BY <2>4, <2>5
<1>9. CASE NoIdle \/ CleanupDone
  <2>1. /\ UNCHANGED <<internal, internal_open, task, checked_out>>
        /\ pc \in {"deliver", "cleanup"} /\ pc' \in {"receive", "cleanup"}
    BY <1>9 DEF NoIdle, CleanupDone, internalVars, slotVars
  <2>2. /\ counters'.in_flight = counters.in_flight
        /\ counters'.connections = counters.connections
    BY <1>0, <1>9 DEF NoIdle, CleanupDone, Enqueue, Counts
  <2>3. Returning' = Returning
    BY <2>1, PlacesStay DEF SInv
  <2>4. CASE UNCHANGED answer
    <3>1. Held' = Held
      BY <2>4, PlacesStay DEF SInv
    <3> QED
      BY <1>1, <2>1, <2>2, <2>3, <3>1
  <2>5. ASSUME serving # None, NEW e \in Errors, Send(serving.request, e)
        PROVE  Tracked' /\ OutCounted'
    <3>1. serving.request \in Requests /\ serving.request \in Senders
      BY <1>0, <2>5 DEF TypeOK, ConsumerTypes, Payloads, Senders, Served
    <3>2. \A q \in Requests :
            answer'[q] = IF q \in {serving.request} /\ ~IsClosed(q)
                           THEN e ELSE answer[q]
      BY <1>0, <2>5 DEF Send, TypeOK, ClientTypes
    <3>3. \A q \in {serving.request} \cap Requests :
            ~IsClosed(q) => answer[q] \notin Conns
      BY <3>1, SenderIsEmpty
    <3>4. Held' = Held
      BY <1>0, <3>2, <3>3, RefusalMoves DEF TypeOK, SInv
    <3> QED
      BY <1>1, <2>1, <2>2, <2>3, <3>4
  <2> QED
    BY <1>0, <1>9, <2>4, <2>5 DEF NoIdle, CleanupDone, ConsumerOK, Errors
<1>10. CASE CloseCheckouts
  <2>1. /\ UNCHANGED <<internal, internal_open, task, checked_out, counters>>
        /\ pc = "close_checkouts" /\ pc' = "drop_inner"
    BY <1>10 DEF CloseCheckouts, internalVars, slotVars
  <2>2. Queued = {checkouts[i].request : i \in DOMAIN checkouts}
    BY <1>0, RequestsOfPayloads DEF TypeOK, ChannelTypes, Queued
  <2>3. Held' = Held
    BY <1>0, <1>10, <2>2, SendersDropped DEF CloseCheckouts, Senders
  <2>4. Returning' = Returning
    BY <2>1, PlacesStay DEF SInv
  <2> QED
    BY <1>1, <2>1, <2>3, <2>4
<1>11. CASE DropInnerPool
  <2>1. /\ UNCHANGED <<internal, internal_open, task, checked_out>>
        /\ pc' = "stopped" /\ ~internal_open
    BY <1>11 DEF DropInnerPool, internalVars, SInv, EndOK
  <2>2. Held' = Held
    BY <1>0, <1>11, SendersDropped DEF DropInnerPool, Senders, Reserved
  <2>3. Returning' = Returning /\ Creating' = Creating
    BY <2>1, PlacesStay DEF SInv
  <2> QED
    BY <2>1, <2>2, <2>3 DEF Tracked, OutCounted
<1> QED
  BY <1>2, <1>3, <1>4, <1>5, <1>6, <1>7, <1>8, <1>9, <1>10, <1>11
     DEF ProcessInternal, Process

\* A new pool has counted nothing, and nothing is there.
LEMMA InitCounted == Init => CInv
<1> SUFFICES ASSUME Init PROVE CInv
  OBVIOUS
<1>1. /\ counters.idle = 0 /\ counters.reservations = 0
      /\ counters.in_flight = 0 /\ counters.connections = 0
      /\ pc \in {"receive", "stopped"}
      /\ checked_out = {}
  BY DEF Init, InitCommon, InitRunning, InitNoRuntime, NoCounts
<1>2. Len(idle) = 0 /\ Len(reservations) = 0 /\ Len(internal) = 0
  BY InitInv, EmptySeq DEF Init, InitCommon, IInv, TypeOK, ChannelTypes,
                           InnerTypes
<1>3. Held = {} /\ Returning = {}
  BY <1>2, NoneAssumption DEF Init, InitCommon, Held, Returning
<1>4. IdleCounted /\ ReservationsCounted /\ Tracked
  BY <1>1, <1>2, <1>3
     DEF IdleCounted, ReservationsCounted, Tracked, Pending
<1>5. internal_open => Away = {} /\ Known = {}
  BY <1>1, <1>3 DEF Init, InitRunning, InitNoRuntime, Away, Known, Creating
<1>6. OutCounted
  BY <1>1, <1>5, FS_EmptySet DEF OutCounted, Pending
<1> QED
  BY <1>4, <1>6 DEF CInv

\* The counter of idle connections changes with their queue.
LEMMA NextIdleCounted == IInv /\ IdleCounted /\ [Next]_vars => IdleCounted'
<1> SUFFICES ASSUME IInv, IdleCounted, [Next]_vars
             PROVE  IdleCounted'
  OBVIOUS
<1>0. /\ idle \in Seq(Conns) /\ internal \in Seq(Messages)
      /\ counters \in Counts /\ Len(idle) \in Nat
      /\ ConsumerOK /\ ConsumerTypes
  BY LenProperties DEF IInv, TypeOK, InnerTypes, CounterTypes, ChannelTypes
<1>1. ASSUME NEW c \in Conns
      PROVE  Len(Put(idle, c)) = Len(idle) + 1
  BY <1>0, AppendProperties DEF Put
<1>2. CASE UNCHANGED idle /\ counters'.idle = counters.idle
  BY <1>2 DEF IdleCounted
<1>3. CASE ProcessCheckIn
  <2> DEFINE c == Head(internal).conn
  <2>1. c \in Conns
    <3>1. Head(internal) \in Messages /\ Head(internal).type = "CheckIn"
      BY <1>0, <1>3, HeadOfInternal
         DEF ProcessCheckIn, NextMessage, ChannelTypes
    <3> QED
      BY <3>1 DEF Messages, CheckIn
  <2>2. CheckedIn(c) \in Counts /\ CheckedIn(c).idle = counters.idle
    BY <1>0, CheckedInTypes DEF CheckedIn, Counts, CounterTypes
  <2>3. CASE UNCHANGED idle /\ counters' = CheckedIn(c)
    BY <1>2, <2>2, <2>3
  <2>4. CASE /\ idle' = Put(idle, c)
             /\ counters' = [CheckedIn(c) EXCEPT !.idle = @ + 1]
    <3> HIDE DEF c
    <3>1. counters'.idle = counters.idle + 1
      BY <2>2, <2>4 DEF Counts
    <3> QED
      BY <1>1, <2>1, <2>4, <3>1 DEF IdleCounted
  <2> QED
    BY <1>3, <2>3, <2>4 DEF ProcessCheckIn
<1>4. CASE NoneFulfilled
  <2>1. carried \in Conns
    BY <1>0, <1>4 DEF NoneFulfilled, ConsumerOK, ConsumerTypes
  <2>2. idle' = Put(idle, carried) /\ counters'.idle = counters.idle + 1
    BY <1>0, <1>4 DEF NoneFulfilled, PutIdle, Counts
  <2> QED
    BY <1>1, <2>1, <2>2 DEF IdleCounted
<1>5. CASE DeliverIdle
  <2>1. /\ RestIdle(idle) \in Seq(Conns) /\ NextIdle(idle) \in Conns
        /\ Len(RestIdle(idle)) = Len(idle) - 1
    BY <1>0, <1>5, IdleProperties DEF DeliverIdle
  <2>2. Len(Put(RestIdle(idle), NextIdle(idle))) = Len(idle)
    BY <1>0, <2>1, AppendProperties DEF Put
  <2>3. \/ /\ idle' = Put(RestIdle(idle), NextIdle(idle))
           /\ counters' = counters
        \/ /\ idle' = RestIdle(idle)
           /\ counters'.idle = counters.idle - 1
    BY <1>0, <1>5 DEF DeliverIdle, Counts
  <2> QED
    BY <2>1, <2>2, <2>3 DEF IdleCounted
<1>6. CASE DropInnerPool
  <2>1. counters'.idle = counters.idle - Len(idle) /\ idle' = <<>>
    BY <1>0, <1>6 DEF DropInnerPool, Counts
  <2>2. Len(idle') = 0
    BY <2>1
  <2> QED
    BY <1>0, <2>1, <2>2 DEF IdleCounted
<1>7. CASE \/ UNCHANGED vars \/ DropPool \/ Tick
           \/ \E c \in Conns : Creation(c)
           \/ ProcessCheckAlive \/ ProcessCleanup \/ ProcessStop
           \/ ProcessCheckOut \/ CloseCheckouts
  BY <1>2, <1>7
     DEF vars, DropPool, Tick, Creation, Probe, Connected, ConnectFailed,
         ProcessCheckAlive, ProcessCleanup, ProcessStop, ProcessCheckOut,
         CloseCheckouts, innerVars
<1>8. ASSUME NEW r \in Requests, Client(r)
      PROVE  IdleCounted'
  <2>1. UNCHANGED idle
    BY <1>8 DEF Client, CheckOut, Poll, TimeOut, DropFuture, StartCommand,
                CommandDone, DropConnection, DropBroken, innerVars
  <2>2. counters'.idle = counters.idle
    BY <1>0, <1>8
       DEF Client, CheckOut, Poll, TimeOut, DropFuture, StartCommand,
           CommandDone, DropConnection, DropBroken, RequestNew, Counts
  <2> QED
    BY <1>2, <2>1, <2>2
<1>9. CASE \/ TryFulfill \/ Fulfilled \/ Delivered \/ NoIdle \/ CleanupStep
           \/ CleanupDone
  <2>1. UNCHANGED idle
    BY <1>9 DEF TryFulfill, Fulfilled, Delivered, NoIdle, CleanupStep,
                CleanupDone, innerVars
  <2>2. counters'.idle = counters.idle
    BY <1>0, <1>9 DEF TryFulfill, Fulfilled, Delivered, NoIdle, CleanupStep,
                      CleanupDone, Enqueue, Counts
  <2> QED
    BY <1>2, <2>1, <2>2
<1> QED
  BY <1>3, <1>4, <1>5, <1>6, <1>7, <1>8, <1>9
     DEF Next, ProcessInternal, Process

\* The counter of reservations lags behind by the one that was fulfilled last.
LEMMA NextReservationsCounted ==
  IInv /\ ReservationsCounted /\ [Next]_vars => ReservationsCounted'
<1> SUFFICES ASSUME IInv, ReservationsCounted, [Next]_vars
             PROVE  ReservationsCounted'
  OBVIOUS
<1>0. /\ reservations \in Seq(Requests) /\ Len(reservations) \in Nat
      /\ counters \in Counts /\ ConsumerOK /\ ConsumerTypes
  BY LenProperties DEF IInv, TypeOK, InnerTypes, CounterTypes
<1>1. ASSUME UNCHANGED reservations,
             counters'.reservations = counters.reservations,
             \/ UNCHANGED pc
             \/ pc \notin {"fulfilled", "stopped"} /\ pc' # "fulfilled"
      PROVE  ReservationsCounted'
  BY <1>1 DEF ReservationsCounted, Pending
<1>2. ASSUME NEW r \in Requests, Enqueue(r), pc \in {"deliver", "cleanup"},
             pc' = "receive"
      PROVE  ReservationsCounted'
  <2>1. Len(reservations') = Len(reservations) + 1
    BY <1>0, <1>2, AppendProperties DEF Enqueue
  <2>2. counters'.reservations = counters.reservations + 1
    BY <1>0, <1>2 DEF Enqueue, Counts
  <2> QED
    BY <1>2, <2>1, <2>2 DEF ReservationsCounted, Pending
<1>3. CASE \/ ProcessCheckIn \/ ProcessCheckAlive \/ ProcessCleanup
           \/ ProcessStop \/ ProcessCheckOut \/ NoneFulfilled
           \/ DeliverIdle \/ Delivered \/ CloseCheckouts
  <2>1. UNCHANGED reservations
    BY <1>3 DEF ProcessCheckIn, ProcessCheckAlive, ProcessCleanup,
                ProcessStop, ProcessCheckOut, NoneFulfilled, DeliverIdle,
                Delivered, CloseCheckouts, innerVars
  <2>2. ASSUME NEW c
        PROVE  /\ CheckedIn(c) \in Counts
               /\ CheckedIn(c).reservations = counters.reservations
    BY <1>0, CheckedInTypes DEF CheckedIn, Counts, CounterTypes
  <2>3. counters'.reservations = counters.reservations
    <3>1. CASE ProcessCheckIn
      <4>1. PICK c : \/ counters' = CheckedIn(c)
                     \/ counters' = [CheckedIn(c) EXCEPT !.idle = @ + 1]
        BY <3>1 DEF ProcessCheckIn
      <4> QED
        BY <2>2, <4>1 DEF Counts
    <3>2. CASE ~ProcessCheckIn
      BY <1>0, <1>3, <3>2
         DEF ProcessCheckAlive, ProcessCleanup, ProcessStop, ProcessCheckOut,
             NoneFulfilled, PutIdle, DeliverIdle, Delivered, CloseCheckouts,
             Counts
    <3> QED
      BY <3>1, <3>2
  <2>4. \/ UNCHANGED pc
        \/ pc \notin {"fulfilled", "stopped"} /\ pc' # "fulfilled"
    BY <1>3 DEF ProcessCheckIn, ProcessCheckAlive, ProcessCleanup,
                ProcessStop, ProcessCheckOut, NoneFulfilled, DeliverIdle,
                Delivered, CloseCheckouts, NextMessage, consumerVars
  <2> QED
    BY <1>1, <2>1, <2>3, <2>4
<1>4. CASE TryFulfill
  <2>1. Len(reservations') = Len(reservations) - 1
    BY <1>0, <1>4, HeadTailProperties DEF TryFulfill
  <2>2. /\ pc = "fulfil"
        /\ \/ /\ counters'.reservations = counters.reservations - 1
              /\ pc' = "fulfil"
           \/ /\ counters' = counters
              /\ pc' = "fulfilled"
    BY <1>0, <1>4 DEF TryFulfill, consumerVars, Counts
  <2> QED
    BY <1>0, <2>1, <2>2 DEF ReservationsCounted, Pending
<1>5. CASE Fulfilled
  <2>1. /\ counters'.reservations = counters.reservations - 1
        /\ pc = "fulfilled" /\ pc' = "receive" /\ UNCHANGED reservations
    BY <1>0, <1>5 DEF Fulfilled, innerVars, Counts
  <2> QED
    BY <1>0, <2>1 DEF ReservationsCounted, Pending
<1>6. CASE CleanupStep
  <2>1. pc = "cleanup" /\ pc' = "cleanup" /\ scan \in 1..Len(reservations)
    BY <1>0, <1>6 DEF CleanupStep, ConsumerTypes
  <2>2. Len(RemoveAt(reservations, scan)) = Len(reservations) - 1
    BY <1>0, <2>1, RemoveAtProperties
  <2>3. \/ /\ reservations' = RemoveAt(reservations, scan)
           /\ counters'.reservations = counters.reservations - 1
        \/ /\ UNCHANGED reservations
           /\ counters' = counters
    BY <1>0, <1>6 DEF CleanupStep, Counts
  <2> QED
    BY <1>0, <2>1, <2>2, <2>3 DEF ReservationsCounted, Pending
<1>7. CASE NoIdle \/ CleanupDone
  <2>1. pc \in {"deliver", "cleanup"} /\ pc' \in {"receive", "cleanup"}
    BY <1>7 DEF NoIdle, CleanupDone
  <2>2. \/ UNCHANGED <<reservations, counters>>
        \/ serving # None /\ pc' = "receive" /\ Enqueue(serving.request)
    BY <1>0, <1>7 DEF NoIdle, CleanupDone, ConsumerOK
  <2>3. serving # None => serving.request \in Requests
    BY <1>0 DEF ConsumerTypes, Payloads
  <2> QED
    BY <1>1, <1>2, <2>1, <2>2, <2>3
<1>8. CASE DropInnerPool
  BY <1>8 DEF DropInnerPool, ReservationsCounted
<1>9. CASE \/ UNCHANGED vars \/ DropPool \/ Tick
           \/ \E c \in Conns : Creation(c)
  BY <1>1, <1>9
     DEF vars, DropPool, Tick, Creation, Probe, Connected, ConnectFailed,
         innerVars, consumerVars
<1>10. ASSUME NEW r \in Requests, Client(r)
       PROVE  ReservationsCounted'
  <2>1. UNCHANGED <<reservations, pc>>
    BY <1>10 DEF Client, CheckOut, Poll, TimeOut, DropFuture, StartCommand,
                 CommandDone, DropConnection, DropBroken, innerVars,
                 consumerVars
  <2>2. counters'.reservations = counters.reservations
    BY <1>0, <1>10
       DEF Client, CheckOut, Poll, TimeOut, DropFuture, StartCommand,
           CommandDone, DropConnection, DropBroken, RequestNew, Counts
  <2> QED
    BY <1>1, <2>1, <2>2
<1> QED
  BY <1>3, <1>4, <1>5, <1>6, <1>7, <1>8, <1>9, <1>10
     DEF Next, ProcessInternal, Process

\* Every step keeps the counters true.
LEMMA NextCounted == IInv /\ RInv /\ SInv /\ CInv /\ [Next]_vars => CInv'
<1> SUFFICES ASSUME IInv, RInv, SInv, CInv, [Next]_vars
             PROVE  Tracked' /\ OutCounted'
  BY NextIdleCounted, NextReservationsCounted DEF CInv
<1>1. CASE UNCHANGED vars
  <2>1. UNCHANGED <<internal, internal_open, answer, task, checked_out, pc,
                    counters>>
    BY <1>1 DEF vars, internalVars, clientVars, slotVars, consumerVars
  <2>2. Returning' = Returning /\ Held' = Held /\ Creating' = Creating
    BY <2>1, PlacesStay DEF SInv
  <2>3. Away' = Away /\ Known' = Known /\ Tracked'
    BY <2>1, <2>2 DEF CInv, Away, Known, Tracked
  <2> QED
    BY <2>1, <2>3, NothingCounted DEF CInv
<1> QED
  BY <1>1, ClientCounted, TaskCounted, ConsumerCounted DEF Next, CInv

\* What the invariant says is what a reader of PoolState sees.
LEMMA StateIsExact == IInv /\ SInv /\ CInv => CountersExact
<1> SUFFICES ASSUME IInv, SInv, CInv PROVE CountersExact
  OBVIOUS
<1>1. \A c \in Conns : c \in Returning <=> CheckIn(c) \in Range(internal)
  <2>1. \A d : d \in Range(internal) <=>
                 \E i \in 1..Len(internal) : internal[i] = d
    BY RangeIs DEF IInv, TypeOK, ChannelTypes
  <2> QED
    BY <2>1 DEF Returning
<1>2. Out = Away
  BY <1>1 DEF Out, Away, Held, Returning
<1>3. {c \in Conns : /\ task[c] = "none"
                     /\ CheckIn(c) \in Range(internal) => c \in checked_out}
        = Known
  BY <1>1 DEF Known, Creating, Returning
<1> QED
  BY <1>2, <1>3
     DEF CInv, IdleCounted, ReservationsCounted, OutCounted, CountersExact

-----------------------------------------------------------------------------
(* The theorems.                                                           *)

\* A pool hands every slot to one owner at a time, never gives a checkout two
\* connections, closes once, and then only discards: the queues, messages and
\* handlers of PoolInternal implement ConnectionPool, for any number of slots
\* and checkouts.
THEOREM Implementation == Spec => ImplementsConnectionPool
<1>1. Init => Abstract!Init
  BY InitImplements
<1>2. IInv /\ RInv /\ SInv /\ SInv' /\ [Next]_vars
        => [Abstract!Next]_(Abstract!vars)
  BY NextImplements
<1> QED
  BY <1>1, <1>2, Invariance, SendersInvariance, SlotsInvariance, PTL
     DEF Spec, ImplementsConnectionPool, Abstract!Spec

\* The counters agree with where the slots and the checkouts are.
THEOREM CountersInvariance == Spec => []CInv
  BY Invariance, SendersInvariance, SlotsInvariance, InitCounted, NextCounted,
     PTL DEF Spec

\* PoolState tells the truth between any two messages, for any number of slots
\* and checkouts: no order of check ins, cancelled checkouts, broken
\* connections and new ones makes a counter drift, and in_flight covers what is
\* out when the inner pool takes it off during the shutdown.
THEOREM StateTellsTheTruth == Spec => []CountersExact
  BY Invariance, SlotsInvariance, CountersInvariance, StateIsExact, PTL
=============================================================================
