------------------------- MODULE PoolPerNode_proofs -------------------------
(***************************************************************************)
(* Proofs about PoolPerNode for any number of sub pools, connections and   *)
(* checkouts, and any sizes of the queues.                                 *)
(***************************************************************************)
EXTENDS PoolPerNode, DataLemmas, SequenceTheorems

-----------------------------------------------------------------------------
(* What a client is doing.                                                 *)

\* A sender may be left somewhere, and a connection was received.
Lingering == {"free", "failed"} \cup Receiving
Having    == {"holding", "late"}

\* A connection that is sent to a checkout is received by it alone.
LEMMA SentOnly ==
  ASSUME NEW ph \in [Requests -> Phases], NEW r \in Requests,
         ph[r] \in Receiving
  PROVE  /\ Sent(r, ph) \in [Requests -> Phases]
         /\ Sent(r, ph)[r] \in Having
         /\ \A q \in Requests : q # r => Sent(r, ph)[q] = ph[q]
BY DEF Sent, Having, Receiving, Phases

USE DEF Lingering, Having, Receiving

-----------------------------------------------------------------------------
(* The places where a sender can be.                                       *)

Queues   == [SubPools -> Seq(Payloads)]
Reserves == [SubPools -> Seq(Requests)]

Places(qu, re) ==
  {x \in SubPools \X {"queue", "reserved"} \X Nat :
     x[3] \in 1..(IF x[2] = "queue" THEN Len(qu[x[1]]) ELSE Len(re[x[1]]))}

\* Whose sender is at a place, and whether its client may be made to wait.
Who(qu, re, x) ==
  IF x[2] = "queue" THEN qu[x[1]][x[3]].request ELSE re[x[1]][x[3]]

Patient(qu, x) == x[2] = "queue" => qu[x[1]][x[3]].reservation_allowed

\* No checkout has two senders. Those that have one are not elsewhere, and
\* those that are pending have one at home, the sub pool they wait for. Only
\* those that may wait, and asked at last, are patient.
Placed(qu, re, ph, home, may) ==
  /\ \A x, y \in Places(qu, re) : Who(qu, re, x) = Who(qu, re, y) => x = y
  /\ \A x \in Places(qu, re) :
       ph[Who(qu, re, x)] \in Lingering
  /\ \A x \in Places(qu, re) :
       ph[Who(qu, re, x)] \in Receiving =>
         /\ x[1] = home[Who(qu, re, x)]
         /\ Patient(qu, x) => may[Who(qu, re, x)]
  /\ \A r \in Requests :
       ph[r] \in Receiving => \E x \in Places(qu, re) : Who(qu, re, x) = r

\* The places are those of before except the ones that were dropped, g says
\* which is which.
Moved(g, dropped, qu2, re2, qu, re) ==
  /\ g \in [Places(qu2, re2) -> Places(qu, re) \ dropped]
  /\ \A x, y \in Places(qu2, re2) : g[x] = g[y] => x = y
  /\ \A z \in Places(qu, re) \ dropped : \E x \in Places(qu2, re2) : g[x] = z
  /\ \A x \in Places(qu2, re2) :
       /\ Who(qu2, re2, x) = Who(qu, re, g[x])
       /\ g[x][1] = x[1]
       /\ Patient(qu2, x) => Patient(qu, g[x])

\* Who is at a place is a checkout.
LEMMA WhoType ==
  ASSUME NEW qu \in Queues, NEW re \in Reserves, NEW x \in Places(qu, re)
  PROVE  /\ Who(qu, re, x) \in Requests
         /\ x[1] \in SubPools /\ x[2] \in {"queue", "reserved"}
         /\ x[3] \in Nat /\ x = <<x[1], x[2], x[3]>>
<1>1. x[1] \in SubPools /\ x[2] \in {"queue", "reserved"} /\ x[3] \in Nat
      /\ x = <<x[1], x[2], x[3]>>
  BY DEF Places
<1>2. CASE x[2] = "queue"
  <2>1. qu[x[1]] \in Seq(Payloads) /\ x[3] \in 1..Len(qu[x[1]])
    BY <1>1, <1>2 DEF Places, Queues
  <2>2. qu[x[1]][x[3]] \in Payloads
    BY <2>1, ElementOfSeq
  <2> QED
    BY <1>1, <1>2, <2>2 DEF Who, Payloads
<1>3. CASE x[2] = "reserved"
  <2>1. re[x[1]] \in Seq(Requests) /\ x[3] \in 1..Len(re[x[1]])
    BY <1>1, <1>3 DEF Places, Reserves
  <2>2. re[x[1]][x[3]] \in Requests
    BY <2>1, ElementOfSeq
  <2> QED
    BY <1>1, <1>3, <2>2 DEF Who
<1> QED
  BY <1>1, <1>2, <1>3

\* What is left after some places were dropped, if nobody moved from where a
\* sender is and who is pending now was pending before and is not dropped.
LEMMA MovedPlaced ==
  ASSUME NEW qu \in Queues, NEW re \in Reserves,
         NEW qu2 \in Queues, NEW re2 \in Reserves,
         NEW ph, NEW home, NEW may, NEW ph2, NEW home2, NEW may2,
         NEW g, NEW dropped, Moved(g, dropped, qu2, re2, qu, re),
         Placed(qu, re, ph, home, may),
         \A z \in Places(qu, re) \ dropped :
           /\ ph2[Who(qu, re, z)] \in Lingering
           /\ ph2[Who(qu, re, z)] \in Receiving =>
                /\ ph[Who(qu, re, z)] \in Receiving
                /\ home2[Who(qu, re, z)] = home[Who(qu, re, z)]
                /\ may2[Who(qu, re, z)] = may[Who(qu, re, z)],
         \A r \in Requests : ph2[r] \in Receiving =>
           \E z \in Places(qu, re) \ dropped : Who(qu, re, z) = r
  PROVE  Placed(qu2, re2, ph2, home2, may2)
<1>1. \A x \in Places(qu2, re2) :
        /\ g[x] \in Places(qu, re) \ dropped
        /\ Who(qu2, re2, x) = Who(qu, re, g[x])
        /\ g[x][1] = x[1]
        /\ Patient(qu2, x) => Patient(qu, g[x])
  BY DEF Moved
<1>2. ASSUME NEW x \in Places(qu2, re2), NEW y \in Places(qu2, re2),
             Who(qu2, re2, x) = Who(qu2, re2, y)
      PROVE  x = y
  <2>1. \A u, v \in Places(qu, re) :
          Who(qu, re, u) = Who(qu, re, v) => u = v
    BY Zenon DEF Placed
  <2>2. g[x] \in Places(qu, re) /\ g[y] \in Places(qu, re)
        /\ Who(qu, re, g[x]) = Who(qu, re, g[y])
    BY <1>1, <1>2, Zenon
  <2>3. g[x] = g[y]
    BY <2>1, <2>2, Zenon
  <2> QED
    BY <2>3, Zenon DEF Moved
<1>3. ASSUME NEW x \in Places(qu2, re2)
      PROVE  /\ ph2[Who(qu2, re2, x)] \in Lingering
             /\ ph2[Who(qu2, re2, x)] \in Receiving =>
                  /\ x[1] = home2[Who(qu2, re2, x)]
                  /\ Patient(qu2, x) => may2[Who(qu2, re2, x)]
  <2> DEFINE z == g[x]
             r == Who(qu, re, z)
  <2>1. /\ z \in Places(qu, re) \ dropped /\ z \in Places(qu, re)
        /\ Who(qu2, re2, x) = r /\ z[1] = x[1]
        /\ Patient(qu2, x) => Patient(qu, z)
    BY <1>1
  <2> HIDE DEF z
  <2>2. ph[r] \in Receiving => z[1] = home[r] /\ (Patient(qu, z) => may[r])
    BY <2>1, Zenon DEF Placed
  <2>3. /\ ph2[r] \in Lingering
        /\ ph2[r] \in Receiving =>
             ph[r] \in Receiving /\ home2[r] = home[r] /\ may2[r] = may[r]
    BY <2>1, Zenon
  <2> HIDE DEF r
  <2> QED
    BY <2>1, <2>2, <2>3, Zenon
<1>4. ASSUME NEW r \in Requests, ph2[r] \in Receiving
      PROVE  \E x \in Places(qu2, re2) : Who(qu2, re2, x) = r
  <2>1. PICK z \in Places(qu, re) \ dropped : Who(qu, re, z) = r
    BY <1>4
  <2>2. PICK x \in Places(qu2, re2) : g[x] = z
    BY <2>1 DEF Moved
  <2> QED
    BY <1>1, <2>1, <2>2
<1> QED
  <2>1. \A x \in Places(qu2, re2) :
          ph2[Who(qu2, re2, x)] \in Lingering
    BY <1>3, Zenon
  <2>2. \A x \in Places(qu2, re2) :
          ph2[Who(qu2, re2, x)] \in Receiving =>
            /\ x[1] = home2[Who(qu2, re2, x)]
            /\ Patient(qu2, x) => may2[Who(qu2, re2, x)]
    BY <1>3, Zenon
  <2> QED
    BY <1>2, <1>4, <2>1, <2>2, Zenon DEF Placed

\* Nothing was moved.
LEMMA NothingMoved ==
  ASSUME NEW qu, NEW re
  PROVE  \E g : Moved(g, {}, qu, re, qu, re)
<1> DEFINE g == [x \in Places(qu, re) |-> x]
<1>1. Moved(g, {}, qu, re, qu, re)
  <2> USE DEF Moved
  <2>1. \A x \in Places(qu, re) : g[x] = x
    OBVIOUS
  <2> QED
    BY <2>1
<1> QED
  BY <1>1

\* The places of one queue and of one list of reservations.
LEMMA PlaceIs ==
  ASSUME NEW qu \in Queues, NEW re \in Reserves, NEW p, NEW i
  PROVE  /\ <<p, "queue", i>> \in Places(qu, re) <=>
              p \in SubPools /\ i \in 1..Len(qu[p])
         /\ <<p, "reserved", i>> \in Places(qu, re) <=>
              p \in SubPools /\ i \in 1..Len(re[p])
         /\ Who(qu, re, <<p, "queue", i>>) = qu[p][i].request
         /\ Who(qu, re, <<p, "reserved", i>>) = re[p][i]
         /\ Patient(qu, <<p, "queue", i>>) <=> (qu[p][i].reservation_allowed)
         /\ Patient(qu, <<p, "reserved", i>>)
<1>1. \A q \in SubPools : Len(qu[q]) \in Nat /\ Len(re[q]) \in Nat
  BY DEF Queues, Reserves
<1>2. \A q \in SubPools :
        1..Len(qu[q]) \subseteq Nat /\ 1..Len(re[q]) \subseteq Nat
  BY <1>1
<1>3. /\ <<p, "queue", i>> \in Places(qu, re) <=>
           p \in SubPools /\ i \in 1..Len(qu[p])
      /\ <<p, "reserved", i>> \in Places(qu, re) <=>
           p \in SubPools /\ i \in 1..Len(re[p])
  BY <1>2 DEF Places
<1> QED
  BY <1>3 DEF Who, Patient

\* Some reservations of p are dropped, f says where those that are left were.
LEMMA ReservedMoved ==
  ASSUME NEW qu \in Queues, NEW re \in Reserves, NEW p \in SubPools,
         NEW w \in Seq(Requests), NEW f \in [1..Len(w) -> 1..Len(re[p])],
         \A i, j \in 1..Len(w) : f[i] = f[j] => i = j,
         \A i \in 1..Len(w) : w[i] = re[p][f[i]]
  PROVE  /\ [re EXCEPT ![p] = w] \in Reserves
         /\ \E g : Moved(g, {z \in Places(qu, re) :
                               /\ z[1] = p /\ z[2] = "reserved"
                               /\ \A i \in 1..Len(w) : f[i] # z[3]},
                         qu, [re EXCEPT ![p] = w], qu, re)
<1> DEFINE re2 == [re EXCEPT ![p] = w]
           dropped == {z \in Places(qu, re) :
                         /\ z[1] = p /\ z[2] = "reserved"
                         /\ \A i \in 1..Len(w) : f[i] # z[3]}
           At(x) == x[1] = p /\ x[2] = "reserved"
           g == [x \in Places(qu, re2) |->
                   IF At(x) THEN <<p, "reserved", f[x[3]]>> ELSE x]
<1>1. re2 \in Reserves /\ re2[p] = w
      /\ \A q \in SubPools \ {p} : re2[q] = re[q]
  BY DEF Reserves
<1> HIDE DEF re2
<1>0. /\ \A x \in Places(qu, re2) :
           g[x] = IF At(x) THEN <<p, "reserved", f[x[3]]>> ELSE x
      /\ g = [x \in Places(qu, re2) |-> g[x]]
  OBVIOUS
<1> HIDE DEF g
<1>2. ASSUME NEW x \in Places(qu, re2)
      PROVE  /\ x[1] \in SubPools /\ x[2] \in {"queue", "reserved"}
             /\ x = <<x[1], x[2], x[3]>> /\ x[3] \in Nat
             /\ x[2] = "queue" => x[3] \in 1..Len(qu[x[1]])
             /\ x[2] = "reserved" => x[3] \in 1..Len(re2[x[1]])
  BY <1>1, WhoType DEF Places
<1>3. ASSUME NEW x \in Places(qu, re2), At(x)
      PROVE  /\ x = <<p, "reserved", x[3]>>
             /\ x[3] \in 1..Len(w) /\ f[x[3]] \in 1..Len(re[p])
             /\ g[x] = <<p, "reserved", f[x[3]]>>
             /\ g[x] \in Places(qu, re) \ dropped
             /\ Who(qu, re2, x) = w[x[3]]
             /\ Who(qu, re, g[x]) = re[p][f[x[3]]]
             /\ Patient(qu, g[x])
  <2>1. /\ x = <<p, "reserved", x[3]>>
        /\ x[3] \in 1..Len(w) /\ f[x[3]] \in 1..Len(re[p])
        /\ g[x] = <<p, "reserved", f[x[3]]>>
    BY <1>0, <1>1, <1>2, <1>3
  <2>2. <<p, "reserved", f[x[3]]>> \in Places(qu, re) \ dropped
    BY <2>1, PlaceIs
  <2>3. Who(qu, re2, x) = w[x[3]]
    BY <1>1, <1>3 DEF Who
  <2>4. Who(qu, re, g[x]) = re[p][f[x[3]]] /\ Patient(qu, g[x])
    BY <2>1 DEF Who, Patient
  <2> QED
    BY <2>1, <2>2, <2>3, <2>4
<1>4. ASSUME NEW x \in Places(qu, re2), ~At(x)
      PROVE  /\ g[x] = x
             /\ x \in Places(qu, re) \ dropped
             /\ Who(qu, re2, x) = Who(qu, re, x)
  <2>1. x \in Places(qu, re)
    BY <1>1, <1>2, <1>4 DEF Places
  <2>2. Who(qu, re2, x) = Who(qu, re, x)
    BY <1>1, <1>2, <1>4 DEF Who
  <2>3. g[x] = x
    BY <1>0, <1>4
  <2> QED
    BY <1>4, <2>1, <2>2, <2>3
<1>5. ASSUME NEW z \in Places(qu, re) \ dropped
      PROVE  \E x \in Places(qu, re2) : g[x] = z
  <2>0. /\ z[1] \in SubPools /\ z[2] \in {"queue", "reserved"}
        /\ z = <<z[1], z[2], z[3]>> /\ z[3] \in Nat
        /\ z[2] = "queue" => z[3] \in 1..Len(qu[z[1]])
        /\ z[2] = "reserved" => z[3] \in 1..Len(re[z[1]])
    BY WhoType DEF Places
  <2>1. CASE At(z)
    <3>1. PICK i \in 1..Len(w) : f[i] = z[3]
      BY <2>1
    <3>2. <<p, "reserved", i>> \in Places(qu, re2)
      BY <1>1, PlaceIs
    <3>3. g[<<p, "reserved", i>>] = <<p, "reserved", f[i]>>
      BY <1>0, <3>2
    <3>4. <<p, "reserved", f[i]>> = z
      BY <2>0, <2>1, <3>1
    <3> QED
      BY <3>2, <3>3, <3>4
  <2>2. CASE ~At(z)
    <3>1. z \in Places(qu, re2)
      BY <1>1, <2>0, <2>2 DEF Places
    <3> QED
      BY <1>0, <2>2, <3>1
  <2> QED
    BY <2>1, <2>2
<1> HIDE DEF dropped
<1>6. Moved(g, dropped, qu, re2, qu, re)
  <2>1. g \in [Places(qu, re2) -> Places(qu, re) \ dropped]
    BY <1>0, <1>3, <1>4
  <2>2. ASSUME NEW x \in Places(qu, re2), NEW y \in Places(qu, re2),
               g[x] = g[y]
        PROVE  x = y
    <3>1. CASE At(x) /\ At(y)
      <4>1. x = <<p, "reserved", x[3]>> /\ y = <<p, "reserved", y[3]>>
        BY <1>3, <3>1
      <4>2. /\ g[x] = <<p, "reserved", f[x[3]]>> /\ x[3] \in 1..Len(w)
            /\ g[y] = <<p, "reserved", f[y[3]]>> /\ y[3] \in 1..Len(w)
        BY <1>3, <3>1
      <4>3. f[x[3]] = f[y[3]]
        <5>1. <<p, "reserved", f[x[3]]>> = <<p, "reserved", f[y[3]]>>
          BY <2>2, <4>2, Zenon
        <5> QED
          BY <5>1
      <4>4. x[3] = y[3]
        BY <4>2, <4>3
      <4> QED
        BY <4>1, <4>4, Zenon
    <3>2. CASE At(x) /\ ~At(y)
      BY <1>3, <1>4, <2>2, <3>2
    <3>3. CASE ~At(x) /\ At(y)
      BY <1>3, <1>4, <2>2, <3>3
    <3>4. CASE ~At(x) /\ ~At(y)
      BY <1>4, <2>2, <3>4
    <3> QED
      BY <3>1, <3>2, <3>3, <3>4
  <2>3. ASSUME NEW x \in Places(qu, re2)
        PROVE  /\ Who(qu, re2, x) = Who(qu, re, g[x])
               /\ g[x][1] = x[1]
               /\ Patient(qu, x) => Patient(qu, g[x])
    BY <1>3, <1>4
  <2> QED
    BY <1>5, <2>1, <2>2, <2>3, Zenon DEF Moved
<1> QED
  BY <1>1, <1>6 DEF re2, dropped

\* The head of the queue of p is dropped.
LEMMA TailMoved ==
  ASSUME NEW qu \in Queues, NEW re \in Reserves, NEW p \in SubPools,
         qu[p] # <<>>
  PROVE  /\ [qu EXCEPT ![p] = Tail(@)] \in Queues
         /\ <<p, "queue", 1>> \in Places(qu, re)
         /\ Who(qu, re, <<p, "queue", 1>>) = Head(qu[p]).request
         /\ \E g : Moved(g, {<<p, "queue", 1>>},
                         [qu EXCEPT ![p] = Tail(@)], re, qu, re)
<1> DEFINE qu2 == [qu EXCEPT ![p] = Tail(@)]
           top == <<p, "queue", 1>>
           At(x) == x[1] = p /\ x[2] = "queue"
           g == [x \in Places(qu2, re) |->
                   IF At(x) THEN <<p, "queue", x[3] + 1>> ELSE x]
<1>0. /\ \A x \in Places(qu2, re) :
           g[x] = IF At(x) THEN <<p, "queue", x[3] + 1>> ELSE x
      /\ g = [x \in Places(qu2, re) |-> g[x]]
  OBVIOUS
<1>1. /\ qu2 \in Queues /\ qu2[p] = Tail(qu[p])
      /\ \A q \in SubPools \ {p} : qu2[q] = qu[q]
      /\ Len(qu[p]) \in Nat \ {0}
      /\ Len(qu2[p]) = Len(qu[p]) - 1
      /\ \A i \in 1..Len(qu2[p]) : qu2[p][i] = qu[p][i + 1]
  <2>1. qu[p] \in Seq(Payloads)
    BY DEF Queues
  <2>2. /\ Tail(qu[p]) \in Seq(Payloads)
        /\ Len(qu[p]) \in Nat \ {0}
        /\ Len(Tail(qu[p])) = Len(qu[p]) - 1
        /\ \A i \in 1..Len(Tail(qu[p])) : Tail(qu[p])[i] = qu[p][i + 1]
    BY <2>1, HeadTailProperties, EmptySeq
  <2> QED
    BY <2>2 DEF Queues
<1>2. top \in Places(qu, re) /\ Who(qu, re, top) = Head(qu[p]).request
  BY <1>1 DEF Places, Who
<1> HIDE DEF qu2, g
<1>3. ASSUME NEW x \in Places(qu2, re)
      PROVE  /\ x[1] \in SubPools /\ x[2] \in {"queue", "reserved"}
             /\ x = <<x[1], x[2], x[3]>> /\ x[3] \in Nat
             /\ x[2] = "queue" => x[3] \in 1..Len(qu2[x[1]])
             /\ x[2] = "reserved" => x[3] \in 1..Len(re[x[1]])
  BY <1>1, WhoType DEF Places
<1>4. ASSUME NEW x \in Places(qu2, re), At(x)
      PROVE  /\ x = <<p, "queue", x[3]>> /\ x[3] \in Nat
             /\ g[x] = <<p, "queue", x[3] + 1>>
             /\ g[x] \in Places(qu, re) \ {top}
             /\ Who(qu2, re, x) = Who(qu, re, g[x])
             /\ Patient(qu2, x) => Patient(qu, g[x])
  <2>0. x[1] = p /\ x[2] = "queue" /\ x[3] \in 1..Len(qu2[p])
    BY <1>3, <1>4
  <2>1. /\ x = <<p, "queue", x[3]>>
        /\ x[3] \in 1..Len(qu2[p]) /\ x[3] + 1 \in 2..Len(qu[p])
        /\ g[x] = <<p, "queue", x[3] + 1>>
        /\ qu2[p][x[3]] = qu[p][x[3] + 1]
    <3>1. x = <<p, "queue", x[3]>> /\ g[x] = <<p, "queue", x[3] + 1>>
      BY <1>0, <1>3, <1>4, <2>0
    <3>2. x[3] + 1 \in 2..Len(qu[p]) /\ qu2[p][x[3]] = qu[p][x[3] + 1]
      BY <1>1, <2>0
    <3> QED
      BY <2>0, <3>1, <3>2
  <2>2. <<p, "queue", x[3] + 1>> \in Places(qu, re) \ {top}
    BY <2>1, <1>1 DEF Places
  <2>3. /\ Who(qu2, re, x) = qu2[p][x[3]].request
        /\ Patient(qu2, x) <=> qu2[p][x[3]].reservation_allowed
    BY <2>1, <1>4 DEF Who, Patient
  <2>4. /\ Who(qu, re, g[x]) = qu[p][x[3] + 1].request
        /\ Patient(qu, g[x]) <=> qu[p][x[3] + 1].reservation_allowed
    BY <2>1 DEF Who, Patient
  <2>5. Patient(qu2, x) => Patient(qu, g[x])
    BY <2>1, <2>3, <2>4, Zenon
  <2> QED
    BY <2>1, <2>2, <2>3, <2>4, <2>5
<1>5. ASSUME NEW x \in Places(qu2, re), ~At(x)
      PROVE  /\ g[x] = x
             /\ x \in Places(qu, re) \ {top}
             /\ Who(qu2, re, x) = Who(qu, re, x)
             /\ Patient(qu2, x) => Patient(qu, x)
  <2>1. x \in Places(qu, re) \ {top}
    BY <1>1, <1>3, <1>5 DEF Places
  <2>2. Who(qu2, re, x) = Who(qu, re, x)
        /\ (Patient(qu2, x) => Patient(qu, x))
    BY <1>1, <1>3, <1>5 DEF Who, Patient
  <2>3. g[x] = x
    BY <1>0, <1>5
  <2> QED
    BY <1>5, <2>1, <2>2, <2>3
<1>6. ASSUME NEW z \in Places(qu, re) \ {top}
      PROVE  \E x \in Places(qu2, re) : g[x] = z
  <2>0. /\ z[1] \in SubPools /\ z[2] \in {"queue", "reserved"}
        /\ z = <<z[1], z[2], z[3]>> /\ z[3] \in Nat
        /\ z[2] = "queue" => z[3] \in 1..Len(qu[z[1]])
        /\ z[2] = "reserved" => z[3] \in 1..Len(re[z[1]])
    BY WhoType DEF Places
  <2>1. CASE At(z)
    <3>1. z = <<p, "queue", z[3]>>
      BY <2>0, <2>1
    <3>2. z[3] # 1
      BY <3>1
    <3>3. z[3] - 1 \in 1..Len(qu2[p]) /\ (z[3] - 1) + 1 = z[3]
      BY <1>1, <2>0, <2>1, <3>2
    <3>4. <<p, "queue", z[3] - 1>> \in Places(qu2, re)
      BY <1>1, <3>3, PlaceIs
    <3>5. g[<<p, "queue", z[3] - 1>>] = <<p, "queue", (z[3] - 1) + 1>>
      BY <1>0, <3>4
    <3> QED
      BY <3>1, <3>3, <3>4, <3>5
  <2>2. CASE ~At(z)
    <3>1. z \in Places(qu2, re)
      BY <1>1, <2>0, <2>2 DEF Places
    <3> QED
      BY <1>0, <2>2, <3>1
  <2> QED
    BY <2>1, <2>2
<1>7. Moved(g, {top}, qu2, re, qu, re)
  <2>1. g \in [Places(qu2, re) -> Places(qu, re) \ {top}]
    BY <1>0, <1>4, <1>5
  <2>2. ASSUME NEW x \in Places(qu2, re), NEW y \in Places(qu2, re),
               g[x] = g[y]
        PROVE  x = y
    <3>0. /\ x = <<x[1], x[2], x[3]>> /\ y = <<y[1], y[2], y[3]>>
          /\ x[3] \in Nat /\ y[3] \in Nat
      BY <1>3
    <3>1. CASE At(x) /\ At(y)
      <4>1. x = <<p, "queue", x[3]>> /\ y = <<p, "queue", y[3]>>
        BY <1>4, <3>1
      <4>2. <<p, "queue", x[3] + 1>> = <<p, "queue", y[3] + 1>>
        BY <1>4, <2>2, <3>1
      <4>3. x[3] + 1 = y[3] + 1
        BY <4>2
      <4> QED
        BY <3>0, <4>1, <4>3
    <3>2. CASE At(x) /\ ~At(y)
      BY <1>4, <1>5, <2>2, <3>2
    <3>3. CASE ~At(x) /\ At(y)
      BY <1>4, <1>5, <2>2, <3>3
    <3>4. CASE ~At(x) /\ ~At(y)
      BY <1>5, <2>2, <3>4
    <3> QED
      BY <3>1, <3>2, <3>3, <3>4
  <2>3. ASSUME NEW x \in Places(qu2, re)
        PROVE  /\ Who(qu2, re, x) = Who(qu, re, g[x])
               /\ g[x][1] = x[1]
               /\ Patient(qu2, x) => Patient(qu, g[x])
    BY <1>4, <1>5
  <2> HIDE DEF top
  <2> QED
    BY <1>6, <2>1, <2>2, <2>3, Zenon DEF Moved
<1> QED
  BY <1>1, <1>2, <1>7 DEF qu2

\* The head of the queue of p becomes its last reservation.
LEMMA HeadMoved ==
  ASSUME NEW qu \in Queues, NEW re \in Reserves, NEW p \in SubPools,
         qu[p] # <<>>, Head(qu[p]).reservation_allowed
  PROVE  /\ [qu EXCEPT ![p] = Tail(@)] \in Queues
         /\ [re EXCEPT ![p] = Append(@, Head(qu[p]).request)] \in Reserves
         /\ \E g : Moved(g, {}, [qu EXCEPT ![p] = Tail(@)],
                         [re EXCEPT ![p] = Append(@, Head(qu[p]).request)],
                         qu, re)
<1> DEFINE qu2 == [qu EXCEPT ![p] = Tail(@)]
           re2 == [re EXCEPT ![p] = Append(@, Head(qu[p]).request)]
           end == Len(re[p]) + 1
           top == <<p, "queue", 1>>
           At(x) == x[1] = p /\ x[2] = "queue"
           Newest(x) == x[1] = p /\ x[2] = "reserved" /\ x[3] = end
           g == [x \in Places(qu2, re2) |->
                   IF At(x) THEN <<p, "queue", x[3] + 1>>
                   ELSE IF Newest(x) THEN top ELSE x]
<1>0. /\ \A x \in Places(qu2, re2) :
           g[x] = IF At(x) THEN <<p, "queue", x[3] + 1>>
                  ELSE IF Newest(x) THEN top ELSE x
      /\ g = [x \in Places(qu2, re2) |-> g[x]]
  <2> HIDE DEF At, Newest, qu2, re2, top
  <2> QED
    OBVIOUS
<1>1. /\ qu2 \in Queues /\ qu2[p] = Tail(qu[p])
      /\ \A q \in SubPools \ {p} : qu2[q] = qu[q]
      /\ Len(qu[p]) \in Nat \ {0}
      /\ Len(qu2[p]) = Len(qu[p]) - 1
      /\ \A i \in 1..Len(qu2[p]) : qu2[p][i] = qu[p][i + 1]
      /\ Head(qu[p]) = qu[p][1] /\ qu[p][1] \in Payloads
  <2>1. qu[p] \in Seq(Payloads)
    BY DEF Queues
  <2>2. /\ Tail(qu[p]) \in Seq(Payloads)
        /\ Len(qu[p]) \in Nat \ {0}
        /\ Len(Tail(qu[p])) = Len(qu[p]) - 1
        /\ \A i \in 1..Len(Tail(qu[p])) : Tail(qu[p])[i] = qu[p][i + 1]
        /\ Head(qu[p]) = qu[p][1] /\ Head(qu[p]) \in Payloads
    BY <2>1, HeadTailProperties, EmptySeq
  <2> QED
    BY <2>2 DEF Queues
<1>2. /\ re2 \in Reserves /\ Len(re[p]) \in Nat
      /\ \A q \in SubPools \ {p} : re2[q] = re[q]
      /\ Len(re2[p]) = end /\ end \in Nat
      /\ \A i \in 1..Len(re[p]) : re2[p][i] = re[p][i]
      /\ re2[p][end] = qu[p][1].request
  <2>1. re[p] \in Seq(Requests) /\ Head(qu[p]).request \in Requests
    BY <1>1 DEF Reserves, Payloads
  <2> QED
    BY <1>1, <2>1 DEF Reserves
<1>3. top \in Places(qu, re) /\ Who(qu, re, top) = qu[p][1].request
      /\ Patient(qu, top)
  BY <1>1 DEF Places, Who, Patient
<1> HIDE DEF qu2, re2, end, g
<1>4. ASSUME NEW x \in Places(qu2, re2)
      PROVE  /\ x[1] \in SubPools /\ x[2] \in {"queue", "reserved"}
             /\ x = <<x[1], x[2], x[3]>> /\ x[3] \in Nat
             /\ x[2] = "queue" => x[3] \in 1..Len(qu2[x[1]])
             /\ x[2] = "reserved" => x[3] \in 1..Len(re2[x[1]])
  BY <1>1, <1>2, WhoType DEF Places
<1>5. ASSUME NEW x \in Places(qu2, re2), At(x)
      PROVE  /\ x = <<p, "queue", x[3]>> /\ x[3] \in Nat \ {0}
             /\ g[x] = <<p, "queue", x[3] + 1>>
             /\ g[x] \in Places(qu, re)
             /\ Who(qu2, re2, x) = Who(qu, re, g[x])
             /\ Patient(qu2, x) => Patient(qu, g[x])
  <2>0. x[1] = p /\ x[2] = "queue" /\ x[3] \in 1..Len(qu2[p])
    BY <1>4, <1>5
  <2>1. x = <<p, "queue", x[3]>> /\ g[x] = <<p, "queue", x[3] + 1>>
    BY <1>0, <1>4, <1>5, <2>0
  <2>2. x[3] + 1 \in 1..Len(qu[p]) /\ qu2[p][x[3]] = qu[p][x[3] + 1]
        /\ x[3] \in Nat \ {0}
    BY <1>1, <2>0
  <2>3. <<p, "queue", x[3] + 1>> \in Places(qu, re)
    BY <2>2, PlaceIs
  <2>4. /\ Who(qu2, re2, x) = qu2[p][x[3]].request
        /\ Patient(qu2, x) <=> qu2[p][x[3]].reservation_allowed
    BY <2>1, <1>5 DEF Who, Patient
  <2>5. /\ Who(qu, re, g[x]) = qu[p][x[3] + 1].request
        /\ Patient(qu, g[x]) <=> qu[p][x[3] + 1].reservation_allowed
    BY <2>1 DEF Who, Patient
  <2>6. Patient(qu2, x) => Patient(qu, g[x])
    BY <2>2, <2>4, <2>5, Zenon
  <2> QED
    BY <2>1, <2>2, <2>3, <2>4, <2>5, <2>6
<1>6. ASSUME NEW x \in Places(qu2, re2), Newest(x)
      PROVE  /\ x = <<p, "reserved", end>> /\ g[x] = top
             /\ Who(qu2, re2, x) = Who(qu, re, top)
  <2>1. x = <<p, "reserved", end>>
    BY <1>4, <1>6
  <2>2. g[x] = top
    BY <1>0, <1>6, <2>1
  <2>3. Who(qu2, re2, x) = re2[p][end]
    BY <2>1 DEF Who
  <2> QED
    BY <1>2, <1>3, <2>1, <2>2, <2>3
<1>7. ASSUME NEW x \in Places(qu2, re2), ~At(x), ~Newest(x)
      PROVE  /\ g[x] = x /\ x # top
             /\ x \in Places(qu, re)
             /\ Who(qu2, re2, x) = Who(qu, re, x)
             /\ Patient(qu2, x) => Patient(qu, x)
  <2>1. x[2] = "queue" =>
          qu2[x[1]] = qu[x[1]] /\ x[3] \in 1..Len(qu[x[1]])
    BY <1>1, <1>4, <1>7
  <2>2. x[2] = "reserved" =>
          /\ re2[x[1]][x[3]] = re[x[1]][x[3]]
          /\ x[3] \in 1..Len(re[x[1]])
    <3>1. CASE x[1] = p
      BY <1>2, <1>4, <1>7, <3>1 DEF end
    <3>2. CASE x[1] # p
      BY <1>2, <1>4, <1>7, <3>2
    <3> QED
      BY <3>1, <3>2
  <2>3. x \in Places(qu, re)
    BY <1>4, <2>1, <2>2 DEF Places
  <2>4. Who(qu2, re2, x) = Who(qu, re, x)
        /\ (Patient(qu2, x) => Patient(qu, x))
    BY <1>4, <2>1, <2>2 DEF Who, Patient
  <2>5. g[x] = x
    BY <1>0, <1>7
  <2>6. x # top
    BY <1>7
  <2> QED
    BY <1>7, <2>3, <2>4, <2>5, <2>6
<1>8. ASSUME NEW z \in Places(qu, re)
      PROVE  \E x \in Places(qu2, re2) : g[x] = z
  <2>0. /\ z[1] \in SubPools /\ z[2] \in {"queue", "reserved"}
        /\ z = <<z[1], z[2], z[3]>> /\ z[3] \in Nat
        /\ z[2] = "queue" => z[3] \in 1..Len(qu[z[1]])
        /\ z[2] = "reserved" => z[3] \in 1..Len(re[z[1]])
    BY WhoType DEF Places
  <2>1. CASE At(z) /\ z[3] = 1
    <3>1. <<p, "reserved", end>> \in Places(qu2, re2)
      <4>1. end \in 1..Len(re2[p])
        BY <1>2 DEF end
      <4> QED
        BY <1>1, <1>2, <4>1, PlaceIs
    <3>2. g[<<p, "reserved", end>>] = top
      BY <1>0, <3>1
    <3>3. z = top
      BY <2>0, <2>1
    <3> QED
      BY <3>1, <3>2, <3>3
  <2>2. CASE At(z) /\ z[3] # 1
    <3>1. z = <<p, "queue", z[3]>>
      BY <2>0, <2>2
    <3>2. z[3] - 1 \in 1..Len(qu2[p]) /\ (z[3] - 1) + 1 = z[3]
      BY <1>1, <2>0, <2>2
    <3>3. <<p, "queue", z[3] - 1>> \in Places(qu2, re2)
      BY <1>1, <1>2, <3>2, PlaceIs
    <3>4. g[<<p, "queue", z[3] - 1>>] = <<p, "queue", (z[3] - 1) + 1>>
      BY <1>0, <3>3
    <3> QED
      BY <3>1, <3>2, <3>3, <3>4
  <2>3. CASE ~At(z)
    <3>1. /\ z[2] = "queue" => qu2[z[1]] = qu[z[1]]
          /\ z[2] = "reserved" => z[3] \in 1..Len(re2[z[1]]) /\ ~Newest(z)
      BY <1>1, <1>2, <2>0, <2>3 DEF end
    <3>2. z \in Places(qu2, re2)
      BY <2>0, <2>3, <3>1 DEF Places
    <3>3. g[z] = z
      BY <1>0, <2>0, <2>3, <3>1, <3>2
    <3> QED
      BY <3>2, <3>3
  <2> QED
    BY <2>1, <2>2, <2>3
<1>9. Moved(g, {}, qu2, re2, qu, re)
  <2>1. g \in [Places(qu2, re2) -> Places(qu, re) \ {}]
    BY <1>0, <1>3, <1>5, <1>6, <1>7
  <2>2. ASSUME NEW x \in Places(qu2, re2), NEW y \in Places(qu2, re2),
               g[x] = g[y]
        PROVE  x = y
    <3>0. \A u \in Places(qu2, re2) : At(u) => g[u] # top
      BY <1>5
    <3>1. CASE At(x) /\ At(y)
      <4>1. /\ x = <<p, "queue", x[3]>> /\ y = <<p, "queue", y[3]>>
            /\ x[3] \in Nat /\ y[3] \in Nat
        BY <1>5, <3>1
      <4>2. <<p, "queue", x[3] + 1>> = <<p, "queue", y[3] + 1>>
        BY <1>5, <2>2, <3>1
      <4>3. x[3] + 1 = y[3] + 1
        BY <4>2
      <4> QED
        BY <4>1, <4>3
    <3>2. CASE ~At(x) /\ ~At(y)
      BY <1>6, <1>7, <2>2, <3>2
    <3>3. CASE At(x) /\ ~At(y)
      BY <1>5, <1>6, <1>7, <2>2, <3>0, <3>3
    <3>4. CASE ~At(x) /\ At(y)
      BY <1>5, <1>6, <1>7, <2>2, <3>0, <3>4
    <3> QED
      BY <3>1, <3>2, <3>3, <3>4
  <2>3. ASSUME NEW x \in Places(qu2, re2)
        PROVE  /\ Who(qu2, re2, x) = Who(qu, re, g[x])
               /\ g[x][1] = x[1]
               /\ Patient(qu2, x) => Patient(qu, g[x])
    BY <1>3, <1>5, <1>6, <1>7
  <2>4. \A z \in Places(qu, re) \ {} : \E x \in Places(qu2, re2) : g[x] = z
    BY <1>8
  <2> QED
    BY <2>1, <2>2, <2>3, <2>4, Zenon DEF Moved
<1> QED
  BY <1>1, <1>2, <1>9 DEF qu2, re2

\* The queue and the reservations of p are dropped.
LEMMA AllMoved ==
  ASSUME NEW qu \in Queues, NEW re \in Reserves, NEW p \in SubPools
  PROVE  /\ [qu EXCEPT ![p] = <<>>] \in Queues
         /\ [re EXCEPT ![p] = <<>>] \in Reserves
         /\ \E g : Moved(g, {z \in Places(qu, re) : z[1] = p},
                         [qu EXCEPT ![p] = <<>>], [re EXCEPT ![p] = <<>>],
                         qu, re)
<1> DEFINE qu2 == [qu EXCEPT ![p] = <<>>]
           re2 == [re EXCEPT ![p] = <<>>]
           dropped == {z \in Places(qu, re) : z[1] = p}
           g == [x \in Places(qu2, re2) |-> x]
<1>1. /\ qu2 \in Queues /\ re2 \in Reserves
      /\ qu2[p] = <<>> /\ re2[p] = <<>>
      /\ \A q \in SubPools \ {p} : qu2[q] = qu[q] /\ re2[q] = re[q]
  BY DEF Queues, Reserves
<1> HIDE DEF qu2, re2
<1>2. ASSUME NEW x \in Places(qu2, re2)
      PROVE  /\ x \in Places(qu, re) \ dropped
             /\ Who(qu2, re2, x) = Who(qu, re, x)
             /\ Patient(qu2, x) => Patient(qu, x)
  <2>1. /\ x[1] \in SubPools /\ x[2] \in {"queue", "reserved"}
        /\ x = <<x[1], x[2], x[3]>> /\ x[3] \in Nat
        /\ x[2] = "queue" => x[3] \in 1..Len(qu2[x[1]])
        /\ x[2] = "reserved" => x[3] \in 1..Len(re2[x[1]])
    BY <1>1, WhoType DEF Places
  <2>2. x[1] # p
    BY <1>1, <2>1
  <2>3. qu2[x[1]] = qu[x[1]] /\ re2[x[1]] = re[x[1]]
    BY <1>1, <2>1, <2>2
  <2>4. x \in Places(qu, re)
    BY <2>1, <2>3 DEF Places
  <2> QED
    BY <2>2, <2>3, <2>4 DEF Who, Patient
<1>3. ASSUME NEW z \in Places(qu, re) \ dropped
      PROVE  z \in Places(qu2, re2)
  <2>1. z[1] \in SubPools \ {p}
    BY WhoType
  <2>2. qu2[z[1]] = qu[z[1]] /\ re2[z[1]] = re[z[1]]
    BY <1>1, <2>1
  <2> QED
    BY <2>2 DEF Places
<1>4. Moved(g, dropped, qu2, re2, qu, re)
  <2>1. \A x \in Places(qu2, re2) : g[x] = x
    OBVIOUS
  <2>2. g \in [Places(qu2, re2) -> Places(qu, re) \ dropped]
    BY <1>2
  <2> HIDE DEF g, dropped
  <2> QED
    BY <1>2, <1>3, <2>1, <2>2 DEF Moved
<1> QED
  BY <1>1, <1>4 DEF qu2, re2

\* A checkout that has no sender is enqueued at p.
LEMMA AppendPlaced ==
  ASSUME NEW qu \in Queues, NEW re \in Reserves, NEW p \in SubPools,
         NEW ph, NEW home, NEW may, NEW ph2, NEW m \in Payloads,
         Placed(qu, re, ph, home, may),
         \A x \in Places(qu, re) : Who(qu, re, x) # m.request,
         \A r \in Requests :
           ph2[r] = IF r = m.request THEN "pending" ELSE ph[r],
         home[m.request] = p, m.reservation_allowed => may[m.request]
  PROVE  /\ [qu EXCEPT ![p] = Append(@, m)] \in Queues
         /\ Placed([qu EXCEPT ![p] = Append(@, m)], re, ph2, home, may)
<1> DEFINE qu2 == [qu EXCEPT ![p] = Append(@, m)]
           end == Len(qu[p]) + 1
           top == <<p, "queue", end>>
<1>1. /\ qu2 \in Queues /\ Len(qu[p]) \in Nat
      /\ \A q \in SubPools \ {p} : qu2[q] = qu[q]
      /\ Len(qu2[p]) = end
      /\ \A i \in 1..Len(qu[p]) : qu2[p][i] = qu[p][i]
      /\ qu2[p][end] = m
  <2>1. qu[p] \in Seq(Payloads)
    BY DEF Queues
  <2> QED
    BY <2>1 DEF Queues
<1>2. m.request \in Requests
  BY DEF Payloads
<1> HIDE DEF qu2
<1>3. /\ top \in Places(qu2, re)
      /\ Who(qu2, re, top) = m.request
      /\ Patient(qu2, top) => m.reservation_allowed
  <2>1. top \in Places(qu2, re)
    BY <1>1 DEF Places
  <2>2. qu2[p][end] = m
    BY <1>1
  <2> HIDE DEF end
  <2> QED
    BY <2>1, <2>2 DEF Who, Patient
<1>4. ASSUME NEW x \in Places(qu2, re), x # top
      PROVE  /\ x \in Places(qu, re)
             /\ Who(qu2, re, x) = Who(qu, re, x)
             /\ Patient(qu2, x) => Patient(qu, x)
  <2>1. /\ x[1] \in SubPools /\ x[2] \in {"queue", "reserved"}
        /\ x = <<x[1], x[2], x[3]>> /\ x[3] \in Nat
        /\ x[2] = "queue" => x[3] \in 1..Len(qu2[x[1]])
        /\ x[2] = "reserved" => x[3] \in 1..Len(re[x[1]])
    BY <1>1, WhoType DEF Places
  <2>2. x[2] = "queue" => /\ x[3] \in 1..Len(qu[x[1]])
                          /\ qu2[x[1]][x[3]] = qu[x[1]][x[3]]
    <3>1. CASE x[1] = p
      <4>1. x[2] = "queue" => x[3] # end
        BY <1>4, <2>1, <3>1
      <4> QED
        BY <1>1, <2>1, <3>1, <4>1
    <3>2. CASE x[1] # p
      BY <1>1, <2>1, <3>2
    <3> QED
      BY <3>1, <3>2
  <2>3. x \in Places(qu, re)
    BY <2>1, <2>2 DEF Places
  <2> QED
    BY <2>2, <2>3 DEF Who, Patient
<1>5. ASSUME NEW x \in Places(qu, re)
      PROVE  x \in Places(qu2, re) /\ x # top
  <2>1. /\ x[1] \in SubPools /\ x[2] \in {"queue", "reserved"}
        /\ x = <<x[1], x[2], x[3]>> /\ x[3] \in Nat
        /\ x[2] = "queue" => x[3] \in 1..Len(qu[x[1]])
        /\ x[2] = "reserved" => x[3] \in 1..Len(re[x[1]])
    BY WhoType DEF Places
  <2>2. x # top
    BY <1>1, <2>1
  <2>3. x[2] = "queue" => x[3] \in 1..Len(qu2[x[1]])
    BY <1>1, <2>1
  <2> QED
    BY <2>1, <2>2, <2>3 DEF Places
<1> HIDE DEF top
<1>6. \A x, y \in Places(qu2, re) :
        Who(qu2, re, x) = Who(qu2, re, y) => x = y
  BY <1>3, <1>4 DEF Placed
<1>7. ASSUME NEW x \in Places(qu2, re)
      PROVE  /\ ph2[Who(qu2, re, x)] \in Lingering
             /\ ph2[Who(qu2, re, x)] \in Receiving =>
                  /\ x[1] = home[Who(qu2, re, x)]
                  /\ Patient(qu2, x) => may[Who(qu2, re, x)]
  <2>1. CASE x = top
    BY <1>2, <1>3, <2>1 DEF top
  <2>2. CASE x # top
    <3> DEFINE r == Who(qu, re, x)
    <3>1. /\ x \in Places(qu, re) /\ Who(qu2, re, x) = r
          /\ Patient(qu2, x) => Patient(qu, x)
          /\ r \in Requests /\ r # m.request
      BY <1>4, <2>2, WhoType
    <3>2. /\ ph[r] \in Lingering
          /\ ph[r] \in Receiving =>
               x[1] = home[r] /\ (Patient(qu, x) => may[r])
      BY <3>1, Zenon DEF Placed
    <3>3. ph2[r] = ph[r]
      BY <3>1
    <3> HIDE DEF r
    <3> QED
      BY <3>1, <3>2, <3>3, Zenon
  <2> QED
    BY <2>1, <2>2
<1>8. ASSUME NEW r \in Requests, ph2[r] \in Receiving
      PROVE  \E x \in Places(qu2, re) : Who(qu2, re, x) = r
  <2>1. CASE r = m.request
    BY <1>3, <2>1
  <2>2. CASE r # m.request
    <3>1. PICK x \in Places(qu, re) : Who(qu, re, x) = r
      BY <1>8, <2>2 DEF Placed
    <3>2. x \in Places(qu2, re) /\ Who(qu2, re, x) = r
      BY <1>4, <1>5, <3>1
    <3> QED
      BY <3>2
  <2> QED
    BY <2>1, <2>2
<1>9. Placed(qu2, re, ph2, home, may)
  <2>1. \A x \in Places(qu2, re) :
          ph2[Who(qu2, re, x)] \in Lingering
    BY <1>7, Zenon
  <2>2. \A x \in Places(qu2, re) :
          ph2[Who(qu2, re, x)] \in Receiving =>
            /\ x[1] = home[Who(qu2, re, x)]
            /\ Patient(qu2, x) => may[Who(qu2, re, x)]
    BY <1>7, Zenon
  <2> QED
    BY <1>6, <1>8, <2>1, <2>2, Zenon DEF Placed
<1> QED
  BY <1>1, <1>9 DEF qu2

-----------------------------------------------------------------------------
(* The inductive invariant.                                                *)

\* The sub pool a checkout asks, or has asked at last.
Home == [r \in Requests |-> Target(r)]

\* It may wait, and has been refused by all other sub pools.
MayWait == [r \in Requests |-> mode[r] # "Immediately" /\ tried[r] = N - 1]

SendersPlaced == Placed(queue, reserved, phase, Home, MayWait)

\* The channel of a sub pool and its reservations are bounded.
QueuesBounded ==
  \A p \in SubPools :
    Len(queue[p]) <= QueueSize /\ Len(reserved[p]) <= ReservationLimit

\* Who asks a further sub pool is not beyond the last one.
CallInBounds ==
  \A r \in Requests : tried[r] > 0 => Position(r) < IterationBound(r)

\* The connections of a sub pool: idle ones, those being created, and those
\* clients hold.
Holders(p) == {r \in Requests : phase[r] \in Having /\ Target(r) = p}

ConnectionsBounded ==
  \A p \in SubPools :
    /\ IsFiniteSet(Holders(p))
    /\ idle[p] + creating[p] + Cardinality(Holders(p)) <= PoolSize

PInv ==
  /\ TypeOK
  /\ SendersPlaced
  /\ QueuesBounded
  /\ CallInBounds
  /\ ConnectionsBounded

-----------------------------------------------------------------------------
(* Positions.                                                              *)

\* Numbers below twice the range are wrapped at most once.
LEMMA Wrapped ==
  ASSUME NEW u \in Nat \ {0}, NEW a \in 0..(2 * u - 1)
  PROVE  a % u = IF a < u THEN a ELSE a - u
<1>1. CASE a < u
  <2>1. a = u * 0 + a /\ a \in 0..(u - 1)
    BY <1>1
  <2> QED
    BY <1>1, <2>1, Remainder
<1>2. CASE a >= u
  <2>1. a = u * 1 + (a - u) /\ a - u \in 0..(u - 1)
    BY <1>2
  <2>2. (u * 1 + (a - u)) % u = a - u
    BY <2>1, Remainder
  <2> QED
    BY <1>2, <2>1, <2>2
<1> QED
  BY <1>1, <1>2

\* Where a call is.
LEMMA PositionType ==
  ASSUME TypeOK, NEW r \in Requests
  PROVE  /\ first[r] \in 0..(Usize - 1) /\ tried[r] \in 0..(N - 1)
         /\ Position(r) \in 0..(Usize - 1)
         /\ IterationBound(r) \in 0..(Usize - 1)
         /\ Target(r) \in SubPools
<1>1. N \in Nat \ {0} /\ Usize \in Nat \ {0} /\ Period \in Nat \ {0}
      /\ Period <= Usize /\ N < Usize
  BY SizeAssumption, PeriodAssumption
<1>2. first[r] \in 0..(Period - 1) /\ tried[r] \in 0..(N - 1)
  BY DEF TypeOK
<1>3. /\ first[r] + tried[r] \in Nat /\ first[r] + N \in Nat
      /\ first[r] \in 0..(Usize - 1)
  BY <1>1, <1>2
<1>4. Position(r) \in 0..(Usize - 1) /\ IterationBound(r) \in 0..(Usize - 1)
  BY <1>1, <1>3 DEF Position, IterationBound
<1>5. Target(r) \in SubPools
  BY <1>1, <1>4 DEF Target, SubPools
<1> QED
  BY <1>2, <1>3, <1>4, <1>5

\* A call asks at most N sub pools, also when the counter overflows.
LEMMA MoreToAsk ==
  ASSUME TypeOK, NEW r \in Requests, More(r)
  PROVE  tried[r] + 1 \in 0..(N - 1)
<1>1. N \in Nat \ {0} /\ tried[r] \in 0..(N - 1)
  BY SizeAssumption, PositionType
<1>2. CASE tried[r] + 1 = N
  <2>1. first[r] + tried[r] + 1 = first[r] + N
    BY <1>1, <1>2, PositionType, PeriodAssumption
  <2>2. IterationBound(r) < IterationBound(r)
    BY <2>1, Zenon DEF More, IterationBound
  <2> QED
    BY <2>2, PositionType, PeriodAssumption
<1> QED
  BY <1>1, <1>2

\* Only the last sub pool is given the constraint of the client.
LEMMA LastIsAsked ==
  ASSUME TypeOK, CallInBounds, NEW r \in Requests,
         Constraint(r) # "Immediately"
  PROVE  MayWait[r]
<1> DEFINE f == first[r]
           t == tried[r]
           u == Usize
<1>1. /\ N \in Nat \ {0} /\ u \in Nat \ {0} /\ N < u
      /\ f \in 0..(u - 1) /\ t \in 0..(N - 1)
  BY SizeAssumption, PeriodAssumption, PositionType
<1>2. /\ mode[r] # "Immediately"
      /\ N = 1 \/ (t > 0 /\ Position(r) >= LastIteration(r))
  <2> DEFINE last == N = 1 \/ (t > 0 /\ Position(r) >= LastIteration(r))
  <2>1. Constraint(r) = IF last THEN mode[r] ELSE "Immediately"
    BY Zenon DEF Constraint
  <2> HIDE DEF last
  <2>2. last /\ mode[r] # "Immediately"
    BY <2>1
  <2> QED
    BY <2>2 DEF last
<1>3. CASE N = 1
  <2>1. t = N - 1
    BY <1>1, <1>3
  <2> QED
    BY <1>2, <2>1, Zenon DEF MayWait
<1>4. CASE t > 0 /\ Position(r) >= LastIteration(r)
  <2>1. Position(r) < IterationBound(r)
    BY <1>4 DEF CallInBounds
  <2>2. f + t \in 0..(2 * u - 1) /\ f + N \in 0..(2 * u - 1)
    BY <1>1
  <2>3. Position(r) = IF f + t < u THEN f + t ELSE (f + t) - u
    <3> DEFINE a == f + t
    <3>1. a % u = IF a < u THEN a ELSE a - u
      <4> HIDE DEF a, u
      <4> QED
        BY <1>1, <2>2, Wrapped DEF a
    <3>2. Position(r) = a % u
      BY DEF Position
    <3> QED
      BY <3>1, <3>2, Zenon
  <2>4. IterationBound(r) = IF f + N < u THEN f + N ELSE (f + N) - u
    <3> DEFINE a == f + N
    <3>1. a % u = IF a < u THEN a ELSE a - u
      <4> HIDE DEF a, u
      <4> QED
        BY <1>1, <2>2, Wrapped DEF a
    <3>2. IterationBound(r) = a % u
      BY DEF IterationBound
    <3> QED
      BY <3>1, <3>2, Zenon
  <2>5. IterationBound(r) + u - 1 \in 0..(2 * u - 1)
        /\ IterationBound(r) + u - 1 >= u
    BY <1>1, <2>1, PositionType
  <2>6. LastIteration(r) = IterationBound(r) - 1
    <3>1. (IterationBound(r) + u - 1) % u = (IterationBound(r) + u - 1) - u
      <4> DEFINE a == IterationBound(r) + u - 1
      <4> HIDE DEF a, u
      <4> QED
        BY <1>1, <2>5, Wrapped DEF a
    <3> QED
      BY <1>1, <3>1, PositionType DEF LastIteration
  <2>7. t = N - 1
    <3> HIDE DEF u, f, t
    <3> QED
      BY <1>1, <1>4, <2>1, <2>3, <2>4, <2>6
  <2> QED
    BY <1>2, <2>7, Zenon DEF MayWait
<1> QED
  BY <1>2, <1>3, <1>4

-----------------------------------------------------------------------------
(* What steps do to the invariant.                                         *)

\* Nothing of some calls is needed any more.
LEMMA Forgotten ==
  ASSUME TypeOK, NEW rs, Forget(rs)
  PROVE  /\ mode' \in [Requests -> Modes \cup {None}]
         /\ elapsed' \in [Requests -> BOOLEAN]
         /\ first' \in [Requests -> 0..(Period - 1)]
         /\ tried' \in [Requests -> 0..(N - 1)]
         /\ \A r \in Requests : r \in rs => first'[r] = 0 /\ tried'[r] = 0
         /\ \A r \in Requests : r \notin rs =>
              /\ mode'[r] = mode[r] /\ elapsed'[r] = elapsed[r]
              /\ first'[r] = first[r] /\ tried'[r] = tried[r]
<1>1. 0 \in 0..(Period - 1) /\ 0 \in 0..(N - 1)
  BY SizeAssumption, PeriodAssumption
<1> QED
  BY <1>1 DEF TypeOK, Forget, With

\* Some calls fail.
LEMMA Failed ==
  ASSUME TypeOK, NEW rs, NEW e \in Errors, FailAll(rs, e)
  PROVE  /\ phase' \in [Requests -> Phases]
         /\ error' \in [Requests -> Errors \cup {None}]
         /\ Forget(rs)
         /\ \A r \in Requests : r \in rs => phase'[r] = "failed"
         /\ \A r \in Requests : r \notin rs => phase'[r] = phase[r]
BY DEF TypeOK, FailAll, With, Phases

\* Who has a sender is found by SenderAlive.
LEMMA SenderFound ==
  ASSUME TypeOK, NEW x \in Places(queue, reserved)
  PROVE  SenderAlive(Who(queue, reserved, x))
<1>1. queue \in Queues /\ reserved \in Reserves
  BY DEF TypeOK, Queues, Reserves
<1>2. /\ x[1] \in SubPools /\ x[2] \in {"queue", "reserved"}
      /\ x[2] = "queue" => x[3] \in 1..Len(queue[x[1]])
      /\ x[2] = "reserved" => x[3] \in 1..Len(reserved[x[1]])
  BY <1>1, WhoType DEF Places
<1>3. CASE x[2] = "queue"
  <2>1. x[3] \in DOMAIN queue[x[1]]
    BY <1>1, <1>2, <1>3 DEF Queues
  <2> QED
    BY <1>2, <1>3, <2>1 DEF SenderAlive, Who
<1>4. CASE x[2] = "reserved"
  <2>1. x[3] \in DOMAIN reserved[x[1]]
    BY <1>1, <1>2, <1>4 DEF Reserves
  <2> QED
    BY <1>2, <1>4, <2>1 DEF SenderAlive, Who
<1> QED
  BY <1>2, <1>3, <1>4

\* The senders stay, and some checkouts are no longer pending.
LEMMA StayPlaced ==
  ASSUME NEW qu \in Queues, NEW re \in Reserves,
         NEW ph, NEW home, NEW may, NEW ph2, NEW home2, NEW may2,
         Placed(qu, re, ph, home, may),
         \A x \in Places(qu, re) :
           ph2[Who(qu, re, x)] \in Lingering,
         \A r \in Requests :
           ph2[r] \in Receiving =>
             ph[r] \in Receiving /\ home2[r] = home[r] /\ may2[r] = may[r]
  PROVE  Placed(qu, re, ph2, home2, may2)
<1>1. PICK g : Moved(g, {}, qu, re, qu, re)
  BY NothingMoved
<1>2. \A z \in Places(qu, re) \ {} :
        /\ ph2[Who(qu, re, z)] \in Lingering
        /\ ph2[Who(qu, re, z)] \in Receiving =>
             /\ ph[Who(qu, re, z)] \in Receiving
             /\ home2[Who(qu, re, z)] = home[Who(qu, re, z)]
             /\ may2[Who(qu, re, z)] = may[Who(qu, re, z)]
  BY WhoType, Zenon
<1>3. \A r \in Requests : ph2[r] \in Receiving =>
        \E z \in Places(qu, re) \ {} : Who(qu, re, z) = r
  BY DEF Placed
<1> QED
  BY <1>1, <1>2, <1>3, MovedPlaced

\* Where a call is depends on the call only.
LEMMA SameCall ==
  ASSUME NEW r \in Requests, first'[r] = first[r], tried'[r] = tried[r]
  PROVE  /\ Target(r)' = Target(r) /\ Home'[r] = Home[r]
         /\ Position(r)' = Position(r)
         /\ IterationBound(r)' = IterationBound(r)
         /\ mode'[r] = mode[r] => MayWait'[r] = MayWait[r]
<1>1. Position(r)' = Position(r) /\ IterationBound(r)' = IterationBound(r)
  BY DEF Position, IterationBound
<1>2. Target(r)' = Target(r)
  BY <1>1 DEF Target
<1>3. Home'[r] = Home[r]
  BY <1>2 DEF Home
<1>4. mode'[r] = mode[r] => MayWait'[r] = MayWait[r]
  BY Zenon DEF MayWait
<1> QED
  BY <1>1, <1>2, <1>3, <1>4

\* A step that moves no sender.
LEMMA SendersStay ==
  ASSUME PInv, TypeOK', UNCHANGED <<queue, reserved>>,
         \A r \in Requests :
           phase'[r] \in Receiving =>
             /\ phase[r] \in Receiving /\ mode'[r] = mode[r]
             /\ first'[r] = first[r] /\ tried'[r] = tried[r],
         \A r \in Requests :
           phase'[r] \in {"calling", "retry", "holding", "late"} =>
             \/ phase[r] \in {"calling", "retry", "holding", "late"}
             \/ ~SenderAlive(r)
  PROVE  SendersPlaced' /\ QueuesBounded'
<1>1. queue \in Queues /\ reserved \in Reserves
  BY DEF PInv, TypeOK, Queues, Reserves
<1>2. SendersPlaced'
  <2>1. \A r \in Requests :
          phase'[r] \in Receiving =>
            /\ phase[r] \in Receiving
            /\ Home'[r] = Home[r] /\ MayWait'[r] = MayWait[r]
    BY SameCall
  <2>2. ASSUME NEW x \in Places(queue, reserved)
        PROVE  phase'[Who(queue, reserved, x)]
                 \in Lingering
    <3> DEFINE r == Who(queue, reserved, x)
    <3>1. SenderAlive(r) /\ r \in Requests
      BY <1>1, SenderFound, WhoType DEF PInv
    <3>2. phase[r] \in Lingering
      BY Zenon DEF PInv, SendersPlaced, Placed
    <3> HIDE DEF r
    <3>3. phase'[r] \notin {"calling", "retry", "holding", "late"}
      BY <3>1, <3>2
    <3>4. phase'[r] \in Phases
      BY <3>1 DEF TypeOK
    <3> QED
      BY <3>3, <3>4 DEF Phases, r
  <2>3. Placed(queue, reserved, phase', Home', MayWait')
    BY <1>1, <2>1, <2>2, StayPlaced DEF PInv, SendersPlaced
  <2> QED
    BY <2>3 DEF SendersPlaced
<1>3. QueuesBounded'
  BY DEF PInv, QueuesBounded
<1> QED
  BY <1>2, <1>3

\* A step that moves no sender and no connection.
LEMMA NothingMoves ==
  ASSUME PInv, TypeOK', UNCHANGED <<queue, reserved, idle, creating>>,
         \A r \in Requests :
           phase'[r] \in Receiving \cup Having =>
             /\ phase'[r] = phase[r] /\ mode'[r] = mode[r]
             /\ first'[r] = first[r] /\ tried'[r] = tried[r],
         \A r \in Requests :
           phase'[r] \in {"calling", "retry"} =>
             phase[r] \in {"calling", "retry"} \/ ~SenderAlive(r)
  PROVE  SendersPlaced' /\ QueuesBounded' /\ ConnectionsBounded'
<1>1. SendersPlaced' /\ QueuesBounded'
  BY SendersStay
<1>2. ConnectionsBounded'
  <2> SUFFICES ASSUME NEW p \in SubPools
               PROVE  /\ IsFiniteSet(Holders(p)')
                      /\ idle[p] + creating[p] + Cardinality(Holders(p)')
                           <= PoolSize
    BY DEF ConnectionsBounded
  <2>1. Holders(p)' \subseteq Holders(p)
    BY SameCall DEF Holders
  <2>2. /\ IsFiniteSet(Holders(p))
        /\ idle[p] + creating[p] + Cardinality(Holders(p)) <= PoolSize
        /\ idle[p] \in Nat /\ creating[p] \in Nat
    BY SizeAssumption DEF PInv, ConnectionsBounded, TypeOK
  <2>3. /\ IsFiniteSet(Holders(p)')
        /\ Cardinality(Holders(p)') <= Cardinality(Holders(p))
    BY <2>1, <2>2, FS_Subset
  <2>4. Cardinality(Holders(p)') \in Nat /\ Cardinality(Holders(p)) \in Nat
    BY <2>2, <2>3, FS_CardinalityType
  <2> QED
    BY <2>2, <2>3, <2>4, SizeAssumption
<1> QED
  BY <1>1, <1>2

\* Calls start again, or stay where they are.
LEMMA CallsStay ==
  ASSUME CallInBounds,
         \A r \in Requests :
           tried'[r] = 0 \/ (tried'[r] = tried[r] /\ first'[r] = first[r])
  PROVE  CallInBounds'
<1> SUFFICES ASSUME NEW r \in Requests, tried'[r] > 0
             PROVE  Position(r)' < IterationBound(r)'
  BY DEF CallInBounds
<1>1. tried'[r] = tried[r] /\ first'[r] = first[r]
  OBVIOUS
<1>2. Position(r) < IterationBound(r)
  BY <1>1 DEF CallInBounds
<1> QED
  BY <1>1, <1>2, SameCall

\* The beginning.
LEMMA InitPInv == Init => PInv
<1> SUFFICES ASSUME Init PROVE PInv
  OBVIOUS
<1> USE SizeAssumption, PeriodAssumption
<1>1. TypeOK
  BY DEF Init, TypeOK, Phases
<1>2. \A p \in SubPools : queue[p] = <<>> /\ reserved[p] = <<>>
  BY DEF Init
<1>3. Places(queue, reserved) = {}
  <2> SUFFICES ASSUME NEW x \in Places(queue, reserved) PROVE FALSE
    OBVIOUS
  <2>1. queue[x[1]] = <<>> /\ reserved[x[1]] = <<>>
    BY <1>2 DEF Places
  <2> QED
    BY <2>1 DEF Places
<1>4. \A r \in Requests : phase[r] = "free"
  BY DEF Init
<1>5. SendersPlaced
  BY <1>3, <1>4 DEF SendersPlaced, Placed
<1>6. QueuesBounded
  BY <1>2 DEF QueuesBounded
<1>7. CallInBounds
  BY DEF Init, CallInBounds
<1>8. ConnectionsBounded
  <2>1. \A p \in SubPools : Holders(p) = {}
    BY <1>4 DEF Holders
  <2>2. \A p \in SubPools : idle[p] + creating[p] + 0 <= PoolSize
    BY DEF Init
  <2> QED
    BY <2>1, <2>2, FS_EmptySet DEF ConnectionsBounded
<1> QED
  BY <1>1, <1>5, <1>6, <1>7, <1>8 DEF PInv

-----------------------------------------------------------------------------
(* Connections are handed over.                                            *)

\* The first reservation that is still waited for.
LEMMA FirstPending ==
  ASSUME NEW s \in Seq(Requests), NEW ph, NEW k,
         k = SelectInSeq(s, LAMBDA q : ph[q] \in Receiving)
  PROVE  \/ k = 0 /\ \A i \in 1..Len(s) : ph[s[i]] \notin Receiving
         \/ /\ k \in 1..Len(s)
            /\ ph[s[k]] \in Receiving
            /\ \A i \in 1..Len(s) : i < k => ph[s[i]] \notin Receiving
<1> DEFINE I == {i \in 1..Len(s) : ph[s[i]] \in Receiving}
<1>1. k = IF I # {} THEN Min(I) ELSE 0
  BY DEF SelectInSeq
<1>2. CASE I = {}
  BY <1>1, <1>2
<1>3. CASE I # {}
  <2>1. I \subseteq Nat
    OBVIOUS
  <2>2. \E n \in I : \A m \in I : n <= m
    <3> HIDE DEF I
    <3> QED
      BY <1>3, <2>1, LeastNatural
  <2>3. k \in I /\ \A m \in I : k <= m
    <3> HIDE DEF I
    <3> QED
      BY <1>1, <1>3, <2>2, Zenon DEF Min
  <2>4. k \in 1..Len(s) /\ ph[s[k]] \in Receiving
    BY <2>3
  <2>5. ASSUME NEW i \in 1..Len(s), i < k
        PROVE  ph[s[i]] \notin Receiving
    <3>1. ~(k <= i)
      BY <2>1, <2>4, <2>5
    <3>2. i \notin I
      BY <2>3, <3>1, Zenon
    <3> QED
      BY <3>2
  <2> QED
    BY <2>4, <2>5
<1> QED
  BY <1>2, <1>3

\* A connection becomes idle, or goes to a client that waits at this sub pool.
LEMMA HandedOver ==
  ASSUME TypeOK, QueuesBounded, NEW p \in SubPools,
         NEW ph \in [Requests -> Phases], HandOver(p, ph),
         Placed(queue, reserved, ph, Home, MayWait)
  PROVE  /\ reserved' \in Reserves
         /\ \A q \in SubPools : Len(reserved'[q]) <= ReservationLimit
         /\ phase' \in [Requests -> Phases]
         /\ Placed(queue, reserved', phase', Home, MayWait)
         /\ \/ idle' = [idle EXCEPT ![p] = @ + 1] /\ phase' = ph
            \/ /\ idle' = idle
               /\ \E r \in Requests :
                    /\ ph[r] \in Receiving /\ Home[r] = p
                    /\ phase' = Sent(r, ph)
<1> DEFINE s == reserved[p]
           k == SelectInSeq(s, LAMBDA q : ph[q] \in Receiving)
<1>1. /\ queue \in Queues /\ reserved \in Reserves
      /\ s \in Seq(Requests) /\ Len(s) \in Nat
      /\ ReservationLimit \in Nat
  BY SizeAssumption DEF TypeOK, Queues, Reserves
<1>2. \/ k = 0 /\ \A i \in 1..Len(s) : ph[s[i]] \notin Receiving
      \/ /\ k \in 1..Len(s)
         /\ ph[s[k]] \in Receiving
         /\ \A i \in 1..Len(s) : i < k => ph[s[i]] \notin Receiving
  BY <1>1, FirstPending
<1>3. IF k = 0
        THEN /\ reserved' = [reserved EXCEPT ![p] = <<>>]
             /\ idle' = [idle EXCEPT ![p] = @ + 1]
             /\ phase' = ph
        ELSE /\ reserved' = [reserved EXCEPT ![p] = SubSeq(@, k + 1, Len(@))]
             /\ phase' = Sent(s[k], ph)
             /\ UNCHANGED idle
  BY Zenon DEF HandOver
<1> HIDE DEF k
<1>4. \A q \in SubPools : Len(reserved[q]) <= ReservationLimit
  BY DEF QueuesBounded
<1>5. \A x \in Places(queue, reserved) :
        /\ x[2] = "reserved" /\ x[1] = p =>
             x[3] \in 1..Len(s) /\ Who(queue, reserved, x) = s[x[3]]
        /\ Who(queue, reserved, x) \in Requests
  BY <1>1, WhoType DEF Places, Who
<1>6. CASE k = 0
  <2> DEFINE f == [i \in 1..Len(<<>>) |-> 1]
             dropped == {z \in Places(queue, reserved) :
                           /\ z[1] = p /\ z[2] = "reserved"
                           /\ \A i \in 1..Len(<<>>) : f[i] # z[3]}
  <2>1. reserved' = [reserved EXCEPT ![p] = <<>>] /\ phase' = ph
        /\ idle' = [idle EXCEPT ![p] = @ + 1]
        /\ \A i \in 1..Len(s) : ph[s[i]] \notin Receiving
    BY <1>2, <1>3, <1>6
  <2>2. f \in [1..Len(<<>>) -> 1..Len(s)] /\ <<>> \in Seq(Requests)
    OBVIOUS
  <2>3. /\ reserved' \in Reserves
        /\ \E g : Moved(g, dropped, queue, reserved', queue, reserved)
    <3>1. \A i, j \in 1..Len(<<>>) : f[i] = f[j] => i = j
      OBVIOUS
    <3>2. \A i \in 1..Len(<<>>) : <<>>[i] = s[f[i]]
      OBVIOUS
    <3> HIDE DEF f
    <3> QED
      BY <1>1, <2>1, <2>2, <3>1, <3>2, ReservedMoved
  <2> HIDE DEF f
  <2>4. \A z \in dropped : ph[Who(queue, reserved, z)] \notin Receiving
    BY <1>5, <2>1
  <2> HIDE DEF dropped
  <2>5. \A z \in Places(queue, reserved) \ dropped :
          phase'[Who(queue, reserved, z)] \in Lingering
    BY <2>1, Zenon DEF Placed
  <2>6. ASSUME NEW r \in Requests, phase'[r] \in Receiving
        PROVE  \E z \in Places(queue, reserved) \ dropped :
                 Who(queue, reserved, z) = r
    <3>1. PICK z \in Places(queue, reserved) : Who(queue, reserved, z) = r
      BY <2>1, <2>6 DEF Placed
    <3> QED
      BY <2>1, <2>4, <2>6, <3>1
  <2>7. Placed(queue, reserved', phase', Home, MayWait)
    BY <1>1, <2>1, <2>3, <2>5, <2>6, MovedPlaced
  <2>8. \A q \in SubPools : Len(reserved'[q]) <= ReservationLimit
    BY <1>1, <1>4, <2>1 DEF Reserves
  <2> QED
    BY <2>1, <2>3, <2>7, <2>8
<1>7. CASE k # 0
  <2> DEFINE w == SubSeq(s, k + 1, Len(s))
             f == [i \in 1..Len(w) |-> i + k]
             dropped == {z \in Places(queue, reserved) :
                           /\ z[1] = p /\ z[2] = "reserved"
                           /\ \A i \in 1..Len(w) : f[i] # z[3]}
             r0 == s[k]
             x0 == <<p, "reserved", k>>
  <2>1. /\ reserved' = [reserved EXCEPT ![p] = w]
        /\ phase' = Sent(r0, ph) /\ idle' = idle
        /\ k \in 1..Len(s) /\ ph[r0] \in Receiving
        /\ \A i \in 1..Len(s) : i < k => ph[s[i]] \notin Receiving
    BY <1>2, <1>3, <1>7
  <2>1a. /\ r0 \in Requests /\ phase' \in [Requests -> Phases]
         /\ phase'[r0] \notin Receiving
         /\ \A q \in Requests : q # r0 => phase'[q] = ph[q]
    <3>1. r0 \in Requests
      BY <1>1, <2>1
    <3> HIDE DEF r0
    <3> QED
      BY <2>1, <3>1, SentOnly
  <2>2. /\ w \in Seq(Requests) /\ Len(w) = Len(s) - k
        /\ \A i \in 1..Len(w) : w[i] = s[i + k]
    <3> DEFINE m == k + 1
               n == Len(s)
    <3>1. m \in Int /\ n \in Int /\ m <= n + 1 /\ 1 <= m
      BY <1>1, <2>1
    <3>2. \A i \in m..n : s[i] \in Requests
      BY <1>1, <3>1
    <3>3. /\ SubSeq(s, m, n) \in Seq(Requests)
          /\ Len(SubSeq(s, m, n)) = IF m <= n THEN n - m + 1 ELSE 0
          /\ \A i \in 1..n - m + 1 : SubSeq(s, m, n)[i] = s[m + i - 1]
      <4> HIDE DEF m, n, s
      <4> QED
        BY <3>1, <3>2, SubSeqProperties
    <3> HIDE DEF s
    <3> QED
      BY <1>1, <2>1, <3>1, <3>3
  <2>3. f \in [1..Len(w) -> 1..Len(s)] /\ \A i \in 1..Len(w) : f[i] = i + k
    BY <1>1, <2>1, <2>2
  <2> HIDE DEF w, f
  <2>4. /\ reserved' \in Reserves
        /\ \E g : Moved(g, dropped, queue, reserved', queue, reserved)
    <3>1. \A i, j \in 1..Len(w) : f[i] = f[j] => i = j
      BY <2>1, <2>3
    <3>2. \A i \in 1..Len(w) : w[i] = s[f[i]]
      BY <2>2, <2>3
    <3> QED
      BY <1>1, <2>1, <2>2, <2>3, <3>1, <3>2, ReservedMoved
  <2>5. /\ x0 \in Places(queue, reserved) /\ x0 \in dropped
        /\ Who(queue, reserved, x0) = r0 /\ r0 \in Requests
    <3>1. x0 \in Places(queue, reserved)
      BY <1>1, <2>1, PlaceIs
    <3>2. \A i \in 1..Len(w) : f[i] # k
      BY <2>1, <2>3
    <3>3. Who(queue, reserved, x0) = r0
      BY DEF Who
    <3> QED
      BY <1>1, <2>1, <3>1, <3>2, <3>3
  <2>6. \A z \in dropped : Who(queue, reserved, z) = r0
                             \/ ph[Who(queue, reserved, z)] \notin Receiving
    <3> SUFFICES ASSUME NEW z \in dropped
                 PROVE  Who(queue, reserved, z) = r0
                          \/ ph[Who(queue, reserved, z)] \notin Receiving
      OBVIOUS
    <3>1. z[3] \in 1..Len(s) /\ Who(queue, reserved, z) = s[z[3]]
          /\ \A i \in 1..Len(w) : f[i] # z[3]
      BY <1>5
    <3>2. z[3] <= k
      <4> SUFFICES ASSUME z[3] > k PROVE FALSE
        BY <2>1, <3>1
      <4>1. z[3] - k \in 1..Len(w) /\ (z[3] - k) + k = z[3]
        <5>1. z[3] \in Int /\ k \in Int /\ Len(s) \in Int
          BY <1>1, <2>1, <3>1
        <5>2. z[3] <= Len(s) /\ Len(w) = Len(s) - k
          BY <1>1, <2>2, <3>1
        <5> HIDE DEF s
        <5> QED
          BY <5>1, <5>2
      <4> QED
        BY <2>3, <3>1, <4>1
    <3> QED
      BY <2>1, <3>1, <3>2
  <2> HIDE DEF dropped, r0
  <2>7. ASSUME NEW z \in Places(queue, reserved) \ dropped
        PROVE  /\ phase'[Who(queue, reserved, z)]
                    = ph[Who(queue, reserved, z)]
               /\ phase'[Who(queue, reserved, z)]
                    \in Lingering
    <3>1. Who(queue, reserved, z) # r0
      BY <2>5, Zenon DEF Placed
    <3>2. phase'[Who(queue, reserved, z)] = ph[Who(queue, reserved, z)]
      BY <1>5, <2>1a, <3>1
    <3>3. ph[Who(queue, reserved, z)] \in Lingering
      BY Zenon DEF Placed
    <3> QED
      BY <3>2, <3>3, Zenon
  <2>8. ASSUME NEW r \in Requests, phase'[r] \in Receiving
        PROVE  \E z \in Places(queue, reserved) \ dropped :
                 Who(queue, reserved, z) = r
    <3>1. r # r0 /\ ph[r] \in Receiving
      BY <2>1a, <2>8
    <3>2. PICK z \in Places(queue, reserved) : Who(queue, reserved, z) = r
      BY <3>1 DEF Placed
    <3>3. z \notin dropped
      BY <2>6, <3>1, <3>2
    <3> QED
      BY <3>2, <3>3
  <2>9. Placed(queue, reserved', phase', Home, MayWait)
    BY <1>1, <2>4, <2>7, <2>8, MovedPlaced
  <2>10. \A q \in SubPools : Len(reserved'[q]) <= ReservationLimit
    BY <1>1, <1>4, <2>1, <2>2 DEF Reserves
  <2>11. Home[r0] = p
    <3>1. ph[Who(queue, reserved, x0)] \in Receiving
      BY <2>1, <2>5
    <3>2. x0[1] = Home[Who(queue, reserved, x0)]
      BY <2>5, <3>1, Zenon DEF Placed
    <3> QED
      BY <2>5, <3>2
  <2>12. phase' \in [Requests -> Phases]
    BY <2>1a
  <2> QED
    BY <2>1, <2>4, <2>5, <2>9, <2>10, <2>11, <2>12
<1> QED
  BY <1>6, <1>7

\* How many clients hold a connection after one came or went.
LEMMA HowMany ==
  ASSUME NEW H, IsFiniteSet(H), NEW G
  PROVE  /\ Cardinality(H) \in Nat
         /\ G \subseteq H =>
              IsFiniteSet(G) /\ Cardinality(G) \in 0..Cardinality(H)
         /\ \A q : G \subseteq H \cup {q} =>
              IsFiniteSet(G) /\ Cardinality(G) \in 0..(Cardinality(H) + 1)
         /\ \A r \in H : G \subseteq H \ {r} =>
              IsFiniteSet(G) /\ Cardinality(G) \in 0..(Cardinality(H) - 1)
         /\ \A r \in H : \A q : G \subseteq (H \ {r}) \cup {q} =>
              IsFiniteSet(G) /\ Cardinality(G) \in 0..Cardinality(H)
<1>1. Cardinality(H) \in Nat
  BY FS_CardinalityType
<1>2. ASSUME NEW M, IsFiniteSet(M), G \subseteq M
      PROVE  IsFiniteSet(G) /\ Cardinality(G) \in 0..Cardinality(M)
  <2>1. IsFiniteSet(G) /\ Cardinality(G) <= Cardinality(M)
    BY <1>2, FS_Subset
  <2>2. Cardinality(G) \in Nat /\ Cardinality(M) \in Nat
    BY <1>2, <2>1, FS_CardinalityType
  <2> QED
    BY <2>1, <2>2
<1>3. ASSUME NEW q
      PROVE  /\ IsFiniteSet(H \cup {q})
             /\ Cardinality(H \cup {q}) \in 0..(Cardinality(H) + 1)
  <2>1. /\ IsFiniteSet(H \cup {q})
        /\ Cardinality(H \cup {q})
             = IF q \in H THEN Cardinality(H) ELSE Cardinality(H) + 1
    BY FS_AddElement
  <2> QED
    BY <1>1, <2>1
<1>4. ASSUME NEW r \in H
      PROVE  /\ IsFiniteSet(H \ {r})
             /\ Cardinality(H \ {r}) = Cardinality(H) - 1
             /\ Cardinality(H \ {r}) \in Nat
  <2>1. /\ IsFiniteSet(H \ {r})
        /\ Cardinality(H \ {r}) = Cardinality(H) - 1
    BY FS_RemoveElement
  <2> QED
    BY <2>1, FS_CardinalityType
<1>5. ASSUME NEW r \in H, NEW q
      PROVE  /\ IsFiniteSet((H \ {r}) \cup {q})
             /\ Cardinality((H \ {r}) \cup {q}) \in 0..Cardinality(H)
  <2> DEFINE M == H \ {r}
  <2>1. IsFiniteSet(M) /\ Cardinality(M) = Cardinality(H) - 1
        /\ Cardinality(M) \in Nat
    BY <1>4
  <2> HIDE DEF M
  <2>2. /\ IsFiniteSet(M \cup {q})
        /\ Cardinality(M \cup {q}) = IF q \in M THEN Cardinality(M)
                                     ELSE Cardinality(M) + 1
    BY <2>1, FS_AddElement
  <2>3. Cardinality(M \cup {q}) \in 0..Cardinality(H)
    BY <1>1, <2>1, <2>2
  <2> QED
    BY <2>2, <2>3 DEF M
<1>6. ASSUME NEW q, G \subseteq H \cup {q}
      PROVE  IsFiniteSet(G) /\ Cardinality(G) \in 0..(Cardinality(H) + 1)
  <2> DEFINE M == H \cup {q}
  <2>1. IsFiniteSet(M) /\ Cardinality(M) \in 0..(Cardinality(H) + 1)
        /\ G \subseteq M
    BY <1>3, <1>6
  <2> HIDE DEF M
  <2>2. IsFiniteSet(G) /\ Cardinality(G) \in 0..Cardinality(M)
    BY <1>2, <2>1
  <2> QED
    BY <1>1, <2>1, <2>2
<1>7. ASSUME NEW r \in H, G \subseteq H \ {r}
      PROVE  IsFiniteSet(G) /\ Cardinality(G) \in 0..(Cardinality(H) - 1)
  BY <1>2, <1>4, <1>7
<1>8. ASSUME NEW r \in H, NEW q, G \subseteq (H \ {r}) \cup {q}
      PROVE  IsFiniteSet(G) /\ Cardinality(G) \in 0..Cardinality(H)
  <2> DEFINE M == (H \ {r}) \cup {q}
  <2>1. IsFiniteSet(M) /\ Cardinality(M) \in 0..Cardinality(H)
        /\ G \subseteq M
    BY <1>5, <1>8
  <2> HIDE DEF M
  <2>2. IsFiniteSet(G) /\ Cardinality(G) \in 0..Cardinality(M)
    BY <1>2, <2>1
  <2> QED
    BY <1>1, <2>1, <2>2
<1> QED
  BY <1>1, <1>2, <1>6, <1>7, <1>8, Zenon

\* The number of connections is bounded if it is in every sub pool.
LEMMA Counted ==
  ASSUME TypeOK,
         idle' = [p \in SubPools |-> idle'[p]],
         creating' = [p \in SubPools |-> creating'[p]],
         \A p \in SubPools :
           /\ idle'[p] \in Nat /\ creating'[p] \in Nat
           /\ IsFiniteSet(Holders(p)')
           /\ idle'[p] + creating'[p] + Cardinality(Holders(p)') <= PoolSize
  PROVE  /\ idle' \in [SubPools -> 0..PoolSize]
         /\ creating' \in [SubPools -> 0..PoolSize]
         /\ ConnectionsBounded'
<1>1. \A p \in SubPools : Cardinality(Holders(p)') \in Nat
  BY FS_CardinalityType
<1>2. \A p \in SubPools : idle'[p] \in 0..PoolSize
                          /\ creating'[p] \in 0..PoolSize
  BY <1>1, SizeAssumption
<1>3. idle' \in [SubPools -> 0..PoolSize]
      /\ creating' \in [SubPools -> 0..PoolSize]
  BY <1>2
<1>4. ConnectionsBounded'
  BY DEF ConnectionsBounded
<1> QED
  BY <1>3, <1>4

\* The numbers of a sub pool.
LEMMA Numbers ==
  ASSUME TypeOK, ConnectionsBounded, NEW p \in SubPools
  PROVE  /\ idle[p] \in Nat /\ creating[p] \in Nat
         /\ IsFiniteSet(Holders(p)) /\ Cardinality(Holders(p)) \in Nat
         /\ idle[p] + creating[p] + Cardinality(Holders(p)) <= PoolSize
BY SizeAssumption, FS_CardinalityType DEF TypeOK, ConnectionsBounded

-----------------------------------------------------------------------------
(* The steps of clients.                                                   *)

\* A call begins: nobody has a sender of that checkout any more.
LEMMA CheckOutPInv ==
  ASSUME PInv, NEW r \in Requests, NEW m \in Modes, CheckOut(r, m)
  PROVE  PInv'
<1> USE SizeAssumption, PeriodAssumption
<1>0. TypeOK /\ CallInBounds
  BY DEF PInv
<1>1. phase[r] = "free" /\ ~SenderAlive(r)
      /\ UNCHANGED <<retry, handle, alive, queue, reserved, idle, creating>>
  BY DEF CheckOut, subVars
<1>2. CASE Fail(r, "CheckoutTimeout") /\ UNCHANGED count
  <2>1. "CheckoutTimeout" \in Errors /\ FailAll({r}, "CheckoutTimeout")
    BY <1>2 DEF Errors, Fail
  <2>2. /\ phase' \in [Requests -> Phases] /\ Forget({r})
        /\ error' \in [Requests -> Errors \cup {None}]
        /\ phase'[r] = "failed"
        /\ \A q \in Requests : q # r => phase'[q] = phase[q]
    BY <1>0, <2>1, Failed
  <2>3. /\ mode' \in [Requests -> Modes \cup {None}]
        /\ elapsed' \in [Requests -> BOOLEAN]
        /\ first' \in [Requests -> 0..(Period - 1)]
        /\ tried' \in [Requests -> 0..(N - 1)]
        /\ first'[r] = 0 /\ tried'[r] = 0
        /\ \A q \in Requests : q # r =>
             /\ mode'[q] = mode[q] /\ elapsed'[q] = elapsed[q]
             /\ first'[q] = first[q] /\ tried'[q] = tried[q]
    BY <1>0, <2>2, Forgotten
  <2>4. TypeOK'
    BY <1>0, <1>1, <1>2, <2>2, <2>3 DEF TypeOK
  <2>5. CallInBounds'
    BY <1>0, <2>3, CallsStay
  <2> QED
    BY <1>1, <2>2, <2>3, <2>4, <2>5, NothingMoves DEF PInv
<1>3. CASE /\ TakePosition(r)
           /\ mode' = [mode EXCEPT ![r] = m]
           /\ UNCHANGED <<elapsed, error>>
  <2>1. /\ phase' = [phase EXCEPT ![r] = "calling"]
        /\ first' = [first EXCEPT ![r] = count]
        /\ tried' = [tried EXCEPT ![r] = 0]
        /\ count' = (count + 1) % Period
    BY <1>3 DEF TakePosition
  <2>2. count' \in 0..(Period - 1)
    BY <1>0, <2>1 DEF TypeOK
  <2>3. TypeOK'
    BY <1>0, <1>1, <1>3, <2>1, <2>2 DEF TypeOK, Phases
  <2>4. CallInBounds'
    BY <1>0, <2>1, CallsStay DEF TypeOK
  <2>5. /\ phase'[r] = "calling"
        /\ \A q \in Requests : q # r =>
             /\ phase'[q] = phase[q] /\ mode'[q] = mode[q]
             /\ first'[q] = first[q] /\ tried'[q] = tried[q]
    BY <1>0, <1>3, <2>1 DEF TypeOK
  <2> QED
    BY <1>1, <2>3, <2>4, <2>5, NothingMoves DEF PInv
<1> QED
  BY <1>2, <1>3 DEF CheckOut

\* A request is accepted.
LEMMA AcceptPInv ==
  ASSUME PInv, NEW r \in Requests, phase[r] = "calling",
         Len(queue[Target(r)]) # QueueSize, Accept(r),
         UNCHANGED <<retry, handle, count, alive, reserved, idle, creating,
                     mode, elapsed, first, error>>
  PROVE  PInv'
<1> DEFINE p == Target(r)
           m == [request |-> r,
                 reservation_allowed |-> Constraint(r) # "Immediately"]
<1>0. TypeOK /\ CallInBounds /\ p \in SubPools /\ QueuesBounded
  BY PositionType DEF PInv
<1>1. queue \in Queues /\ reserved \in Reserves
  BY <1>0 DEF TypeOK, Queues, Reserves
<1>2. /\ queue' = [queue EXCEPT ![p] = Append(@, m)]
      /\ phase' = [phase EXCEPT ![r] = "pending"]
      /\ tried' = tried
  BY DEF Accept, Enqueue
<1>3. m \in Payloads /\ m.request = r
      /\ (m.reservation_allowed => Constraint(r) # "Immediately")
  BY DEF Payloads
<1>4. m.reservation_allowed => MayWait[r]
  BY <1>0, <1>3, LastIsAsked, Zenon
<1> HIDE DEF p, m
<1>5. Home = Home' /\ MayWait = MayWait'
  BY <1>2 DEF Home, MayWait, Target, Position
<1>6. Home[r] = p
  BY DEF Home, p
<1>7. \A x \in Places(queue, reserved) : Who(queue, reserved, x) # m.request
  BY <1>3, Zenon DEF PInv, SendersPlaced, Placed
<1>8. \A q \in Requests :
        phase'[q] = IF q = m.request THEN "pending" ELSE phase[q]
  BY <1>0, <1>2, <1>3 DEF TypeOK
<1>9. queue' \in Queues
      /\ Placed(queue', reserved, phase', Home, MayWait)
  <2>1. Placed(queue, reserved, phase, Home, MayWait)
    BY DEF PInv, SendersPlaced
  <2>2. Home[m.request] = p /\ (m.reservation_allowed => MayWait[m.request])
    BY <1>3, <1>4, <1>6, Zenon
  <2>3. /\ [queue EXCEPT ![p] = Append(@, m)] \in Queues
        /\ Placed([queue EXCEPT ![p] = Append(@, m)], reserved, phase', Home,
                  MayWait)
    BY <1>0, <1>1, <1>3, <1>7, <1>8, <2>1, <2>2, AppendPlaced, SMTT(60)
  <2> QED
    BY <1>2, <2>3, Zenon
<1>10. SendersPlaced'
  BY <1>5, <1>9 DEF SendersPlaced
<1>11. QueuesBounded'
  <2>1. \A q \in SubPools : Len(queue[q]) \in Nat
    BY <1>1 DEF Queues
  <2>2. Len(queue[p]) < QueueSize
    BY <1>0, <2>1, SizeAssumption DEF QueuesBounded, p
  <2>3. Len(queue'[p]) = Len(queue[p]) + 1
        /\ \A q \in SubPools : q # p => queue'[q] = queue[q]
    BY <1>0, <1>1, <1>2, <1>3 DEF Queues
  <2> QED
    BY <1>0, <2>1, <2>2, <2>3, SizeAssumption DEF QueuesBounded
<1>12. TypeOK'
  BY <1>0, <1>2, <1>9 DEF TypeOK, Queues, Phases
<1>13. CallInBounds'
  BY <1>0, <1>2, CallsStay
<1>14. ConnectionsBounded'
  <2>1. \A q \in SubPools : Holders(q)' = Holders(q)
    BY <1>0, <1>2 DEF Holders, Target, Position, TypeOK
  <2> QED
    BY <2>1 DEF PInv, ConnectionsBounded
<1> QED
  BY <1>10, <1>11, <1>12, <1>13, <1>14 DEF PInv

\* Calls fail that have no connection, whatever else is left alone.
LEMMA FailPInv ==
  ASSUME PInv, NEW r \in Requests, NEW e \in Errors, Fail(r, e),
         UNCHANGED <<retry, handle, count, alive, queue, reserved, idle,
                     creating>>
  PROVE  PInv'
<1> USE SizeAssumption, PeriodAssumption
<1>0. TypeOK /\ CallInBounds
  BY DEF PInv
<1>1. /\ phase' \in [Requests -> Phases] /\ Forget({r})
      /\ error' \in [Requests -> Errors \cup {None}]
      /\ phase'[r] = "failed"
      /\ \A q \in Requests : q # r => phase'[q] = phase[q]
  BY <1>0, Failed DEF Fail
<1>2. /\ mode' \in [Requests -> Modes \cup {None}]
      /\ elapsed' \in [Requests -> BOOLEAN]
      /\ first' \in [Requests -> 0..(Period - 1)]
      /\ tried' \in [Requests -> 0..(N - 1)]
      /\ first'[r] = 0 /\ tried'[r] = 0
      /\ \A q \in Requests : q # r =>
           /\ mode'[q] = mode[q] /\ elapsed'[q] = elapsed[q]
           /\ first'[q] = first[q] /\ tried'[q] = tried[q]
  BY <1>0, <1>1, Forgotten
<1>3. TypeOK'
  BY <1>0, <1>1, <1>2 DEF TypeOK
<1>4. CallInBounds'
  BY <1>0, <1>2, CallsStay
<1> QED
  BY <1>1, <1>2, <1>3, <1>4, NothingMoves DEF PInv

\* A sub pool is asked: it takes the request, or the call goes on or ends.
LEMMA AttemptPInv ==
  ASSUME PInv, NEW r \in Requests, Attempt(r)
  PROVE  PInv'
<1> USE SizeAssumption, PeriodAssumption
<1>0. TypeOK /\ CallInBounds
  BY DEF PInv
<1>1. phase[r] = "calling"
      /\ UNCHANGED <<retry, handle, count, alive, reserved, idle, creating>>
  BY DEF Attempt
<1>2. CASE Fail(r, "CheckoutTimeout") /\ UNCHANGED queue
  BY <1>1, <1>2, FailPInv DEF Errors
<1>3. CASE /\ Len(queue[Target(r)]) # QueueSize /\ Accept(r)
           /\ UNCHANGED <<mode, elapsed, first, error>>
  BY <1>1, <1>3, AcceptPInv
<1>4. CASE /\ More(r)
           /\ tried' = [tried EXCEPT ![r] = @ + 1]
           /\ UNCHANGED <<queue, phase, mode, elapsed, first, error>>
  <2>1. tried[r] + 1 \in 0..(N - 1)
    BY <1>0, <1>4, MoreToAsk
  <2>2. TypeOK'
    BY <1>0, <1>1, <1>4, <2>1 DEF TypeOK
  <2>3. CallInBounds'
    <3> SUFFICES ASSUME NEW q \in Requests, tried'[q] > 0
                 PROVE  Position(q)' < IterationBound(q)'
      BY DEF CallInBounds
    <3>1. CASE q # r
      <4>1. tried'[q] = tried[q] /\ first'[q] = first[q]
        BY <1>0, <1>4, <3>1 DEF TypeOK
      <4>2. Position(q) < IterationBound(q)
        BY <1>0, <4>1 DEF CallInBounds
      <4> QED
        BY <4>1, <4>2, SameCall
    <3>2. CASE q = r
      <4>1. tried'[r] = tried[r] + 1 /\ first'[r] = first[r]
        BY <1>0, <1>4 DEF TypeOK
      <4>2. first[r] + (tried[r] + 1) = first[r] + tried[r] + 1
        BY <1>0, PositionType
      <4>3. Position(r)' = (first[r] + tried[r] + 1) % Usize
        BY <4>1, <4>2 DEF Position
      <4>4. IterationBound(r)' = IterationBound(r)
        BY <4>1 DEF IterationBound
      <4> QED
        BY <1>4, <3>2, <4>3, <4>4 DEF More
    <3> QED
      BY <3>1, <3>2
  <2>4. \A q \in Requests :
          phase'[q] = phase[q] /\ mode'[q] = mode[q]
          /\ first'[q] = first[q] /\ (q # r => tried'[q] = tried[q])
    BY <1>0, <1>4 DEF TypeOK
  <2> QED
    BY <1>1, <1>4, <2>2, <2>3, <2>4, NothingMoves DEF PInv
<1>5. CASE /\ Refused(r, IF Target(r) \in alive THEN "CheckoutLimitReached"
                         ELSE "NoPool")
           /\ UNCHANGED queue
  <2> DEFINE e == IF Target(r) \in alive THEN "CheckoutLimitReached"
                  ELSE "NoPool"
  <2>1. e \in Errors
    BY DEF Errors
  <2> HIDE DEF e
  <2>2. CASE Fail(r, e)
    BY <1>1, <1>5, <2>1, <2>2, FailPInv
  <2>3. CASE /\ phase' = [phase EXCEPT ![r] = "retry"]
             /\ first' = [first EXCEPT ![r] = 0]
             /\ tried' = [tried EXCEPT ![r] = 0]
             /\ UNCHANGED <<mode, elapsed, error>>
    <3>1. TypeOK'
      BY <1>0, <1>1, <1>5, <2>3 DEF TypeOK, Phases
    <3>2. CallInBounds'
      BY <1>0, <2>3, CallsStay DEF TypeOK
    <3>3. /\ phase'[r] = "retry"
          /\ \A q \in Requests : q # r =>
               /\ phase'[q] = phase[q] /\ mode'[q] = mode[q]
               /\ first'[q] = first[q] /\ tried'[q] = tried[q]
      BY <1>0, <2>3 DEF TypeOK
    <3> QED
      BY <1>1, <1>5, <3>1, <3>2, <3>3, NothingMoves DEF PInv
  <2> QED
    BY <1>5, <2>2, <2>3 DEF Refused, e
<1> QED
  BY <1>2, <1>3, <1>4, <1>5 DEF Attempt

\* A call is repeated, or its client gives up.
LEMMA RetryCallPInv ==
  ASSUME PInv, NEW r \in Requests, RetryCall(r)
  PROVE  PInv'
<1> USE SizeAssumption, PeriodAssumption
<1>0. TypeOK /\ CallInBounds
  BY DEF PInv
<1>1. phase[r] = "retry"
      /\ UNCHANGED <<retry, handle, alive, queue, reserved, idle, creating>>
  BY DEF RetryCall, subVars
<1>2. CASE TakePosition(r) /\ UNCHANGED <<mode, elapsed, error>>
  <2>1. /\ phase' = [phase EXCEPT ![r] = "calling"]
        /\ first' = [first EXCEPT ![r] = count]
        /\ tried' = [tried EXCEPT ![r] = 0]
        /\ count' = (count + 1) % Period
    BY <1>2 DEF TakePosition
  <2>2. count' \in 0..(Period - 1)
    BY <1>0, <2>1 DEF TypeOK
  <2>3. TypeOK'
    BY <1>0, <1>1, <1>2, <2>1, <2>2 DEF TypeOK, Phases
  <2>4. CallInBounds'
    BY <1>0, <2>1, CallsStay DEF TypeOK
  <2>5. /\ phase'[r] = "calling"
        /\ \A q \in Requests : q # r =>
             /\ phase'[q] = phase[q] /\ mode'[q] = mode[q]
             /\ first'[q] = first[q] /\ tried'[q] = tried[q]
    BY <1>0, <1>2, <2>1 DEF TypeOK
  <2> QED
    BY <1>1, <1>2, <2>3, <2>4, <2>5, NothingMoves DEF PInv
<1>3. CASE Fail(r, "CheckoutTimeout") /\ UNCHANGED count
  BY <1>1, <1>3, FailPInv DEF Errors
<1>4. CASE Fail(r, "CheckoutLimitReached") /\ UNCHANGED count
  BY <1>1, <1>4, FailPInv DEF Errors
<1> QED
  BY <1>2, <1>3, <1>4 DEF RetryCall

\* A deadline passes: nothing else changes.
LEMMA ElapsePInv ==
  ASSUME PInv, NEW r \in Requests, Elapse(r)
  PROVE  PInv'
<1>0. TypeOK /\ CallInBounds
  BY DEF PInv
<1>1. /\ elapsed' = [elapsed EXCEPT ![r] = TRUE]
      /\ UNCHANGED <<retry, handle, count, alive, queue, reserved, idle,
                     creating, phase, mode, first, tried, error>>
  BY DEF Elapse, subVars
<1>2. TypeOK'
  BY <1>0, <1>1 DEF TypeOK
<1>3. CallInBounds'
  BY <1>0, <1>1, CallsStay
<1> QED
  BY <1>1, <1>2, <1>3, NothingMoves DEF PInv

\* The future resolves, its sender stays where it is.
LEMMA TimeOutPInv ==
  ASSUME PInv, NEW r \in Requests, TimeOut(r)
  PROVE  PInv'
<1>0. TypeOK /\ CallInBounds /\ ConnectionsBounded
  BY DEF PInv
<1>1. /\ phase[r] = "pending"
      /\ UNCHANGED <<retry, handle, count, alive, queue, reserved, idle,
                     creating>>
  BY DEF TimeOut, subVars
<1>2. CASE Fail(r, "CheckoutTimeout")
  BY <1>1, <1>2, FailPInv DEF Errors
<1>3. CASE /\ phase' = [phase EXCEPT ![r] = "expired"]
           /\ error' = [error EXCEPT ![r] = "CheckoutTimeout"]
           /\ UNCHANGED callVars
  <2>1. /\ UNCHANGED <<mode, elapsed, first, tried>>
        /\ phase'[r] = "expired"
        /\ \A q \in Requests : q # r => phase'[q] = phase[q]
    BY <1>0, <1>3 DEF TypeOK, callVars
  <2>2. TypeOK'
    BY <1>0, <1>1, <1>3, <2>1 DEF TypeOK, Phases, Errors
  <2>3. CallInBounds'
    BY <1>0, <2>1, CallsStay
  <2>4. SendersPlaced' /\ QueuesBounded'
    BY <1>1, <2>1, <2>2, SendersStay
  <2>5. \A p \in SubPools : Holders(p)' = Holders(p)
    BY <1>1, <2>1 DEF Holders, Target, Position
  <2>6. ConnectionsBounded'
    BY <1>0, <1>1, <2>5 DEF ConnectionsBounded
  <2> QED
    BY <2>2, <2>3, <2>4, <2>6 DEF PInv
<1> QED
  BY <1>2, <1>3 DEF TimeOut

\* The client drops its pool.
LEMMA DropHandlePInv ==
  ASSUME PInv, DropHandle
  PROVE  PInv'
<1>0. TypeOK /\ CallInBounds
  BY DEF PInv
<1>1. /\ handle' = FALSE
      /\ UNCHANGED <<retry, count, alive, queue, reserved, idle, creating,
                     phase, elapsed, mode, first, tried, error>>
  BY DEF DropHandle, subVars, callVars
<1>2. TypeOK'
  BY <1>0, <1>1 DEF TypeOK
<1>3. CallInBounds'
  BY <1>0, <1>1, CallsStay
<1> QED
  BY <1>1, <1>2, <1>3, NothingMoves DEF PInv

\* A future is dropped, its sender stays where it is.
LEMMA DropFuturePInv ==
  ASSUME PInv, NEW r \in Requests, DropFuture(r)
  PROVE  PInv'
<1>0. TypeOK /\ CallInBounds
  BY DEF PInv
<1>1. /\ phase' = [phase EXCEPT ![r] = "free"]
      /\ error' = [error EXCEPT ![r] = None] /\ Forget({r})
      /\ UNCHANGED <<retry, handle, count, alive, queue, reserved, idle,
                     creating>>
  BY DEF DropFuture, subVars
<1>2. /\ mode' \in [Requests -> Modes \cup {None}]
      /\ elapsed' \in [Requests -> BOOLEAN]
      /\ first' \in [Requests -> 0..(Period - 1)]
      /\ tried' \in [Requests -> 0..(N - 1)]
      /\ first'[r] = 0 /\ tried'[r] = 0
      /\ \A q \in Requests : q # r =>
           /\ mode'[q] = mode[q] /\ elapsed'[q] = elapsed[q]
           /\ first'[q] = first[q] /\ tried'[q] = tried[q]
  BY <1>0, <1>1, Forgotten
<1>3. TypeOK'
  BY <1>0, <1>1, <1>2 DEF TypeOK, Phases
<1>4. CallInBounds'
  BY <1>0, <1>2, CallsStay
<1>5. /\ phase'[r] = "free"
      /\ \A q \in Requests : q # r => phase'[q] = phase[q]
  BY <1>0, <1>1 DEF TypeOK
<1> QED
  BY <1>1, <1>2, <1>3, <1>4, <1>5, NothingMoves DEF PInv

\* A broken connection makes room for the one that is created for it.
LEMMA BreakPInv ==
  ASSUME PInv, NEW r \in Requests, Break(r)
  PROVE  PInv'
<1> DEFINE p0 == Target(r)
<1>0. TypeOK /\ CallInBounds /\ ConnectionsBounded /\ p0 \in SubPools
  BY PositionType DEF PInv
<1>1. /\ phase[r] \in Having /\ phase' = [phase EXCEPT ![r] = "free"]
      /\ creating' = [creating EXCEPT ![p0] =
                        IF p0 \in alive THEN @ + 1 ELSE @]
      /\ Forget({r})
      /\ UNCHANGED <<retry, handle, count, alive, queue, reserved, idle,
                     error>>
  BY DEF Break
<1>2. /\ mode' \in [Requests -> Modes \cup {None}]
      /\ elapsed' \in [Requests -> BOOLEAN]
      /\ first' \in [Requests -> 0..(Period - 1)]
      /\ tried' \in [Requests -> 0..(N - 1)]
      /\ first'[r] = 0 /\ tried'[r] = 0
      /\ \A q \in Requests : q # r =>
           /\ mode'[q] = mode[q] /\ elapsed'[q] = elapsed[q]
           /\ first'[q] = first[q] /\ tried'[q] = tried[q]
  BY <1>0, <1>1, Forgotten
<1>3. /\ phase' \in [Requests -> Phases] /\ phase'[r] = "free"
      /\ \A q \in Requests : q # r => phase'[q] = phase[q]
  BY <1>0, <1>1 DEF TypeOK, Phases
<1>4. \A p \in SubPools :
        /\ Holders(p)' \subseteq Holders(p) \ (IF p = p0 THEN {r} ELSE {})
        /\ p = p0 => r \in Holders(p)
  BY <1>1, <1>2, <1>3, SameCall DEF Holders
<1> HIDE DEF p0
<1>5. ASSUME NEW p \in SubPools
      PROVE  /\ idle'[p] \in Nat /\ creating'[p] \in Nat
             /\ IsFiniteSet(Holders(p)')
             /\ idle'[p] + creating'[p] + Cardinality(Holders(p)')
                  <= PoolSize
  <2> DEFINE H == Holders(p)
             G == Holders(p)'
  <2>1. /\ idle[p] \in Nat /\ creating[p] \in Nat
        /\ IsFiniteSet(H) /\ Cardinality(H) \in Nat
        /\ idle[p] + creating[p] + Cardinality(H) <= PoolSize
    BY <1>0, Numbers
  <2>2. CASE p = p0
    <3>1. creating'[p] \in {creating[p], creating[p] + 1}
          /\ idle'[p] = idle[p]
      BY <1>0, <1>1, <2>2 DEF TypeOK
    <3>2. r \in H /\ G \subseteq H \ {r}
      BY <1>4, <2>2
    <3> HIDE DEF G, H
    <3>3. IsFiniteSet(G) /\ Cardinality(G) \in 0..(Cardinality(H) - 1)
      BY <2>1, <3>2, HowMany
    <3>4. /\ idle'[p] \in Nat /\ creating'[p] \in Nat
          /\ idle'[p] + creating'[p] + Cardinality(G) <= PoolSize
      BY <2>1, <3>1, <3>3, SizeAssumption
    <3> QED
      BY <3>3, <3>4 DEF G
  <2>3. CASE p # p0
    <3>1. creating'[p] = creating[p] /\ idle'[p] = idle[p]
      BY <1>0, <1>1, <2>3 DEF TypeOK
    <3>2. G \subseteq H
      BY <1>4
    <3> HIDE DEF G, H
    <3>3. IsFiniteSet(G) /\ Cardinality(G) \in 0..Cardinality(H)
      BY <2>1, <3>2, HowMany
    <3>4. /\ idle'[p] \in Nat /\ creating'[p] \in Nat
          /\ idle'[p] + creating'[p] + Cardinality(G) <= PoolSize
      BY <2>1, <3>1, <3>3, SizeAssumption
    <3> QED
      BY <3>3, <3>4 DEF G
  <2> QED
    BY <2>2, <2>3
<1>6. /\ idle' \in [SubPools -> 0..PoolSize]
      /\ creating' \in [SubPools -> 0..PoolSize]
      /\ ConnectionsBounded'
  <2>1. idle' = [p \in SubPools |-> idle'[p]]
        /\ creating' = [p \in SubPools |-> creating'[p]]
    BY <1>0, <1>1 DEF TypeOK
  <2> QED
    BY <1>0, <1>5, <2>1, Counted
<1>7. TypeOK'
  BY <1>0, <1>1, <1>2, <1>3, <1>6 DEF TypeOK
<1>8. CallInBounds'
  BY <1>0, <1>2, CallsStay
<1>9. SendersPlaced' /\ QueuesBounded'
  BY <1>1, <1>2, <1>3, <1>7, SendersStay
<1> QED
  BY <1>6, <1>7, <1>8, <1>9 DEF PInv

\* A returned connection becomes idle or goes to who waits for it.
LEMMA ReturnPInv ==
  ASSUME PInv, NEW r \in Requests, Return(r)
  PROVE  PInv'
<1> DEFINE p0 == Target(r)
           ph == [phase EXCEPT ![r] = "free"]
<1>0. /\ TypeOK /\ CallInBounds /\ ConnectionsBounded /\ QueuesBounded
      /\ p0 \in SubPools
  BY PositionType DEF PInv
<1>1. /\ phase[r] \in Having /\ Forget({r})
      /\ IF p0 \in alive THEN HandOver(p0, ph)
         ELSE phase' = ph /\ UNCHANGED <<reserved, idle>>
      /\ error' = [error EXCEPT ![r] = None]
      /\ UNCHANGED <<retry, handle, count, alive, queue, creating>>
  BY DEF Return
<1>2. /\ mode' \in [Requests -> Modes \cup {None}]
      /\ elapsed' \in [Requests -> BOOLEAN]
      /\ first' \in [Requests -> 0..(Period - 1)]
      /\ tried' \in [Requests -> 0..(N - 1)]
      /\ first'[r] = 0 /\ tried'[r] = 0
      /\ \A q \in Requests : q # r =>
           /\ mode'[q] = mode[q] /\ elapsed'[q] = elapsed[q]
           /\ first'[q] = first[q] /\ tried'[q] = tried[q]
  BY <1>0, <1>1, Forgotten
<1>3. /\ ph \in [Requests -> Phases] /\ ph[r] = "free"
      /\ \A q \in Requests : q # r => ph[q] = phase[q]
  BY <1>0 DEF TypeOK, Phases
<1>4. queue \in Queues /\ reserved \in Reserves
  BY <1>0 DEF TypeOK, Queues, Reserves
<1> HIDE DEF ph, p0
<1>5. Placed(queue, reserved, ph, Home, MayWait)
  <2>1. \A x \in Places(queue, reserved) :
          /\ Who(queue, reserved, x) \in Requests
          /\ phase[Who(queue, reserved, x)] \in Lingering
    BY <1>4, WhoType, Zenon DEF PInv, SendersPlaced, Placed
  <2>2. \A x \in Places(queue, reserved) :
          ph[Who(queue, reserved, x)] \in Lingering
    BY <1>3, <2>1
  <2>3. \A q \in Requests : ph[q] \in Receiving =>
          phase[q] \in Receiving /\ Home[q] = Home[q] /\ MayWait[q] = MayWait[q]
    BY <1>3
  <2> QED
    BY <1>4, <2>2, <2>3, StayPlaced DEF PInv, SendersPlaced
<1>6. /\ reserved' \in Reserves
      /\ \A q \in SubPools : Len(reserved'[q]) <= ReservationLimit
      /\ phase' \in [Requests -> Phases]
      /\ Placed(queue, reserved', phase', Home, MayWait)
      /\ \/ idle' = idle /\ phase' = ph
         \/ idle' = [idle EXCEPT ![p0] = @ + 1] /\ phase' = ph
         \/ /\ idle' = idle
            /\ \E q \in Requests :
                 /\ ph[q] \in Receiving /\ Home[q] = p0
                 /\ phase' = Sent(q, ph)
  <2>1. CASE p0 \in alive
    BY <1>0, <1>1, <1>3, <1>5, <2>1, HandedOver
  <2>2. CASE p0 \notin alive
    BY <1>0, <1>1, <1>3, <1>4, <1>5, <2>2 DEF QueuesBounded
  <2> QED
    BY <2>1, <2>2
<1>7. \E q \in Requests :
        /\ q = r \/ (ph[q] \in Receiving /\ Home[q] = p0)
        /\ \A u \in Requests \ {q, r} : phase'[u] = phase[u]
        /\ phase'[r] = "free"
        /\ q # r => phase'[q] \in Having /\ idle' = idle
        /\ idle' = idle \/ idle' = [idle EXCEPT ![p0] = @ + 1]
  <2>1. CASE phase' = ph
    BY <1>3, <1>6, <2>1
  <2>2. CASE /\ idle' = idle
             /\ \E q \in Requests :
                  /\ ph[q] \in Receiving /\ Home[q] = p0
                  /\ phase' = Sent(q, ph)
    <3>1. PICK q \in Requests :
            /\ ph[q] \in Receiving /\ Home[q] = p0
            /\ phase' = Sent(q, ph)
      BY <2>2
    <3>2. q # r
      BY <1>3, <3>1
    <3>3. /\ phase'[q] \in Having
          /\ \A u \in Requests : u # q => phase'[u] = ph[u]
      BY <1>3, <3>1, SentOnly
    <3> QED
      BY <1>3, <2>2, <3>1, <3>2, <3>3
  <2> QED
    BY <1>6, <2>1, <2>2
<1>8. PICK q \in Requests :
        /\ q = r \/ (ph[q] \in Receiving /\ Home[q] = p0)
        /\ \A u \in Requests \ {q, r} : phase'[u] = phase[u]
        /\ phase'[r] = "free"
        /\ q # r => phase'[q] \in Having /\ idle' = idle
        /\ idle' = idle \/ idle' = [idle EXCEPT ![p0] = @ + 1]
  BY <1>7
<1>9. ASSUME NEW p \in SubPools
      PROVE  /\ idle'[p] \in Nat /\ creating'[p] \in Nat
             /\ IsFiniteSet(Holders(p)')
             /\ idle'[p] + creating'[p] + Cardinality(Holders(p)')
                  <= PoolSize
  <2> DEFINE H == Holders(p)
             G == Holders(p)'
  <2>1. /\ idle[p] \in Nat /\ creating[p] \in Nat
        /\ IsFiniteSet(H) /\ Cardinality(H) \in Nat
        /\ idle[p] + creating[p] + Cardinality(H) <= PoolSize
    BY <1>0, Numbers
  <2>2. /\ creating'[p] = creating[p]
        /\ idle'[p] \in {idle[p], idle[p] + 1}
        /\ p # p0 \/ q # r => idle'[p] = idle[p]
    BY <1>0, <1>1, <1>8 DEF TypeOK
  <2>3. \A u \in Requests \ {r} : Target(u)' = Target(u)
    BY <1>2, SameCall
  <2>4. q # r => Target(q) = p0
    BY <1>8 DEF Home
  <2>5. CASE p = p0
    <3>1. r \in H /\ (q = r => G \subseteq H \ {r})
          /\ (q # r => G \subseteq (H \ {r}) \cup {q})
      BY <1>1, <1>8, <2>3, <2>5 DEF Holders, p0
    <3> HIDE DEF G, H
    <3>2. /\ IsFiniteSet(G)
          /\ q = r => Cardinality(G) \in 0..(Cardinality(H) - 1)
          /\ q # r => Cardinality(G) \in 0..Cardinality(H)
      BY <2>1, <3>1, HowMany
    <3>3. /\ idle'[p] \in Nat /\ creating'[p] \in Nat
          /\ idle'[p] + creating'[p] + Cardinality(G) <= PoolSize
      BY <2>1, <2>2, <3>2, SizeAssumption
    <3> QED
      BY <3>2, <3>3 DEF G
  <2>6. CASE p # p0
    <3>1. G \subseteq H
      BY <1>8, <2>3, <2>4, <2>6 DEF Holders, p0
    <3> HIDE DEF G, H
    <3>2. IsFiniteSet(G) /\ Cardinality(G) \in 0..Cardinality(H)
      BY <2>1, <3>1, HowMany
    <3>3. /\ idle'[p] \in Nat /\ creating'[p] \in Nat
          /\ idle'[p] + creating'[p] + Cardinality(G) <= PoolSize
      BY <2>1, <2>2, <2>6, <3>2, SizeAssumption
    <3> QED
      BY <3>2, <3>3 DEF G
  <2> QED
    BY <2>5, <2>6
<1>10. /\ idle' \in [SubPools -> 0..PoolSize]
       /\ creating' \in [SubPools -> 0..PoolSize]
       /\ ConnectionsBounded'
  <2>1. idle' = [p \in SubPools |-> idle'[p]]
        /\ creating' = [p \in SubPools |-> creating'[p]]
    BY <1>0, <1>1, <1>8 DEF TypeOK
  <2> QED
    BY <1>0, <1>9, <2>1, Counted
<1>11. TypeOK'
  BY <1>0, <1>1, <1>2, <1>6, <1>10 DEF TypeOK, Reserves
<1>12. CallInBounds'
  BY <1>0, <1>2, CallsStay
<1>13. SendersPlaced'
  <2>1. \A x \in Places(queue, reserved') :
          phase'[Who(queue, reserved', x)] \in Lingering
    BY <1>6, Zenon DEF Placed
  <2>2. \A u \in Requests : phase'[u] \in Receiving =>
          /\ phase'[u] \in Receiving
          /\ Home'[u] = Home[u] /\ MayWait'[u] = MayWait[u]
    BY <1>2, <1>8, SameCall
  <2>3. Placed(queue, reserved', phase', Home', MayWait')
    BY <1>4, <1>6, <2>1, <2>2, StayPlaced
  <2> QED
    BY <1>1, <2>3 DEF SendersPlaced
<1>14. QueuesBounded'
  BY <1>0, <1>1, <1>6 DEF QueuesBounded
<1> QED
  BY <1>10, <1>11, <1>12, <1>13, <1>14 DEF PInv

-----------------------------------------------------------------------------
(* The steps of consumers.                                                 *)

\* A new connection becomes idle or goes to who waits for it.
LEMMA ConnectedPInv ==
  ASSUME PInv, NEW p0 \in SubPools, Connected(p0)
  PROVE  PInv'
<1>0. /\ TypeOK /\ CallInBounds /\ ConnectionsBounded /\ QueuesBounded
      /\ phase \in [Requests -> Phases]
      /\ Placed(queue, reserved, phase, Home, MayWait)
  BY DEF PInv, TypeOK, SendersPlaced
<1>1. /\ creating[p0] > 0
      /\ creating' = [creating EXCEPT ![p0] = @ - 1]
      /\ HandOver(p0, phase)
      /\ UNCHANGED <<retry, handle, count, alive, queue, mode, elapsed,
                     first, tried, error>>
  BY DEF Connected, callVars
<1>2. /\ reserved' \in Reserves
      /\ \A q \in SubPools : Len(reserved'[q]) <= ReservationLimit
      /\ phase' \in [Requests -> Phases]
      /\ Placed(queue, reserved', phase', Home, MayWait)
      /\ \/ idle' = [idle EXCEPT ![p0] = @ + 1] /\ phase' = phase
         \/ /\ idle' = idle
            /\ \E q \in Requests :
                 /\ phase[q] \in Receiving /\ Home[q] = p0
                 /\ phase' = Sent(q, phase)
  BY <1>0, <1>1, HandedOver
<1>3. Home' = Home /\ MayWait' = MayWait
      /\ \A r \in Requests : Target(r)' = Target(r)
  BY <1>1 DEF Home, MayWait, Target, Position
<1>4. ASSUME NEW p \in SubPools
      PROVE  /\ idle'[p] \in Nat /\ creating'[p] \in Nat
             /\ IsFiniteSet(Holders(p)')
             /\ idle'[p] + creating'[p] + Cardinality(Holders(p)')
                  <= PoolSize
  <2> DEFINE H == Holders(p)
             G == Holders(p)'
  <2>1. /\ idle[p] \in Nat /\ creating[p] \in Nat
        /\ IsFiniteSet(H) /\ Cardinality(H) \in Nat
        /\ idle[p] + creating[p] + Cardinality(H) <= PoolSize
    BY <1>0, Numbers
  <2>2. creating'[p] = IF p = p0 THEN creating[p] - 1 ELSE creating[p]
    BY <1>0, <1>1 DEF TypeOK
  <2>3. CASE idle' = [idle EXCEPT ![p0] = @ + 1] /\ phase' = phase
    <3>1. G \subseteq H
      BY <1>3, <2>3 DEF Holders
    <3>2. idle'[p] = IF p = p0 THEN idle[p] + 1 ELSE idle[p]
      BY <1>0, <2>3 DEF TypeOK
    <3> HIDE DEF G, H
    <3>3. IsFiniteSet(G) /\ Cardinality(G) \in 0..Cardinality(H)
      BY <2>1, <3>1, HowMany
    <3>4. /\ idle'[p] \in Nat /\ creating'[p] \in Nat
          /\ idle'[p] + creating'[p] + Cardinality(G) <= PoolSize
      BY <1>1, <2>1, <2>2, <3>2, <3>3, SizeAssumption
    <3> QED
      BY <3>3, <3>4 DEF G
  <2>4. CASE /\ idle' = idle
             /\ \E q \in Requests :
                  /\ phase[q] \in Receiving /\ Home[q] = p0
                  /\ phase' = Sent(q, phase)
    <3>0. PICK q \in Requests :
            /\ phase[q] \in Receiving /\ Home[q] = p0
            /\ phase' = Sent(q, phase)
      BY <2>4
    <3>1. \A u \in Requests : u # q => phase'[u] = phase[u]
      BY <1>0, <3>0, SentOnly
    <3>2. /\ G \subseteq H \cup {q}
          /\ p # p0 => G \subseteq H
      BY <1>0, <1>3, <3>0, <3>1 DEF Holders, Home
    <3> HIDE DEF G, H
    <3>3. /\ IsFiniteSet(G)
          /\ Cardinality(G) \in 0..(Cardinality(H) + 1)
          /\ p # p0 => Cardinality(G) \in 0..Cardinality(H)
      BY <2>1, <3>2, HowMany
    <3>4. idle'[p] = idle[p]
      BY <2>4
    <3>5. /\ idle'[p] \in Nat /\ creating'[p] \in Nat
          /\ idle'[p] + creating'[p] + Cardinality(G) <= PoolSize
      BY <1>1, <2>1, <2>2, <3>3, <3>4, SizeAssumption
    <3> QED
      BY <3>3, <3>5 DEF G
  <2> QED
    BY <1>2, <2>3, <2>4
<1>5. /\ idle' \in [SubPools -> 0..PoolSize]
      /\ creating' \in [SubPools -> 0..PoolSize]
      /\ ConnectionsBounded'
  <2>1. idle' = [p \in SubPools |-> idle'[p]]
        /\ creating' = [p \in SubPools |-> creating'[p]]
    BY <1>0, <1>1, <1>2 DEF TypeOK
  <2> QED
    BY <1>0, <1>4, <2>1, Counted
<1>6. TypeOK'
  BY <1>0, <1>1, <1>2, <1>5 DEF TypeOK, Reserves
<1>7. CallInBounds'
  BY <1>0, <1>1, CallsStay
<1>8. SendersPlaced'
  BY <1>1, <1>2, <1>3 DEF SendersPlaced
<1>9. QueuesBounded'
  BY <1>0, <1>1, <1>2 DEF QueuesBounded
<1> QED
  BY <1>5, <1>6, <1>7, <1>8, <1>9 DEF PInv

\* The request at the head of a queue is answered, or nobody waits for it.
LEMMA HeadAnswered ==
  ASSUME NEW qu \in Queues, NEW re \in Reserves, NEW p \in SubPools,
         qu[p] # <<>>, NEW ph, NEW home, NEW may, NEW ph2, NEW home2,
         NEW may2, Placed(qu, re, ph, home, may),
         ph2[Head(qu[p]).request] \notin Receiving,
         \A q \in Requests : q # Head(qu[p]).request =>
           ph2[q] = ph[q] /\ home2[q] = home[q] /\ may2[q] = may[q]
  PROVE  /\ [qu EXCEPT ![p] = Tail(@)] \in Queues
         /\ Placed([qu EXCEPT ![p] = Tail(@)], re, ph2, home2, may2)
<1> DEFINE r == Head(qu[p]).request
           top == <<p, "queue", 1>>
           qu2 == [qu EXCEPT ![p] = Tail(@)]
<1>1. /\ qu2 \in Queues /\ top \in Places(qu, re)
      /\ Who(qu, re, top) = r
      /\ \E g : Moved(g, {top}, qu2, re, qu, re)
  BY TailMoved
<1> HIDE DEF r, top, qu2
<1>2. ASSUME NEW z \in Places(qu, re) \ {top}
      PROVE  Who(qu, re, z) # r /\ Who(qu, re, z) \in Requests
             /\ ph[Who(qu, re, z)] \in Lingering
  <2>1. Who(qu, re, z) # r
    BY <1>1, Zenon DEF Placed
  <2> QED
    BY <2>1, WhoType, Zenon DEF Placed
<1>3. \A z \in Places(qu, re) \ {top} :
        /\ ph2[Who(qu, re, z)] \in Lingering
        /\ ph2[Who(qu, re, z)] \in Receiving =>
             /\ ph[Who(qu, re, z)] \in Receiving
             /\ home2[Who(qu, re, z)] = home[Who(qu, re, z)]
             /\ may2[Who(qu, re, z)] = may[Who(qu, re, z)]
  BY <1>2, Zenon DEF r
<1>4. ASSUME NEW q \in Requests, ph2[q] \in Receiving
      PROVE  \E z \in Places(qu, re) \ {top} : Who(qu, re, z) = q
  <2>1. q # r /\ ph[q] \in Receiving
    BY <1>4 DEF r
  <2>2. PICK z \in Places(qu, re) : Who(qu, re, z) = q
    BY <2>1 DEF Placed
  <2>3. z # top
    BY <1>1, <2>1, <2>2
  <2> QED
    BY <2>2, <2>3
<1>5. Placed(qu2, re, ph2, home2, may2)
  BY <1>1, <1>3, <1>4, MovedPlaced
<1> QED
  BY <1>1, <1>5 DEF qu2

\* The cleanup removes only reservations that nobody waits for.
LEMMA WaitingPlaced ==
  ASSUME TypeOK, QueuesBounded, SendersPlaced, NEW p \in SubPools
  PROVE  /\ [reserved EXCEPT ![p] = Waiting(p)] \in Reserves
         /\ Waiting(p) \in Seq(Requests)
         /\ Len(Waiting(p)) <= ReservationLimit
         /\ Placed(queue, [reserved EXCEPT ![p] = Waiting(p)], phase, Home,
                   MayWait)
<1> DEFINE s == reserved[p]
           S == {q \in Requests : phase[q] \notin Receiving}
           w == Without(s, S)
<1>1. /\ queue \in Queues /\ reserved \in Reserves
      /\ s \in Seq(Requests) /\ Len(s) \in Nat
      /\ Len(s) <= ReservationLimit
      /\ Placed(queue, reserved, phase, Home, MayWait)
  BY DEF TypeOK, Queues, Reserves, QueuesBounded, SendersPlaced
<1>2. CASE Waiting(p) = s
  <2>1. [reserved EXCEPT ![p] = Waiting(p)] = reserved
    BY <1>1, <1>2 DEF Reserves
  <2> QED
    BY <1>1, <1>2, <2>1
<1>3. CASE Waiting(p) = w
  <2>1. w \in Seq(Requests) /\ \E f : IsWithout(s, S, w, Len(s), f)
    BY <1>1, WithoutProperties
  <2> HIDE DEF w, S
  <2>2. PICK f : IsWithout(s, S, w, Len(s), f)
    BY <2>1
  <2>3. /\ Len(w) <= Len(s) /\ Len(w) \in Nat
        /\ f \in [1..Len(w) -> 1..Len(s)]
        /\ \A i \in 1..Len(w) : w[i] = s[f[i]]
        /\ \A i, j \in 1..Len(w) : i < j => f[i] < f[j]
        /\ \A k \in 1..Len(s) : s[k] \notin S =>
             \E i \in 1..Len(w) : f[i] = k
    BY <2>1, <2>2 DEF IsWithout
  <2>4. ASSUME NEW i \in 1..Len(w), NEW j \in 1..Len(w), f[i] = f[j]
        PROVE  i = j
    <3>1. f[i] \in Int /\ f[j] \in Int /\ ~(f[i] < f[j]) /\ ~(f[j] < f[i])
      BY <1>1, <2>3, <2>4
    <3>2. ~(i < j) /\ ~(j < i)
      BY <2>3, <3>1
    <3> QED
      BY <2>3, <3>2
  <2> DEFINE dropped == {z \in Places(queue, reserved) :
                           /\ z[1] = p /\ z[2] = "reserved"
                           /\ \A i \in 1..Len(w) : f[i] # z[3]}
             re2 == [reserved EXCEPT ![p] = w]
  <2>5. re2 \in Reserves
        /\ \E g : Moved(g, dropped, queue, re2, queue, reserved)
    BY <1>1, <2>1, <2>3, <2>4, ReservedMoved
  <2>6. ASSUME NEW z \in dropped
        PROVE  phase[Who(queue, reserved, z)] \notin Receiving
    <3>1. z[3] \in 1..Len(s) /\ Who(queue, reserved, z) = s[z[3]]
      BY <1>1 DEF Places, Who
    <3>2. s[z[3]] \in S
      BY <2>3, <3>1
    <3> QED
      BY <3>1, <3>2 DEF S
  <2> HIDE DEF dropped, re2
  <2>7. \A z \in Places(queue, reserved) \ dropped :
          phase[Who(queue, reserved, z)] \in Lingering
    BY <1>1, Zenon DEF Placed
  <2>8. ASSUME NEW q \in Requests, phase[q] \in Receiving
        PROVE  \E z \in Places(queue, reserved) \ dropped :
                 Who(queue, reserved, z) = q
    <3>1. PICK z \in Places(queue, reserved) : Who(queue, reserved, z) = q
      BY <1>1, <2>8 DEF Placed
    <3> QED
      BY <2>6, <2>8, <3>1
  <2>9. Placed(queue, re2, phase, Home, MayWait)
    BY <1>1, <2>5, <2>7, <2>8, MovedPlaced
  <2>10. Len(w) <= ReservationLimit
    BY <1>1, <2>3, SizeAssumption
  <2> QED
    BY <1>3, <2>1, <2>5, <2>9, <2>10 DEF re2
<1> QED
  BY <1>2, <1>3 DEF Waiting

\* The queue of p got shorter, its reservations are bounded.
LEMMA QueueServed ==
  ASSUME TypeOK, QueuesBounded, NEW p \in SubPools, queue[p] # <<>>,
         queue' = [queue EXCEPT ![p] = Tail(@)],
         NEW w, reserved' = [reserved EXCEPT ![p] = w],
         Len(w) <= ReservationLimit
  PROVE  QueuesBounded'
<1>1. queue[p] \in Seq(Payloads) /\ \A q \in SubPools : Len(queue[q]) \in Nat
  BY DEF TypeOK
<1>2. Len(Tail(queue[p])) = Len(queue[p]) - 1
  BY <1>1, HeadTailProperties
<1> QED
  BY <1>1, <1>2, SizeAssumption DEF TypeOK, QueuesBounded

\* The same, of a step that changes phases, homes and patience.
LEMMA Answered ==
  ASSUME queue \in Queues, NEW re \in Reserves, NEW p \in SubPools,
         queue[p] # <<>>, Placed(queue, re, phase, Home, MayWait),
         phase'[Head(queue[p]).request] \notin Receiving,
         \A q \in Requests : q # Head(queue[p]).request =>
           phase'[q] = phase[q] /\ Home'[q] = Home[q]
             /\ MayWait'[q] = MayWait[q]
  PROVE  /\ [queue EXCEPT ![p] = Tail(@)] \in Queues
         /\ Placed([queue EXCEPT ![p] = Tail(@)], re, phase', Home', MayWait')
<1> DEFINE ho == Home
           mw == MayWait
           ho2 == Home'
           mw2 == MayWait'
<1>1. /\ Placed(queue, re, phase, ho, mw)
      /\ \A q \in Requests : q # Head(queue[p]).request =>
           phase'[q] = phase[q] /\ ho2[q] = ho[q] /\ mw2[q] = mw[q]
  OBVIOUS
<1> HIDE DEF ho, mw, ho2, mw2
<1>2. /\ [queue EXCEPT ![p] = Tail(@)] \in Queues
      /\ Placed([queue EXCEPT ![p] = Tail(@)], re, phase', ho2, mw2)
  <2> DEFINE f == phase
             f2 == phase'
             qu == queue
  <2> HIDE DEF f, f2, qu
  <2>1. /\ qu \in Queues /\ qu[p] # <<>>
        /\ Placed(qu, re, f, ho, mw)
        /\ f2[Head(qu[p]).request] \notin Receiving
        /\ \A q \in Requests : q # Head(qu[p]).request =>
             f2[q] = f[q] /\ ho2[q] = ho[q] /\ mw2[q] = mw[q]
    BY <1>1 DEF f, f2, qu
  <2>2. /\ [qu EXCEPT ![p] = Tail(@)] \in Queues
        /\ Placed([qu EXCEPT ![p] = Tail(@)], re, f2, ho2, mw2)
    BY <2>1, HeadAnswered, SMTT(60)
  <2> QED
    BY <2>2 DEF f2, qu
<1> QED
  BY <1>2 DEF ho2, mw2

\* The consumer answers the head of its queue, or lets it wait.
LEMMA ProcessCheckOutPInv ==
  ASSUME PInv, NEW p \in SubPools, ProcessCheckOut(p)
  PROVE  PInv'
<1> DEFINE h == Head(queue[p])
           r == h.request
           patient == h.reservation_allowed /\ ReservationLimit > 0
           w == Waiting(p)
           re2 == [reserved EXCEPT ![p] = w]
<1>0. /\ TypeOK /\ CallInBounds /\ ConnectionsBounded /\ QueuesBounded
      /\ SendersPlaced
      /\ queue \in Queues /\ reserved \in Reserves
      /\ Placed(queue, reserved, phase, Home, MayWait)
      /\ reserved = [reserved EXCEPT ![p] = reserved[p]]
      /\ Len(reserved[p]) <= ReservationLimit
  BY DEF PInv, TypeOK, SendersPlaced, Queues, Reserves, QueuesBounded
<1>1. /\ queue[p] # <<>>
      /\ queue' = [queue EXCEPT ![p] = Tail(@)]
      /\ UNCHANGED <<retry, handle, count, alive, creating>>
  BY DEF ProcessCheckOut
<1>2. h \in Payloads /\ r \in Requests
  <2>1. queue[p] \in Seq(Payloads)
    BY <1>0 DEF Queues
  <2>2. h \in Payloads
    BY <1>1, <2>1, HeadTailProperties
  <2> QED
    BY <2>2 DEF Payloads
<1>3. phase[r] \in Receiving => Target(r) = p
  <2> DEFINE top == <<p, "queue", 1>>
  <2>1. top \in Places(queue, reserved) /\ Who(queue, reserved, top) = r
    BY <1>0, <1>1, TailMoved
  <2>2. phase[r] \in Receiving => top[1] = Home[r]
    <3> HIDE DEF top, r
    <3> QED
      BY <1>0, <2>1, Zenon DEF Placed
  <2> QED
    BY <1>2, <2>2 DEF Home
<1>4. /\ re2 \in Reserves /\ w \in Seq(Requests)
      /\ Len(w) <= ReservationLimit
      /\ Placed(queue, re2, phase, Home, MayWait)
  BY <1>0, WaitingPlaced
<1> HIDE DEF w, re2, r, h
<1>5. CASE /\ phase[r] \notin Receiving
           /\ UNCHANGED <<reserved, idle, phase, callVars, error>>
  <2>0. UNCHANGED <<mode, elapsed, first, tried>>
    BY <1>5 DEF callVars
  <2>1. \A q \in Requests : q # r =>
          /\ phase'[q] = phase[q]
          /\ Home'[q] = Home[q] /\ MayWait'[q] = MayWait[q]
    BY <1>5, <2>0 DEF Home, MayWait, Target, Position
  <2>2. /\ [queue EXCEPT ![p] = Tail(@)] \in Queues
        /\ Placed([queue EXCEPT ![p] = Tail(@)], reserved, phase', Home',
                  MayWait')
    <3>1. phase'[r] \notin Receiving
      BY <1>2, <1>5
    <3> QED
      BY <1>0, <1>1, <2>1, <3>1, Answered DEF r, h
  <2>3. TypeOK'
    BY <1>0, <1>1, <1>5, <2>0, <2>2 DEF TypeOK, Queues
  <2>4. SendersPlaced'
    BY <1>1, <1>5, <2>2 DEF SendersPlaced
  <2>5. QueuesBounded'
    BY <1>0, <1>1, <1>5, QueueServed
  <2>6. CallInBounds'
    BY <1>0, <2>0, CallsStay
  <2>7. ConnectionsBounded'
    BY <1>0, <1>1, <1>5, <2>0
       DEF ConnectionsBounded, Holders, Target, Position
  <2> QED
    BY <2>3, <2>4, <2>5, <2>6, <2>7 DEF PInv
<1>6. CASE /\ phase[r] \in Receiving
           /\ idle[p] > 0
           /\ idle' = [idle EXCEPT ![p] = @ - 1]
           /\ phase' = Sent(r, phase)
           /\ UNCHANGED <<reserved, callVars, error>>
  <2>0. UNCHANGED <<mode, elapsed, first, tried>>
    BY <1>6 DEF callVars
  <2>1. /\ \A q \in Requests : q # r =>
             /\ phase'[q] = phase[q]
             /\ Home'[q] = Home[q] /\ MayWait'[q] = MayWait[q]
        /\ phase'[r] \in Having /\ phase' \in [Requests -> Phases]
        /\ \A q \in Requests : Target(q)' = Target(q)
    <3>1. /\ phase'[r] \in Having /\ phase' \in [Requests -> Phases]
          /\ \A q \in Requests : q # r => phase'[q] = phase[q]
      BY <1>0, <1>2, <1>6, SentOnly DEF TypeOK
    <3> QED
      BY <2>0, <3>1 DEF Home, MayWait, Target, Position
  <2>2. /\ [queue EXCEPT ![p] = Tail(@)] \in Queues
        /\ Placed([queue EXCEPT ![p] = Tail(@)], reserved, phase', Home',
                  MayWait')
    <3>1. phase'[r] \notin Receiving
      BY <2>1
    <3> QED
      BY <1>0, <1>1, <2>1, <3>1, Answered DEF r, h
  <2>3. ASSUME NEW q \in SubPools
        PROVE  /\ idle'[q] \in Nat /\ creating'[q] \in Nat
               /\ IsFiniteSet(Holders(q)')
               /\ idle'[q] + creating'[q] + Cardinality(Holders(q)')
                    <= PoolSize
    <3> DEFINE H == Holders(q)
               G == Holders(q)'
    <3>1. /\ idle[q] \in Nat /\ creating[q] \in Nat
          /\ IsFiniteSet(H) /\ Cardinality(H) \in Nat
          /\ idle[q] + creating[q] + Cardinality(H) <= PoolSize
      BY <1>0, Numbers
    <3>2. /\ idle'[q] = IF q = p THEN idle[q] - 1 ELSE idle[q]
          /\ creating'[q] = creating[q]
      BY <1>0, <1>1, <1>6 DEF TypeOK
    <3>3. G \subseteq H \cup {r} /\ (q # p => G \subseteq H)
      BY <1>3, <1>6, <2>1 DEF Holders
    <3> HIDE DEF G, H
    <3>4. /\ IsFiniteSet(G)
          /\ Cardinality(G) \in 0..(Cardinality(H) + 1)
          /\ q # p => Cardinality(G) \in 0..Cardinality(H)
      BY <3>1, <3>3, HowMany
    <3>5. /\ idle'[q] \in Nat /\ creating'[q] \in Nat
          /\ idle'[q] + creating'[q] + Cardinality(G) <= PoolSize
      BY <1>6, <3>1, <3>2, <3>4, SizeAssumption
    <3> QED
      BY <3>4, <3>5 DEF G
  <2>4. /\ idle' \in [SubPools -> 0..PoolSize]
        /\ creating' \in [SubPools -> 0..PoolSize]
        /\ ConnectionsBounded'
    <3>1. idle' = [q \in SubPools |-> idle'[q]]
          /\ creating' = [q \in SubPools |-> creating'[q]]
      BY <1>0, <1>1, <1>6 DEF TypeOK
    <3> QED
      BY <1>0, <2>3, <3>1, Counted
  <2>5. TypeOK'
    BY <1>0, <1>1, <1>6, <2>0, <2>1, <2>2, <2>4 DEF TypeOK, Queues
  <2>6. SendersPlaced'
    BY <1>1, <1>6, <2>2 DEF SendersPlaced
  <2>7. QueuesBounded'
    BY <1>0, <1>1, <1>6, QueueServed
  <2>8. CallInBounds'
    BY <1>0, <2>0, CallsStay
  <2> QED
    BY <2>4, <2>5, <2>6, <2>7, <2>8 DEF PInv
<1>7. ASSUME NEW e \in Errors, phase[r] \in Receiving, Fail(r, e),
             reserved' = reserved \/ reserved' = re2, UNCHANGED idle
      PROVE  PInv'
  <2>1. /\ phase' \in [Requests -> Phases] /\ Forget({r})
        /\ error' \in [Requests -> Errors \cup {None}]
        /\ phase'[r] = "failed"
        /\ \A q \in Requests : q # r => phase'[q] = phase[q]
    BY <1>0, <1>2, <1>7, Failed DEF Fail
  <2>2. /\ mode' \in [Requests -> Modes \cup {None}]
        /\ elapsed' \in [Requests -> BOOLEAN]
        /\ first' \in [Requests -> 0..(Period - 1)]
        /\ tried' \in [Requests -> 0..(N - 1)]
        /\ first'[r] = 0 /\ tried'[r] = 0
        /\ \A q \in Requests : q # r =>
             /\ mode'[q] = mode[q] /\ elapsed'[q] = elapsed[q]
             /\ first'[q] = first[q] /\ tried'[q] = tried[q]
    BY <1>0, <1>2, <2>1, Forgotten
  <2>3. \A q \in Requests : q # r =>
          /\ phase'[q] = phase[q] /\ Target(q)' = Target(q)
          /\ Home'[q] = Home[q] /\ MayWait'[q] = MayWait[q]
    BY <2>1, <2>2, SameCall
  <2>4. /\ reserved' \in Reserves
        /\ Placed(queue, reserved', phase, Home, MayWait)
    BY <1>0, <1>4, <1>7
  <2>5. /\ [queue EXCEPT ![p] = Tail(@)] \in Queues
        /\ Placed([queue EXCEPT ![p] = Tail(@)], reserved', phase', Home',
                  MayWait')
    <3>1. phase'[r] \notin Receiving
      BY <2>1
    <3> QED
      BY <1>1, <2>3, <2>4, <3>1, <1>0, Answered DEF r, h
  <2>6. TypeOK'
    BY <1>0, <1>1, <1>7, <2>1, <2>2, <2>4, <2>5 DEF TypeOK, Queues, Reserves
  <2>7. SendersPlaced'
    BY <1>1, <2>5 DEF SendersPlaced
  <2>8. QueuesBounded'
    <3>1. CASE reserved' = reserved
      BY <1>0, <1>1, <3>1, QueueServed
    <3>2. CASE reserved' = re2
      BY <1>0, <1>1, <1>4, <3>2, QueueServed DEF re2
    <3> QED
      BY <1>7, <3>1, <3>2
  <2>9. CallInBounds'
    BY <1>0, <2>2, CallsStay
  <2>10. ConnectionsBounded'
    <3> SUFFICES ASSUME NEW q \in SubPools
                 PROVE  /\ IsFiniteSet(Holders(q)')
                        /\ idle[q] + creating[q] + Cardinality(Holders(q)')
                             <= PoolSize
      BY <1>1, <1>7 DEF ConnectionsBounded
    <3>1. Holders(q)' \subseteq Holders(q)
      BY <2>1, <2>3 DEF Holders
    <3>2. /\ idle[q] \in Nat /\ creating[q] \in Nat
          /\ IsFiniteSet(Holders(q)) /\ Cardinality(Holders(q)) \in Nat
          /\ idle[q] + creating[q] + Cardinality(Holders(q)) <= PoolSize
      BY <1>0, Numbers
    <3>3. IsFiniteSet(Holders(q)')
          /\ Cardinality(Holders(q)') \in 0..Cardinality(Holders(q))
      BY <3>1, <3>2, HowMany
    <3> QED
      BY <3>2, <3>3, SizeAssumption
  <2> QED
    BY <2>6, <2>7, <2>8, <2>9, <2>10 DEF PInv
<1>8. CASE /\ phase[r] \in Receiving /\ h.reservation_allowed
           /\ Len(w) < ReservationLimit
           /\ reserved' = [reserved EXCEPT ![p] = Append(w, r)]
           /\ UNCHANGED <<idle, phase, callVars, error>>
  <2>0. UNCHANGED <<mode, elapsed, first, tried>>
    BY <1>8 DEF callVars
  <2>1. reserved' = [re2 EXCEPT ![p] = Append(@, r)]
    BY <1>0, <1>8 DEF re2, Reserves
  <2>2. /\ queue' \in Queues /\ reserved' \in Reserves
        /\ \E g : Moved(g, {}, queue', reserved', queue, re2)
    <3>1. h.reservation_allowed
      BY <1>8
    <3>2. Head(queue[p]).reservation_allowed
      BY <3>1, Zenon DEF h
    <3>3. /\ [queue EXCEPT ![p] = Tail(@)] \in Queues
          /\ [re2 EXCEPT ![p] = Append(@, Head(queue[p]).request)] \in Reserves
          /\ \E g : Moved(g, {}, [queue EXCEPT ![p] = Tail(@)],
                   [re2 EXCEPT ![p] = Append(@, Head(queue[p]).request)],
                   queue, re2)
      BY <1>0, <1>1, <1>4, <3>2, HeadMoved
    <3>4. reserved' = [re2 EXCEPT ![p] = Append(@, Head(queue[p]).request)]
      BY <2>1 DEF r, h
    <3> QED
      BY <1>1, <3>3, <3>4
  <2>3. Placed(queue', reserved', phase, Home, MayWait)
    <3>1. \A z \in Places(queue, re2) \ {} :
            phase[Who(queue, re2, z)] \in Lingering
      BY <1>4, Zenon DEF Placed
    <3>2. \A q \in Requests : phase[q] \in Receiving =>
            \E z \in Places(queue, re2) \ {} : Who(queue, re2, z) = q
      BY <1>4 DEF Placed
    <3> QED
      BY <1>0, <1>4, <2>2, <3>1, <3>2, MovedPlaced
  <2>4. Home' = Home /\ MayWait' = MayWait
    BY <2>0 DEF Home, MayWait, Target, Position
  <2>5. SendersPlaced'
    BY <1>8, <2>3, <2>4 DEF SendersPlaced
  <2>6. TypeOK'
    BY <1>0, <1>1, <1>8, <2>0, <2>2 DEF TypeOK, Queues, Reserves
  <2>7. QueuesBounded'
    <3>1. Len(Append(w, r)) = Len(w) + 1 /\ Len(w) \in Nat
      BY <1>2, <1>4
    <3>2. Len(Append(w, r)) <= ReservationLimit
      BY <1>8, <3>1, SizeAssumption
    <3> QED
      BY <1>0, <1>1, <1>8, <3>2, QueueServed
  <2>8. CallInBounds'
    BY <1>0, <2>0, CallsStay
  <2>9. ConnectionsBounded'
    BY <1>0, <1>1, <1>8, <2>0
       DEF ConnectionsBounded, Holders, Target, Position
  <2> QED
    BY <2>5, <2>6, <2>7, <2>8, <2>9 DEF PInv
<1> QED
  <2>1. CASE phase[r] \in Receiving /\ Fail(r, "NoConnection")
             /\ UNCHANGED <<reserved, idle>>
    BY <1>7, <2>1 DEF Errors
  <2>2. CASE /\ phase[r] \in Receiving
             /\ reserved' = re2 /\ Fail(r, "ReservationLimitReached")
             /\ UNCHANGED idle
    BY <1>7, <2>2 DEF Errors
  <2> QED
    BY <1>5, <1>6, <1>8, <2>1, <2>2 DEF ProcessCheckOut, r, h, w, re2

\* A consumer ends: its senders are gone and who waited for it fails.
LEMMA StopPInv ==
  ASSUME PInv, NEW p \in SubPools, Stop(p)
  PROVE  PInv'
<1> DEFINE rs == {r \in Requests : phase[r] \in Receiving /\ Target(r) = p}
           qu2 == [queue EXCEPT ![p] = <<>>]
           re2 == [reserved EXCEPT ![p] = <<>>]
           dropped == {z \in Places(queue, reserved) : z[1] = p}
<1>0. /\ TypeOK /\ CallInBounds /\ ConnectionsBounded /\ QueuesBounded
      /\ queue \in Queues /\ reserved \in Reserves
      /\ Placed(queue, reserved, phase, Home, MayWait)
  BY DEF PInv, TypeOK, SendersPlaced, Queues, Reserves
<1>1. /\ alive' = alive \ {p}
      /\ queue' = qu2 /\ reserved' = re2
      /\ idle' = [idle EXCEPT ![p] = 0]
      /\ creating' = [creating EXCEPT ![p] = 0]
      /\ FailAll(rs, "NoPool")
      /\ UNCHANGED <<retry, handle, count>>
  BY DEF Stop
<1>2. /\ phase' \in [Requests -> Phases] /\ Forget(rs)
      /\ error' \in [Requests -> Errors \cup {None}]
      /\ \A r \in Requests : r \in rs => phase'[r] = "failed"
      /\ \A r \in Requests : r \notin rs => phase'[r] = phase[r]
  <2>1. "NoPool" \in Errors
    BY DEF Errors
  <2> HIDE DEF rs
  <2> QED
    BY <1>0, <1>1, <2>1, Failed
<1>3. /\ mode' \in [Requests -> Modes \cup {None}]
      /\ elapsed' \in [Requests -> BOOLEAN]
      /\ first' \in [Requests -> 0..(Period - 1)]
      /\ tried' \in [Requests -> 0..(N - 1)]
      /\ \A r \in Requests : r \in rs => first'[r] = 0 /\ tried'[r] = 0
      /\ \A r \in Requests : r \notin rs =>
           /\ mode'[r] = mode[r] /\ elapsed'[r] = elapsed[r]
           /\ first'[r] = first[r] /\ tried'[r] = tried[r]
  <2> HIDE DEF rs
  <2> QED
    BY <1>0, <1>2, Forgotten
<1>4. \A r \in Requests : r \notin rs =>
        /\ phase'[r] = phase[r] /\ Target(r)' = Target(r)
        /\ Home'[r] = Home[r] /\ MayWait'[r] = MayWait[r]
  <2> HIDE DEF rs
  <2> QED
    BY <1>2, <1>3, SameCall
<1>5. /\ qu2 \in Queues /\ re2 \in Reserves
      /\ \E g : Moved(g, dropped, qu2, re2, queue, reserved)
  BY <1>0, AllMoved
<1> HIDE DEF qu2, re2
<1>6. ASSUME NEW z \in Places(queue, reserved) \ dropped
      PROVE  /\ phase'[Who(queue, reserved, z)]
                  \in Lingering
             /\ phase'[Who(queue, reserved, z)] \in Receiving =>
                  /\ phase[Who(queue, reserved, z)] \in Receiving
                  /\ Home'[Who(queue, reserved, z)]
                       = Home[Who(queue, reserved, z)]
                  /\ MayWait'[Who(queue, reserved, z)]
                       = MayWait[Who(queue, reserved, z)]
  <2> DEFINE u == Who(queue, reserved, z)
  <2>1. u \in Requests /\ phase[u] \in Lingering
    BY <1>0, WhoType, Zenon DEF Placed
  <2> HIDE DEF u
  <2>2. CASE u \in rs
    <3>1. phase'[u] = "failed"
      BY <1>2, <2>1, <2>2
    <3> QED
      BY <3>1 DEF u
  <2>3. CASE u \notin rs
    <3>1. /\ phase'[u] = phase[u]
          /\ Home'[u] = Home[u] /\ MayWait'[u] = MayWait[u]
      BY <1>4, <2>1, <2>3
    <3> HIDE DEF rs
    <3> QED
      BY <2>1, <3>1, Zenon DEF u
  <2> QED
    BY <2>2, <2>3
<1>7. ASSUME NEW r \in Requests, phase'[r] \in Receiving
      PROVE  \E z \in Places(queue, reserved) \ dropped :
               Who(queue, reserved, z) = r
  <2>1. r \notin rs /\ phase[r] \in Receiving /\ Target(r) # p
    BY <1>2, <1>7
  <2>2. PICK z \in Places(queue, reserved) : Who(queue, reserved, z) = r
    BY <1>0, <2>1 DEF Placed
  <2>3. z[1] = Home[r]
    BY <1>0, <2>1, <2>2, Zenon DEF Placed
  <2>4. z \notin dropped
    BY <2>1, <2>3 DEF Home
  <2> QED
    BY <2>2, <2>4
<1> HIDE DEF dropped
<1>8. Placed(qu2, re2, phase', Home', MayWait')
  BY <1>0, <1>5, <1>6, <1>7, MovedPlaced
<1>9. SendersPlaced'
  BY <1>1, <1>8 DEF SendersPlaced
<1>10. ASSUME NEW q \in SubPools
       PROVE  /\ idle'[q] \in Nat /\ creating'[q] \in Nat
              /\ IsFiniteSet(Holders(q)')
              /\ idle'[q] + creating'[q] + Cardinality(Holders(q)')
                   <= PoolSize
  <2> DEFINE H == Holders(q)
             G == Holders(q)'
  <2>1. /\ idle[q] \in Nat /\ creating[q] \in Nat
        /\ IsFiniteSet(H) /\ Cardinality(H) \in Nat
        /\ idle[q] + creating[q] + Cardinality(H) <= PoolSize
    BY <1>0, Numbers
  <2>2. /\ idle'[q] \in {idle[q], 0}
        /\ creating'[q] \in {creating[q], 0}
    BY <1>0, <1>1 DEF TypeOK
  <2>3. G \subseteq H
    BY <1>2, <1>4 DEF Holders
  <2> HIDE DEF G, H
  <2>4. IsFiniteSet(G) /\ Cardinality(G) \in 0..Cardinality(H)
    BY <2>1, <2>3, HowMany
  <2>5. /\ idle'[q] \in Nat /\ creating'[q] \in Nat
        /\ idle'[q] + creating'[q] + Cardinality(G) <= PoolSize
    BY <2>1, <2>2, <2>4, SizeAssumption
  <2> QED
    BY <2>4, <2>5 DEF G
<1>11. /\ idle' \in [SubPools -> 0..PoolSize]
       /\ creating' \in [SubPools -> 0..PoolSize]
       /\ ConnectionsBounded'
  <2>1. idle' = [q \in SubPools |-> idle'[q]]
        /\ creating' = [q \in SubPools |-> creating'[q]]
    BY <1>0, <1>1 DEF TypeOK
  <2> QED
    BY <1>0, <1>10, <2>1, Counted
<1>12. TypeOK'
  <2> HIDE DEF rs
  <2> QED
    BY <1>0, <1>1, <1>2, <1>3, <1>5, <1>11 DEF TypeOK, Queues, Reserves
<1>13. QueuesBounded'
  BY <1>0, <1>1, SizeAssumption DEF QueuesBounded, qu2, re2, Queues, Reserves
<1>14. CallInBounds'
  <2>1. \A r \in Requests :
          tried'[r] = 0 \/ (tried'[r] = tried[r] /\ first'[r] = first[r])
    BY <1>3
  <2> QED
    BY <1>0, <2>1, CallsStay
<1> QED
  BY <1>9, <1>11, <1>12, <1>13, <1>14 DEF PInv

\* Every step keeps the invariant.
LEMMA NextPInv == PInv /\ [Next]_vars => PInv'
<1> SUFFICES ASSUME PInv, [Next]_vars PROVE PInv'
  OBVIOUS
<1>1. ASSUME NEW r \in Requests, Client(r)
      PROVE  PInv'
  BY <1>1, CheckOutPInv, AttemptPInv, RetryCallPInv, ElapsePInv,
     TimeOutPInv, DropFuturePInv, ReturnPInv, BreakPInv DEF Client
<1>2. ASSUME NEW p \in SubPools, SubPool(p)
      PROVE  PInv'
  BY <1>2, ConnectedPInv, ProcessCheckOutPInv, StopPInv DEF SubPool
<1>3. CASE DropHandle
  BY <1>3, DropHandlePInv
<1>4. CASE UNCHANGED vars
  <2>1. UNCHANGED <<retry, handle, count, alive, queue, reserved, idle,
                    creating, phase, mode, elapsed, first, tried, error>>
    BY <1>4 DEF vars, subVars, callVars
  <2>2. TypeOK' /\ CallInBounds'
    BY <2>1, CallsStay DEF PInv, TypeOK
  <2> QED
    BY <2>1, <2>2, NothingMoves DEF PInv
<1> QED
  BY <1>1, <1>2, <1>3, <1>4 DEF Next

-----------------------------------------------------------------------------
(* The theorems.                                                           *)

\* The invariant that carries the others.
THEOREM SpecPInv == Spec => []PInv
<1>1. Init => PInv
  BY InitPInv
<1>2. PInv /\ [Next]_vars => PInv'
  BY NextPInv
<1> QED
  BY <1>1, <1>2, PTL DEF Spec

\* Positions, counters, queues and calls keep their types: a call never asks
\* more than N sub pools, and no sub pool counts below zero.
THEOREM PerNodeTypes == Spec => []TypeOK
<1>1. PInv => TypeOK
  BY DEF PInv
<1> QED
  BY <1>1, SpecPInv, PTL

\* No sub pool has more connections, idle ones, those being created and those
\* of clients, than it was made for.
THEOREM NoSubPoolGrows == Spec => []ConnectionsBounded
<1>1. PInv => ConnectionsBounded
  BY DEF PInv
<1> QED
  BY <1>1, SpecPInv, PTL

\* The senders of a checkout are at the places that are its own.
LEMMA SendersArePlaces ==
  ASSUME TypeOK, QueuesBounded, NEW r \in Requests
  PROVE  Senders(r) = {x \in Places(queue, reserved) :
                         Who(queue, reserved, x) = r}
<1>1. \A p \in SubPools :
        /\ queue[p] \in Seq(Payloads) /\ reserved[p] \in Seq(Requests)
        /\ Len(queue[p]) \in Nat /\ Len(reserved[p]) \in Nat
        /\ Len(queue[p]) <= QueueSize /\ Len(reserved[p]) <= ReservationLimit
  BY DEF TypeOK, QueuesBounded
<1>2. QueueSize \in Nat /\ ReservationLimit \in Nat
  BY SizeAssumption
<1>3. ASSUME NEW x \in Senders(r)
      PROVE  x \in Places(queue, reserved) /\ Who(queue, reserved, x) = r
  <2>1. CASE /\ x \in SubPools \X {"queue"} \X (1..QueueSize)
             /\ x[3] \in DOMAIN queue[x[1]] /\ queue[x[1]][x[3]].request = r
    <3>1. x \in SubPools \X {"queue", "reserved"} \X Nat
      BY <1>2, <2>1
    <3>2. x[2] = "queue" /\ x[3] \in 1..Len(queue[x[1]])
      BY <1>1, <2>1
    <3> QED
      BY <2>1, <3>1, <3>2 DEF Places, Who
  <2>2. CASE /\ x \in SubPools \X {"reserved"} \X (1..ReservationLimit)
             /\ x[3] \in DOMAIN reserved[x[1]] /\ reserved[x[1]][x[3]] = r
    <3>1. x \in SubPools \X {"queue", "reserved"} \X Nat
      BY <1>2, <2>2
    <3>2. x[2] = "reserved" /\ x[3] \in 1..Len(reserved[x[1]])
      BY <1>1, <2>2
    <3> QED
      BY <2>2, <3>1, <3>2 DEF Places, Who
  <2> QED
    BY <2>1, <2>2 DEF Senders
<1>4. ASSUME NEW x \in Places(queue, reserved),
             Who(queue, reserved, x) = r
      PROVE  x \in Senders(r)
  <2>1. /\ x \in SubPools \X {"queue", "reserved"} \X Nat
        /\ x[1] \in SubPools /\ x[2] \in {"queue", "reserved"}
    BY DEF Places
  <2>2. CASE x[2] = "queue"
    <3>1. /\ x[3] \in 1..Len(queue[x[1]])
          /\ queue[x[1]][x[3]].request = r
      BY <1>4, <2>2 DEF Places, Who
    <3>2. /\ x \in SubPools \X {"queue"} \X (1..QueueSize)
          /\ x[3] \in DOMAIN queue[x[1]]
      BY <1>1, <1>2, <2>1, <2>2, <3>1
    <3> QED
      BY <3>1, <3>2 DEF Senders
  <2>3. CASE x[2] = "reserved"
    <3>1. x[3] \in 1..Len(reserved[x[1]]) /\ reserved[x[1]][x[3]] = r
      BY <1>4, <2>3 DEF Places, Who
    <3>2. /\ x \in SubPools \X {"reserved"} \X (1..ReservationLimit)
          /\ x[3] \in DOMAIN reserved[x[1]]
      BY <1>1, <1>2, <2>1, <2>3, <3>1
    <3> QED
      BY <3>1, <3>2 DEF Senders
  <2> QED
    BY <2>1, <2>2, <2>3
<1> QED
  BY <1>3, <1>4

\* A pending checkout is with the one sub pool its call ended with, and with
\* none while its call goes on or its client has a connection.
THEOREM OneSubPool == Spec => []OneSubPoolHasIt
<1>1. ASSUME PInv, NEW r \in Requests
      PROVE  /\ phase[r] \in Receiving =>
                  \E s \in Senders(r) : Senders(r) = {s} /\ s[1] = Target(r)
             /\ phase[r] \in {"calling", "retry", "holding", "late"} =>
                  Senders(r) = {}
  <2> DEFINE P == Places(queue, reserved)
             W(x) == Who(queue, reserved, x)
  <2>1. Senders(r) = {x \in P : W(x) = r}
    BY <1>1, SendersArePlaces DEF PInv
  <2>2. Placed(queue, reserved, phase, Home, MayWait)
    BY <1>1 DEF PInv, SendersPlaced
  <2>3. CASE phase[r] \in Receiving
    <3>1. PICK x \in P : W(x) = r
      BY <2>2, <2>3 DEF Placed
    <3>2. \A y \in P : W(y) = r => y = x
      BY <2>2, <3>1, Zenon DEF Placed
    <3>3. x[1] = Home[r]
      BY <2>2, <2>3, <3>1, Zenon DEF Placed
    <3>4. x[1] = Target(r)
      BY <3>3 DEF Home
    <3>5. Senders(r) = {x}
      BY <2>1, <3>1, <3>2
    <3> QED
      BY <2>3, <3>4, <3>5
  <2>4. CASE phase[r] \in {"calling", "retry", "holding", "late"}
    <3>1. \A x \in P : phase[W(x)] \in Lingering
      BY <2>2, Zenon DEF Placed
    <3>2. \A x \in P : W(x) # r
      BY <2>4, <3>1
    <3> QED
      BY <2>1, <2>4, <3>2
  <2> QED
    BY <2>3, <2>4
<1>2. PInv => OneSubPoolHasIt
  BY <1>1 DEF OneSubPoolHasIt
<1> QED
  BY <1>2, SpecPInv, PTL

\* Whoever waits for a connection may wait, and was refused by every other sub
\* pool. That includes calls whose positions overflow: they ask fewer sub
\* pools, but then the last one they ask does not get their constraint.
THEOREM LastLetsWait == Spec => []OnlyTheLastLetsWait
<1>1. ASSUME PInv, NEW p \in SubPools, NEW i \in DOMAIN reserved[p],
             phase[reserved[p][i]] \in Receiving
      PROVE  /\ mode[reserved[p][i]] # "Immediately"
             /\ tried[reserved[p][i]] = N - 1
  <2> DEFINE r == reserved[p][i]
             x == <<p, "reserved", i>>
  <2>1. reserved[p] \in Seq(Requests)
    BY <1>1 DEF PInv, TypeOK
  <2>2. i \in 1..Len(reserved[p]) /\ r \in Requests
    BY <2>1
  <2>3. x \in Places(queue, reserved)
    BY <1>1, <2>2, PlaceIs DEF PInv, TypeOK, Queues, Reserves
  <2>4. Who(queue, reserved, x) = r /\ Patient(queue, x)
    BY DEF Who, Patient
  <2>5. Placed(queue, reserved, phase, Home, MayWait)
    BY <1>1 DEF PInv, SendersPlaced
  <2> HIDE DEF x
  <2>6. phase[Who(queue, reserved, x)] \in Receiving
    BY <1>1, <2>4
  <2>7. MayWait[Who(queue, reserved, x)]
    BY <2>3, <2>4, <2>5, <2>6, Zenon DEF Placed
  <2>8. MayWait[r]
    BY <2>4, <2>7
  <2> HIDE DEF r
  <2>9. mode[r] # "Immediately" /\ tried[r] = N - 1
    BY <2>2, <2>8 DEF MayWait
  <2> QED
    BY <2>9 DEF r
<1>2. PInv => OnlyTheLastLetsWait
  BY <1>1 DEF OnlyTheLastLetsWait
<1> QED
  BY <1>2, SpecPInv, PTL

\* A call that ends its loop at a position that did not overflow has asked
\* every sub pool.
LEMMA AllAsked ==
  ASSUME TypeOK, NEW r \in Requests, first[r] + N < Usize, ~More(r)
  PROVE  Asked(r) = SubPools
<1> DEFINE f == first[r]
           t == tried[r]
<1>1. /\ N \in Nat \ {0} /\ Usize \in Nat \ {0}
      /\ f \in Nat /\ t \in 0..(N - 1) /\ f + N < Usize
  BY SizeAssumption, PeriodAssumption, PositionType
<1>2. \A k \in 0..N : (f + k) % Usize = f + k
  <2> SUFFICES ASSUME NEW k \in 0..N PROVE (f + k) % Usize = f + k
    OBVIOUS
  <2>1. f + k \in 0..(2 * Usize - 1) /\ f + k < Usize
    BY <1>1
  <2> DEFINE a == f + k
  <2> HIDE DEF a, f
  <2> QED
    BY <1>1, <2>1, Wrapped DEF a
<1>3. t = N - 1
  <2>1. t + 1 \in 0..N /\ N \in 0..N /\ (f + t) + 1 = f + (t + 1)
    BY <1>1
  <2>2. (f + t + 1) % Usize = f + (t + 1) /\ (f + N) % Usize = f + N
    BY <1>2, <2>1
  <2>3. ~(f + (t + 1) < f + N)
    BY <2>2 DEF More, IterationBound
  <2> HIDE DEF f, t
  <2> QED
    BY <1>1, <2>3
<1>4. Asked(r) = {(f + k) % N : k \in 0..(N - 1)}
  BY <1>1, <1>2, <1>3 DEF Asked
<1> HIDE DEF f, t
<1>5. ASSUME NEW k \in 0..(N - 1)
      PROVE  (f + k) % N \in SubPools
  BY <1>1 DEF SubPools
<1>6. ASSUME NEW p \in SubPools
      PROVE  \E k \in 0..(N - 1) : (f + k) % N = p
  <2>1. p \in 0..(N - 1) /\ p + 1 \in 1..N
    BY <1>1 DEF SubPools
  <2>2. CASE f = 0
    <3>1. p % N = p
      BY <1>1, <2>1
    <3> QED
      BY <1>1, <2>1, <2>2, <3>1
  <2>3. CASE f > 0
    <3>1. f - 1 \in Nat
      BY <1>1, <2>3
    <3>2. PICK turn \in 1..N : ((f - 1) + turn) % N = (p + 1) - 1
      BY <1>1, <2>1, <3>1, SomeTurn
    <3>3. /\ turn - 1 \in 0..(N - 1)
          /\ f + (turn - 1) = (f - 1) + turn
          /\ (p + 1) - 1 = p
      BY <1>1, <2>1
    <3> QED
      BY <3>2, <3>3
  <2> QED
    BY <1>1, <2>2, <2>3
<1> QED
  BY <1>4, <1>5, <1>6

\* Only its own step ends a call.
LEMMA CallEnds ==
  ASSUME PInv, [Next]_vars, NEW r \in Requests, phase[r] = "calling",
         phase'[r] \in {"retry", "failed"}
  PROVE  Attempt(r)
<1>0. TypeOK /\ phase \in [Requests -> Phases]
  BY DEF PInv, TypeOK
<1>1. \A rs, e : FailAll(rs, e) /\ r \notin rs => phase'[r] = "calling"
  BY <1>0 DEF FailAll, With
<1>2. \A p, ph : /\ ph \in [Requests -> Phases] /\ ph[r] = "calling"
                 /\ HandOver(p, ph)
                 => phase'[r] \in {"calling", "holding", "late"}
  BY DEF HandOver, Sent
<1>3. ASSUME NEW q \in Requests, Client(q), q # r
      PROVE  phase'[r] \in {"calling", "holding", "late"}
  <2>0. ASSUME NEW e, Fail(q, e)
        PROVE  phase'[r] = "calling"
    BY <1>1, <1>3, <2>0 DEF Fail
  <2>1. ASSUME TakePosition(q)
        PROVE  phase'[r] = "calling"
    BY <1>0, <1>3, <2>1 DEF TakePosition
  <2>2. CASE \E m \in Modes : CheckOut(q, m)
    BY <2>0, <2>1, <2>2 DEF CheckOut
  <2>3. CASE Attempt(q)
    <3>1. CASE Accept(q)
      BY <1>0, <1>3, <3>1 DEF Accept
    <3>2. CASE \E e \in Errors : Refused(q, e)
      <4>1. CASE phase' = [phase EXCEPT ![q] = "retry"]
        BY <1>0, <1>3, <4>1
      <4> QED
        BY <2>0, <3>2, <4>1, Zenon DEF Refused
    <3>3. CASE Fail(q, "CheckoutTimeout")
      BY <2>0, <3>3
    <3>4. CASE UNCHANGED phase
      BY <3>4
    <3> QED
      BY <2>3, <3>1, <3>2, <3>3, <3>4 DEF Attempt, Errors
  <2>4. CASE RetryCall(q)
    BY <2>0, <2>1, <2>4 DEF RetryCall
  <2>5. CASE Elapse(q) \/ TimeOut(q) \/ DropFuture(q) \/ Break(q)
    BY <1>0, <1>3, <2>0, <2>5 DEF Elapse, TimeOut, DropFuture, Break
  <2>6. CASE Return(q)
    <3> DEFINE ph == [phase EXCEPT ![q] = "free"]
    <3>1. ph \in [Requests -> Phases] /\ ph[r] = "calling"
      BY <1>0, <1>3 DEF Phases
    <3>2. HandOver(Target(q), ph) \/ phase' = ph
      BY <2>6 DEF Return
    <3> QED
      BY <1>2, <3>1, <3>2
  <2> QED
    BY <1>3, <2>2, <2>3, <2>4, <2>5, <2>6 DEF Client
<1>4. ASSUME Client(r)
      PROVE  Attempt(r)
  BY <1>4 DEF Client, CheckOut, RetryCall, Elapse, TimeOut, DropFuture,
              Return, Break
<1>5. ASSUME NEW p \in SubPools, SubPool(p)
      PROVE  phase'[r] \in {"calling", "holding", "late"}
  <2>1. CASE Connected(p)
    BY <1>0, <1>2, <2>1 DEF Connected
  <2>2. CASE ProcessCheckOut(p)
    <3> DEFINE h == Head(queue[p]).request
    <3>1. CASE phase[h] \notin Receiving /\ UNCHANGED phase
      BY <3>1
    <3>2. CASE phase[h] \in Receiving /\ phase' = Sent(h, phase)
      BY <1>0, <3>2 DEF Sent
    <3>3. CASE phase[h] \in Receiving /\ \E e \in Errors : Fail(h, e)
      <4>1. r \notin {h}
        BY <3>3
      <4> QED
        BY <1>1, <3>3, <4>1 DEF Fail
    <3>4. CASE UNCHANGED phase
      BY <3>4
    <3> QED
      BY <2>2, <3>1, <3>2, <3>3, <3>4 DEF ProcessCheckOut, Errors
  <2>3. CASE Stop(p)
    BY <1>1, <2>3 DEF Stop
  <2> QED
    BY <1>5, <2>1, <2>2, <2>3 DEF SubPool
<1>6. CASE DropHandle \/ UNCHANGED vars
  BY <1>6 DEF DropHandle, vars
<1> QED
  BY <1>3, <1>4, <1>5, <1>6 DEF Next

\* How a call ends that is neither accepted nor too late.
LEMMA RefusedAfterAll ==
  ASSUME PInv, [Next]_vars, NEW r \in Requests, phase[r] = "calling",
         phase'[r] \in {"retry", "failed"}, error'[r] # "CheckoutTimeout",
         first[r] + N < Usize
  PROVE  Asked(r) = SubPools
<1>0. TypeOK
  BY DEF PInv
<1>1. Attempt(r)
  BY CallEnds
<1>2. ~Fail(r, "CheckoutTimeout")
  BY <1>0 DEF Fail, FailAll, With, TypeOK
<1>3. ~Accept(r)
  BY <1>0 DEF Accept, TypeOK
<1>4. ~More(r)
  BY <1>1, <1>2, <1>3 DEF Attempt
<1> QED
  BY <1>0, <1>4, AllAsked

\* A call whose positions do not overflow ends without having been accepted
\* only when its deadline has passed or all sub pools were asked. This is for
\* the counter as it is, with Period = Usize.
THEOREM AskedUnlessWrapped ==
  Spec => [][\A r \in Requests :
               /\ first[r] + N < Usize
               /\ phase[r] = "calling" /\ phase'[r] \in {"retry", "failed"}
               /\ error'[r] # "CheckoutTimeout"
               => Asked(r) = SubPools]_vars
<1>1. PInv /\ [Next]_vars =>
        [\A r \in Requests :
           /\ first[r] + N < Usize
           /\ phase[r] = "calling" /\ phase'[r] \in {"retry", "failed"}
           /\ error'[r] # "CheckoutTimeout"
           => Asked(r) = SubPools]_vars
  BY RefusedAfterAll
<1> QED
  BY <1>1, SpecPInv, PTL DEF Spec

\* As long as the counter does not come near its end, that holds for every
\* call. (With Period = Usize it does not: among the last N calls of a round
\* of the counter are some that ask fewer sub pools.)
THEOREM AllSubPoolsAsked ==
  ASSUME Period + N <= Usize
  PROVE  Spec => EverySubPoolIsAsked
<1>1. ASSUME PInv, [Next]_vars, NEW r \in Requests, phase[r] = "calling",
             phase'[r] \in {"retry", "failed"},
             error'[r] # "CheckoutTimeout"
      PROVE  Asked(r) = SubPools
  <2>1. first[r] \in 0..(Period - 1)
    BY <1>1 DEF PInv, TypeOK
  <2>2. first[r] + N < Usize
    BY <2>1, SizeAssumption, PeriodAssumption
  <2> QED
    BY <1>1, <2>2, RefusedAfterAll
<1>2. PInv /\ [Next]_vars =>
        [\A r \in Requests :
           /\ phase[r] = "calling" /\ phase'[r] \in {"retry", "failed"}
           /\ error'[r] # "CheckoutTimeout"
           => Asked(r) = SubPools]_vars
  BY <1>1
<1> QED
  BY <1>2, SpecPInv, PTL DEF Spec, EverySubPoolIsAsked

=============================================================================
