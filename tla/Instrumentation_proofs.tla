------------------------ MODULE Instrumentation_proofs ------------------------
(***************************************************************************)
(* Proofs about Instrumentation: what the counters of the sub pools, those *)
(* of the user and a report can be at any moment, for any number of sub    *)
(* pools, reservations and checkouts.                                      *)
(***************************************************************************)
EXTENDS Instrumentation, DataLemmas, SequenceTheorems

-----------------------------------------------------------------------------
(* The inductive invariant.                                                *)

One(truth) == IF truth THEN 1 ELSE 0

\* Names of their own, for the provers, which need not look into sequences
\* except in a few lemmas.
Scripts == Seq(Steps)
s ++ t  == s \o t

OwnStep(p, counter, by) ==
  [does |-> "own", pool |-> p, counter |-> counter, by |-> by]
UserStep(p, counter, by) ==
  [does |-> "user", pool |-> p, counter |-> counter, by |-> by]

\* Whether a script waits for the instrumentation of the user, and what is left
\* of it otherwise.
Passing(s) == s # <<>> /\ Head(s).does = "user"
Core(s)    == IF Passing(s) THEN Tail(s) ELSE s

\* An event that is counted, and passed on if the flavour does.
Pass(fl, p, counter, by) ==
  IF fl = "Custom" THEN <<UserStep(p, counter, by)>> ELSE <<>>
Tell(fl, p, counter, by) ==
  <<OwnStep(p, counter, by)>> ++ Pass(fl, p, counter, by)

\* The parts of the scripts of a consumer.
SkipOne(fl, p) == Queue(p, -1) ++ Tell(fl, p, "reservations", -1)
TidyOne(fl, p) == Tell(fl, p, "reservations", -1) ++ Queue(p, -1)
PutIdle(fl, p) == Tell(fl, p, "idle", 1) ++ Move(p, "idle")
HandOver(fl, p) ==
  Move(p, "out")
    ++ (Tell(fl, p, "reservations", -1) ++ Tell(fl, p, "in_flight", 1))
Reserve(fl, p) == Queue(p, 1) ++ Tell(fl, p, "reservations", 1)

\* Ways to place the connection the consumer holds, with n reservations.
Placings(fl, p, n) ==
  {Repeat(m, SkipOne(fl, p)) ++ PutIdle(fl, p) : m \in 0..n}
    \cup {Repeat(m, SkipOne(fl, p)) ++ (Queue(p, -1) ++ HandOver(fl, p)) :
            m \in 0..(n - 1)}

\* Ways to go on with an idle connection that was taken.
Sendings(fl, p) ==
  {Move(p, "out") ++ Tell(fl, p, "in_flight", 1), PutIdle(fl, p)}

\* Ways to go on with a cleanup.
Cleanups(fl, p, n) ==
  {Repeat(m, TidyOne(fl, p)) : m \in 0..n}
    \cup {Repeat(m, TidyOne(fl, p)) ++ Reserve(fl, p) :
            m \in {l \in 0..n : n - l < Limit}}

\* What the consumer of p, which has a core of t left, has not counted yet, or
\* has counted ahead: i idle connections, r reservations, c connections and f
\* in flight, if the connection is at cn and there are n reservations.
Working(fl, p, t, cn, n, i, r, c, f) ==
  \/ /\ t = <<>> /\ cn # "held"
     /\ i = 0 /\ r = 0 /\ c = 0 /\ f = 0
  \/ /\ \E u \in Placings(fl, p, n) : t = Tell(fl, p, "in_flight", -1) ++ u
     /\ cn = "held"
     /\ i = 0 /\ r = 0 /\ c = 0 /\ f = 1
  \/ /\ \E u \in Placings(fl, p, n) : t = Tell(fl, p, "connections", 1) ++ u
     /\ cn = "held"
     /\ i = 0 /\ r = 0 /\ c = -1 /\ f = 0
  \/ /\ t \in Placings(fl, p, n) /\ cn = "held"
     /\ i = 0 /\ r = 0 /\ c = 0 /\ f = 0
  \/ /\ \E u \in Placings(fl, p, n) :
          t = Tell(fl, p, "reservations", -1) ++ u
     /\ cn = "held" /\ n < Limit
     /\ i = 0 /\ r = 1 /\ c = 0 /\ f = 0
  \/ /\ t = HandOver(fl, p) /\ cn = "held" /\ n < Limit
     /\ i = 0 /\ r = 1 /\ c = 0 /\ f = 0
  \/ /\ t = Tell(fl, p, "reservations", -1) ++ Tell(fl, p, "in_flight", 1)
     /\ cn # "held" /\ n < Limit
     /\ i = 0 /\ r = 1 /\ c = 0 /\ f = -1
  \/ /\ t = Tell(fl, p, "in_flight", 1) /\ cn # "held"
     /\ i = 0 /\ r = 0 /\ c = 0 /\ f = -1
  \/ /\ t = Move(p, "idle") /\ cn = "held"
     /\ i = 1 /\ r = 0 /\ c = 0 /\ f = 0
  \/ /\ \E u \in Sendings(fl, p) :
          t = Move(p, "held") ++ (Tell(fl, p, "idle", -1) ++ u)
     /\ cn = "idle"
     /\ i = 0 /\ r = 0 /\ c = 0 /\ f = 0
  \/ /\ \E u \in Sendings(fl, p) : t = Tell(fl, p, "idle", -1) ++ u
     /\ cn = "held"
     /\ i = 1 /\ r = 0 /\ c = 0 /\ f = 0
  \/ /\ t \in Sendings(fl, p) /\ cn = "held"
     /\ i = 0 /\ r = 0 /\ c = 0 /\ f = 0
  \/ /\ t \in Cleanups(fl, p, n) /\ cn # "held"
     /\ i = 0 /\ r = 0 /\ c = 0 /\ f = 0
  \/ /\ n > 0 /\ \E u \in Cleanups(fl, p, n - 1) : t = Queue(p, -1) ++ u
     /\ cn # "held"
     /\ i = 0 /\ r = -1 /\ c = 0 /\ f = 0
  \/ /\ t = Tell(fl, p, "reservations", 1) /\ cn # "held" /\ n > 0
     /\ i = 0 /\ r = -1 /\ c = 0 /\ f = 0

\* The same for a consumer that has ended.
Ending(fl, p, t, cn, i, c, f) ==
  \/ /\ t = <<>> /\ cn # "idle"
     /\ i = 0 /\ c = 0 /\ f = 0
  \/ /\ t = Tell(fl, p, "in_flight", -1) /\ cn # "idle"
     /\ i = 0 /\ c = 0 /\ f = 1
  \/ /\ t = Tell(fl, p, "idle", -1)
              ++ (Tell(fl, p, "connections", -1) ++ Move(p, "gone"))
     /\ cn = "idle"
     /\ i = 0 /\ c = 0 /\ f = 0
  \/ /\ t = Tell(fl, p, "connections", -1) ++ Move(p, "gone")
     /\ cn = "idle"
     /\ i = -1 /\ c = 0 /\ f = 0
  \/ /\ t = Move(p, "gone") /\ cn = "idle"
     /\ i = -1 /\ c = -1 /\ f = 0

\* The dropper of a broken connection has s left: d - 1 events to count before
\* it creates a new one.
Dropping(fl, p, s, cn, d) ==
  LET last == Tell(fl, p, "in_flight", -1) ++ Create(p)
  IN  /\ d > 0 <=> cn = "broken"
      /\ \/ d = 0 /\ s = <<>>
         \/ d = 1 /\ s = Create(p)
         \/ /\ d = 1 /\ fl = "Custom"
            /\ s = <<UserStep(p, "in_flight", -1)>> ++ Create(p)
         \/ d = 2 /\ s = last
         \/ /\ d = 2 /\ fl = "Custom"
            /\ s = <<UserStep(p, "connections", -1)>> ++ last
         \/ d = 3 /\ s = Tell(fl, p, "connections", -1) ++ last

\* The message with the connection is k, if there is one; a sub pool that is
\* dropped was sent Stop.
Kinds == {"none", "fresh", "returned"}
Posted(box, cn, living, dropped, k) ==
  /\ k = "none" <=> cn # "inbox"
  /\ \/ ~living /\ k = "none" /\ box = <<>>
     \/ living /\ ~dropped /\ k = "none" /\ box = <<>>
     \/ living /\ ~dropped /\ k # "none" /\ box = <<k>>
     \/ living /\ dropped /\ k = "none" /\ box = <<"stop">>
     \/ living /\ dropped /\ k # "none" /\ box = <<k, "stop">>
     \/ living /\ dropped /\ k # "none" /\ box = <<"stop", k>>

\* How many connections there are, and how many are out, if the message with
\* the connection is k and the dropper has to count d - 1 events.
Present(cn, k, d) ==
  One(cn \in {"idle", "out", "orphan", "held"} \/ k = "returned") + One(d = 3)
Lent(cn, k, d) == One(cn = "out" \/ k = "returned" \/ d \in 2..3)

\* The counters o are the truth, but for what is under way.
Balanced(fl, p, t, cn, living, n, o, k, d) ==
  \E i \in -1..1, r \in -1..1, c \in -1..0, f \in -1..1 :
    /\ o.idle = One(cn = "idle") + i
    /\ o.connections = Present(cn, k, d) + c
    /\ \/ /\ living
          /\ Working(fl, p, t, cn, n, i, r, c, f)
          /\ o.reservations = n + r
          /\ o.in_flight = Lent(cn, k, d) + f
       \/ /\ ~living
          /\ Ending(fl, p, t, cn, i, c, f)
          /\ n = 0 /\ o.reservations \in 0..Limit
          /\ cn # "held"
          /\ \E g \in -1..0 :
               /\ o.in_flight = f + g
               /\ d \in 2..3 \/ cn = "out" => g = 0

Unborn(p) ==
  /\ own[p] = Zero /\ ~alive[p] /\ conn[p] = "none"
  /\ inbox[p] = <<>> /\ queue[p] = 0
  /\ script[Consumer(p)] = <<>> /\ script[Dropper(p)] = <<>>

\* The state of p, with its message k, if its dropper has to count d - 1 events.
Agrees(p, k, d) ==
  /\ Posted(inbox[p], conn[p], alive[p], p <= ended, k)
  /\ Dropping(flavour, p, script[Dropper(p)], conn[p], d)
  /\ Balanced(flavour, p, Core(script[Consumer(p)]), conn[p], alive[p],
              queue[p], own[p], k, d)

PoolOK(p) ==
  \/ p > built /\ Unborn(p)
  \/ /\ p <= built
     /\ p > ended => alive[p]
     /\ \E k \in Kinds, d \in 0..3 : Agrees(p, k, d)

\* Main counts the sub pools it has created and those it has dropped.
MainOK ==
  LET s == script[Main]
      Exist(first, last) ==
        \A p \in SubPools : own[p].pools = One(p \in first..last)
  IN  /\ ended > 0 => built = N
      /\ \/ s = <<>> /\ Exist(ended + 1, built)
         \/ /\ ended = 0 /\ built > 0
            /\ \/ s = Tell(flavour, built, "pools", 1) /\ Exist(1, built - 1)
               \/ /\ flavour = "Custom"
                  /\ s = <<UserStep(built, "pools", 1)>>
                  /\ Exist(1, built)
         \/ /\ ended > 0
            /\ \/ s = Tell(flavour, ended, "pools", -1) /\ Exist(ended, built)
               \/ /\ flavour = "Custom"
                  /\ s = <<UserStep(ended, "pools", -1)>>
                  /\ Exist(ended + 1, built)

\* What is passed on was counted by the same actor, and while a connection is
\* counted it does not move.
PassingOK ==
  \A p \in SubPools : \A a \in {Consumer(p), Dropper(p)} :
    Passing(script[a]) =>
      /\ flavour = "Custom"
      /\ Head(script[a]).pool = p
      /\ Head(script[a]).counter # "pools"
      /\ a = Consumer(p) /\ Head(script[a]).counter = "connections" =>
           conn[p] \in {"held", "idle"}
      /\ a = Consumer(p) /\ Head(script[a]).by = 1 => alive[p]

Most(counter) == IF counter = "reservations" THEN Limit ELSE 1

\* What the user was told of p is never more than there can be.
PassedOnOK ==
  flavour = "Custom" =>
    \A p \in SubPools : \A counter \in ToSet(Counters) :
      /\ PassedOn(p, counter) <= Most(counter)
      /\ counter # "in_flight" => PassedOn(p, counter) >= 0

UserOK ==
  /\ UserCountsTheSum
  /\ flavour # "Custom" => user = Zero

\* How often a call of RedisPool::state has loaded a counter.
Loaded(i) == ((at + 4) - i) \div 5

ReaderOK ==
  /\ at = 0 => report = Zero /\ ~wrapped
  /\ at > 0 => built = N /\ ended = 0 /\ script[Main] = <<>>
  /\ at = Panicked => wrapped
  /\ at \in 1..Returned =>
       \A i \in 1..5 :
         LET counter == Counters[i]
         IN  /\ counter = "pools" => report[counter] = Loaded(i)
             /\ \/ counter = "in_flight" /\ wrapped
                \/ report[counter] <= Most(counter) * Loaded(i)

IInv ==
  /\ TypeOK
  /\ \A p \in SubPools : PoolOK(p)
  /\ MainOK
  /\ PassingOK
  /\ PassedOnOK
  /\ UserOK
  /\ ReaderOK

-----------------------------------------------------------------------------
(* Scripts.                                                                *)

LEMMA CounterNames ==
  ToSet(Counters) =
    {"in_flight", "reservations", "connections", "idle", "pools"}
  BY DEF ToSet, Counters

LEMMA StepTypes ==
  ASSUME NEW p \in SubPools, NEW counter \in ToSet(Counters),
         NEW b \in {-1, 1}, NEW place \in Places, NEW fl
  PROVE  /\ OwnStep(p, counter, b) \in Steps
         /\ UserStep(p, counter, b) \in Steps
         /\ Move(p, place) \in Scripts
         /\ Queue(p, b) \in Scripts
         /\ Create(p) \in Scripts
         /\ Pass(fl, p, counter, b) \in Scripts
         /\ Tell(fl, p, counter, b) \in Scripts
<1>1. OwnStep(p, counter, b) \in Steps
  BY DEF OwnStep, Steps
<1>2. UserStep(p, counter, b) \in Steps
  BY DEF UserStep, Steps
<1>3. [does |-> "move", pool |-> p, to |-> place] \in Steps
  BY DEF Steps
<1>4. [does |-> "queue", pool |-> p, by |-> b] \in Steps
  BY DEF Steps
<1>5. [does |-> "create", pool |-> p] \in Steps
  BY DEF Steps
<1> HIDE DEF Steps, Places
<1>6. Pass(fl, p, counter, b) \in Scripts
  BY <1>2 DEF Pass, Scripts
<1>7. Tell(fl, p, counter, b) \in Scripts
  BY <1>1, <1>6 DEF Tell, Scripts, ++
<1> QED
  BY <1>1, <1>2, <1>3, <1>4, <1>5, <1>6, <1>7 DEF Move, Queue, Create, Scripts

LEMMA Joined ==
  ASSUME NEW s \in Scripts, NEW t \in Scripts
  PROVE  s ++ t \in Scripts
<1> HIDE DEF Steps
<1> QED
  BY DEF Scripts, ++

LEMMA Regrouped ==
  ASSUME NEW s \in Scripts, NEW t \in Scripts, NEW u \in Scripts
  PROVE  (s ++ t) ++ u = s ++ (t ++ u)
<1> HIDE DEF Steps
<1> QED
  BY Associative DEF Scripts, ++

LEMMA NoScript == <<>> \in Scripts
<1> HIDE DEF Steps
<1> QED
  BY DEF Scripts

LEMMA NothingMore ==
  ASSUME NEW s \in Scripts
  PROVE  s ++ <<>> = s /\ <<>> ++ s = s
<1> HIDE DEF Steps
<1> QED
  BY Neutral DEF Scripts, ++

LEMMA Unrolled ==
  ASSUME NEW q \in Scripts, NEW r \in Scripts, NEW t \in Scripts,
         NEW w \in Scripts
  PROVE  /\ t ++ w \in Scripts
         /\ ((q ++ r) ++ t) ++ w = q ++ (r ++ (t ++ w))
         /\ q ++ (r ++ (t ++ w)) \in Scripts
<1> HIDE DEF Steps
<1>1. t ++ w \in Scripts /\ q ++ r \in Scripts
  BY Joined, Zenon
<1>2. r ++ (t ++ w) \in Scripts
  BY <1>1, Joined, Zenon
<1>3. q ++ (r ++ (t ++ w)) \in Scripts
  BY <1>2, Joined, Zenon
<1>4. ((q ++ r) ++ t) ++ w = (q ++ r) ++ (t ++ w)
  BY <1>1, Regrouped
<1>5. (q ++ r) ++ (t ++ w) = q ++ (r ++ (t ++ w))
  BY <1>1, Regrouped
<1> QED
  BY <1>1, <1>3, <1>4, <1>5, Zenon

\* An event that is counted first.
LEMMA TellFirst ==
  ASSUME NEW p \in SubPools, NEW counter \in ToSet(Counters),
         NEW b \in {-1, 1}, NEW fl, NEW t \in Scripts
  PROVE  LET s == Tell(fl, p, counter, b) ++ t
         IN  /\ s \in Scripts /\ s # <<>>
             /\ Head(s) = OwnStep(p, counter, b)
             /\ Tail(s) = Pass(fl, p, counter, b) ++ t
             /\ ~Passing(s)
             /\ Pass(fl, p, counter, b) ++ t \in Scripts
<1> DEFINE own1 == OwnStep(p, counter, b)
           rest == Pass(fl, p, counter, b)
<1>1. own1 \in Steps /\ rest \in Scripts
  BY StepTypes DEF Places
<1>2. own1.does = "own"
  BY DEF OwnStep
<1> HIDE DEF own1, rest, Steps
<1>3. rest ++ t \in Scripts
  BY <1>1, Joined
<1>4. <<own1>> \in Scripts
  BY <1>1 DEF Scripts
<1>5. (<<own1>> ++ rest) ++ t = <<own1>> ++ (rest ++ t)
  BY <1>1, <1>4, Regrouped
<1>6. Tell(fl, p, counter, b) = <<own1>> ++ rest
  BY DEF Tell, own1, rest
<1> DEFINE u == rest ++ t
<1>7. /\ <<own1>> ++ u \in Scripts /\ <<own1>> ++ u # <<>>
      /\ Head(<<own1>> ++ u) = own1 /\ Tail(<<own1>> ++ u) = u
  <2> HIDE DEF u
  <2> QED
    BY <1>1, <1>3, TakenApart DEF u, Scripts, ++
<1> QED
  BY <1>2, <1>3, <1>5, <1>6, <1>7 DEF Passing, own1, rest

\* The core of a script does not change while the event is passed on.
LEMMA TellCore ==
  ASSUME NEW p \in SubPools, NEW counter \in ToSet(Counters),
         NEW b \in {-1, 1}, NEW fl, NEW t \in Scripts, ~Passing(t)
  PROVE  /\ Core(Pass(fl, p, counter, b) ++ t) = t
         /\ Passing(Pass(fl, p, counter, b) ++ t) <=> fl = "Custom"
         /\ fl = "Custom" =>
              Head(Pass(fl, p, counter, b) ++ t) = UserStep(p, counter, b)
<1> DEFINE x == UserStep(p, counter, b)
<1>1. x \in Steps
  BY StepTypes DEF Places
<1>2. x.does = "user"
  BY DEF UserStep
<1> HIDE DEF x, Steps
<1>3. /\ <<x>> ++ t # <<>> /\ Head(<<x>> ++ t) = x /\ Tail(<<x>> ++ t) = t
  BY <1>1, TakenApart DEF Scripts, ++
<1>4. <<>> ++ t = t
  BY NothingMore
<1>5. CASE fl = "Custom"
  <2>1. Pass(fl, p, counter, b) = <<x>>
    BY <1>5 DEF Pass, x
  <2> QED
    BY <1>2, <1>3, <1>5, <2>1 DEF Passing, Core, x
<1>6. CASE fl # "Custom"
  <2>1. Pass(fl, p, counter, b) = <<>>
    BY <1>6 DEF Pass
  <2> QED
    BY <1>4, <1>6, <2>1 DEF Passing, Core
<1> QED
  BY <1>5, <1>6

\* An effect that comes first.
LEMMA EffectFirst ==
  ASSUME NEW p \in SubPools, NEW b \in {-1, 1}, NEW place \in Places,
         NEW t \in Scripts,
         NEW s \in {Move(p, place), Queue(p, b), Create(p)}
  PROVE  /\ s ++ t \in Scripts /\ s ++ t # <<>>
         /\ Head(s ++ t) = Head(s) /\ Tail(s ++ t) = t
         /\ ~Passing(s ++ t) /\ ~Passing(s) /\ s # <<>> /\ Tail(s) = <<>>
<1>1. PICK x \in Steps : s = <<x>> /\ x.does # "user"
  <2>1. "in_flight" \in ToSet(Counters)
    BY CounterNames
  <2> DEFINE m == [does |-> "move", pool |-> p, to |-> place]
             q == [does |-> "queue", pool |-> p, by |-> b]
             c == [does |-> "create", pool |-> p]
  <2>2. m \in Steps /\ q \in Steps /\ c \in Steps
    BY DEF Steps
  <2>3. s \in {<<m>>, <<q>>, <<c>>}
    BY DEF Move, Queue, Create
  <2>4. m.does # "user" /\ q.does # "user" /\ c.does # "user"
    OBVIOUS
  <2> HIDE DEF Steps, m, q, c
  <2> QED
    BY <2>2, <2>3, <2>4
<1> HIDE DEF Steps
<1>2. /\ <<x>> ++ t \in Scripts /\ <<x>> ++ t # <<>>
      /\ Head(<<x>> ++ t) = x /\ Tail(<<x>> ++ t) = t
  BY TakenApart DEF Scripts, ++
<1>3. Head(<<x>>) = x /\ Tail(<<x>>) = <<>> /\ <<x>> # <<>>
  OBVIOUS
<1> QED
  BY <1>1, <1>2, <1>3 DEF Passing

LEMMA RepeatTypes ==
  ASSUME NEW s \in Scripts, Len(s) > 0, NEW n \in Nat
  PROVE  /\ Repeat(n, s) \in Scripts /\ Len(Repeat(n, s)) = n * Len(s)
         /\ Repeat(0, s) = <<>>
<1> DEFINE l == Len(s)
<1>1. l \in Nat \ {0} /\ n * l \in Nat /\ 0 * l = 0
  OBVIOUS
<1>2. ASSUME NEW i \in 1..(n * l)
      PROVE  s[((i - 1) % l) + 1] \in Steps
  <2>1. i - 1 \in Nat
    BY <1>1
  <2>2. (i - 1) % l \in 0..(l - 1)
    BY <1>1, <2>1
  <2> QED
    BY <2>2 DEF Scripts
<1>3. Repeat(n, s) \in [1..(n * l) -> Steps]
  BY <1>2 DEF Repeat
<1>4. Repeat(0, s) = <<>>
  BY <1>1 DEF Repeat
<1> QED
  BY <1>1, <1>3, <1>4 DEF Scripts

\* The steps n + 1 times are once the steps, then n times.
LEMMA RepeatNext ==
  ASSUME NEW s \in Scripts, Len(s) > 0, NEW n \in Nat
  PROVE  Repeat(n + 1, s) = s ++ Repeat(n, s)
<1> DEFINE l == Len(s)
           a == Repeat(n + 1, s)
           z == s ++ Repeat(n, s)
<1>1. l \in Nat \ {0} /\ n * l \in Nat /\ (n + 1) * l = l + n * l
  OBVIOUS
<1>2. /\ a \in Scripts /\ Len(a) = l + n * l
      /\ Repeat(n, s) \in Scripts /\ Len(Repeat(n, s)) = n * l
  <2>1. n + 1 \in Nat
    OBVIOUS
  <2>2. a \in Scripts /\ Len(a) = (n + 1) * l
    BY <2>1, RepeatTypes
  <2> QED
    BY <1>1, <2>2, RepeatTypes
<1>3. z \in Scripts /\ Len(z) = l + n * l
  <2> DEFINE w == Repeat(n, s)
  <2>1. w \in Scripts /\ Len(w) = n * l
    BY <1>2
  <2> HIDE DEF w, Steps
  <2>2. s ++ w \in Scripts /\ Len(s ++ w) = Len(s) + Len(w)
    BY <2>1 DEF Scripts, ++
  <2> QED
    BY <2>1, <2>2 DEF w
<1>4. ASSUME NEW i \in 1..(l + n * l)
      PROVE  a[i] = z[i]
  <2>1. a[i] = s[((i - 1) % l) + 1]
    BY <1>1 DEF Repeat
  <2>2. CASE i <= l
    <3>1. (i - 1) % l = i - 1
      BY <1>1, <2>2
    <3>2. z[i] = s[i]
      BY <1>2, <2>2 DEF Scripts, ++
    <3> QED
      BY <2>1, <3>1, <3>2
  <2>3. CASE i > l
    <3>1. i - l \in 1..(n * l)
      BY <1>1, <2>3
    <3>2. z[i] = Repeat(n, s)[i - l]
      BY <1>2, <2>3 DEF Scripts, ++
    <3>3. Repeat(n, s)[i - l] = s[(((i - l) - 1) % l) + 1]
      BY <3>1 DEF Repeat
    <3>4. ((i - l) - 1) % l = (i - 1) % l
      <4> DEFINE x == i - 1
                 q == x \div l
                 r == x % l
      <4>1. x \in Nat
        BY <1>1
      <4> HIDE DEF x, l
      <4>2. q \in Int /\ r \in 0..(l - 1) /\ x = l * q + r
        BY <1>1, <4>1
      <4> HIDE DEF q, r
      <4>3. (l * (q - 1) + r) % l = r
        BY <1>1, <4>2, Remainder
      <4>4. l * (q - 1) + r = x - l
        BY <1>1, <4>2
      <4>5. (x - l) % l = x % l
        BY <4>3, <4>4 DEF r
      <4>6. (i - l) - 1 = x - l
        BY <1>1 DEF x
      <4> QED
        BY <4>5, <4>6 DEF x
    <3> HIDE DEF a, z, l
    <3> QED
      BY <2>1, <3>2, <3>3, <3>4
  <2>4. i \in Int /\ l \in Int
    BY <1>1
  <2> HIDE DEF a, z, l
  <2> QED
    BY <2>2, <2>3, <2>4
<1> HIDE DEF a, z
<1> DEFINE m == l + n * l
<1>5. a = [i \in 1..m |-> a[i]] /\ z = [i \in 1..m |-> z[i]]
  BY <1>2, <1>3 DEF Scripts
<1>6. \A i \in 1..m : a[i] = z[i]
  BY <1>4
<1> HIDE DEF m
<1>7. [i \in 1..m |-> a[i]] = [i \in 1..m |-> z[i]]
  BY <1>6
<1>8. a = z
  BY <1>5, <1>7, Zenon
<1> QED
  BY <1>8 DEF a, z

LEMMA MoveFirst ==
  ASSUME NEW p \in SubPools, NEW place \in Places, NEW t \in Scripts
  PROVE  LET s == Move(p, place)
         IN  /\ s ++ t \in Scripts /\ s ++ t # <<>>
             /\ Head(s ++ t) = Head(s) /\ Tail(s ++ t) = t
             /\ ~Passing(s ++ t) /\ ~Passing(s) /\ s # <<>>
             /\ Tail(s) = <<>>
<1>1. Move(p, place) \in {Move(p, place), Queue(p, 1), Create(p)}
  OBVIOUS
<1> QED
  BY <1>1, EffectFirst

LEMMA QueueFirst ==
  ASSUME NEW p \in SubPools, NEW b \in {-1, 1}, NEW t \in Scripts
  PROVE  LET s == Queue(p, b)
         IN  /\ s ++ t \in Scripts /\ s ++ t # <<>>
             /\ Head(s ++ t) = Head(s) /\ Tail(s ++ t) = t
             /\ ~Passing(s ++ t)
<1>1. Queue(p, b) \in {Move(p, "none"), Queue(p, b), Create(p)}
  OBVIOUS
<1>2. "none" \in Places
  BY DEF Places
<1> QED
  BY <1>1, <1>2, EffectFirst


\* The parts of a consumer's scripts are scripts.
LEMMA PartTypes ==
  ASSUME NEW p \in SubPools, NEW fl
  PROVE  /\ SkipOne(fl, p) \in Scripts /\ Len(SkipOne(fl, p)) > 0
         /\ TidyOne(fl, p) \in Scripts /\ Len(TidyOne(fl, p)) > 0
         /\ PutIdle(fl, p) \in Scripts /\ ~Passing(PutIdle(fl, p))
         /\ HandOver(fl, p) \in Scripts /\ ~Passing(HandOver(fl, p))
         /\ Reserve(fl, p) \in Scripts /\ ~Passing(Reserve(fl, p))
         /\ PutIdle(fl, p) # <<>> /\ HandOver(fl, p) # <<>>
         /\ Reserve(fl, p) # <<>>
<1> DEFINE r == Tell(fl, p, "reservations", -1)
           s == Tell(fl, p, "reservations", 1)
           i == Tell(fl, p, "idle", 1)
           f == Tell(fl, p, "in_flight", 1)
           q == Queue(p, -1)
           e == Queue(p, 1)
           m == Move(p, "idle")
           o == Move(p, "out")
<1>1. /\ r \in Scripts /\ s \in Scripts /\ i \in Scripts
      /\ f \in Scripts /\ q \in Scripts /\ e \in Scripts
      /\ m \in Scripts /\ o \in Scripts
  BY StepTypes, CounterNames DEF Places
<1>2. r ++ f \in Scripts
  BY <1>1, Joined
<1>3. q ++ r \in Scripts /\ q ++ r # <<>>
  BY <1>1, QueueFirst
<1>4. r ++ q \in Scripts /\ r ++ q # <<>>
  <2>1. "reservations" \in ToSet(Counters)
    BY CounterNames
  <2>2. q \in Scripts
    BY <1>1
  <2> HIDE DEF q
  <2> QED
    BY <2>1, <2>2, TellFirst, Zenon
<1>5. i ++ m \in Scripts /\ i ++ m # <<>> /\ ~Passing(i ++ m)
  <2>1. "idle" \in ToSet(Counters)
    BY CounterNames
  <2>2. m \in Scripts
    BY <1>1
  <2> HIDE DEF m
  <2> QED
    BY <2>1, <2>2, TellFirst, Zenon
<1>6. o ++ (r ++ f) \in Scripts /\ o ++ (r ++ f) # <<>>
      /\ ~Passing(o ++ (r ++ f))
  BY <1>2, MoveFirst DEF Places
<1>7. e ++ s \in Scripts /\ e ++ s # <<>> /\ ~Passing(e ++ s)
  BY <1>1, QueueFirst
<1> HIDE DEF r, s, i, f, q, e, m, o
<1>8. Len(q ++ r) > 0 /\ Len(r ++ q) > 0
  BY <1>3, <1>4
<1> QED
  BY <1>3, <1>4, <1>5, <1>6, <1>7, <1>8
     DEF SkipOne, TidyOne, PutIdle, HandOver, Reserve, r, s, i, f, q, e, m, o

\* What a placing begins with: the connection becomes idle, or a reservation is
\* taken out.
LEMMA PlacingForms ==
  ASSUME NEW p \in SubPools, NEW fl, NEW n \in Nat, NEW u \in Placings(fl, p, n)
  PROVE  /\ u \in Scripts
         /\ \/ u = PutIdle(fl, p)
            \/ n > 0 /\ u = Queue(p, -1) ++ HandOver(fl, p)
            \/ /\ n > 0
               /\ \E v \in Placings(fl, p, n - 1) :
                    /\ v \in Scripts
                    /\ u = Queue(p, -1) ++ (Tell(fl, p, "reservations", -1) ++ v)
<1> DEFINE k == SkipOne(fl, p)
           q == Queue(p, -1)
           r == Tell(fl, p, "reservations", -1)
           i == PutIdle(fl, p)
           h == q ++ HandOver(fl, p)
<1>1. /\ k \in Scripts /\ Len(k) > 0 /\ k = q ++ r
      /\ q \in Scripts /\ r \in Scripts
      /\ i \in Scripts /\ h \in Scripts
  <2>1. q \in Scripts /\ r \in Scripts
    BY StepTypes, CounterNames DEF Places
  <2>2. h \in Scripts
    BY PartTypes, QueueFirst
  <2> QED
    BY <2>1, <2>2, PartTypes DEF SkipOne
<1>2. PICK m \in 0..n, w \in {i, h} :
        u = Repeat(m, k) ++ w /\ (w = h => m < n)
  <2> DEFINE a(m) == Repeat(m, k) ++ i
             b(m) == Repeat(m, k) ++ h
  <2>1. \/ \E m \in 0..n : u = a(m)
        \/ \E m \in 0..(n - 1) : u = b(m)
    BY DEF Placings
  <2>2. i # h
    <3>1. "idle" \in ToSet(Counters) /\ Move(p, "idle") \in Scripts
      BY CounterNames, StepTypes DEF Places
    <3>2. Head(i) = OwnStep(p, "idle", 1)
      BY <3>1, TellFirst DEF PutIdle
    <3>3. Head(h) = Head(q)
      BY PartTypes, QueueFirst
    <3>4. Head(q).does = "queue"
      BY DEF Queue
    <3>5. OwnStep(p, "idle", 1).does = "own"
      BY DEF OwnStep
    <3> HIDE DEF i, h, q
    <3> QED
      BY <3>2, <3>3, <3>4, <3>5
  <2>3. CASE \E m \in 0..n : u = a(m)
    BY <2>2, <2>3
  <2>4. CASE \E m \in 0..(n - 1) : u = b(m)
    <3>1. PICK m \in 0..(n - 1) : u = b(m)
      BY <2>4
    <3>2. m \in 0..n /\ m < n
      OBVIOUS
    <3> QED
      BY <3>1, <3>2
  <2> QED
    BY <2>1, <2>3, <2>4
<1>3. ASSUME NEW m1 \in Nat, m = m1 + 1
      PROVE  LET v == Repeat(m1, k) ++ w
             IN  /\ v \in Placings(fl, p, n - 1) /\ v \in Scripts
                 /\ u = q ++ (r ++ v) /\ u \in Scripts
  <2> DEFINE t == Repeat(m1, k)
             v == t ++ w
  <2>1. t \in Scripts /\ Repeat(m, k) = k ++ t
    <3> HIDE DEF k
    <3>1. k \in Scripts
      BY <1>1
    <3>2. Len(k) > 0
      BY <1>1
    <3>3. t \in Scripts
      BY <3>1, <3>2, RepeatTypes, Zenon
    <3>4. Repeat(m1 + 1, k) = k ++ t
      BY <3>1, <3>2, RepeatNext, Zenon
    <3> QED
      BY <1>3, <3>3, <3>4
  <2>2. w \in Scripts
    BY <1>1
  <2>3. v \in Placings(fl, p, n - 1)
    <3>1. m1 \in 0..(n - 1) /\ (m < n => m1 \in 0..((n - 1) - 1))
      BY <1>3
    <3>2. CASE w = h
      BY <1>2, <3>1, <3>2 DEF Placings
    <3>3. CASE w = i
      BY <3>1, <3>3 DEF Placings
    <3> QED
      BY <3>2, <3>3
  <2> HIDE DEF k, q, r, i, h, t, Steps
  <2>4. k = q ++ r /\ q \in Scripts /\ r \in Scripts
    BY <1>1
  <2>5. /\ v \in Scripts /\ q ++ (r ++ v) \in Scripts
        /\ (k ++ t) ++ w = q ++ (r ++ v)
    <3>1. t \in Scripts
      BY <2>1
    <3>2. ((q ++ r) ++ t) ++ w = q ++ (r ++ (t ++ w))
      BY <2>2, <2>4, <3>1, Unrolled
    <3>3. t ++ w \in Scripts /\ q ++ (r ++ (t ++ w)) \in Scripts
      BY <2>2, <2>4, <3>1, Unrolled, Zenon
    <3> QED
      BY <2>4, <3>2, <3>3, Zenon
  <2> HIDE DEF v
  <2>8. u = q ++ (r ++ v) /\ u \in Scripts
    BY <1>2, <2>1, <2>5, Zenon
  <2> QED
    BY <2>3, <2>5, <2>8 DEF v, t
<1>4. CASE m = 0
  <2>1. u = w
    BY <1>1, <1>2, <1>4, RepeatTypes, NothingMore
  <2> QED
    BY <1>1, <1>2, <1>4, <2>1
<1>5. CASE m > 0
  <2>1. m - 1 \in Nat /\ m = (m - 1) + 1 /\ n > 0
    BY <1>5
  <2> HIDE DEF k, q, r, i, h
  <2>2. LET v == Repeat(m - 1, k) ++ w
        IN  /\ v \in Placings(fl, p, n - 1) /\ v \in Scripts
            /\ u = q ++ (r ++ v) /\ u \in Scripts
    BY <1>3, <2>1
  <2> QED
    BY <2>1, <2>2 DEF q, r
<1>6. m = 0 \/ m > 0
  OBVIOUS
<1> QED
  BY <1>4, <1>5, <1>6, Zenon

\* What a cleanup begins with: the next reservation is counted off, or one is
\* made, or it is done.
LEMMA CleanupForms ==
  ASSUME NEW p \in SubPools, NEW fl, NEW n \in Nat, NEW u \in Cleanups(fl, p, n)
  PROVE  /\ u \in Scripts
         /\ \/ u = <<>>
            \/ n < Limit /\ u = Reserve(fl, p)
            \/ /\ n > 0
               /\ \E v \in Cleanups(fl, p, n - 1) :
                    /\ v \in Scripts
                    /\ u = Tell(fl, p, "reservations", -1) ++ (Queue(p, -1) ++ v)
<1> DEFINE k == TidyOne(fl, p)
           q == Queue(p, -1)
           r == Tell(fl, p, "reservations", -1)
           e == Reserve(fl, p)
<1>1. /\ k \in Scripts /\ Len(k) > 0 /\ k = r ++ q
      /\ q \in Scripts /\ r \in Scripts /\ e \in Scripts
  <2>1. q \in Scripts /\ r \in Scripts
    BY StepTypes, CounterNames DEF Places
  <2> QED
    BY <2>1, PartTypes DEF TidyOne
<1>2. PICK m \in 0..n, w \in {<<>>, e} :
        u = Repeat(m, k) ++ w /\ (w = e => n - m < Limit)
  <2>1. ASSUME NEW m \in 0..n
        PROVE  Repeat(m, k) ++ <<>> = Repeat(m, k)
    BY <1>1, RepeatTypes, NothingMore
  <2>2. <<>> # e
    BY PartTypes
  <2> HIDE DEF k, e
  <2>3. \/ \E m \in 0..n : u = Repeat(m, k)
        \/ \E m \in 0..n : u = Repeat(m, k) ++ e /\ n - m < Limit
    BY DEF Cleanups, k, e
  <2> QED
    BY <2>1, <2>2, <2>3
<1>3. ASSUME NEW m1 \in Nat, m = m1 + 1
      PROVE  LET v == Repeat(m1, k) ++ w
             IN  /\ v \in Cleanups(fl, p, n - 1) /\ v \in Scripts
                 /\ u = r ++ (q ++ v) /\ u \in Scripts
  <2> DEFINE t == Repeat(m1, k)
             v == t ++ w
  <2>1. t \in Scripts /\ Repeat(m, k) = k ++ t
    <3> HIDE DEF k
    <3>1. k \in Scripts
      BY <1>1
    <3>2. Len(k) > 0
      BY <1>1
    <3>3. t \in Scripts
      BY <3>1, <3>2, RepeatTypes, Zenon
    <3>4. Repeat(m1 + 1, k) = k ++ t
      BY <3>1, <3>2, RepeatNext, Zenon
    <3> QED
      BY <1>3, <3>3, <3>4
  <2>2. w \in Scripts
    BY <1>1, NoScript
  <2>3. v \in Cleanups(fl, p, n - 1)
    <3>1. m1 \in 0..(n - 1) /\ (n - 1) - m1 = n - m
      BY <1>3
    <3>2. CASE w = e
      BY <1>2, <3>1, <3>2 DEF Cleanups
    <3>3. CASE w = <<>>
      <4>1. v = t
        BY <2>1, <3>3, NothingMore
      <4> QED
        BY <3>1, <4>1 DEF Cleanups
    <3> QED
      BY <3>2, <3>3
  <2> HIDE DEF k, q, r, e, t, Steps
  <2>4. k = r ++ q /\ q \in Scripts /\ r \in Scripts
    BY <1>1
  <2>5. /\ v \in Scripts /\ r ++ (q ++ v) \in Scripts
        /\ (k ++ t) ++ w = r ++ (q ++ v)
    <3>1. t \in Scripts
      BY <2>1
    <3>2. ((r ++ q) ++ t) ++ w = r ++ (q ++ (t ++ w))
      BY <2>2, <2>4, <3>1, Unrolled
    <3>3. t ++ w \in Scripts /\ r ++ (q ++ (t ++ w)) \in Scripts
      BY <2>2, <2>4, <3>1, Unrolled, Zenon
    <3> QED
      BY <2>4, <3>2, <3>3, Zenon
  <2> HIDE DEF v
  <2>8. u = r ++ (q ++ v) /\ u \in Scripts
    BY <1>2, <2>1, <2>5, Zenon
  <2> QED
    BY <2>3, <2>5, <2>8 DEF v, t
<1>4. CASE m = 0
  <2>1. u = w
    BY <1>1, <1>2, <1>4, RepeatTypes, NothingMore
  <2>2. w = e => n < Limit
    BY <1>2, <1>4
  <2>3. <<>> \in Scripts
    BY NoScript
  <2> QED
    BY <1>1, <1>2, <2>1, <2>2, <2>3
<1>5. CASE m > 0
  <2>1. m - 1 \in Nat /\ m = (m - 1) + 1 /\ n > 0
    BY <1>5
  <2> HIDE DEF k, q, r, e
  <2>2. LET v == Repeat(m - 1, k) ++ w
        IN  /\ v \in Cleanups(fl, p, n - 1) /\ v \in Scripts
            /\ u = r ++ (q ++ v) /\ u \in Scripts
    BY <1>3, <2>1
  <2> QED
    BY <2>1, <2>2 DEF q, r
<1>6. m = 0 \/ m > 0
  OBVIOUS
<1> QED
  BY <1>4, <1>5, <1>6, Zenon

\* None of the parts begins with the instrumentation of the user.
LEMMA TellAlone ==
  ASSUME NEW p \in SubPools, NEW counter \in ToSet(Counters),
         NEW b \in {-1, 1}, NEW fl
  PROVE  LET s == Tell(fl, p, counter, b)
         IN  s \in Scripts /\ s # <<>> /\ ~Passing(s) /\ s = s ++ <<>>
<1>1. Tell(fl, p, counter, b) \in Scripts
  BY StepTypes DEF Places
<1>2. Tell(fl, p, counter, b) = Tell(fl, p, counter, b) ++ <<>>
  BY <1>1, NothingMore
<1>3. LET s == Tell(fl, p, counter, b) ++ <<>>
      IN  s # <<>> /\ ~Passing(s)
  BY TellFirst, NoScript
<1> QED
  BY <1>1, <1>2, <1>3

LEMMA PlacingStarts ==
  ASSUME NEW p \in SubPools, NEW fl, NEW n \in Nat, NEW u \in Placings(fl, p, n)
  PROVE  u \in Scripts /\ u # <<>> /\ ~Passing(u)
<1>1. u \in Scripts
  BY PlacingForms
<1>2. CASE u = PutIdle(fl, p)
  BY <1>1, <1>2, PartTypes
<1>3. CASE u = Queue(p, -1) ++ HandOver(fl, p)
  BY <1>1, <1>3, PartTypes, QueueFirst
<1>4. CASE \E v \in Scripts :
             u = Queue(p, -1) ++ (Tell(fl, p, "reservations", -1) ++ v)
  <2>1. PICK v \in Scripts :
          u = Queue(p, -1) ++ (Tell(fl, p, "reservations", -1) ++ v)
    BY <1>4
  <2>2. Tell(fl, p, "reservations", -1) ++ v \in Scripts
    BY CounterNames, TellFirst
  <2> QED
    BY <1>1, <2>1, <2>2, QueueFirst
<1>5. \/ u = PutIdle(fl, p)
      \/ u = Queue(p, -1) ++ HandOver(fl, p)
      \/ \E v \in Scripts :
           u = Queue(p, -1) ++ (Tell(fl, p, "reservations", -1) ++ v)
  BY PlacingForms
<1> QED
  BY <1>2, <1>3, <1>4, <1>5, Zenon

LEMMA CleanupStarts ==
  ASSUME NEW p \in SubPools, NEW fl, NEW n \in Nat, NEW u \in Cleanups(fl, p, n)
  PROVE  u \in Scripts /\ ~Passing(u)
<1>1. u \in Scripts
  BY CleanupForms
<1>2. CASE u = <<>>
  BY <1>1, <1>2 DEF Passing
<1>3. CASE u = Reserve(fl, p)
  BY <1>1, <1>3, PartTypes
<1>4. CASE \E v \in Scripts :
             u = Tell(fl, p, "reservations", -1) ++ (Queue(p, -1) ++ v)
  <2>1. PICK v \in Scripts :
          u = Tell(fl, p, "reservations", -1) ++ (Queue(p, -1) ++ v)
    BY <1>4
  <2>2. Queue(p, -1) ++ v \in Scripts
    BY QueueFirst
  <2> QED
    BY <1>1, <2>1, <2>2, CounterNames, TellFirst
<1> QED
  BY <1>2, <1>3, <1>4, CleanupForms, Zenon

LEMMA SendingStarts ==
  ASSUME NEW p \in SubPools, NEW fl, NEW u \in Sendings(fl, p)
  PROVE  u \in Scripts /\ u # <<>> /\ ~Passing(u)
<1>1. Tell(fl, p, "in_flight", 1) \in Scripts /\ "out" \in Places
  BY CounterNames, TellAlone DEF Places
<1>2. LET s == Move(p, "out") ++ Tell(fl, p, "in_flight", 1)
      IN  s \in Scripts /\ s # <<>> /\ ~Passing(s)
  BY <1>1, MoveFirst
<1> QED
  BY <1>2, PartTypes DEF Sendings

-----------------------------------------------------------------------------
(* The next step of a consumer, and what it leaves to be counted.          *)

Shift(counter, name, b) == IF counter = name THEN b ELSE 0

\* It counts an event.
CountsNext(fl, p, t, cn, n, i, r, c, f) ==
  \E counter \in {"idle", "reservations", "connections", "in_flight"},
     b \in {-1, 1}, u \in Scripts :
    /\ t = Tell(fl, p, counter, b) ++ u /\ ~Passing(u)
    /\ counter = "connections" => cn = "held"
    /\ Working(fl, p, u, cn, n,
               i + Shift(counter, "idle", b),
               r + Shift(counter, "reservations", b),
               c + Shift(counter, "connections", b),
               f + Shift(counter, "in_flight", b))

\* It moves the connection.
MovesNext(fl, p, t, cn, n, i, r, c, f) ==
  \E x \in {"idle", "out", "held"}, u \in Scripts :
    /\ t = Move(p, x) ++ u /\ ~Passing(u)
    /\ cn \in {"held", "idle"}
    /\ Working(fl, p, u, x, n, (i + One(cn = "idle")) - One(x = "idle"),
               r, c, f - One(x = "out"))

\* It adds or removes a reservation.
QueuesNext(fl, p, t, cn, n, i, r, c, f) ==
  \E b \in {-1, 1}, u \in Scripts :
    /\ t = Queue(p, b) ++ u /\ ~Passing(u)
    /\ n + b \in 0..Limit
    /\ Working(fl, p, u, cn, n + b, i, r - b, c, f)

\* It places the connection it holds.
LEMMA PlacingSteps ==
  ASSUME NEW p \in SubPools, NEW fl, NEW n \in 0..Limit,
         NEW t \in Placings(fl, p, n)
  PROVE  \/ CountsNext(fl, p, t, "held", n, 0, 0, 0, 0)
         \/ QueuesNext(fl, p, t, "held", n, 0, 0, 0, 0)
<1>0. n \in Nat /\ n <= Limit /\ Limit \in Nat
  BY SizesAssumption
<1>1. CASE t = PutIdle(fl, p)
  <2> DEFINE u == Move(p, "idle")
  <2>1. t = Tell(fl, p, "idle", 1) ++ u
    BY <1>1 DEF PutIdle
  <2>2. u \in Scripts /\ ~Passing(u)
    BY StepTypes, CounterNames, MoveFirst, NoScript DEF Places
  <2>3. Working(fl, p, u, "held", n, 1, 0, 0, 0)
    BY DEF Working
  <2> HIDE DEF u
  <2>4. CountsNext(fl, p, t, "held", n, 0, 0, 0, 0)
    BY <2>1, <2>2, <2>3 DEF CountsNext, Shift
  <2> QED
    BY <2>4
<1>2. CASE n > 0 /\ t = Queue(p, -1) ++ HandOver(fl, p)
  <2>1. Working(fl, p, HandOver(fl, p), "held", n - 1, 0, 1, 0, 0)
    BY <1>0, <1>2 DEF Working
  <2>2. QueuesNext(fl, p, t, "held", n, 0, 0, 0, 0)
    BY <1>0, <1>2, <2>1, PartTypes DEF QueuesNext
  <2> QED
    BY <2>2
<1>3. ASSUME n > 0, NEW v \in Placings(fl, p, n - 1),
             t = Queue(p, -1) ++ (Tell(fl, p, "reservations", -1) ++ v)
      PROVE  QueuesNext(fl, p, t, "held", n, 0, 0, 0, 0)
  <2> DEFINE u == Tell(fl, p, "reservations", -1) ++ v
  <2>1. v \in Scripts
    BY <1>0, <1>3, PlacingStarts
  <2>2. u \in Scripts /\ ~Passing(u)
    BY <2>1, CounterNames, TellFirst
  <2>3. Working(fl, p, u, "held", n - 1, 0, 1, 0, 0)
    BY <1>0, <1>3 DEF Working
  <2> HIDE DEF u
  <2> QED
    BY <1>0, <1>3, <2>2, <2>3 DEF QueuesNext, u
<1> QED
  BY <1>0, <1>1, <1>2, <1>3, PlacingForms

\* It goes on with an idle connection it has taken.
LEMMA SendingSteps ==
  ASSUME NEW p \in SubPools, NEW fl, NEW n \in 0..Limit,
         NEW t \in Sendings(fl, p)
  PROVE  \/ CountsNext(fl, p, t, "held", n, 0, 0, 0, 0)
         \/ MovesNext(fl, p, t, "held", n, 0, 0, 0, 0)
<1>1. CASE t = PutIdle(fl, p)
  <2> DEFINE u == Move(p, "idle")
  <2>1. t = Tell(fl, p, "idle", 1) ++ u
    BY <1>1 DEF PutIdle
  <2>2. u \in Scripts /\ ~Passing(u)
    BY StepTypes, CounterNames, MoveFirst, NoScript DEF Places
  <2>3. Working(fl, p, u, "held", n, 1, 0, 0, 0)
    BY DEF Working
  <2> HIDE DEF u
  <2>4. CountsNext(fl, p, t, "held", n, 0, 0, 0, 0)
    BY <2>1, <2>2, <2>3 DEF CountsNext, Shift
  <2> QED
    BY <2>4
<1>2. CASE t = Move(p, "out") ++ Tell(fl, p, "in_flight", 1)
  <2> DEFINE u == Tell(fl, p, "in_flight", 1)
  <2>1. u \in Scripts /\ ~Passing(u)
    BY CounterNames, TellAlone
  <2>2. Working(fl, p, u, "out", n, 0, 0, 0, -1)
    BY DEF Working
  <2> HIDE DEF u
  <2>3. MovesNext(fl, p, t, "held", n, 0, 0, 0, 0)
    BY <1>2, <2>1, <2>2 DEF MovesNext, One, u
  <2> QED
    BY <2>3
<1> QED
  BY <1>1, <1>2 DEF Sendings

\* It removes reservations.
LEMMA CleanupSteps ==
  ASSUME NEW p \in SubPools, NEW fl, NEW n \in 0..Limit, NEW cn, cn # "held",
         NEW t \in Cleanups(fl, p, n), t # <<>>
  PROVE  \/ CountsNext(fl, p, t, cn, n, 0, 0, 0, 0)
         \/ QueuesNext(fl, p, t, cn, n, 0, 0, 0, 0)
<1>0. n \in Nat /\ n <= Limit /\ Limit \in Nat
  BY SizesAssumption
<1>1. CASE n < Limit /\ t = Reserve(fl, p)
  <2> DEFINE u == Tell(fl, p, "reservations", 1)
  <2>1. u \in Scripts /\ ~Passing(u)
    BY CounterNames, TellAlone
  <2>2. Working(fl, p, u, cn, n + 1, 0, -1, 0, 0)
    BY <1>0 DEF Working
  <2>3. t = Queue(p, 1) ++ u
    BY <1>1 DEF Reserve
  <2> HIDE DEF u
  <2>4. n + 1 \in 0..Limit
    BY <1>0, <1>1
  <2>5. QueuesNext(fl, p, t, cn, n, 0, 0, 0, 0)
    BY <1>0, <2>1, <2>2, <2>3, <2>4 DEF QueuesNext
  <2> QED
    BY <2>5
<1>2. ASSUME n > 0, NEW v \in Cleanups(fl, p, n - 1),
             t = Tell(fl, p, "reservations", -1) ++ (Queue(p, -1) ++ v)
      PROVE  CountsNext(fl, p, t, cn, n, 0, 0, 0, 0)
  <2> DEFINE u == Queue(p, -1) ++ v
  <2>1. v \in Scripts
    BY <1>0, <1>2, CleanupStarts
  <2>2. u \in Scripts /\ ~Passing(u)
    BY <2>1, QueueFirst
  <2>3. Working(fl, p, u, cn, n, 0, -1, 0, 0)
    BY <1>0, <1>2 DEF Working
  <2> HIDE DEF u
  <2> QED
    BY <1>2, <2>2, <2>3 DEF CountsNext, Shift, u
<1> QED
  BY <1>0, <1>1, <1>2, CleanupForms

\* What a consumer that has nothing to do leaves to be counted.
LEMMA NothingToCount ==
  ASSUME NEW p \in SubPools, NEW fl, NEW cn, NEW n \in 0..Limit,
         NEW i, NEW r, NEW c, NEW f, Working(fl, p, <<>>, cn, n, i, r, c, f)
  PROVE  cn # "held" /\ i = 0 /\ r = 0 /\ c = 0 /\ f = 0
<1>0. n \in Nat
  OBVIOUS
<1>1. ASSUME NEW counter \in ToSet(Counters), NEW b \in {-1, 1},
             NEW u \in Scripts
      PROVE  Tell(fl, p, counter, b) ++ u # <<>>
  BY TellFirst
<1>2. ASSUME NEW place \in Places, NEW u \in Scripts
      PROVE  Move(p, place) ++ u # <<>> /\ Move(p, place) # <<>>
  BY MoveFirst
<1>3. ASSUME NEW b \in {-1, 1}, NEW u \in Scripts
      PROVE  Queue(p, b) ++ u # <<>>
  BY QueueFirst
<1>4. ASSUME NEW u \in Placings(fl, p, n)
      PROVE  u \in Scripts /\ u # <<>>
  BY <1>0, PlacingStarts
<1>5. ASSUME NEW u \in Sendings(fl, p)
      PROVE  u \in Scripts /\ u # <<>>
  BY SendingStarts
<1>6. HandOver(fl, p) # <<>>
  BY PartTypes
<1>7. ASSUME NEW counter \in ToSet(Counters), NEW b \in {-1, 1}
      PROVE  Tell(fl, p, counter, b) # <<>> /\ Tell(fl, p, counter, b) \in Scripts
  BY TellAlone
<1>8. ASSUME n > 0, NEW u \in Cleanups(fl, p, n - 1)
      PROVE  Queue(p, -1) ++ u # <<>>
  BY <1>3, <1>8, CleanupStarts
<1>9. /\ "in_flight" \in ToSet(Counters) /\ "connections" \in ToSet(Counters)
      /\ "reservations" \in ToSet(Counters) /\ "idle" \in ToSet(Counters)
  BY CounterNames
<1>10. "idle" \in Places /\ "held" \in Places
  BY DEF Places
<1>11. ASSUME NEW u \in Sendings(fl, p)
       PROVE  /\ Tell(fl, p, "idle", -1) ++ u # <<>>
              /\ Move(p, "held") ++ (Tell(fl, p, "idle", -1) ++ u) # <<>>
  <2>1. Tell(fl, p, "idle", -1) ++ u \in Scripts
    BY <1>5, <1>9, TellFirst
  <2> QED
    BY <1>1, <1>2, <1>5, <1>9, <1>10, <2>1
<1> QED
  BY <1>1, <1>2, <1>4, <1>5, <1>6, <1>7, <1>8, <1>9, <1>10, <1>11 DEF Working

\* Whatever the consumer does next, what is left is one of its ways again.
LEMMA WorkingSteps ==
  ASSUME NEW p \in SubPools, NEW fl, NEW t, t # <<>>, NEW cn,
         NEW n \in 0..Limit, NEW i, NEW r, NEW c, NEW f,
         Working(fl, p, t, cn, n, i, r, c, f)
  PROVE  /\ t \in Scripts /\ ~Passing(t)
         /\ \/ CountsNext(fl, p, t, cn, n, i, r, c, f)
            \/ MovesNext(fl, p, t, cn, n, i, r, c, f)
            \/ QueuesNext(fl, p, t, cn, n, i, r, c, f)
<1>0. /\ n \in Nat /\ n <= Limit /\ Limit \in Nat
      /\ "in_flight" \in ToSet(Counters) /\ "connections" \in ToSet(Counters)
      /\ "reservations" \in ToSet(Counters) /\ "idle" \in ToSet(Counters)
      /\ "idle" \in Places /\ "out" \in Places /\ "held" \in Places
  BY SizesAssumption, CounterNames DEF Places
<1> DEFINE Goal == /\ t \in Scripts /\ ~Passing(t)
                   /\ \/ CountsNext(fl, p, t, cn, n, i, r, c, f)
                      \/ MovesNext(fl, p, t, cn, n, i, r, c, f)
                      \/ QueuesNext(fl, p, t, cn, n, i, r, c, f)
<1>1. ASSUME NEW u \in Placings(fl, p, n),
             t = Tell(fl, p, "in_flight", -1) ++ u, cn = "held",
             i = 0, r = 0, c = 0, f = 1
      PROVE  Goal
  <2>1. u \in Scripts /\ ~Passing(u) /\ t \in Scripts /\ ~Passing(t)
    BY <1>0, <1>1, PlacingStarts, TellFirst
  <2>2. Working(fl, p, u, cn, n, 0, 0, 0, 0)
    BY <1>1 DEF Working
  <2>3. CountsNext(fl, p, t, cn, n, i, r, c, f)
    BY <1>1, <2>1, <2>2 DEF CountsNext, Shift
  <2> QED
    BY <2>1, <2>3
<1>2. ASSUME NEW u \in Placings(fl, p, n),
             t = Tell(fl, p, "connections", 1) ++ u, cn = "held",
             i = 0, r = 0, c = -1, f = 0
      PROVE  Goal
  <2>1. u \in Scripts /\ ~Passing(u) /\ t \in Scripts /\ ~Passing(t)
    BY <1>0, <1>2, PlacingStarts, TellFirst
  <2>2. Working(fl, p, u, cn, n, 0, 0, 0, 0)
    BY <1>2 DEF Working
  <2>3. CountsNext(fl, p, t, cn, n, i, r, c, f)
    BY <1>2, <2>1, <2>2 DEF CountsNext, Shift
  <2> QED
    BY <2>1, <2>3
<1>3. CASE /\ t \in Placings(fl, p, n) /\ cn = "held"
           /\ i = 0 /\ r = 0 /\ c = 0 /\ f = 0
  BY <1>0, <1>3, PlacingStarts, PlacingSteps
<1>4. ASSUME NEW u \in Placings(fl, p, n),
             t = Tell(fl, p, "reservations", -1) ++ u, cn = "held",
             i = 0, r = 1, c = 0, f = 0
      PROVE  Goal
  <2>1. u \in Scripts /\ ~Passing(u) /\ t \in Scripts /\ ~Passing(t)
    BY <1>0, <1>4, PlacingStarts, TellFirst
  <2>2. Working(fl, p, u, cn, n, 0, 0, 0, 0)
    BY <1>4 DEF Working
  <2>3. CountsNext(fl, p, t, cn, n, i, r, c, f)
    BY <1>4, <2>1, <2>2 DEF CountsNext, Shift
  <2> QED
    BY <2>1, <2>3
<1> DEFINE w == Tell(fl, p, "in_flight", 1)
           v == Tell(fl, p, "reservations", -1) ++ w
<1>5. /\ w \in Scripts /\ ~Passing(w) /\ w = w ++ <<>>
      /\ v \in Scripts /\ ~Passing(v)
  <2>1. w \in Scripts /\ ~Passing(w) /\ w = w ++ <<>>
    BY <1>0, TellAlone
  <2> HIDE DEF w
  <2> QED
    BY <1>0, <2>1, TellFirst
<1>6. CASE /\ t = HandOver(fl, p) /\ cn = "held" /\ n < Limit
           /\ i = 0 /\ r = 1 /\ c = 0 /\ f = 0
  <2>1. t = Move(p, "out") ++ v /\ t \in Scripts /\ ~Passing(t)
    BY <1>6, PartTypes DEF HandOver
  <2>2. Working(fl, p, v, "out", n, 0, 1, 0, -1)
    BY <1>6 DEF Working
  <2>3. MovesNext(fl, p, t, cn, n, i, r, c, f)
    <3> HIDE DEF v
    <3> QED
      BY <1>5, <1>6, <2>1, <2>2 DEF MovesNext, One
  <2> QED
    BY <2>1, <2>3
<1>7. CASE /\ t = v /\ cn # "held" /\ n < Limit
           /\ i = 0 /\ r = 1 /\ c = 0 /\ f = -1
  <2>1. Working(fl, p, w, cn, n, 0, 0, 0, -1)
    BY <1>7 DEF Working
  <2>2. CountsNext(fl, p, t, cn, n, i, r, c, f)
    <3> HIDE DEF w
    <3> QED
      BY <1>5, <1>7, <2>1 DEF CountsNext, Shift
  <2> QED
    BY <1>5, <1>7, <2>2
<1>8. CASE /\ t = w /\ cn # "held"
           /\ i = 0 /\ r = 0 /\ c = 0 /\ f = -1
  <2>1. Working(fl, p, <<>>, cn, n, 0, 0, 0, 0)
    BY <1>8 DEF Working
  <2>2. <<>> \in Scripts /\ ~Passing(<<>>)
    BY NoScript DEF Passing
  <2>3. CountsNext(fl, p, t, cn, n, i, r, c, f)
    BY <1>5, <1>8, <2>1, <2>2 DEF CountsNext, Shift
  <2> QED
    BY <1>5, <1>8, <2>3
<1>9. CASE /\ t = Move(p, "idle") /\ cn = "held"
           /\ i = 1 /\ r = 0 /\ c = 0 /\ f = 0
  <2>1. Working(fl, p, <<>>, "idle", n, 0, 0, 0, 0)
    BY DEF Working
  <2>2. <<>> \in Scripts /\ ~Passing(<<>>)
    BY NoScript DEF Passing
  <2>3. t \in Scripts /\ ~Passing(t) /\ t = t ++ <<>>
    BY <1>0, <1>9, <2>2, StepTypes, MoveFirst, NothingMore
  <2>4. MovesNext(fl, p, t, cn, n, i, r, c, f)
    BY <1>9, <2>1, <2>2, <2>3 DEF MovesNext, One
  <2> QED
    BY <2>3, <2>4
<1>10. ASSUME NEW u \in Sendings(fl, p),
              t = Move(p, "held") ++ (Tell(fl, p, "idle", -1) ++ u),
              cn = "idle", i = 0, r = 0, c = 0, f = 0
       PROVE  Goal
  <2> DEFINE x == Tell(fl, p, "idle", -1) ++ u
  <2>1. x \in Scripts /\ ~Passing(x)
    BY <1>0, SendingStarts, TellFirst
  <2>2. Working(fl, p, x, "held", n, 1, 0, 0, 0)
    BY DEF Working
  <2> HIDE DEF x
  <2>3. t = Move(p, "held") ++ x
    BY <1>10 DEF x
  <2>4. t \in Scripts /\ ~Passing(t)
    BY <1>0, <2>1, <2>3, MoveFirst
  <2>5. MovesNext(fl, p, t, cn, n, i, r, c, f)
    BY <1>10, <2>1, <2>2, <2>3 DEF MovesNext, One
  <2> QED
    BY <2>4, <2>5
<1>11. ASSUME NEW u \in Sendings(fl, p),
              t = Tell(fl, p, "idle", -1) ++ u,
              cn = "held", i = 1, r = 0, c = 0, f = 0
       PROVE  Goal
  <2>1. u \in Scripts /\ ~Passing(u) /\ t \in Scripts /\ ~Passing(t)
    BY <1>0, <1>11, SendingStarts, TellFirst
  <2>2. Working(fl, p, u, cn, n, 0, 0, 0, 0)
    BY <1>11 DEF Working
  <2>3. CountsNext(fl, p, t, cn, n, i, r, c, f)
    BY <1>11, <2>1, <2>2 DEF CountsNext, Shift
  <2> QED
    BY <2>1, <2>3
<1>12. CASE /\ t \in Sendings(fl, p) /\ cn = "held"
            /\ i = 0 /\ r = 0 /\ c = 0 /\ f = 0
  BY <1>12, SendingStarts, SendingSteps
<1>13. CASE /\ t \in Cleanups(fl, p, n) /\ cn # "held"
            /\ i = 0 /\ r = 0 /\ c = 0 /\ f = 0
  BY <1>0, <1>13, CleanupStarts, CleanupSteps
<1>14. ASSUME n > 0, NEW u \in Cleanups(fl, p, n - 1),
              t = Queue(p, -1) ++ u, cn # "held",
              i = 0, r = -1, c = 0, f = 0
       PROVE  Goal
  <2>1. n - 1 \in Nat /\ n + (-1) = n - 1 /\ n - 1 \in 0..Limit
    BY <1>0, <1>14
  <2>2. u \in Scripts /\ ~Passing(u)
    BY <1>14, <2>1, CleanupStarts
  <2>3. t \in Scripts /\ ~Passing(t)
    BY <1>14, <2>2, QueueFirst
  <2>4. Working(fl, p, u, cn, n - 1, 0, 0, 0, 0)
    BY <1>14 DEF Working
  <2>5. QueuesNext(fl, p, t, cn, n, i, r, c, f)
    BY <1>14, <2>1, <2>2, <2>4 DEF QueuesNext
  <2> QED
    BY <2>3, <2>5
<1>15. CASE /\ t = Tell(fl, p, "reservations", 1) /\ cn # "held"
            /\ i = 0 /\ r = -1 /\ c = 0 /\ f = 0
  <2>1. Working(fl, p, <<>>, cn, n, 0, 0, 0, 0)
    BY <1>15 DEF Working
  <2>2. <<>> \in Scripts /\ ~Passing(<<>>)
    BY NoScript DEF Passing
  <2>3. t \in Scripts /\ ~Passing(t) /\ t = t ++ <<>>
    BY <1>0, <1>15, TellAlone
  <2>4. CountsNext(fl, p, t, cn, n, i, r, c, f)
    BY <1>15, <2>1, <2>2, <2>3 DEF CountsNext, Shift
  <2> QED
    BY <2>3, <2>4
<1> HIDE DEF Goal
<1> QED
  BY <1>1, <1>2, <1>3, <1>4, <1>6, <1>7, <1>8, <1>9, <1>10, <1>11, <1>12,
     <1>13, <1>14, <1>15 DEF Working, Goal

\* While the connection is moved by others, the consumer has no business with
\* it.
LEMMA WorkingElsewhere ==
  ASSUME NEW p, NEW fl, NEW t, NEW cn, NEW cn2, NEW n,
         NEW i, NEW r, NEW c, NEW f, Working(fl, p, t, cn, n, i, r, c, f),
         cn \notin {"held", "idle"}, cn2 \notin {"held", "idle"}
  PROVE  Working(fl, p, t, cn2, n, i, r, c, f)
BY DEF Working

\* A script has a step.
Has(s, x) == \E j \in DOMAIN s : s[j] = x

LEMMA HasAfter ==
  ASSUME NEW s \in Scripts, NEW t \in Scripts, NEW x, Has(t, x)
  PROVE  Has(s ++ t, x)
<1> HIDE DEF Steps
<1>1. s \in Seq(Steps) /\ t \in Seq(Steps)
  BY DEF Scripts
<1>2. PICK j \in DOMAIN t : t[j] = x
  BY DEF Has
<1>3. j \in 1..Len(t) /\ Len(s) + j \in 1..Len(s \o t)
      /\ (s \o t)[Len(s) + j] = t[j]
  BY <1>1
<1>4. Len(s) + j \in DOMAIN (s \o t)
  BY <1>1, <1>3
<1> QED
  BY <1>2, <1>3, <1>4 DEF Has, ++

LEMMA HasTell ==
  ASSUME NEW p \in SubPools, NEW counter \in ToSet(Counters),
         NEW b \in {-1, 1}, NEW fl
  PROVE  Has(Tell(fl, p, counter, b), OwnStep(p, counter, b))
<1> DEFINE x == OwnStep(p, counter, b)
           t == Pass(fl, p, counter, b)
<1>1. x \in Steps /\ t \in Scripts
  BY StepTypes DEF Places
<1> HIDE DEF x, t, Steps
<1>2. (<<x>> \o t)[1] = x /\ 1 \in DOMAIN (<<x>> \o t)
  BY <1>1 DEF Scripts
<1> QED
  BY <1>2 DEF Has, Tell, ++, x, t

\* How much a consumer can leave to be counted.
LEMMA WorkingBounds ==
  ASSUME NEW p \in SubPools, NEW fl, NEW t, NEW cn, NEW n \in 0..Limit,
         NEW i, NEW r, NEW c, NEW f, Working(fl, p, t, cn, n, i, r, c, f)
  PROVE  /\ i \in 0..1 /\ (i = 1 => cn = "held")
         /\ r \in -1..1 /\ n + r \in 0..Limit
         /\ c \in -1..0 /\ (c = -1 => cn = "held")
         /\ f \in -1..1 /\ (f = 1 => cn = "held")
         /\ f = -1 => cn # "held" /\ Has(t, OwnStep(p, "in_flight", 1))
<1>0. /\ n \in Nat /\ n <= Limit /\ Limit \in Nat
      /\ "in_flight" \in ToSet(Counters) /\ "reservations" \in ToSet(Counters)
  BY SizesAssumption, CounterNames
<1> DEFINE w == Tell(fl, p, "in_flight", 1)
           v == Tell(fl, p, "reservations", -1) ++ w
           x == OwnStep(p, "in_flight", 1)
<1>1. Has(w, x) /\ Has(v, x)
  <2>1. Has(w, x)
    BY <1>0, HasTell
  <2>2. w \in Scripts /\ Tell(fl, p, "reservations", -1) \in Scripts
    BY <1>0, TellAlone
  <2> HIDE DEF w, x
  <2> QED
    BY <2>1, <2>2, HasAfter
<1>2. f = -1 => cn # "held" /\ (t = w \/ t = v)
  BY DEF Working
<1>3. f = -1 => cn # "held" /\ Has(t, x)
  BY <1>1, <1>2
<1>4. /\ i \in 0..1 /\ (i = 1 => cn = "held")
      /\ r \in -1..1 /\ n + r \in 0..Limit
      /\ c \in -1..0 /\ (c = -1 => cn = "held")
      /\ f \in -1..1 /\ (f = 1 => cn = "held")
  BY <1>0 DEF Working
<1> QED
  BY <1>3, <1>4

\* The next step of a consumer that has ended.
CountsLast(fl, p, t, cn, i, c, f) ==
  \E counter \in {"idle", "connections", "in_flight"}, u \in Scripts :
    /\ t = Tell(fl, p, counter, -1) ++ u /\ ~Passing(u)
    /\ counter = "connections" => cn = "idle"
    /\ Ending(fl, p, u, cn,
              i + Shift(counter, "idle", -1),
              c + Shift(counter, "connections", -1),
              f + Shift(counter, "in_flight", -1))

LEMMA EndingSteps ==
  ASSUME NEW p \in SubPools, NEW fl, NEW t, t # <<>>, NEW cn,
         NEW i, NEW c, NEW f, Ending(fl, p, t, cn, i, c, f)
  PROVE  /\ t \in Scripts /\ ~Passing(t)
         /\ \/ CountsLast(fl, p, t, cn, i, c, f)
            \/ t = Move(p, "gone") ++ <<>> /\ cn = "idle"
                 /\ i = -1 /\ c = -1 /\ f = 0
<1>0. /\ "in_flight" \in ToSet(Counters) /\ "connections" \in ToSet(Counters)
      /\ "idle" \in ToSet(Counters) /\ "gone" \in Places
      /\ <<>> \in Scripts /\ ~Passing(<<>>)
  BY CounterNames, NoScript DEF Places, Passing
<1> DEFINE g == Move(p, "gone")
           v == Tell(fl, p, "connections", -1) ++ g
           w == Tell(fl, p, "idle", -1) ++ v
           Goal == /\ t \in Scripts /\ ~Passing(t)
                   /\ \/ CountsLast(fl, p, t, cn, i, c, f)
                      \/ t = g ++ <<>> /\ cn = "idle"
                           /\ i = -1 /\ c = -1 /\ f = 0
<1>1. g \in Scripts /\ ~Passing(g) /\ g = g ++ <<>>
  BY <1>0, StepTypes, MoveFirst, NothingMore
<1>2. v \in Scripts /\ ~Passing(v)
  <2> HIDE DEF g
  <2> QED
    BY <1>0, <1>1, TellFirst
<1>3. w \in Scripts /\ ~Passing(w)
  <2> HIDE DEF v
  <2> QED
    BY <1>0, <1>2, TellFirst
<1>4. CASE /\ t = Tell(fl, p, "in_flight", -1) /\ cn # "idle"
           /\ i = 0 /\ c = 0 /\ f = 1
  <2>1. t \in Scripts /\ ~Passing(t) /\ t = t ++ <<>>
    BY <1>0, <1>4, TellAlone
  <2>2. Ending(fl, p, <<>>, cn, 0, 0, 0)
    BY <1>4 DEF Ending
  <2>3. CountsLast(fl, p, t, cn, i, c, f)
    BY <1>0, <1>4, <2>1, <2>2 DEF CountsLast, Shift
  <2> QED
    BY <2>1, <2>3
<1>5. CASE /\ t = w /\ cn = "idle" /\ i = 0 /\ c = 0 /\ f = 0
  <2>1. Ending(fl, p, v, cn, -1, 0, 0)
    BY <1>5 DEF Ending
  <2>2. CountsLast(fl, p, t, cn, i, c, f)
    <3> HIDE DEF v
    <3> QED
      BY <1>2, <1>5, <2>1 DEF CountsLast, Shift
  <2> QED
    BY <1>3, <1>5, <2>2
<1>6. CASE /\ t = v /\ cn = "idle" /\ i = -1 /\ c = 0 /\ f = 0
  <2>1. Ending(fl, p, g, cn, -1, -1, 0)
    BY <1>6 DEF Ending
  <2>2. CountsLast(fl, p, t, cn, i, c, f)
    <3> HIDE DEF g
    <3> QED
      BY <1>1, <1>6, <2>1 DEF CountsLast, Shift
  <2> QED
    BY <1>2, <1>6, <2>2
<1>7. CASE /\ t = g /\ cn = "idle" /\ i = -1 /\ c = -1 /\ f = 0
  BY <1>1, <1>7
<1> QED
  BY <1>4, <1>5, <1>6, <1>7, Zenon DEF Ending

LEMMA NothingLast ==
  ASSUME NEW p \in SubPools, NEW fl, NEW cn, NEW i, NEW c, NEW f,
         Ending(fl, p, <<>>, cn, i, c, f)
  PROVE  cn # "idle" /\ i = 0 /\ c = 0 /\ f = 0
<1>0. /\ "in_flight" \in ToSet(Counters) /\ "connections" \in ToSet(Counters)
      /\ "idle" \in ToSet(Counters) /\ "gone" \in Places
  BY CounterNames DEF Places
<1> DEFINE g == Move(p, "gone")
           v == Tell(fl, p, "connections", -1) ++ g
           w == Tell(fl, p, "idle", -1) ++ v
<1>1. g \in Scripts /\ g # <<>>
  BY <1>0, StepTypes, MoveFirst, NoScript
<1>2. v \in Scripts /\ v # <<>>
  <2> HIDE DEF g
  <2> QED
    BY <1>0, <1>1, TellFirst
<1>3. w # <<>>
  <2> HIDE DEF v
  <2> QED
    BY <1>0, <1>2, TellFirst
<1>4. Tell(fl, p, "in_flight", -1) # <<>>
  BY <1>0, TellAlone
<1> QED
  BY <1>1, <1>2, <1>3, <1>4 DEF Ending

LEMMA EndingElsewhere ==
  ASSUME NEW p, NEW fl, NEW t, NEW cn, NEW cn2, NEW i, NEW c, NEW f,
         Ending(fl, p, t, cn, i, c, f), cn # "idle", cn2 # "idle"
  PROVE  Ending(fl, p, t, cn2, i, c, f)
BY DEF Ending

LEMMA EndingBounds ==
  ASSUME NEW p, NEW fl, NEW t, NEW cn, NEW i, NEW c, NEW f,
         Ending(fl, p, t, cn, i, c, f)
  PROVE  /\ i \in -1..0 /\ (i = -1 => cn = "idle")
         /\ c \in -1..0 /\ (c = -1 => cn = "idle")
         /\ f \in 0..1
BY DEF Ending

-----------------------------------------------------------------------------
(* The steps of an actor, by what its script begins with.                  *)

LEMMA ActorTypes ==
  /\ Main \in Actors
  /\ \A p \in SubPools : Consumer(p) \in Actors /\ Dropper(p) \in Actors
  /\ \A a \in Actors :
       \/ a = Main
       \/ \E p \in SubPools : a = Consumer(p) \/ a = Dropper(p)
  /\ \A p \in SubPools, q \in SubPools :
       /\ Consumer(p) # Dropper(q)
       /\ Consumer(p) # Main /\ Dropper(p) # Main
       /\ p # q => Consumer(p) # Consumer(q) /\ Dropper(p) # Dropper(q)
BY DEF Actors, Consumer, Dropper, Main

LEMMA OwnTaken ==
  ASSUME NEW a \in Actors, Step(a), NEW p \in SubPools,
         NEW counter \in ToSet(Counters), NEW b \in {-1, 1},
         NEW u \in Scripts, script[a] = Tell(flavour, p, counter, b) ++ u
  PROVE  /\ own' = [own EXCEPT ![p][counter] = @ + b]
         /\ script' = [script EXCEPT ![a] = Pass(flavour, p, counter, b) ++ u]
         /\ UNCHANGED <<flavour, user, pool, reader>>
<1>1. /\ Head(script[a]) = OwnStep(p, counter, b)
      /\ Tail(script[a]) = Pass(flavour, p, counter, b) ++ u
  BY TellFirst
<1>2. /\ Head(script[a]).does = "own" /\ Head(script[a]).pool = p
      /\ Head(script[a]).counter = counter /\ Head(script[a]).by = b
  BY <1>1 DEF OwnStep
<1>3. CountOwn(a)
  BY <1>2 DEF Step, CountUser, MoveConnection, ChangeQueue, CreateConnection,
              TakeStep
<1> QED
  BY <1>1, <1>2, <1>3 DEF CountOwn, TakeStep

LEMMA UserTaken ==
  ASSUME NEW a \in Actors, Step(a), Passing(script[a])
  PROVE  LET s == Head(script[a])
         IN  /\ user' = [user EXCEPT ![s.counter] = @ + s.by]
             /\ script' = [script EXCEPT ![a] = Core(script[a])]
             /\ UNCHANGED <<flavour, own, pool, reader>>
<1>1. CountUser(a)
  BY DEF Step, CountOwn, MoveConnection, ChangeQueue, CreateConnection,
         TakeStep, Passing
<1> QED
  BY <1>1 DEF CountUser, TakeStep, Passing, Core

LEMMA MoveTaken ==
  ASSUME NEW a \in Actors, Step(a), NEW p \in SubPools, NEW place \in Places,
         NEW u \in Scripts, script[a] = Move(p, place) ++ u
  PROVE  /\ conn' = [conn EXCEPT ![p] = place]
         /\ script' = [script EXCEPT ![a] = u]
         /\ UNCHANGED <<counters, built, ended, alive, inbox, queue, received,
                        reader>>
<1>1. Head(script[a]) = Head(Move(p, place)) /\ Tail(script[a]) = u
  BY MoveFirst
<1>2. /\ Head(script[a]).does = "move" /\ Head(script[a]).pool = p
      /\ Head(script[a]).to = place
  BY <1>1 DEF Move
<1>3. MoveConnection(a)
  BY <1>2 DEF Step, CountOwn, CountUser, ChangeQueue, CreateConnection,
              TakeStep
<1> QED
  BY <1>1, <1>2, <1>3 DEF MoveConnection, TakeStep

LEMMA QueueTaken ==
  ASSUME NEW a \in Actors, Step(a), NEW p \in SubPools, NEW b \in {-1, 1},
         NEW u \in Scripts, script[a] = Queue(p, b) ++ u
  PROVE  /\ queue' = [queue EXCEPT ![p] = @ + b]
         /\ script' = [script EXCEPT ![a] = u]
         /\ UNCHANGED <<counters, built, ended, alive, conn, inbox, received,
                        reader>>
<1>1. Head(script[a]) = Head(Queue(p, b)) /\ Tail(script[a]) = u
  BY QueueFirst
<1>2. /\ Head(script[a]).does = "queue" /\ Head(script[a]).pool = p
      /\ Head(script[a]).by = b
  BY <1>1 DEF Queue
<1>3. ChangeQueue(a)
  BY <1>2 DEF Step, CountOwn, CountUser, MoveConnection, CreateConnection,
              TakeStep
<1> QED
  BY <1>1, <1>2, <1>3 DEF ChangeQueue, TakeStep

LEMMA CreateTaken ==
  ASSUME NEW a \in Actors, Step(a), NEW p \in SubPools,
         script[a] = Create(p)
  PROVE  /\ conn' = [conn EXCEPT ![p] =
                       IF alive[p] THEN "connecting" ELSE "gone"]
         /\ script' = [script EXCEPT ![a] = <<>>]
         /\ UNCHANGED <<counters, built, ended, alive, inbox, queue, received,
                        reader>>
<1>1. /\ Head(script[a]).does = "create" /\ Head(script[a]).pool = p
      /\ Tail(script[a]) = <<>>
  BY DEF Create
<1>2. CreateConnection(a)
  BY <1>1 DEF Step, CountOwn, CountUser, MoveConnection, ChangeQueue, TakeStep
<1> QED
  BY <1>1, <1>2 DEF CreateConnection, TakeStep

LEMMA NotFree ==
  ASSUME NEW a \in Actors, Step(a)
  PROVE  script[a] # <<>>
BY DEF Step, CountOwn, CountUser, MoveConnection, ChangeQueue,
       CreateConnection, TakeStep, Free

-----------------------------------------------------------------------------
(* A consumer's step keeps the counters of its sub pool balanced.          *)

Records == [ToSet(Counters) -> Int]

\* It counts an event, it moves the connection, or it changes the reservations.
CountsBalanced(fl, p, t, cn, living, n, o, k, d) ==
  \E counter \in {"idle", "reservations", "connections", "in_flight"},
     b \in {-1, 1}, v \in Scripts :
    /\ t = Tell(fl, p, counter, b) ++ v /\ ~Passing(v)
    /\ counter = "connections" => cn \in {"held", "idle"}
    /\ b = 1 => living
    /\ Balanced(fl, p, v, cn, living, n, [o EXCEPT ![counter] = @ + b], k, d)

MovesBalanced(fl, p, t, cn, living, n, o, k, d) ==
  \E x \in {"idle", "out", "held", "gone"}, v \in Scripts :
    /\ t = Move(p, x) ++ v /\ ~Passing(v)
    /\ cn \in {"held", "idle"}
    /\ Balanced(fl, p, v, x, living, n, o, k, d)

QueuesBalanced(fl, p, t, cn, living, n, o, k, d) ==
  \E b \in {-1, 1}, v \in Scripts :
    /\ t = Queue(p, b) ++ v /\ ~Passing(v)
    /\ n + b \in 0..Limit
    /\ Balanced(fl, p, v, cn, living, n + b, o, k, d)

LEMMA BalancedCounts ==
  ASSUME NEW p \in SubPools, NEW fl, NEW t, NEW cn, NEW living \in BOOLEAN,
         NEW n \in 0..Limit, NEW o \in Records, NEW k, NEW d,
         NEW i \in -1..1, NEW r \in -1..1, NEW c \in -1..0, NEW f \in -1..1,
         o.idle = One(cn = "idle") + i,
         o.connections = Present(cn, k, d) + c,
         living,
         o.reservations = n + r,
         o.in_flight = Lent(cn, k, d) + f,
         CountsNext(fl, p, t, cn, n, i, r, c, f)
  PROVE  CountsBalanced(fl, p, t, cn, living, n, o, k, d)
<1>1. PICK counter \in {"idle", "reservations", "connections", "in_flight"},
           b \in {-1, 1}, v \in Scripts :
        /\ t = Tell(fl, p, counter, b) ++ v /\ ~Passing(v)
        /\ counter = "connections" => cn = "held"
        /\ Working(fl, p, v, cn, n,
                   i + Shift(counter, "idle", b),
                   r + Shift(counter, "reservations", b),
                   c + Shift(counter, "connections", b),
                   f + Shift(counter, "in_flight", b))
  BY DEF CountsNext
<1> DEFINE o2 == [o EXCEPT ![counter] = @ + b]
           i2 == i + Shift(counter, "idle", b)
           r2 == r + Shift(counter, "reservations", b)
           c2 == c + Shift(counter, "connections", b)
           f2 == f + Shift(counter, "in_flight", b)
<1>2. i2 \in -1..1 /\ r2 \in -1..1 /\ c2 \in -1..0 /\ f2 \in -1..1
  <2> HIDE DEF i2, r2, c2, f2
  <2>1. Working(fl, p, v, cn, n, i2, r2, c2, f2)
    BY <1>1 DEF i2, r2, c2, f2
  <2> QED
    BY <2>1, WorkingBounds
<1>3. /\ o2.idle = o.idle + Shift(counter, "idle", b)
      /\ o2.reservations = o.reservations + Shift(counter, "reservations", b)
      /\ o2.connections = o.connections + Shift(counter, "connections", b)
      /\ o2.in_flight = o.in_flight + Shift(counter, "in_flight", b)
  BY CounterNames DEF Records, Shift
<1>4. Shift(counter, "idle", b) \in Int /\ Shift(counter, "reservations", b) \in Int
      /\ Shift(counter, "connections", b) \in Int
      /\ Shift(counter, "in_flight", b) \in Int
  BY DEF Shift
<1> DEFINE e1 == One(cn = "idle")
           e2 == Present(cn, k, d)
           e4 == Lent(cn, k, d)
<1>5. e1 \in Int /\ e2 \in Int /\ e4 \in Int
  BY DEF One, Present, Lent
<1> HIDE DEF o2, e1, e2, e4
<1>6. /\ o2.idle = e1 + i2
      /\ o2.connections = e2 + c2
      /\ o2.reservations = n + r2
      /\ o2.in_flight = e4 + f2
  <2>1. o.idle = e1 + i /\ o.connections = e2 + c
        /\ o.in_flight = e4 + f
    BY DEF e1, e2, e4
  <2>2. n \in Int
    BY <1>5, SizesAssumption
  <2>3. /\ (e1 + i) + Shift(counter, "idle", b) = e1 + i2
        /\ (e2 + c) + Shift(counter, "connections", b) = e2 + c2
        /\ (n + r) + Shift(counter, "reservations", b) = n + r2
        /\ (e4 + f) + Shift(counter, "in_flight", b) = e4 + f2
    BY <1>4, <1>5, <2>2
  <2> QED
    BY <1>3, <2>1, <2>3, Zenon
<1> HIDE DEF i2, r2, c2, f2
<1>7. Working(fl, p, v, cn, n, i2, r2, c2, f2)
  BY <1>1 DEF i2, r2, c2, f2
<1>8. Balanced(fl, p, v, cn, living, n, o2, k, d)
  BY <1>2, <1>6, <1>7 DEF Balanced, e1, e2, e4
<1> QED
  BY <1>1, <1>8 DEF o2, CountsBalanced

LEMMA BalancedLast ==
  ASSUME NEW p \in SubPools, NEW fl, NEW t, NEW cn, cn # "held",
         NEW o \in Records, NEW k, NEW d,
         NEW i \in -1..1, NEW c \in -1..0, NEW f \in -1..1, NEW g \in -1..0,
         o.idle = One(cn = "idle") + i,
         o.connections = Present(cn, k, d) + c,
         o.reservations \in 0..Limit,
         o.in_flight = f + g,
         d \in 2..3 \/ cn = "out" => g = 0,
         CountsLast(fl, p, t, cn, i, c, f)
  PROVE  CountsBalanced(fl, p, t, cn, FALSE, 0, o, k, d)
<1>1. PICK counter \in {"idle", "connections", "in_flight"}, v \in Scripts :
        /\ t = Tell(fl, p, counter, -1) ++ v /\ ~Passing(v)
        /\ counter = "connections" => cn = "idle"
        /\ Ending(fl, p, v, cn,
                  i + Shift(counter, "idle", -1),
                  c + Shift(counter, "connections", -1),
                  f + Shift(counter, "in_flight", -1))
  BY DEF CountsLast
<1> DEFINE o2 == [o EXCEPT ![counter] = @ + (-1)]
           i2 == i + Shift(counter, "idle", -1)
           c2 == c + Shift(counter, "connections", -1)
           f2 == f + Shift(counter, "in_flight", -1)
<1>2. i2 \in -1..0 /\ c2 \in -1..0 /\ f2 \in 0..1
  <2> HIDE DEF i2, c2, f2
  <2>1. Ending(fl, p, v, cn, i2, c2, f2)
    BY <1>1 DEF i2, c2, f2
  <2> QED
    BY <2>1, EndingBounds
<1>3. /\ o2.idle = o.idle + Shift(counter, "idle", -1)
      /\ o2.reservations = o.reservations
      /\ o2.connections = o.connections + Shift(counter, "connections", -1)
      /\ o2.in_flight = o.in_flight + Shift(counter, "in_flight", -1)
  BY CounterNames DEF Records, Shift
<1>4. /\ Shift(counter, "idle", -1) \in Int
      /\ Shift(counter, "connections", -1) \in Int
      /\ Shift(counter, "in_flight", -1) \in Int
  BY DEF Shift
<1> DEFINE e1 == One(cn = "idle")
           e2 == Present(cn, k, d)
<1>5. e1 \in Int /\ e2 \in Int
  BY DEF One, Present
<1> HIDE DEF o2, e1, e2
<1>6. /\ o2.idle = e1 + i2
      /\ o2.connections = e2 + c2
      /\ o2.in_flight = f2 + g
  <2>1. o.idle = e1 + i /\ o.connections = e2 + c
    BY DEF e1, e2
  <2>2. /\ (e1 + i) + Shift(counter, "idle", -1) = e1 + i2
        /\ (e2 + c) + Shift(counter, "connections", -1) = e2 + c2
        /\ (f + g) + Shift(counter, "in_flight", -1) = f2 + g
    BY <1>4, <1>5
  <2> QED
    BY <1>3, <2>1, <2>2, Zenon
<1> HIDE DEF i2, c2, f2
<1>7. Ending(fl, p, v, cn, i2, c2, f2)
  BY <1>1 DEF i2, c2, f2
<1>8. Balanced(fl, p, v, cn, FALSE, 0, o2, k, d)
  <2>1. i2 \in -1..1 /\ c2 \in -1..0 /\ f2 \in -1..1 /\ 0 \in -1..1
    BY <1>2
  <2> QED
    BY <1>3, <1>6, <1>7, <2>1 DEF Balanced, e1, e2
<1>9. -1 \in {-1, 1} /\ -1 # 1
      /\ counter \in {"idle", "reservations", "connections", "in_flight"}
      /\ (counter = "connections" => cn \in {"held", "idle"})
  BY <1>1
<1> QED
  BY <1>1, <1>8, <1>9, Zenon DEF o2, CountsBalanced

\* Whatever the consumer of a sub pool does next: it counts an event, it moves
\* the connection, or it changes the reservations.
LEMMA BalancedSteps ==
  ASSUME NEW p \in SubPools, NEW fl, NEW t, t # <<>>, NEW cn,
         NEW living \in BOOLEAN, NEW n \in 0..Limit, NEW o \in Records,
         NEW k, NEW d, k = "none" <=> cn # "inbox", d > 0 <=> cn = "broken",
         d \in 0..3,
         Balanced(fl, p, t, cn, living, n, o, k, d)
  PROVE  /\ t \in Scripts /\ ~Passing(t)
         /\ \/ CountsBalanced(fl, p, t, cn, living, n, o, k, d)
            \/ MovesBalanced(fl, p, t, cn, living, n, o, k, d)
            \/ QueuesBalanced(fl, p, t, cn, living, n, o, k, d)
<1>1. PICK i \in -1..1, r \in -1..1, c \in -1..0, f \in -1..1 :
        /\ o.idle = One(cn = "idle") + i
        /\ o.connections = Present(cn, k, d) + c
        /\ \/ /\ living
              /\ Working(fl, p, t, cn, n, i, r, c, f)
              /\ o.reservations = n + r
              /\ o.in_flight = Lent(cn, k, d) + f
           \/ /\ ~living
              /\ Ending(fl, p, t, cn, i, c, f)
              /\ n = 0 /\ o.reservations \in 0..Limit
              /\ cn # "held"
              /\ \E g \in -1..0 :
                   /\ o.in_flight = f + g
                   /\ d \in 2..3 \/ cn = "out" => g = 0
  BY Zenon DEF Balanced
<1>2. CASE living
  <2>1. /\ Working(fl, p, t, cn, n, i, r, c, f)
        /\ o.reservations = n + r
        /\ o.in_flight = Lent(cn, k, d) + f
    BY <1>1, <1>2
  <2>2. t \in Scripts /\ ~Passing(t)
    BY <2>1, WorkingSteps
  <2>3. CASE CountsNext(fl, p, t, cn, n, i, r, c, f)
    <3>1. CountsBalanced(fl, p, t, cn, living, n, o, k, d)
      BY <1>1, <1>2, <2>1, <2>3, BalancedCounts
    <3> QED
      BY <2>2, <3>1
  <2>4. CASE MovesNext(fl, p, t, cn, n, i, r, c, f)
    <3>1. PICK x \in {"idle", "out", "held"}, v \in Scripts :
            /\ t = Move(p, x) ++ v /\ ~Passing(v)
            /\ cn \in {"held", "idle"}
            /\ Working(fl, p, v, x, n, (i + One(cn = "idle")) - One(x = "idle"),
                       r, c, f - One(x = "out"))
      BY <2>4 DEF MovesNext
    <3> DEFINE i2 == (i + One(cn = "idle")) - One(x = "idle")
               f2 == f - One(x = "out")
    <3>2. Working(fl, p, v, x, n, i2, r, c, f2)
      BY <3>1
    <3>3. k = "none" /\ ~(d \in 2..3)
      BY <3>1
    <3>4. /\ Present(x, k, d) = Present(cn, k, d)
          /\ Lent(cn, k, d) = 0 /\ Lent(x, k, d) = One(x = "out")
      BY <3>1, <3>3 DEF One, Present, Lent
    <3>5. /\ o.idle = One(x = "idle") + i2
          /\ o.in_flight = Lent(x, k, d) + f2
      BY <1>1, <2>1, <3>4 DEF One
    <3> HIDE DEF i2, f2
    <3>6. i2 \in -1..1 /\ f2 \in -1..1
      BY <3>2, WorkingBounds
    <3>7. o.connections = Present(x, k, d) + c
      BY <1>1, <3>4
    <3>8. Balanced(fl, p, v, x, living, n, o, k, d)
      BY <1>2, <2>1, <3>2, <3>5, <3>6, <3>7, Zenon DEF Balanced
    <3>9. x \in {"idle", "out", "held", "gone"}
      OBVIOUS
    <3> QED
      BY <2>2, <3>1, <3>8, <3>9, Zenon DEF MovesBalanced
  <2>5. CASE QueuesNext(fl, p, t, cn, n, i, r, c, f)
    <3>1. PICK b \in {-1, 1}, v \in Scripts :
            /\ t = Queue(p, b) ++ v /\ ~Passing(v)
            /\ n + b \in 0..Limit
            /\ Working(fl, p, v, cn, n + b, i, r - b, c, f)
      BY <2>5 DEF QueuesNext
    <3>2. r - b \in -1..1
      BY <3>1, WorkingBounds
    <3>3. o.reservations = (n + b) + (r - b)
      BY <2>1, SizesAssumption
    <3> DEFINE n2 == n + b
               r2 == r - b
    <3>4. /\ Working(fl, p, v, cn, n2, i, r2, c, f)
          /\ r2 \in -1..1 /\ o.reservations = n2 + r2
      BY <3>1, <3>2, <3>3
    <3>5. Balanced(fl, p, v, cn, living, n2, o, k, d)
      <4> HIDE DEF n2, r2
      <4>1. /\ o.idle = One(cn = "idle") + i
            /\ o.connections = Present(cn, k, d) + c
            /\ o.in_flight = Lent(cn, k, d) + f
        BY <1>1, <2>1
      <4> QED
        BY <1>2, <3>4, <4>1 DEF Balanced
    <3> QED
      BY <2>2, <3>1, <3>5, Zenon DEF QueuesBalanced
  <2> QED
    BY <2>1, <2>3, <2>4, <2>5, WorkingSteps, Zenon
<1>3. CASE ~living
  <2>1. /\ Ending(fl, p, t, cn, i, c, f) /\ n = 0 /\ cn # "held"
        /\ o.reservations \in 0..Limit
    BY <1>1, <1>3
  <2>2. t \in Scripts /\ ~Passing(t)
    BY <2>1, EndingSteps
  <2>3. PICK g \in -1..0 : /\ o.in_flight = f + g
                           /\ d \in 2..3 \/ cn = "out" => g = 0
    BY <1>1, <1>3, Zenon
  <2>4. CASE CountsLast(fl, p, t, cn, i, c, f)
    <3>1. CountsBalanced(fl, p, t, cn, FALSE, 0, o, k, d)
      BY <1>1, <2>1, <2>3, <2>4, BalancedLast
    <3>2. living = FALSE
      BY <1>3
    <3> QED
      BY <2>1, <2>2, <3>1, <3>2, Zenon
  <2>5. CASE t = Move(p, "gone") ++ <<>> /\ cn = "idle"
               /\ i = -1 /\ c = -1 /\ f = 0
    <3>1. Ending(fl, p, <<>>, "gone", 0, 0, 0)
      BY DEF Ending
    <3>2. k = "none" /\ ~(d = 3)
      BY <2>5
    <3>3. /\ o.idle = One("gone" = "idle") + 0
          /\ o.connections = Present("gone", k, d) + 0
          /\ o.in_flight = 0 + g
      BY <1>1, <2>3, <2>5, <3>2 DEF One, Present
    <3>4. d \in 2..3 \/ "gone" = "out" => g = 0
      BY <2>3
    <3>5. 0 \in -1..1 /\ 0 \in -1..0 /\ "gone" # "held"
      OBVIOUS
    <3>6. Balanced(fl, p, <<>>, "gone", living, n, o, k, d)
      BY <1>3, <2>1, <3>1, <3>3, <3>4, <3>5 DEF Balanced
    <3>7. <<>> \in Scripts /\ ~Passing(<<>>)
      BY NoScript DEF Passing
    <3>8. "gone" \in {"idle", "out", "held", "gone"} /\ cn \in {"held", "idle"}
      BY <2>5
    <3> QED
      BY <2>2, <2>5, <3>6, <3>7, <3>8, Zenon DEF MovesBalanced
  <2> QED
    BY <2>1, <2>4, <2>5, EndingSteps
<1> QED
  BY <1>2, <1>3

-----------------------------------------------------------------------------
(* The sub pools stay as they have to be.                                  *)

\* What PoolOK says of p does not change.
Untouched(p) ==
  /\ flavour' = flavour
  /\ p > built => own'[p] = own[p]
  /\ own'[p].idle = own[p].idle
  /\ own'[p].reservations = own[p].reservations
  /\ own'[p].connections = own[p].connections
  /\ own'[p].in_flight = own[p].in_flight
  /\ conn'[p] = conn[p] /\ alive'[p] = alive[p]
  /\ inbox'[p] = inbox[p] /\ queue'[p] = queue[p]
  /\ script'[Consumer(p)] = script[Consumer(p)]
  /\ script'[Dropper(p)] = script[Dropper(p)]
  /\ p <= built' <=> p <= built
  /\ p <= ended' <=> p <= ended

LEMMA BalancedSame ==
  ASSUME NEW p, NEW fl, NEW t, NEW cn, NEW living, NEW n, NEW o, NEW o2,
         NEW k, NEW d, Balanced(fl, p, t, cn, living, n, o, k, d),
         o2.idle = o.idle, o2.reservations = o.reservations,
         o2.connections = o.connections, o2.in_flight = o.in_flight
  PROVE  Balanced(fl, p, t, cn, living, n, o2, k, d)
BY DEF Balanced

LEMMA PoolStays ==
  ASSUME TypeOK, TypeOK', NEW p \in SubPools, PoolOK(p), Untouched(p)
  PROVE  PoolOK(p)'
<1> USE DEF Untouched
<1>1. built \in Int /\ ended \in Int /\ built' \in Int /\ ended' \in Int
      /\ p \in Int
  BY SizesAssumption DEF TypeOK, SubPools
<1>2. (p > built <=> ~(p <= built)) /\ (p > built' <=> ~(p <= built'))
      /\ (p > ended <=> ~(p <= ended)) /\ (p > ended' <=> ~(p <= ended'))
  BY <1>1
<1>3. CASE p > built
  <2>1. Unborn(p)
    BY <1>2, <1>3, Zenon DEF PoolOK
  <2>2. Unborn(p)'
    BY <1>3, <2>1, Zenon DEF Unborn, Zero
  <2> QED
    BY <1>2, <1>3, <2>2, Zenon DEF PoolOK
<1>4. CASE p <= built
  <2>1. PICK k \in Kinds, d \in 0..3 :
          /\ Posted(inbox[p], conn[p], alive[p], p <= ended, k)
          /\ Dropping(flavour, p, script[Dropper(p)], conn[p], d)
          /\ Balanced(flavour, p, Core(script[Consumer(p)]), conn[p], alive[p],
                      queue[p], own[p], k, d)
    BY <1>2, <1>4, Zenon DEF PoolOK, Agrees
  <2>2. Balanced(flavour', p, Core(script'[Consumer(p)]), conn'[p], alive'[p],
                 queue'[p], own'[p], k, d)
    <3>1. Balanced(flavour, p, Core(script[Consumer(p)]), conn[p], alive[p],
                   queue[p], own'[p], k, d)
      BY <2>1, BalancedSame
    <3> QED
      BY <3>1
  <2>3. Dropping(flavour', p, script'[Dropper(p)], conn'[p], d)
    BY <2>1
  <2>4. Posted(inbox'[p], conn'[p], alive'[p], p <= ended', k)
    <3>1. (p <= ended') = (p <= ended)
      BY <1>1
    <3> QED
      BY <2>1, <3>1
  <2>5. p > ended' => alive'[p]
    BY <1>2, <1>4, Zenon DEF PoolOK
  <2>6. p <= built'
    BY <1>4
  <2> QED
    BY <2>2, <2>3, <2>4, <2>5, <2>6, Zenon DEF PoolOK, Agrees
<1> QED
  BY <1>2, <1>3, <1>4

\* The core of a consumer is as above.
LEMMA CoreForms ==
  ASSUME NEW p \in SubPools, NEW fl, NEW t, NEW cn,
         NEW living \in BOOLEAN, NEW n \in 0..Limit, NEW o \in Records,
         NEW k, NEW d \in 0..3, k = "none" <=> cn # "inbox",
         d > 0 <=> cn = "broken",
         Balanced(fl, p, t, cn, living, n, o, k, d)
  PROVE  t \in Scripts /\ ~Passing(t)
<1>1. CASE t = <<>>
  BY <1>1, NoScript DEF Passing
<1>2. CASE t # <<>>
  BY <1>2, BalancedSteps
<1> QED
  BY <1>1, <1>2

-----------------------------------------------------------------------------
(* What a step of a sub pool does to the counters and to everything else.  *)

\* Actor a counts an event of p.
Counts(a, p, counter, b) ==
  /\ ~Passing(script[a])
  /\ own' = [own EXCEPT ![p][counter] = @ + b]
  /\ \E v \in Scripts :
       /\ ~Passing(v)
       /\ script' = [script EXCEPT ![a] = Pass(flavour, p, counter, b) ++ v]
  /\ UNCHANGED <<flavour, user, pool, reader>>

\* Actor a passes on what it has counted.
PassesOn(a) ==
  /\ Passing(script[a]) /\ ~Passing(Core(script[a]))
  /\ user' = [user EXCEPT ![Head(script[a]).counter] = @ + Head(script[a]).by]
  /\ script' = [script EXCEPT ![a] = Core(script[a])]
  /\ UNCHANGED <<flavour, own, pool, reader>>

CountsNothing ==
  /\ UNCHANGED <<flavour, own, user>>
  /\ \A a \in Actors :
       \/ script'[a] = script[a]
       \/ ~Passing(script[a]) /\ ~Passing(script'[a])
  /\ \A p \in SubPools :
       Passing(script[Consumer(p)]) =>
         /\ alive'[p] = alive[p]
         /\ conn[p] \in {"held", "idle"} => conn'[p] = conn[p]

Tally(p) ==
  \/ \E a \in {Consumer(p), Dropper(p)} : PassesOn(a)
  \/ \E a \in {Consumer(p), Dropper(p)}, b \in {-1, 1},
        counter \in {"idle", "reservations", "connections", "in_flight"} :
       /\ Counts(a, p, counter, b)
       /\ a = Consumer(p) /\ counter = "connections" => conn[p] \in {"held", "idle"}
       /\ a = Consumer(p) /\ b = 1 => alive[p]
  \/ CountsNothing

\* Main, what it has counted and the reader are not concerned.
Apart ==
  /\ script'[Main] = script[Main]
  /\ UNCHANGED <<flavour, built, ended, reader>>
  /\ \A q \in SubPools : own'[q].pools = own[q].pools

PoolWorks(p) ==
  /\ TypeOK' /\ PoolOK(p)'
  /\ \A q \in SubPools \ {p} : Untouched(q)
  /\ Apart
  /\ Tally(p)

\* A sub pool that has something to do exists.
LEMMA Exists ==
  ASSUME TypeOK, NEW p \in SubPools, PoolOK(p),
         alive[p] \/ conn[p] # "none" \/ script[Consumer(p)] # <<>>
           \/ script[Dropper(p)] # <<>>
  PROVE  /\ p <= built
         /\ p > ended => alive[p]
         /\ \E k \in Kinds, d \in 0..3 : Agrees(p, k, d)
BY Zenon DEF PoolOK, Unborn

\* The facts about one sub pool the lemmas above ask for.
LEMMA PoolTypes ==
  ASSUME TypeOK, NEW p \in SubPools
  PROVE  /\ alive[p] \in BOOLEAN /\ queue[p] \in 0..Limit
         /\ own[p] \in Records /\ conn[p] \in Places
         /\ script[Consumer(p)] \in Scripts /\ script[Dropper(p)] \in Scripts
BY ActorTypes DEF TypeOK, Records, Scripts

LEMMA AgreeTypes ==
  ASSUME TypeOK, NEW p \in SubPools, NEW k, NEW d \in 0..3, Agrees(p, k, d)
  PROVE  /\ k = "none" <=> conn[p] # "inbox"
         /\ d > 0 <=> conn[p] = "broken"
         /\ Core(script[Consumer(p)]) \in Scripts
         /\ ~Passing(Core(script[Consumer(p)]))
<1>1. (k = "none" <=> conn[p] # "inbox") /\ (d > 0 <=> conn[p] = "broken")
  BY DEF Agrees, Posted, Dropping
<1>2. Balanced(flavour, p, Core(script[Consumer(p)]), conn[p], alive[p],
               queue[p], own[p], k, d)
  BY Zenon DEF Agrees
<1>3. Core(script[Consumer(p)]) \in Scripts /\ ~Passing(Core(script[Consumer(p)]))
  <2> DEFINE t == Core(script[Consumer(p)])
  <2> HIDE DEF t
  <2>1. Balanced(flavour, p, t, conn[p], alive[p], queue[p], own[p], k, d)
    BY <1>2 DEF t
  <2>2. t \in Scripts /\ ~Passing(t)
    BY <1>1, <2>1, PoolTypes, CoreForms
  <2> QED
    BY <2>2 DEF t
<1> QED
  BY <1>1, <1>3, Zenon

LEMMA HeadTypes ==
  ASSUME TypeOK, NEW a \in Actors, Passing(script[a])
  PROVE  LET x == Head(script[a])
         IN  /\ x.pool \in SubPools /\ x.counter \in ToSet(Counters)
             /\ x.by \in {-1, 1} /\ x = UserStep(x.pool, x.counter, x.by)
<1> DEFINE x == Head(script[a])
<1>1. x \in Steps
  BY DEF TypeOK, Passing
<1>2. x.does = "user"
  BY DEF Passing
<1> HIDE DEF x
<1>3. x \in [does : {"own", "user"}, pool : SubPools,
             counter : ToSet(Counters), by : {-1, 1}]
  BY <1>1, <1>2 DEF Steps
<1> QED
  BY <1>2, <1>3 DEF UserStep, x

LEMMA PassesOnTypes ==
  ASSUME TypeOK, NEW a \in Actors, Step(a), Passing(script[a]),
         Core(script[a]) \in Scripts, ~Passing(Core(script[a]))
  PROVE  TypeOK' /\ PassesOn(a)
<1>1. PassesOn(a)
  BY UserTaken, Zenon DEF PassesOn
<1> DEFINE x == Head(script[a])
<1>2. x.counter \in ToSet(Counters) /\ x.by \in Int
  BY HeadTypes
<1>3. user' \in [ToSet(Counters) -> Int]
  BY <1>1, <1>2 DEF PassesOn, TypeOK
<1>4. script' \in [Actors -> Seq(Steps)]
  BY <1>1 DEF PassesOn, TypeOK, Scripts
<1> QED
  BY <1>1, <1>3, <1>4 DEF PassesOn, TypeOK, pool, reader

LEMMA CountsTypes ==
  ASSUME TypeOK, NEW a \in Actors, Step(a), ~Passing(script[a]),
         NEW p \in SubPools, NEW counter \in ToSet(Counters),
         NEW b \in {-1, 1}, NEW v \in Scripts, ~Passing(v),
         script[a] = Tell(flavour, p, counter, b) ++ v
  PROVE  /\ TypeOK' /\ Counts(a, p, counter, b)
         /\ own' = [own EXCEPT ![p][counter] = @ + b]
         /\ script' = [script EXCEPT ![a] = Pass(flavour, p, counter, b) ++ v]
<1>1. /\ own' = [own EXCEPT ![p][counter] = @ + b]
      /\ script' = [script EXCEPT ![a] = Pass(flavour, p, counter, b) ++ v]
      /\ UNCHANGED <<flavour, user, pool, reader>>
  BY OwnTaken
<1>2. Counts(a, p, counter, b)
  BY <1>1, Zenon DEF Counts
<1>3. Pass(flavour, p, counter, b) ++ v \in Scripts
  BY TellFirst
<1>4. own' \in [SubPools -> [ToSet(Counters) -> Int]]
  BY <1>1 DEF TypeOK
<1>5. script' \in [Actors -> Seq(Steps)]
  BY <1>1, <1>3 DEF TypeOK, Scripts
<1> QED
  BY <1>1, <1>2, <1>4, <1>5 DEF TypeOK, pool, reader

\* A script that changes only for a does not change for anybody else.
LEMMA OneScript ==
  ASSUME TypeOK, NEW p \in SubPools, NEW a \in {Consumer(p), Dropper(p)},
         NEW s, script' = [script EXCEPT ![a] = s]
  PROVE  /\ a \in Actors /\ script'[a] = s
         /\ script'[Main] = script[Main]
         /\ \A b \in Actors \ {a} : script'[b] = script[b]
         /\ \A q \in SubPools \ {p} :
              /\ script'[Consumer(q)] = script[Consumer(q)]
              /\ script'[Dropper(q)] = script[Dropper(q)]
         /\ a = Consumer(p) => script'[Dropper(p)] = script[Dropper(p)]
         /\ a = Dropper(p) => script'[Consumer(p)] = script[Consumer(p)]
BY ActorTypes DEF TypeOK

\* A step that counts an event of p concerns nobody else.
LEMMA CountsApart ==
  ASSUME TypeOK, NEW p \in SubPools, NEW a \in {Consumer(p), Dropper(p)},
         NEW counter \in ToSet(Counters), counter # "pools",
         NEW b \in {-1, 1}, Counts(a, p, counter, b)
  PROVE  (\A q \in SubPools \ {p} : Untouched(q)) /\ Apart
<1>1. PICK v \in Scripts :
        script' = [script EXCEPT ![a] = Pass(flavour, p, counter, b) ++ v]
  BY Zenon DEF Counts
<1>2. /\ script'[Main] = script[Main]
      /\ \A q \in SubPools \ {p} :
              /\ script'[Consumer(q)] = script[Consumer(q)]
              /\ script'[Dropper(q)] = script[Dropper(q)]
  BY <1>1, OneScript
<1>3. /\ own' = [own EXCEPT ![p][counter] = @ + b]
      /\ UNCHANGED <<flavour, user, pool, reader>>
  BY DEF Counts
<1>4. \A q \in SubPools : own'[q].pools = own[q].pools
  BY <1>3 DEF TypeOK
<1>5. \A q \in SubPools \ {p} : own'[q] = own[q]
  BY <1>3 DEF TypeOK
<1>6. \A q \in SubPools \ {p} : Untouched(q)
  BY <1>2, <1>3, <1>5 DEF Untouched, pool
<1> QED
  BY <1>2, <1>3, <1>4, <1>6 DEF Apart, pool

\* A step that passes on an event of p concerns nobody else.
LEMMA PassesOnApart ==
  ASSUME TypeOK, NEW p \in SubPools, NEW a \in {Consumer(p), Dropper(p)},
         PassesOn(a)
  PROVE  (\A q \in SubPools \ {p} : Untouched(q)) /\ Apart
<1>1. /\ script'[Main] = script[Main]
      /\ \A q \in SubPools \ {p} :
              /\ script'[Consumer(q)] = script[Consumer(q)]
              /\ script'[Dropper(q)] = script[Dropper(q)]
  BY OneScript DEF PassesOn
<1>2. UNCHANGED <<flavour, own, pool, reader>>
  BY DEF PassesOn
<1> QED
  BY <1>1, <1>2 DEF Untouched, Apart, pool

\* A step with an effect on p that counts nothing concerns nobody else.
LEMMA EffectApart ==
  ASSUME TypeOK, NEW p \in SubPools, NEW a \in {Consumer(p), Dropper(p)},
         NEW s, script' = [script EXCEPT ![a] = s],
         ~Passing(script[a]), ~Passing(s),
         UNCHANGED <<flavour, own, user, built, ended, reader>>,
         \A q \in SubPools \ {p} :
           /\ conn'[q] = conn[q] /\ alive'[q] = alive[q]
           /\ inbox'[q] = inbox[q] /\ queue'[q] = queue[q],
         a = Consumer(p) \/ (/\ alive'[p] = alive[p]
                             /\ conn[p] \notin {"held", "idle"})
  PROVE  (\A q \in SubPools \ {p} : Untouched(q)) /\ Apart /\ Tally(p)
<1>1. /\ script'[Main] = script[Main] /\ script'[a] = s
      /\ \A q \in SubPools \ {p} :
              /\ script'[Consumer(q)] = script[Consumer(q)]
              /\ script'[Dropper(q)] = script[Dropper(q)]
      /\ \A b \in Actors \ {a} : script'[b] = script[b]
  BY ActorTypes DEF TypeOK
<1>2. Apart
  BY <1>1 DEF Apart
<1>3. \A q \in SubPools \ {p} : Untouched(q)
  BY <1>1 DEF Untouched
<1>4. CountsNothing
  <2>1. \A b \in Actors : \/ script'[b] = script[b]
                          \/ ~Passing(script[b]) /\ ~Passing(script'[b])
    BY <1>1
  <2>2. ASSUME NEW q \in SubPools, Passing(script[Consumer(q)])
        PROVE  /\ alive'[q] = alive[q]
               /\ conn[q] \in {"held", "idle"} => conn'[q] = conn[q]
    BY <2>2
  <2> QED
    BY <2>1, <2>2 DEF CountsNothing
<1> QED
  BY <1>2, <1>3, <1>4 DEF Tally

\* The same for a step of nobody's script.
LEMMA SilentApart ==
  ASSUME TypeOK, NEW p \in SubPools,
         UNCHANGED <<flavour, own, user, script, built, ended, reader>>,
         \A q \in SubPools \ {p} :
           /\ conn'[q] = conn[q] /\ alive'[q] = alive[q]
           /\ inbox'[q] = inbox[q] /\ queue'[q] = queue[q],
         alive'[p] = alive[p] /\ conn[p] \notin {"held", "idle"}
  PROVE  (\A q \in SubPools \ {p} : Untouched(q)) /\ Apart /\ Tally(p)
<1>1. Apart
  BY DEF Apart
<1>2. \A q \in SubPools \ {p} : Untouched(q)
  BY DEF Untouched
<1>3. CountsNothing
  <2>1. \A b \in Actors : script'[b] = script[b]
    OBVIOUS
  <2>2. ASSUME NEW q \in SubPools, Passing(script[Consumer(q)])
        PROVE  /\ alive'[q] = alive[q]
               /\ conn[q] \in {"held", "idle"} => conn'[q] = conn[q]
    OBVIOUS
  <2> QED
    BY <2>1, <2>2 DEF CountsNothing
<1> QED
  BY <1>1, <1>2, <1>3 DEF Tally

-----------------------------------------------------------------------------
(* The steps of the scripts of p.                                          *)

LEMMA Settled ==
  ASSUME NEW p, NEW k \in Kinds, NEW d \in 0..3,
         p <= built', p > ended' => alive'[p], Agrees(p, k, d)'
  PROVE  PoolOK(p)'
BY Zenon DEF PoolOK

LEMMA ConsumerPasses ==
  ASSUME TypeOK, NEW p \in SubPools, PoolOK(p), Step(Consumer(p)),
         Passing(script[Consumer(p)])
  PROVE  PoolWorks(p)
<1> DEFINE a == Consumer(p)
<1>1. a \in Actors /\ script[a] # <<>>
  BY ActorTypes, NotFree
<1>2. /\ p <= built
      /\ p > ended => alive[p]
      /\ \E k \in Kinds, d \in 0..3 : Agrees(p, k, d)
  BY <1>1, Exists
<1>3. PICK k \in Kinds, d \in 0..3 : Agrees(p, k, d)
  BY <1>2
<1>4. Core(script[a]) \in Scripts /\ ~Passing(Core(script[a]))
  BY <1>3, AgreeTypes
<1>5. TypeOK' /\ PassesOn(a)
  BY <1>1, <1>4, PassesOnTypes
<1>6. (\A q \in SubPools \ {p} : Untouched(q)) /\ Apart
  BY <1>5, PassesOnApart
<1>7. /\ script' = [script EXCEPT ![a] = Core(script[a])]
      /\ UNCHANGED <<flavour, own, pool, reader>>
  BY <1>5 DEF PassesOn
<1>8. /\ Core(script'[a]) = Core(script[a])
      /\ script'[Dropper(p)] = script[Dropper(p)]
  <2>1. script'[a] = Core(script[a])
    BY <1>1, <1>7 DEF TypeOK
  <2>2. Core(script'[a]) = Core(script[a])
    BY <1>4, <2>1, Zenon DEF Core
  <2> QED
    BY <1>7, <2>2, OneScript
<1>9. Agrees(p, k, d)'
  BY <1>3, <1>7, <1>8 DEF Agrees, pool
<1>10. PoolOK(p)'
  <2>1. p <= built' /\ (p > ended' => alive'[p])
    BY <1>2, <1>7 DEF pool
  <2> QED
    BY <1>9, <2>1, Settled, Zenon
<1> QED
  BY <1>5, <1>6, <1>10 DEF PoolWorks, Tally

LEMMA ConsumerSteps ==
  ASSUME TypeOK, NEW p \in SubPools, PoolOK(p), Step(Consumer(p))
  PROVE  PoolWorks(p)
<1> DEFINE a == Consumer(p)
           t == script[a]
<1>1. a \in Actors /\ t # <<>>
  BY ActorTypes, NotFree
<1>2. /\ p <= built
      /\ p > ended => alive[p]
      /\ \E k \in Kinds, d \in 0..3 : Agrees(p, k, d)
  BY <1>1, Exists
<1>3. PICK k \in Kinds, d \in 0..3 : Agrees(p, k, d)
  BY <1>2
<1>4. SUFFICES ASSUME ~Passing(t)
               PROVE  PoolWorks(p)
  BY ConsumerPasses
<1>5. /\ Posted(inbox[p], conn[p], alive[p], p <= ended, k)
      /\ Dropping(flavour, p, script[Dropper(p)], conn[p], d)
      /\ Balanced(flavour, p, t, conn[p], alive[p], queue[p], own[p], k, d)
  BY <1>3, <1>4, Zenon DEF Agrees, Core
<1>6. (k = "none" <=> conn[p] # "inbox") /\ (d > 0 <=> conn[p] = "broken")
  BY <1>3, AgreeTypes
<1> HIDE DEF t
<1>7. \/ CountsBalanced(flavour, p, t, conn[p], alive[p], queue[p], own[p], k, d)
      \/ MovesBalanced(flavour, p, t, conn[p], alive[p], queue[p], own[p], k, d)
      \/ QueuesBalanced(flavour, p, t, conn[p], alive[p], queue[p], own[p], k, d)
  BY <1>1, <1>5, <1>6, PoolTypes, BalancedSteps
<1>8. CASE CountsBalanced(flavour, p, t, conn[p], alive[p], queue[p], own[p], k, d)
  <2>1. PICK counter \in {"idle", "reservations", "connections", "in_flight"},
             b \in {-1, 1}, v \in Scripts :
          /\ t = Tell(flavour, p, counter, b) ++ v /\ ~Passing(v)
          /\ counter = "connections" => conn[p] \in {"held", "idle"}
          /\ b = 1 => alive[p]
          /\ Balanced(flavour, p, v, conn[p], alive[p], queue[p],
                      [own[p] EXCEPT ![counter] = @ + b], k, d)
    BY <1>8, Zenon DEF CountsBalanced
  <2>2. counter \in ToSet(Counters) /\ counter # "pools"
    BY CounterNames
  <2>3. /\ TypeOK' /\ Counts(a, p, counter, b)
        /\ own' = [own EXCEPT ![p][counter] = @ + b]
        /\ script' = [script EXCEPT ![a] = Pass(flavour, p, counter, b) ++ v]
    BY <1>1, <1>4, <2>1, <2>2, CountsTypes DEF t
  <2>4. UNCHANGED <<flavour, user, pool, reader>>
    BY <2>3 DEF Counts
  <2>5. (\A q \in SubPools \ {p} : Untouched(q)) /\ Apart
    BY <2>2, <2>3, CountsApart
  <2>6. Core(script'[a]) = v
    <3>1. script'[a] = Pass(flavour, p, counter, b) ++ v
      BY <1>1, <2>3 DEF TypeOK
    <3> QED
      BY <2>1, <2>2, <3>1, TellCore
  <2>7. script'[Dropper(p)] = script[Dropper(p)]
    BY <2>3, OneScript
  <2>8. own'[p] = [own[p] EXCEPT ![counter] = @ + b]
    BY <2>3 DEF TypeOK
  <2>9. Agrees(p, k, d)'
    BY <1>5, <2>1, <2>4, <2>6, <2>7, <2>8 DEF Agrees, pool
  <2>10. PoolOK(p)'
    <3>1. p <= built' /\ (p > ended' => alive'[p])
      BY <1>2, <2>4 DEF pool
    <3> QED
      BY <2>9, <3>1, Settled, Zenon
  <2>11. Tally(p)
    BY <2>1, <2>3, Zenon DEF Tally
  <2> QED
    BY <2>3, <2>5, <2>10, <2>11 DEF PoolWorks
<1>9. CASE MovesBalanced(flavour, p, t, conn[p], alive[p], queue[p], own[p], k, d)
  <2>1. PICK x \in {"idle", "out", "held", "gone"}, v \in Scripts :
          /\ t = Move(p, x) ++ v /\ ~Passing(v)
          /\ conn[p] \in {"held", "idle"}
          /\ Balanced(flavour, p, v, x, alive[p], queue[p], own[p], k, d)
    BY <1>9, Zenon DEF MovesBalanced
  <2>2. x \in Places
    BY DEF Places
  <2>3. /\ conn' = [conn EXCEPT ![p] = x]
        /\ script' = [script EXCEPT ![a] = v]
        /\ UNCHANGED <<counters, built, ended, alive, inbox, queue, received,
                       reader>>
    BY <1>1, <2>1, <2>2, MoveTaken DEF t
  <2>4. script'[a] = v /\ script'[Dropper(p)] = script[Dropper(p)]
    BY <2>3, OneScript
  <2>5. conn'[p] = x
    BY <2>3 DEF TypeOK
  <2>6. TypeOK'
    BY <2>2, <2>3 DEF TypeOK, Scripts, counters, reader
  <2>7. (\A q \in SubPools \ {p} : Untouched(q)) /\ Apart /\ Tally(p)
    <3>1. \A q \in SubPools \ {p} : conn'[q] = conn[q]
      BY <2>3 DEF TypeOK
    <3>2. UNCHANGED <<flavour, own, user, built, ended, reader, alive, inbox, queue>>
      BY <2>3 DEF counters
    <3> QED
      BY <1>4, <2>1, <2>3, <3>1, <3>2, EffectApart DEF t
  <2>8. k = "none" /\ d = 0 /\ x # "inbox" /\ x # "broken"
    BY <1>6, <2>1
  <2>9. Posted(inbox[p], x, alive[p], p <= ended, k)
    BY <1>5, <2>8, Zenon DEF Posted
  <2>10. Dropping(flavour, p, script[Dropper(p)], x, d)
    BY <1>5, <2>8 DEF Dropping
  <2>11. Core(v) = v
    BY <2>1 DEF Core
  <2>12. Agrees(p, k, d)'
    BY <2>1, <2>3, <2>4, <2>5, <2>9, <2>10, <2>11 DEF Agrees, counters
  <2>13. PoolOK(p)'
    <3>1. p <= built' /\ (p > ended' => alive'[p])
      BY <1>2, <2>3
    <3> QED
      BY <2>12, <3>1, Settled, Zenon
  <2> QED
    BY <2>6, <2>7, <2>13 DEF PoolWorks
<1>10. CASE QueuesBalanced(flavour, p, t, conn[p], alive[p], queue[p], own[p], k, d)
  <2>1. PICK b \in {-1, 1}, v \in Scripts :
          /\ t = Queue(p, b) ++ v /\ ~Passing(v)
          /\ queue[p] + b \in 0..Limit
          /\ Balanced(flavour, p, v, conn[p], alive[p], queue[p] + b, own[p], k, d)
    BY <1>10, Zenon DEF QueuesBalanced
  <2>2. /\ queue' = [queue EXCEPT ![p] = @ + b]
        /\ script' = [script EXCEPT ![a] = v]
        /\ UNCHANGED <<counters, built, ended, alive, conn, inbox, received,
                       reader>>
    BY <1>1, <2>1, QueueTaken DEF t
  <2>3. script'[a] = v /\ script'[Dropper(p)] = script[Dropper(p)]
    BY <2>2, OneScript
  <2>4. queue'[p] = queue[p] + b
    BY <2>2 DEF TypeOK
  <2>5. queue' \in [SubPools -> 0..Limit]
    BY <2>1, <2>2 DEF TypeOK
  <2>6. TypeOK'
    BY <2>2, <2>5 DEF TypeOK, Scripts, counters, reader
  <2>7. (\A q \in SubPools \ {p} : Untouched(q)) /\ Apart /\ Tally(p)
    <3>1. \A q \in SubPools \ {p} : queue'[q] = queue[q]
      BY <2>2 DEF TypeOK
    <3>2. UNCHANGED <<flavour, own, user, built, ended, reader, alive, inbox, conn>>
      BY <2>2 DEF counters
    <3> QED
      BY <1>4, <2>1, <2>2, <3>1, <3>2, EffectApart DEF t
  <2>8. Core(v) = v
    BY <2>1 DEF Core
  <2>9. Agrees(p, k, d)'
    BY <1>5, <2>1, <2>2, <2>3, <2>4, <2>8 DEF Agrees, counters
  <2>10. PoolOK(p)'
    <3>1. p <= built' /\ (p > ended' => alive'[p])
      BY <1>2, <2>2
    <3> QED
      BY <2>9, <3>1, Settled, Zenon
  <2> QED
    BY <2>6, <2>7, <2>10 DEF PoolWorks
<1> QED
  BY <1>7, <1>8, <1>9, <1>10

\* What a dropper counts while it has d - 1 events to count.
CountedBy(d) == IF d = 3 THEN "connections" ELSE "in_flight"

LEMMA DroppingSteps ==
  ASSUME NEW p \in SubPools, NEW fl, NEW s, s # <<>>, NEW cn, NEW d \in 0..3,
         Dropping(fl, p, s, cn, d)
  PROVE  /\ cn = "broken" /\ d > 0
         /\ \/ /\ Passing(s) /\ Core(s) \in Scripts /\ ~Passing(Core(s))
               /\ Dropping(fl, p, Core(s), cn, d)
            \/ /\ ~Passing(s) /\ d \in 2..3
               /\ \E v \in Scripts :
                    /\ s = Tell(fl, p, CountedBy(d), -1) ++ v /\ ~Passing(v)
                    /\ Dropping(fl, p, Pass(fl, p, CountedBy(d), -1) ++ v, cn, d - 1)
            \/ ~Passing(s) /\ d = 1 /\ s = Create(p)
<1> DEFINE create == Create(p)
           last   == Tell(fl, p, "in_flight", -1) ++ create
           x      == UserStep(p, "in_flight", -1)
           y      == UserStep(p, "connections", -1)
<1>1. "in_flight" \in ToSet(Counters) /\ "connections" \in ToSet(Counters)
      /\ -1 \in {-1, 1} /\ "out" \in Places
  BY CounterNames DEF Places
<1>2. create \in Scripts /\ ~Passing(create) /\ create # <<>>
  BY <1>1, StepTypes, EffectFirst, NoScript
<1>3. last \in Scripts /\ ~Passing(last) /\ last # <<>>
  BY <1>1, <1>2, TellFirst
<1>4. cn = "broken" /\ d > 0
  BY DEF Dropping
<1>5. /\ Passing(<<x>> ++ create) /\ Core(<<x>> ++ create) = create
      /\ Passing(<<y>> ++ last) /\ Core(<<y>> ++ last) = last
  <2>1. Pass("Custom", p, "in_flight", -1) = <<x>>
        /\ Pass("Custom", p, "connections", -1) = <<y>>
    BY DEF Pass
  <2> HIDE DEF create, last, x, y
  <2> QED
    BY <1>1, <1>2, <1>3, <2>1, TellCore
<1>6. CASE d = 1
  <2>1. CASE s = create
    BY <1>2, <1>4, <1>6, <2>1
  <2>2. CASE fl = "Custom" /\ s = <<x>> ++ create
    <3>1. Dropping(fl, p, create, cn, d)
      BY <1>4, <1>6 DEF Dropping
    <3> HIDE DEF create, x
    <3> QED
      BY <1>2, <1>4, <1>5, <2>2, <3>1
  <2> QED
    BY <1>6, <2>1, <2>2 DEF Dropping
<1>7. CASE d = 2
  <2>1. CASE s = last
    <3>1. CountedBy(d) = "in_flight"
      BY <1>7 DEF CountedBy
    <3> DEFINE rest == Pass(fl, p, "in_flight", -1) ++ create
    <3>2. Dropping(fl, p, rest, cn, 1)
      <4>1. CASE fl = "Custom"
        <5>1. rest = <<x>> ++ create
          BY <4>1 DEF Pass
        <5> QED
          BY <1>4, <4>1, <5>1 DEF Dropping
      <4>2. CASE fl # "Custom"
        <5>1. rest = create
          <6>1. Pass(fl, p, "in_flight", -1) = <<>>
            BY <4>2 DEF Pass
          <6> QED
            BY <1>2, <6>1, NothingMore
        <5> QED
          BY <1>4, <5>1 DEF Dropping
      <4> QED
        BY <4>1, <4>2
    <3>3. d - 1 = 1 /\ d \in 2..3
      BY <1>7
    <3> HIDE DEF create
    <3> QED
      BY <1>2, <1>3, <1>4, <2>1, <3>1, <3>2, <3>3, Zenon
  <2>2. CASE fl = "Custom" /\ s = <<y>> ++ last
    <3>1. Dropping(fl, p, last, cn, d)
      BY <1>4, <1>7 DEF Dropping
    <3> HIDE DEF last, y
    <3> QED
      BY <1>3, <1>4, <1>5, <2>2, <3>1
  <2> QED
    BY <1>7, <2>1, <2>2 DEF Dropping
<1>8. CASE d = 3
  <2>1. s = Tell(fl, p, "connections", -1) ++ last
    BY <1>8 DEF Dropping
  <2>2. CountedBy(d) = "connections"
    BY <1>8 DEF CountedBy
  <2> DEFINE rest == Pass(fl, p, "connections", -1) ++ last
  <2>3. Dropping(fl, p, rest, cn, 2)
    <3>1. CASE fl = "Custom"
      <4>1. rest = <<y>> ++ last
        BY <3>1 DEF Pass
      <4> QED
        BY <1>4, <3>1, <4>1 DEF Dropping
    <3>2. CASE fl # "Custom"
      <4>1. rest = last
        <5>1. Pass(fl, p, "connections", -1) = <<>>
          BY <3>2 DEF Pass
        <5> QED
          BY <1>3, <5>1, NothingMore
      <4> QED
        BY <1>4, <4>1 DEF Dropping
    <3> QED
      BY <3>1, <3>2
  <2>4. d - 1 = 2 /\ d \in 2..3
    BY <1>8
  <2>5. ~Passing(s)
    <3> HIDE DEF last
    <3> QED
      BY <1>1, <1>3, <2>1, TellFirst
  <2> HIDE DEF last
  <2> QED
    BY <1>3, <1>4, <2>1, <2>2, <2>3, <2>4, <2>5, Zenon
<1> QED
  BY <1>4, <1>6, <1>7, <1>8

LEMMA SmallNumbers ==
  0 \in -1..1 /\ 0 \in -1..0 /\ 1 \in -1..1 /\ -1 \in -1..1 /\ -1 \in -1..0
OBVIOUS

LEMMA LivingBalance ==
  ASSUME NEW p, NEW fl, NEW t, NEW cn, NEW n, NEW o, NEW k, NEW d,
         NEW i \in -1..1, NEW r \in -1..1, NEW c \in -1..0, NEW f \in -1..1,
         NEW living, living,
         Working(fl, p, t, cn, n, i, r, c, f),
         o.idle = One(cn = "idle") + i,
         o.connections = Present(cn, k, d) + c,
         o.reservations = n + r,
         o.in_flight = Lent(cn, k, d) + f
  PROVE  Balanced(fl, p, t, cn, living, n, o, k, d)
BY Zenon DEF Balanced

LEMMA EndedBalance ==
  ASSUME NEW p, NEW fl, NEW t, NEW cn, cn # "held", NEW o, NEW k, NEW d,
         NEW i \in -1..1, NEW c \in -1..0, NEW f \in -1..1, NEW g \in -1..0,
         NEW living, ~living,
         Ending(fl, p, t, cn, i, c, f),
         o.idle = One(cn = "idle") + i,
         o.connections = Present(cn, k, d) + c,
         o.reservations \in 0..Limit,
         o.in_flight = f + g,
         d \in 2..3 \/ cn = "out" => g = 0
  PROVE  Balanced(fl, p, t, cn, living, 0, o, k, d)
<1>1. 0 \in -1..1
  OBVIOUS
<1> QED
  BY <1>1, Zenon DEF Balanced

\* What a dropper counts is the truth afterwards.
LEMMA DroppedBalance ==
  ASSUME NEW p \in SubPools, NEW fl, NEW t, NEW living \in BOOLEAN, NEW n,
         NEW o \in Records, NEW d \in 2..3,
         Balanced(fl, p, t, "broken", living, n, o, "none", d)
  PROVE  Balanced(fl, p, t, "broken", living, n,
                  [o EXCEPT ![CountedBy(d)] = @ + (-1)], "none", d - 1)
<1> DEFINE o2 == [o EXCEPT ![CountedBy(d)] = @ + (-1)]
<1>1. PICK i \in -1..1, r \in -1..1, c \in -1..0, f \in -1..1 :
        /\ o.idle = One("broken" = "idle") + i
        /\ o.connections = Present("broken", "none", d) + c
        /\ \/ /\ living
              /\ Working(fl, p, t, "broken", n, i, r, c, f)
              /\ o.reservations = n + r
              /\ o.in_flight = Lent("broken", "none", d) + f
           \/ /\ ~living
              /\ Ending(fl, p, t, "broken", i, c, f)
              /\ n = 0 /\ o.reservations \in 0..Limit
              /\ "broken" # "held"
              /\ \E g \in -1..0 :
                   /\ o.in_flight = f + g
                   /\ d \in 2..3 \/ "broken" = "out" => g = 0
  BY Zenon DEF Balanced
<1>2. /\ o2.idle = o.idle /\ o2.reservations = o.reservations
      /\ d = 3 => o2.connections = o.connections - 1 /\ o2.in_flight = o.in_flight
      /\ d = 2 => o2.connections = o.connections /\ o2.in_flight = o.in_flight - 1
  BY CounterNames DEF Records, CountedBy
<1>3. /\ Present("broken", "none", 3) = 1 /\ Present("broken", "none", 2) = 0
      /\ Present("broken", "none", 1) = 0
      /\ Lent("broken", "none", 3) = 1 /\ Lent("broken", "none", 2) = 1
      /\ Lent("broken", "none", 1) = 0
  BY DEF Present, Lent, One
<1> DEFINE d2 == d - 1
<1>4. \/ d = 3 /\ d2 = 2
      \/ d = 2 /\ d2 = 1
  OBVIOUS
<1> HIDE DEF o2, d2
<1>5. /\ o2.idle = One("broken" = "idle") + i
      /\ o2.connections = Present("broken", "none", d2) + c
  BY <1>1, <1>2, <1>3, <1>4 DEF Records
<1>6. CASE living
  <2>1. o2.in_flight = Lent("broken", "none", d2) + f
    BY <1>1, <1>2, <1>3, <1>4, <1>6
  <2>2. Working(fl, p, t, "broken", n, i, r, c, f) /\ o2.reservations = n + r
    BY <1>1, <1>2, <1>6
  <2>3. Balanced(fl, p, t, "broken", living, n, o2, "none", d2)
    BY <1>5, <1>6, <2>1, <2>2, LivingBalance
  <2> QED
    BY <2>3 DEF o2, d2
<1>7. CASE ~living
  <2>1. /\ Ending(fl, p, t, "broken", i, c, f)
        /\ n = 0 /\ o2.reservations \in 0..Limit
    BY <1>1, <1>2, <1>7
  <2>2. o.in_flight = f
    BY <1>1, <1>7
  <2>3. PICK g \in -1..0 : o2.in_flight = f + g /\ (d2 \in 2..3 => g = 0)
    <3>1. CASE d = 3
      <4>1. o2.in_flight = f + 0
        BY <1>2, <2>2, <3>1
      <4> QED
        BY <4>1
    <3>2. CASE d = 2
      <4>1. o2.in_flight = f + (-1) /\ -1 \in -1..0 /\ ~(d2 \in 2..3)
        BY <1>2, <1>4, <2>2, <3>2
      <4> QED
        BY <4>1
    <3> QED
      BY <3>1, <3>2
  <2>4. 0 \in -1..1
    OBVIOUS
  <2>5. Balanced(fl, p, t, "broken", living, n, o2, "none", d2)
    BY <1>5, <1>7, <2>1, <2>3, <2>4 DEF Balanced
  <2> QED
    BY <2>5 DEF o2, d2
<1> QED
  BY <1>6, <1>7

\* A connection that the consumer does not have goes elsewhere.
LEMMA ElsewhereBalance ==
  ASSUME NEW p \in SubPools, NEW fl, NEW t, NEW cn, NEW cn2,
         NEW living \in BOOLEAN, NEW n, NEW o, NEW k, NEW k2, NEW d, NEW d2,
         Balanced(fl, p, t, cn, living, n, o, k, d),
         cn \notin {"held", "idle"}, cn2 \notin {"held", "idle"},
         Present(cn2, k2, d2) = Present(cn, k, d),
         living => Lent(cn2, k2, d2) = Lent(cn, k, d),
         d2 \in 2..3 \/ cn2 = "out" => d \in 2..3 \/ cn = "out"
  PROVE  Balanced(fl, p, t, cn2, living, n, o, k2, d2)
<1>1. PICK i \in -1..1, r \in -1..1, c \in -1..0, f \in -1..1 :
        /\ o.idle = One(cn = "idle") + i
        /\ o.connections = Present(cn, k, d) + c
        /\ \/ /\ living
              /\ Working(fl, p, t, cn, n, i, r, c, f)
              /\ o.reservations = n + r
              /\ o.in_flight = Lent(cn, k, d) + f
           \/ /\ ~living
              /\ Ending(fl, p, t, cn, i, c, f)
              /\ n = 0 /\ o.reservations \in 0..Limit
              /\ cn # "held"
              /\ \E g \in -1..0 :
                   /\ o.in_flight = f + g
                   /\ d \in 2..3 \/ cn = "out" => g = 0
  BY Zenon DEF Balanced
<1>2. One(cn2 = "idle") = One(cn = "idle")
  BY DEF One
<1>3. /\ o.idle = One(cn2 = "idle") + i
      /\ o.connections = Present(cn2, k2, d2) + c
  BY <1>1, <1>2, Zenon
<1>4. CASE living
  <2>1. o.in_flight = Lent(cn2, k2, d2) + f
    BY <1>1, <1>4, Zenon
  <2>2. Working(fl, p, t, cn2, n, i, r, c, f)
    BY <1>1, <1>4, WorkingElsewhere
  <2>3. o.reservations = n + r
    BY <1>1, <1>4, Zenon
  <2> QED
    BY <1>3, <1>4, <2>1, <2>2, <2>3, LivingBalance
<1>5. CASE ~living
  <2>1. Ending(fl, p, t, cn2, i, c, f)
    BY <1>1, <1>5, EndingElsewhere
  <2>2. n = 0 /\ o.reservations \in 0..Limit /\ cn2 # "held"
    BY <1>1, <1>5
  <2>3. PICK g \in -1..0 : /\ o.in_flight = f + g
                           /\ d2 \in 2..3 \/ cn2 = "out" => g = 0
    BY <1>1, <1>5
  <2>4. Balanced(fl, p, t, cn2, living, 0, o, k2, d2)
    BY <1>3, <1>5, <2>1, <2>2, <2>3, EndedBalance
  <2> QED
    BY <2>2, <2>4
<1> QED
  BY <1>4, <1>5

LEMMA DropperSteps ==
  ASSUME TypeOK, NEW p \in SubPools, PoolOK(p), Step(Dropper(p))
  PROVE  PoolWorks(p)
<1> DEFINE a == Dropper(p)
           s == script[a]
           t == Core(script[Consumer(p)])
<1>1. a \in Actors /\ s # <<>>
  BY ActorTypes, NotFree
<1>2. /\ p <= built
      /\ p > ended => alive[p]
      /\ \E k \in Kinds, d \in 0..3 : Agrees(p, k, d)
  BY <1>1, Exists
<1>3. PICK k \in Kinds, d \in 0..3 : Agrees(p, k, d)
  BY <1>2
<1>4. /\ Posted(inbox[p], conn[p], alive[p], p <= ended, k)
      /\ Dropping(flavour, p, s, conn[p], d)
      /\ Balanced(flavour, p, t, conn[p], alive[p], queue[p], own[p], k, d)
  BY <1>3, Zenon DEF Agrees
<1> HIDE DEF s
<1>5. /\ conn[p] = "broken" /\ d > 0
      /\ \/ /\ Passing(s) /\ Core(s) \in Scripts /\ ~Passing(Core(s))
            /\ Dropping(flavour, p, Core(s), conn[p], d)
         \/ /\ ~Passing(s) /\ d \in 2..3
            /\ \E v \in Scripts :
                 /\ s = Tell(flavour, p, CountedBy(d), -1) ++ v /\ ~Passing(v)
                 /\ Dropping(flavour, p, Pass(flavour, p, CountedBy(d), -1) ++ v,
                             conn[p], d - 1)
         \/ ~Passing(s) /\ d = 1 /\ s = Create(p)
  BY <1>1, <1>4, DroppingSteps
<1>6. k = "none"
  BY <1>3, <1>5, AgreeTypes
<1>7. CASE /\ Passing(s) /\ Core(s) \in Scripts /\ ~Passing(Core(s))
           /\ Dropping(flavour, p, Core(s), conn[p], d)
  <2>1. TypeOK' /\ PassesOn(a)
    BY <1>1, <1>7, PassesOnTypes DEF s
  <2>2. (\A q \in SubPools \ {p} : Untouched(q)) /\ Apart
    BY <2>1, PassesOnApart
  <2>3. /\ script' = [script EXCEPT ![a] = Core(s)]
        /\ UNCHANGED <<flavour, own, pool, reader>>
    BY <2>1 DEF PassesOn, s
  <2>4. script'[a] = Core(s) /\ script'[Consumer(p)] = script[Consumer(p)]
    BY <2>3, OneScript
  <2>5. Agrees(p, k, d)'
    BY <1>4, <1>7, <2>3, <2>4 DEF Agrees, pool
  <2>6. p <= built' /\ (p > ended' => alive'[p])
    BY <1>2, <2>3 DEF pool
  <2>7. PoolOK(p)'
    BY <2>5, <2>6, Settled, Zenon
  <2> QED
    BY <2>1, <2>2, <2>7 DEF PoolWorks, Tally
<1>8. CASE /\ ~Passing(s) /\ d \in 2..3
           /\ \E v \in Scripts :
                /\ s = Tell(flavour, p, CountedBy(d), -1) ++ v /\ ~Passing(v)
                /\ Dropping(flavour, p, Pass(flavour, p, CountedBy(d), -1) ++ v,
                            conn[p], d - 1)
  <2> DEFINE counter == CountedBy(d)
             d2 == d - 1
             b == -1
  <2>1. PICK v \in Scripts :
          /\ s = Tell(flavour, p, counter, b) ++ v /\ ~Passing(v)
          /\ Dropping(flavour, p, Pass(flavour, p, counter, b) ++ v,
                      conn[p], d2)
    BY <1>8
  <2>2. /\ counter \in ToSet(Counters) /\ counter # "pools" /\ b \in {-1, 1}
        /\ counter \in {"idle", "reservations", "connections", "in_flight"}
        /\ b # 1 /\ d2 \in 0..3
    BY <1>8, CounterNames DEF CountedBy
  <2>3. Balanced(flavour, p, t, "broken", alive[p], queue[p],
                 [own[p] EXCEPT ![counter] = @ + b], "none", d2)
    <3> HIDE DEF t
    <3>1. Balanced(flavour, p, t, "broken", alive[p], queue[p], own[p], "none", d)
      BY <1>4, <1>5, <1>6
    <3>2. alive[p] \in BOOLEAN /\ own[p] \in Records /\ d \in 2..3
      BY <1>8, PoolTypes
    <3> QED
      BY <3>1, <3>2, DroppedBalance
  <2> HIDE DEF counter, d2, b
  <2>4. /\ TypeOK' /\ Counts(a, p, counter, b)
        /\ own' = [own EXCEPT ![p][counter] = @ + b]
        /\ script' = [script EXCEPT ![a] = Pass(flavour, p, counter, b) ++ v]
    BY <1>1, <1>8, <2>1, <2>2, CountsTypes DEF s
  <2>5. UNCHANGED <<flavour, user, pool, reader>>
    BY <2>4 DEF Counts
  <2>6. (\A q \in SubPools \ {p} : Untouched(q)) /\ Apart
    BY <2>2, <2>4, CountsApart
  <2>7. /\ script'[a] = Pass(flavour, p, counter, b) ++ v
        /\ script'[Consumer(p)] = script[Consumer(p)]
    BY <2>4, OneScript
  <2>8. own'[p] = [own[p] EXCEPT ![counter] = @ + b]
    BY <2>4 DEF TypeOK
  <2>9. Agrees(p, "none", d2)'
    BY <1>4, <1>5, <1>6, <2>1, <2>3, <2>5, <2>7, <2>8 DEF Agrees, pool
  <2>10. PoolOK(p)'
    <3>1. p <= built' /\ (p > ended' => alive'[p])
      BY <1>2, <2>5 DEF pool
    <3>2. "none" \in Kinds
      BY DEF Kinds
    <3> QED
      BY <2>2, <2>9, <3>1, <3>2, Settled, Zenon
  <2>11. Tally(p)
    <3>1. a # Consumer(p)
      BY ActorTypes
    <3> QED
      BY <2>2, <2>4, <3>1, Zenon DEF Tally
  <2> QED
    BY <2>4, <2>6, <2>10, <2>11 DEF PoolWorks
<1>9. CASE ~Passing(s) /\ d = 1 /\ s = Create(p)
  <2> DEFINE x == IF alive[p] THEN "connecting" ELSE "gone"
  <2>1. x \in Places /\ x \in {"connecting", "gone"}
    BY DEF Places
  <2>2. /\ conn' = [conn EXCEPT ![p] = x]
        /\ script' = [script EXCEPT ![a] = <<>>]
        /\ UNCHANGED <<counters, built, ended, alive, inbox, queue, received,
                       reader>>
    BY <1>1, <1>9, CreateTaken DEF s
  <2>3. Balanced(flavour, p, t, x, alive[p], queue[p], own[p], "none", 0)
    <3> HIDE DEF t, x
    <3>1. Balanced(flavour, p, t, "broken", alive[p], queue[p], own[p], "none", 1)
      BY <1>4, <1>5, <1>6, <1>9
    <3>2. /\ Present(x, "none", 0) = Present("broken", "none", 1)
          /\ Lent(x, "none", 0) = Lent("broken", "none", 1)
      BY <2>1 DEF Present, Lent, One
    <3>3. ~(0 \in 2..3 \/ x = "out")
      BY <2>1
    <3>4. alive[p] \in BOOLEAN /\ x \notin {"held", "idle"}
          /\ "broken" \notin {"held", "idle"}
      BY <2>1, PoolTypes
    <3> QED
      BY <3>1, <3>2, <3>3, <3>4, ElsewhereBalance
  <2> HIDE DEF x
  <2>4. script'[a] = <<>> /\ script'[Consumer(p)] = script[Consumer(p)]
    BY <2>2, OneScript
  <2>5. conn'[p] = x
    BY <2>2 DEF TypeOK
  <2>6. TypeOK'
    BY <2>1, <2>2, NoScript DEF TypeOK, Scripts, counters, reader
  <2>7. (\A q \in SubPools \ {p} : Untouched(q)) /\ Apart /\ Tally(p)
    <3>1. \A q \in SubPools \ {p} : conn'[q] = conn[q]
      BY <2>2 DEF TypeOK
    <3>2. UNCHANGED <<flavour, own, user, built, ended, reader, alive, inbox, queue>>
      BY <2>2 DEF counters
    <3>3. ~Passing(<<>>)
      BY DEF Passing
    <3> QED
      BY <1>5, <1>9, <2>2, <3>1, <3>2, <3>3, EffectApart DEF s
  <2>8. Posted(inbox[p], x, alive[p], p <= ended, "none")
    BY <1>4, <1>5, <1>6, <2>1 DEF Posted
  <2>9. Dropping(flavour, p, <<>>, x, 0)
    BY <2>1 DEF Dropping
  <2>10. Agrees(p, "none", 0)'
    BY <2>2, <2>3, <2>4, <2>5, <2>8, <2>9 DEF Agrees, counters
  <2>11. PoolOK(p)'
    <3>1. p <= built' /\ (p > ended' => alive'[p])
      BY <1>2, <2>2
    <3>2. "none" \in Kinds /\ 0 \in 0..3
      BY DEF Kinds
    <3> QED
      BY <2>10, <3>1, <3>2, Settled, Zenon
  <2> QED
    BY <2>6, <2>7, <2>11 DEF PoolWorks
<1> QED
  BY <1>5, <1>7, <1>8, <1>9

-----------------------------------------------------------------------------
(* The other actions of p.                                                 *)

LEMMA Appended ==
  ASSUME NEW x, NEW y
  PROVE  Append(<<x>>, y) = <<x, y>>
<1> DEFINE S == {x, y}
           a == Append(<<x>>, y)
           b == <<x, y>>
<1>1. <<x>> \in Seq(S) /\ b \in Seq(S)
  OBVIOUS
<1>2. a \in Seq(S)
  BY <1>1
<1>3. Len(a) = 2 /\ a[1] = x /\ a[2] = y
  OBVIOUS
<1>4. Len(b) = 2 /\ b[1] = x /\ b[2] = y
  OBVIOUS
<1> HIDE DEF S, a, b
<1>5. \A i \in 1..Len(a) : a[i] = b[i]
  BY <1>3, <1>4
<1>6. a = b
  BY <1>1, <1>2, <1>3, <1>4, <1>5, SeqEqual
<1> QED
  BY <1>6 DEF a, b

LEMMA SendsBack ==
  ASSUME TypeOK, NEW p \in SubPools, PoolOK(p),
         NEW kind \in {"fresh", "returned"}, SendBack(p, kind),
         conn[p] = IF kind = "fresh" THEN "connecting" ELSE "out"
  PROVE  PoolWorks(p)
<1> DEFINE t == Core(script[Consumer(p)])
           box == IF alive[p] THEN Append(inbox[p], kind) ELSE inbox[p]
<1>1. /\ p <= built
      /\ p > ended => alive[p]
      /\ \E k \in Kinds, d \in 0..3 : Agrees(p, k, d)
  BY Exists
<1>2. PICK k \in Kinds, d \in 0..3 : Agrees(p, k, d)
  BY <1>1
<1>3. k = "none" /\ d = 0
  BY <1>2, AgreeTypes
<1>4. /\ Posted(inbox[p], conn[p], alive[p], p <= ended, "none")
      /\ Dropping(flavour, p, script[Dropper(p)], conn[p], 0)
      /\ Balanced(flavour, p, t, conn[p], alive[p], queue[p], own[p], "none", 0)
  BY <1>2, <1>3, Zenon DEF Agrees
<1>5. alive[p] \in BOOLEAN
  BY PoolTypes
<1>6. PICK x, k2 : /\ x = IF alive[p] THEN "inbox" ELSE Lost(kind)
                   /\ k2 = IF alive[p] THEN kind ELSE "none"
  OBVIOUS
<1>7. /\ conn' = [conn EXCEPT ![p] = x]
      /\ inbox' = [inbox EXCEPT ![p] = box]
      /\ UNCHANGED <<flavour, own, user, script, built, ended, alive, queue,
                     received, reader>>
  BY <1>5, <1>6 DEF SendBack, TypeOK, counters
<1>8. /\ x \in {"inbox", "gone", "orphan"} /\ x \in Places
      /\ box \in Seq({"fresh", "returned", "stop"})
      /\ k2 \in Kinds
  BY <1>6 DEF Lost, Places, TypeOK, Kinds
<1>9. Balanced(flavour, p, t, x, alive[p], queue[p], own[p], k2, 0)
  <2>1. /\ Present(x, k2, 0) = Present(conn[p], "none", 0)
        /\ alive[p] => Lent(x, k2, 0) = Lent(conn[p], "none", 0)
    <3>1. CASE kind = "fresh"
      BY <1>5, <1>6, <3>1 DEF Present, Lent, One, Lost
    <3>2. CASE kind = "returned"
      <4>1. conn[p] = "out"
        BY <3>2
      <4>2. \/ x = "inbox" /\ k2 = "returned"
            \/ x = "orphan" /\ k2 = "none" /\ ~alive[p]
        BY <1>5, <1>6, <3>2 DEF Lost
      <4>3. /\ Present("out", "none", 0) = 1 /\ Lent("out", "none", 0) = 1
            /\ Present("inbox", "returned", 0) = 1
            /\ Lent("inbox", "returned", 0) = 1
            /\ Present("orphan", "none", 0) = 1
        BY DEF Present, Lent, One
      <4> QED
        BY <4>1, <4>2, <4>3
    <3> QED
      BY <3>1, <3>2
  <2>2. ~(0 \in 2..3 \/ x = "out")
    BY <1>8
  <2>3. x \notin {"held", "idle"} /\ conn[p] \notin {"held", "idle"}
    BY <1>8
  <2> HIDE DEF t
  <2> QED
    BY <1>4, <1>5, <2>1, <2>2, <2>3, ElsewhereBalance
<1>10. Posted(box, x, alive[p], p <= ended, k2)
  <2>1. CASE alive[p]
    <3>1. x = "inbox" /\ k2 = kind /\ box = Append(inbox[p], kind)
      BY <1>6, <2>1
    <3>2. CASE p <= ended
      <4>1. inbox[p] = <<"stop">>
        BY <1>4, <2>1, <3>2 DEF Posted
      <4>2. Append(<<"stop">>, kind) = <<"stop", kind>>
        BY Appended, Zenon
      <4>3. box = <<"stop", kind>>
        BY <3>1, <4>1, <4>2, Zenon
      <4> QED
        BY <2>1, <3>1, <3>2, <4>3 DEF Posted
    <3>3. CASE ~(p <= ended)
      <4>1. inbox[p] = <<>>
        BY <1>4, <2>1, <3>3 DEF Posted
      <4>2. box = <<kind>>
        BY <3>1, <4>1
      <4> QED
        BY <2>1, <3>1, <3>3, <4>2 DEF Posted
    <3> QED
      BY <3>2, <3>3
  <2>2. CASE ~alive[p]
    <3>1. x # "inbox" /\ k2 = "none" /\ box = inbox[p]
      BY <1>6, <2>2 DEF Lost
    <3> QED
      BY <1>4, <2>2, <3>1 DEF Posted
  <2> QED
    BY <2>1, <2>2
<1>11. Dropping(flavour, p, script[Dropper(p)], x, 0)
  BY <1>4, <1>8 DEF Dropping
<1> HIDE DEF box
<1>12. conn'[p] = x /\ inbox'[p] = box
  BY <1>7 DEF TypeOK
<1>13. Agrees(p, k2, 0)'
  BY <1>7, <1>9, <1>10, <1>11, <1>12 DEF Agrees
<1>14. PoolOK(p)'
  <2>1. p <= built' /\ (p > ended' => alive'[p]) /\ 0 \in 0..3
    BY <1>1, <1>7
  <2> QED
    BY <1>8, <1>13, <2>1, Settled, Zenon
<1>15. TypeOK'
  BY <1>7, <1>8 DEF TypeOK, reader
<1>16. (\A q \in SubPools \ {p} : Untouched(q)) /\ Apart /\ Tally(p)
  <2>1. \A q \in SubPools \ {p} : conn'[q] = conn[q] /\ inbox'[q] = inbox[q]
    BY <1>7 DEF TypeOK
  <2> QED
    BY <1>7, <2>1, SilentApart
<1> QED
  BY <1>14, <1>15, <1>16 DEF PoolWorks

LEMMA ConnectedSteps ==
  ASSUME TypeOK, NEW p \in SubPools, PoolOK(p), Connected(p)
  PROVE  PoolWorks(p)
BY SendsBack DEF Connected

LEMMA ReturnSteps ==
  ASSUME TypeOK, NEW p \in SubPools, PoolOK(p), Return(p)
  PROVE  PoolWorks(p)
BY SendsBack DEF Return

\* The script of whoever drops a broken connection.
LEMMA ManagedDropForm ==
  ASSUME NEW p \in SubPools
  PROVE  LET last == Tell(flavour, p, "in_flight", -1) ++ Create(p)
         IN  /\ ManagedDrop(p) = Tell(flavour, p, "connections", -1) ++ last
             /\ ManagedDrop(p) \in Scripts /\ ~Passing(ManagedDrop(p))
<1> DEFINE q == Tell(flavour, p, "connections", -1)
           r == Tell(flavour, p, "in_flight", -1)
           create == Create(p)
<1>1. "in_flight" \in ToSet(Counters) /\ "connections" \in ToSet(Counters)
      /\ -1 \in {-1, 1} /\ "out" \in Places
  BY CounterNames DEF Places
<1>2. q \in Scripts /\ r \in Scripts /\ create \in Scripts
  BY <1>1, StepTypes
<1>3. ManagedDrop(p) = (q ++ r) ++ create
  BY DEF ManagedDrop, connection_dropped, in_flight_dec, Count, OwnOnly,
         Flavour, Tell, OwnStep, UserStep, Pass, ++
<1>4. r ++ create \in Scripts
  BY <1>2, Joined
<1>5. q ++ (r ++ create) \in Scripts /\ ~Passing(q ++ (r ++ create))
  <2> HIDE DEF r, create
  <2> QED
    BY <1>1, <1>4, TellFirst
<1>6. (q ++ r) ++ create = q ++ (r ++ create)
  <2> HIDE DEF q, r, create
  <2> QED
    BY <1>2, Regrouped
<1> QED
  BY <1>3, <1>5, <1>6

LEMMA BreakSteps ==
  ASSUME TypeOK, NEW p \in SubPools, PoolOK(p), Break(p)
  PROVE  PoolWorks(p)
<1> DEFINE a == Dropper(p)
           t == Core(script[Consumer(p)])
           s == ManagedDrop(p)
<1>1. /\ p <= built
      /\ p > ended => alive[p]
      /\ \E k \in Kinds, d \in 0..3 : Agrees(p, k, d)
  BY Exists DEF Break
<1>2. PICK k \in Kinds, d \in 0..3 : Agrees(p, k, d)
  BY <1>1
<1>3. conn[p] = "out" /\ k = "none" /\ d = 0
  BY <1>2, AgreeTypes DEF Break
<1>4. /\ Posted(inbox[p], "out", alive[p], p <= ended, "none")
      /\ Balanced(flavour, p, t, "out", alive[p], queue[p], own[p], "none", 0)
  BY <1>2, <1>3, Zenon DEF Agrees
<1>5. /\ script[a] = <<>>
      /\ script' = [script EXCEPT ![a] = s]
      /\ conn' = [conn EXCEPT ![p] = "broken"]
      /\ UNCHANGED <<flavour, own, user, built, ended, alive, inbox, queue,
                     received, reader>>
  BY DEF Break, Begin, Free, counters
<1>6. /\ s = Tell(flavour, p, "connections", -1)
               ++ (Tell(flavour, p, "in_flight", -1) ++ Create(p))
      /\ s \in Scripts /\ ~Passing(s)
  BY ManagedDropForm
<1> HIDE DEF s
<1>7. Balanced(flavour, p, t, "broken", alive[p], queue[p], own[p], "none", 3)
  <2>1. /\ Present("broken", "none", 3) = Present("out", "none", 0)
        /\ Lent("broken", "none", 3) = Lent("out", "none", 0)
    BY DEF Present, Lent, One
  <2>2. alive[p] \in BOOLEAN /\ "broken" \notin {"held", "idle"}
        /\ "out" \notin {"held", "idle"}
    BY PoolTypes
  <2> HIDE DEF t
  <2> QED
    BY <1>4, <2>1, <2>2, ElsewhereBalance
<1>8. Posted(inbox[p], "broken", alive[p], p <= ended, "none")
  BY <1>4 DEF Posted
<1>9. Dropping(flavour, p, s, "broken", 3)
  BY <1>6 DEF Dropping
<1>10. /\ conn'[p] = "broken"
       /\ script'[a] = s /\ script'[Consumer(p)] = script[Consumer(p)]
  BY <1>5, OneScript DEF TypeOK
<1>11. Agrees(p, "none", 3)'
  BY <1>5, <1>7, <1>8, <1>9, <1>10 DEF Agrees
<1>12. PoolOK(p)'
  <2>1. p <= built' /\ (p > ended' => alive'[p]) /\ 3 \in 0..3 /\ "none" \in Kinds
    BY <1>1, <1>5 DEF Kinds
  <2> QED
    BY <1>11, <2>1, Settled, Zenon
<1>13. TypeOK'
  <2>1. "broken" \in Places
    BY DEF Places
  <2> QED
    BY <1>5, <1>6, <2>1 DEF TypeOK, Scripts, reader
<1>14. (\A q \in SubPools \ {p} : Untouched(q)) /\ Apart /\ Tally(p)
  <2>1. \A q \in SubPools \ {p} : conn'[q] = conn[q]
    BY <1>5 DEF TypeOK
  <2>2. ~Passing(script[a]) /\ conn[p] \notin {"held", "idle"}
    BY <1>3, <1>5 DEF Passing
  <2> QED
    BY <1>5, <1>6, <2>1, <2>2, EffectApart
<1> QED
  BY <1>12, <1>13, <1>14 DEF PoolWorks

-----------------------------------------------------------------------------
(* What a consumer begins.                                                 *)

LEMMA Told ==
  ASSUME NEW p, NEW counter, NEW b
  PROVE  Count(p, counter, b) = Tell(flavour, p, counter, b)
BY DEF Count, OwnOnly, Flavour, Tell, OwnStep, UserStep, Pass, ++

LEMMA FulfillForm ==
  ASSUME TypeOK, NEW p \in SubPools, NEW closed \in 0..queue[p]
  PROVE  fulfill_or_put_idle(p, closed) \in Placings(flavour, p, queue[p])
<1> DEFINE n == queue[p]
           q == Queue(p, -1)
           r == Move(p, "out")
           t == Tell(flavour, p, "reservations", -1)
           w == Tell(flavour, p, "in_flight", 1)
           u == Repeat(closed, SkipOne(flavour, p))
<1>1. n \in 0..Limit /\ n \in Nat /\ closed \in Nat
  BY SizesAssumption DEF TypeOK
<1>2. q \in Scripts /\ r \in Scripts /\ t \in Scripts /\ w \in Scripts
  <2>1. "in_flight" \in ToSet(Counters) /\ "reservations" \in ToSet(Counters)
        /\ "out" \in Places /\ -1 \in {-1, 1} /\ 1 \in {-1, 1}
    BY CounterNames DEF Places
  <2> QED
    BY <2>1, StepTypes
<1>3. u = Repeat(closed, q \o reservation_not_fulfilled(p))
  BY Told DEF SkipOne, reservation_not_fulfilled, ++
<1>4. CASE closed < n
  <2>1. fulfill_or_put_idle(p, closed) = u ++ (((q ++ r) ++ t) ++ w)
    BY <1>3, <1>4, Told DEF fulfill_or_put_idle, reservation_fulfilled,
       in_flight_inc, ++
  <2>2. ((q ++ r) ++ t) ++ w = q ++ HandOver(flavour, p)
    <3>1. q ++ HandOver(flavour, p) = q ++ (r ++ (t ++ w))
      BY DEF HandOver
    <3> HIDE DEF q, r, t, w
    <3> QED
      BY <1>2, <3>1, Unrolled
  <2>3. closed \in 0..(n - 1)
    BY <1>1, <1>4
  <2> QED
    BY <2>1, <2>2, <2>3, Zenon DEF Placings
<1>5. CASE ~(closed < n)
  <2>1. fulfill_or_put_idle(p, closed) = u ++ PutIdle(flavour, p)
    BY <1>3, <1>5, Told DEF fulfill_or_put_idle, put_idle, idle_inc, PutIdle, ++
  <2> QED
    BY <2>1, Zenon DEF Placings
<1> QED
  BY <1>4, <1>5

\* The counters while the consumer is at rest.
Rests(cn, n, o, k, d) ==
  /\ cn # "held" /\ o.idle = One(cn = "idle") /\ o.reservations = n
  /\ o.connections = Present(cn, k, d) /\ o.in_flight = Lent(cn, k, d)

LEMMA AtRest ==
  ASSUME NEW p \in SubPools, NEW fl, NEW cn, NEW n \in 0..Limit, NEW o \in Records,
         NEW k, NEW d, NEW t, t = <<>>, NEW living, living,
         Balanced(fl, p, t, cn, living, n, o, k, d)
  PROVE  Rests(cn, n, o, k, d)
<1>1. PICK i \in -1..1, r \in -1..1, c \in -1..0, f \in -1..1 :
        /\ o.idle = One(cn = "idle") + i
        /\ o.connections = Present(cn, k, d) + c
        /\ \/ /\ living
              /\ Working(fl, p, t, cn, n, i, r, c, f)
              /\ o.reservations = n + r
              /\ o.in_flight = Lent(cn, k, d) + f
           \/ /\ ~living
              /\ Ending(fl, p, t, cn, i, c, f)
              /\ n = 0 /\ o.reservations \in 0..Limit
              /\ cn # "held"
              /\ \E g \in -1..0 :
                   /\ o.in_flight = f + g
                   /\ d \in 2..3 \/ cn = "out" => g = 0
  BY Zenon DEF Balanced
<1>2. cn # "held" /\ i = 0 /\ r = 0 /\ c = 0 /\ f = 0
  BY <1>1, NothingToCount
<1> QED
  BY <1>1, <1>2, SizesAssumption DEF One, Present, Lent, Rests

\* The message with the connection is taken from the channel.
LEMMA Taken ==
  ASSUME NEW box, NEW cn, NEW living, NEW dropped \in BOOLEAN, NEW k \in Kinds,
         Posted(box, cn, living, dropped, k), box # <<>>, Head(box) # "stop"
  PROVE  /\ k \in {"fresh", "returned"} /\ cn = "inbox" /\ Head(box) = k
         /\ Tail(box) = IF dropped THEN <<"stop">> ELSE <<>>
<1>1. CASE ~dropped /\ k # "none" /\ box = <<k>>
  BY <1>1 DEF Kinds, Posted
<1>2. CASE dropped /\ k # "none" /\ box = <<k, "stop">>
  <2>1. Head(box) = k /\ Tail(box) = <<"stop">>
    BY <1>2
  <2> QED
    BY <1>2, <2>1 DEF Kinds, Posted
<1>3. CASE box = <<"stop">> \/ box = <<"stop", k>>
  BY <1>3
<1> QED
  BY <1>1, <1>2, <1>3 DEF Posted

LEMMA CheckInSteps ==
  ASSUME TypeOK, NEW p \in SubPools, PoolOK(p), CheckIn(p)
  PROVE  PoolWorks(p)
<1> DEFINE a == Consumer(p)
           n == queue[p]
           o == own[p]
<1>1. /\ p <= built
      /\ p > ended => alive[p]
      /\ \E k \in Kinds, d \in 0..3 : Agrees(p, k, d)
  BY Exists DEF CheckIn, Receive
<1>2. PICK k \in Kinds, d \in 0..3 : Agrees(p, k, d)
  BY <1>1
<1>3. PICK closed \in 0..n : Begin(a, check_in(p, Head(inbox[p]) = "returned", closed))
  BY DEF CheckIn
<1>4. /\ alive[p] /\ inbox[p] # <<>> /\ Head(inbox[p]) \in {"fresh", "returned"}
      /\ inbox' = [inbox EXCEPT ![p] = Tail(@)]
      /\ conn' = [conn EXCEPT ![p] = "held"]
      /\ UNCHANGED <<flavour, own, user, built, ended, alive, queue,
                     received, reader>>
  BY DEF CheckIn, Receive, counters
<1>5. /\ Posted(inbox[p], conn[p], alive[p], p <= ended, k)
      /\ Dropping(flavour, p, script[Dropper(p)], conn[p], d)
      /\ Balanced(flavour, p, Core(script[a]), conn[p], alive[p], n, o, k, d)
  BY <1>2, Zenon DEF Agrees
<1>6. /\ k \in {"fresh", "returned"} /\ conn[p] = "inbox" /\ Head(inbox[p]) = k
      /\ Tail(inbox[p]) = IF p <= ended THEN <<"stop">> ELSE <<>>
  <2> DEFINE dropped == p <= ended
  <2>1. dropped \in BOOLEAN
    OBVIOUS
  <2> HIDE DEF dropped
  <2>2. Posted(inbox[p], conn[p], alive[p], dropped, k)
    BY <1>5 DEF dropped
  <2>3. /\ k \in {"fresh", "returned"} /\ conn[p] = "inbox" /\ Head(inbox[p]) = k
        /\ Tail(inbox[p]) = IF dropped THEN <<"stop">> ELSE <<>>
    BY <1>4, <2>1, <2>2, Taken
  <2> QED
    BY <2>3 DEF dropped
<1>7. d = 0
  BY <1>2, <1>6, AgreeTypes
<1>8. script[a] = <<>> /\ Core(script[a]) = <<>>
  BY <1>3 DEF Begin, Free, Core, Passing
<1>9. o.idle = 0 /\ o.reservations = n /\ n \in 0..Limit /\ alive[p] = TRUE
      /\ o.connections = Present("inbox", k, 0) /\ o.in_flight = Lent("inbox", k, 0)
  <2>1. alive[p] = TRUE /\ n \in 0..Limit /\ o \in Records
    BY <1>4, PoolTypes
  <2>2. Balanced(flavour, p, Core(script[a]), conn[p], alive[p], n, o, k, 0)
    BY <1>5, <1>7
  <2>3. Rests(conn[p], n, o, k, 0)
    BY <1>4, <1>8, <2>1, <2>2, AtRest
  <2> QED
    BY <1>6, <2>1, <2>3 DEF Rests, One
<1> DEFINE counter == IF k = "returned" THEN "in_flight" ELSE "connections"
           b == IF k = "returned" THEN -1 ELSE 1
           s == check_in(p, k = "returned", closed)
<1>10. PICK u \in Placings(flavour, p, n) : s = Tell(flavour, p, counter, b) ++ u
  <2> DEFINE u == fulfill_or_put_idle(p, closed)
  <2>1. u \in Placings(flavour, p, n)
    BY FulfillForm
  <2>2. s = Tell(flavour, p, counter, b) ++ u
    <3> HIDE DEF u
    <3> QED
      BY Told DEF check_in, in_flight_dec, checked_in_new_connection, ++, u
  <2> QED
    BY <2>1, <2>2
<1>11. s \in Scripts /\ ~Passing(s)
  <2>1. u \in Scripts
    BY <1>9, PlacingStarts, SizesAssumption
  <2>2. counter \in ToSet(Counters) /\ b \in {-1, 1}
    BY CounterNames
  <2> HIDE DEF counter, b, s
  <2> QED
    BY <1>10, <2>1, <2>2, TellFirst
<1>12. Balanced(flavour, p, s, "held", alive[p], n, o, "none", 0)
  <2>1. CASE k = "returned"
    <3>1. Working(flavour, p, s, "held", n, 0, 0, 0, 1)
      BY <1>10, <2>1, Zenon DEF Working
    <3>2. /\ o.idle = One("held" = "idle") + 0 /\ o.reservations = n + 0
          /\ o.connections = Present("held", "none", 0) + 0
          /\ o.in_flight = Lent("held", "none", 0) + 1
      BY <1>9, <2>1, SizesAssumption DEF One, Present, Lent
    <3> HIDE DEF s
    <3>3. Balanced(flavour, p, s, "held", TRUE, n, o, "none", 0)
      BY <3>1, <3>2, SmallNumbers, LivingBalance, Zenon
    <3> QED
      BY <1>9, <3>3
  <2>2. CASE k = "fresh"
    <3>1. Working(flavour, p, s, "held", n, 0, 0, -1, 0)
      <4>1. s = Tell(flavour, p, "connections", 1) ++ u
        BY <1>10, <2>2
      <4> HIDE DEF s
      <4> QED
        BY <4>1, Zenon DEF Working
    <3>2. /\ o.idle = One("held" = "idle") + 0 /\ o.reservations = n + 0
          /\ o.connections = Present("held", "none", 0) + (-1)
          /\ o.in_flight = Lent("held", "none", 0) + 0
      BY <1>9, <2>2, SizesAssumption DEF One, Present, Lent
    <3> HIDE DEF s
    <3>3. Balanced(flavour, p, s, "held", TRUE, n, o, "none", 0)
      BY <3>1, <3>2, SmallNumbers, LivingBalance, Zenon
    <3> QED
      BY <1>9, <3>3
  <2> QED
    BY <1>6, <2>1, <2>2
<1> HIDE DEF s
<1>13. script' = [script EXCEPT ![a] = s]
  BY <1>3, <1>6 DEF Begin, s
<1>14. /\ conn'[p] = "held" /\ inbox'[p] = Tail(inbox[p])
       /\ script'[a] = s /\ script'[Dropper(p)] = script[Dropper(p)]
  BY <1>4, <1>13, OneScript DEF TypeOK
<1>15. Core(s) = s
  BY <1>11 DEF Core
<1>16. Posted(Tail(inbox[p]), "held", alive[p], p <= ended, "none")
  BY <1>4, <1>6 DEF Posted
<1>17. Dropping(flavour, p, script[Dropper(p)], "held", 0)
  BY <1>5, <1>7 DEF Dropping
<1>18. Agrees(p, "none", 0)'
  BY <1>4, <1>12, <1>14, <1>15, <1>16, <1>17 DEF Agrees
<1>19. PoolOK(p)'
  <2>1. p <= built' /\ (p > ended' => alive'[p]) /\ 0 \in 0..3 /\ "none" \in Kinds
    BY <1>1, <1>4 DEF Kinds
  <2> QED
    BY <1>18, <2>1, Settled, Zenon
<1>20. TypeOK'
  <2>1. "held" \in Places
    BY DEF Places
  <2>2. inbox' \in [SubPools -> Seq({"fresh", "returned", "stop"})]
    BY <1>4 DEF TypeOK
  <2> QED
    BY <1>4, <1>11, <1>13, <2>1, <2>2 DEF TypeOK, Scripts, reader
<1>21. (\A q \in SubPools \ {p} : Untouched(q)) /\ Apart /\ Tally(p)
  <2>1. \A q \in SubPools \ {p} : conn'[q] = conn[q] /\ inbox'[q] = inbox[q]
    BY <1>4 DEF TypeOK
  <2>2. ~Passing(script[a])
    BY <1>8 DEF Passing
  <2> QED
    BY <1>4, <1>11, <1>13, <2>1, <2>2, EffectApart
<1> QED
  BY <1>19, <1>20, <1>21 DEF PoolWorks

\* A consumer begins to work, with nothing to count ahead.
LEMMA BeginsWork ==
  ASSUME TypeOK, NEW p \in SubPools, PoolOK(p), alive[p],
         NEW s \in Scripts, ~Passing(s), script[Consumer(p)] = <<>>,
         conn[p] # "held" => Working(flavour, p, s, conn[p], queue[p], 0, 0, 0, 0),
         script' = [script EXCEPT ![Consumer(p)] = s],
         UNCHANGED <<flavour, own, user, built, ended, alive, conn, inbox, queue,
                     reader>>,
         received' \in 0..MaxCheckouts
  PROVE  PoolWorks(p)
<1> DEFINE a == Consumer(p)
<1>1. /\ p <= built
      /\ p > ended => alive[p]
      /\ \E k \in Kinds, d \in 0..3 : Agrees(p, k, d)
  BY Exists
<1>2. PICK k \in Kinds, d \in 0..3 : Agrees(p, k, d)
  BY <1>1
<1>3. /\ Posted(inbox[p], conn[p], alive[p], p <= ended, k)
      /\ Dropping(flavour, p, script[Dropper(p)], conn[p], d)
      /\ Balanced(flavour, p, Core(script[a]), conn[p], alive[p], queue[p],
                  own[p], k, d)
  BY <1>2, Zenon DEF Agrees
<1>4. Core(script[a]) = <<>> /\ ~Passing(script[a])
  BY DEF Core, Passing
<1>5. Rests(conn[p], queue[p], own[p], k, d)
  BY <1>3, <1>4, PoolTypes, AtRest
<1>6. Balanced(flavour, p, s, conn[p], alive[p], queue[p], own[p], k, d)
  <2>1. Working(flavour, p, s, conn[p], queue[p], 0, 0, 0, 0)
    BY <1>5 DEF Rests
  <2>2. /\ own[p].idle = One(conn[p] = "idle") + 0
        /\ own[p].reservations = queue[p] + 0
        /\ own[p].connections = Present(conn[p], k, d) + 0
        /\ own[p].in_flight = Lent(conn[p], k, d) + 0
    BY <1>5, PoolTypes DEF Rests, One, Present, Lent
  <2> QED
    BY <2>1, <2>2, SmallNumbers, LivingBalance, Zenon
<1>7. /\ script'[a] = s /\ script'[Dropper(p)] = script[Dropper(p)]
  BY OneScript
<1>8. Core(s) = s
  BY DEF Core
<1>9. Agrees(p, k, d)'
  BY <1>3, <1>6, <1>7, <1>8 DEF Agrees
<1>10. PoolOK(p)'
  <2>1. p <= built' /\ (p > ended' => alive'[p])
    BY <1>1
  <2> QED
    BY <1>9, <2>1, Settled, Zenon
<1>11. TypeOK'
  BY DEF TypeOK, Scripts, reader
<1>12. (\A q \in SubPools \ {p} : Untouched(q)) /\ Apart /\ Tally(p)
  BY <1>4, EffectApart
<1> QED
  BY <1>10, <1>11, <1>12 DEF PoolWorks

LEMMA CheckOutIdleForm ==
  ASSUME TypeOK, NEW p \in SubPools, NEW sent \in BOOLEAN
  PROVE  /\ check_out_idle(p, sent) \in Scripts
         /\ ~Passing(check_out_idle(p, sent))
         /\ Working(flavour, p, check_out_idle(p, sent), "idle", queue[p],
                    0, 0, 0, 0)
<1> DEFINE u == IF sent THEN Move(p, "out") ++ Tell(flavour, p, "in_flight", 1)
                        ELSE PutIdle(flavour, p)
           m == Move(p, "held")
           t == Tell(flavour, p, "idle", -1)
           s == check_out_idle(p, sent)
<1>1. u \in Sendings(flavour, p)
  BY DEF Sendings
<1>2. u \in Scripts
  BY <1>1, SendingStarts
<1>3. s = (m ++ t) ++ u
  BY Told DEF check_out_idle, idle_dec, in_flight_inc, put_idle, idle_inc,
     PutIdle, ++
<1>4. m \in Scripts /\ t \in Scripts
  <2>1. "idle" \in ToSet(Counters) /\ "held" \in Places /\ -1 \in {-1, 1}
    BY CounterNames DEF Places
  <2> QED
    BY <2>1, StepTypes
<1>5. t ++ u \in Scripts /\ "held" \in Places
  BY <1>2, <1>4, Joined DEF Places
<1> HIDE DEF u, t, s
<1>6. s = m ++ (t ++ u)
  <2> HIDE DEF m
  <2> QED
    BY <1>2, <1>3, <1>4, Regrouped
<1>7. m ++ (t ++ u) \in Scripts /\ ~Passing(m ++ (t ++ u))
  BY <1>5, MoveFirst
<1>8. Working(flavour, p, s, "idle", queue[p], 0, 0, 0, 0)
  BY <1>1, <1>6, Zenon DEF Working, t
<1> QED
  BY <1>6, <1>7, <1>8 DEF s

LEMMA CreateReservationForm ==
  ASSUME TypeOK, NEW p \in SubPools, NEW closed \in 0..queue[p]
  PROVE  create_reservation(p, closed) \in Cleanups(flavour, p, queue[p])
<1> DEFINE n == queue[p]
           u == Repeat(closed, TidyOne(flavour, p))
<1>1. n \in 0..Limit /\ n \in Nat /\ Limit \in Nat
  BY SizesAssumption DEF TypeOK
<1>2. cleanup_reservations(p, closed) = u
  BY Told DEF cleanup_reservations, reservation_not_fulfilled, TidyOne, ++
<1>3. Queue(p, 1) \o reservation_added(p) = Reserve(flavour, p)
  BY Told DEF reservation_added, Reserve, ++
<1>4. CASE n < Limit
  <2>1. create_reservation(p, closed) = Reserve(flavour, p)
    BY <1>3, <1>4 DEF create_reservation
  <2>2. Repeat(0, TidyOne(flavour, p)) ++ Reserve(flavour, p) = Reserve(flavour, p)
    BY PartTypes, RepeatTypes, NothingMore
  <2>3. 0 \in {l \in 0..n : n - l < Limit}
    BY <1>1, <1>4
  <2> HIDE DEF n
  <2> QED
    BY <2>1, <2>2, <2>3, Zenon DEF Cleanups, n
<1>5. CASE ~(n < Limit) /\ closed > 0
  <2>1. create_reservation(p, closed) = u ++ Reserve(flavour, p)
    BY <1>2, <1>3, <1>5 DEF create_reservation, ++
  <2>2. closed \in {l \in 0..n : n - l < Limit}
    BY <1>1, <1>5
  <2> QED
    BY <2>1, <2>2, Zenon DEF Cleanups
<1>6. CASE ~(n < Limit) /\ ~(closed > 0)
  <2>1. create_reservation(p, closed) = u ++ <<>>
    BY <1>2, <1>6 DEF create_reservation, ++
  <2>2. u ++ <<>> = u
    BY PartTypes, RepeatTypes, NothingMore
  <2> QED
    BY <2>1, <2>2, Zenon DEF Cleanups
<1> QED
  BY <1>4, <1>5, <1>6

LEMMA CheckOutSteps ==
  ASSUME TypeOK, NEW p \in SubPools, PoolOK(p), CheckOut(p)
  PROVE  PoolWorks(p)
<1> DEFINE a == Consumer(p)
<1>1. /\ alive[p] /\ received < MaxCheckouts /\ received' = received + 1
      /\ UNCHANGED <<flavour, own, user, built, ended, alive, conn, inbox, queue,
                     reader>>
  BY DEF CheckOut, counters
<1>2. received' \in 0..MaxCheckouts
  BY <1>1, SizesAssumption DEF TypeOK
<1>3. CASE conn[p] = "idle"
  <2>1. PICK sent \in BOOLEAN : Begin(a, check_out_idle(p, sent))
    BY <1>3 DEF CheckOut
  <2> DEFINE s == check_out_idle(p, sent)
  <2>2. s \in Scripts /\ ~Passing(s)
        /\ Working(flavour, p, s, conn[p], queue[p], 0, 0, 0, 0)
    BY <1>3, CheckOutIdleForm
  <2>3. script[a] = <<>> /\ script' = [script EXCEPT ![a] = s]
    BY <2>1 DEF Begin, Free
  <2> HIDE DEF s
  <2> QED
    BY <1>1, <1>2, <2>2, <2>3, BeginsWork
<1>4. CASE conn[p] # "idle"
  <2>1. PICK closed \in 0..queue[p] : Begin(a, create_reservation(p, closed))
    BY <1>4 DEF CheckOut
  <2> DEFINE s == create_reservation(p, closed)
  <2>2. s \in Cleanups(flavour, p, queue[p])
    BY CreateReservationForm
  <2>3. script[a] = <<>> /\ script' = [script EXCEPT ![a] = s]
    BY <2>1 DEF Begin, Free
  <2> HIDE DEF s
  <2>4. s \in Scripts /\ ~Passing(s)
    BY <2>2, CleanupStarts, PoolTypes, SizesAssumption
  <2>5. conn[p] # "held" => Working(flavour, p, s, conn[p], queue[p], 0, 0, 0, 0)
    BY <2>2, Zenon DEF Working
  <2> QED
    BY <1>1, <1>2, <2>3, <2>4, <2>5, BeginsWork
<1> QED
  BY <1>3, <1>4

LEMMA CleanupReservationsSteps ==
  ASSUME TypeOK, NEW p \in SubPools, PoolOK(p), CleanupReservations(p)
  PROVE  PoolWorks(p)
<1> DEFINE a == Consumer(p)
<1>1. PICK closed \in 1..queue[p] : Begin(a, cleanup_reservations(p, closed))
  BY DEF CleanupReservations
<1>2. /\ alive[p] /\ received' = received
      /\ UNCHANGED <<flavour, own, user, built, ended, alive, conn, inbox, queue,
                     reader>>
  BY DEF CleanupReservations, counters, pool
<1>3. received' \in 0..MaxCheckouts
  BY <1>2 DEF TypeOK
<1> DEFINE s == cleanup_reservations(p, closed)
<1>4. s \in Cleanups(flavour, p, queue[p])
  <2>1. s = Repeat(closed, TidyOne(flavour, p))
    BY Told DEF cleanup_reservations, reservation_not_fulfilled, TidyOne, ++
  <2>2. closed \in 0..queue[p]
    BY PoolTypes, SizesAssumption
  <2> QED
    BY <2>1, <2>2, Zenon DEF Cleanups
<1>5. script[a] = <<>> /\ script' = [script EXCEPT ![a] = s]
  BY <1>1 DEF Begin, Free
<1> HIDE DEF s
<1>6. s \in Scripts /\ ~Passing(s)
  BY <1>4, CleanupStarts, PoolTypes, SizesAssumption
<1>7. conn[p] # "held" => Working(flavour, p, s, conn[p], queue[p], 0, 0, 0, 0)
  BY <1>4, Zenon DEF Working
<1> QED
  BY <1>2, <1>3, <1>5, <1>6, <1>7, BeginsWork

LEMMA InnerPoolDropForm ==
  ASSUME TypeOK, NEW p \in SubPools, own[p].in_flight \in 0..1,
         own[p].in_flight = 1 => conn[p] # "idle",
         NEW cn2, cn2 = "idle" <=> conn[p] = "idle"
  PROVE  /\ InnerPoolDrop(p) \in Scripts /\ ~Passing(InnerPoolDrop(p))
         /\ Ending(flavour, p, InnerPoolDrop(p), cn2, 0, 0, own[p].in_flight)
<1> DEFINE t == Tell(flavour, p, "in_flight", -1)
           q == Tell(flavour, p, "idle", -1)
           r == Tell(flavour, p, "connections", -1)
           m == Move(p, "gone")
           s == InnerPoolDrop(p)
           u == Repeat(own[p].in_flight, t)
           tail == IF conn[p] = "idle" THEN (q ++ r) ++ m ELSE <<>>
<1>1. /\ "in_flight" \in ToSet(Counters) /\ "idle" \in ToSet(Counters)
      /\ "connections" \in ToSet(Counters) /\ -1 \in {-1, 1} /\ "gone" \in Places
  BY CounterNames DEF Places
<1>2. t \in Scripts /\ q \in Scripts /\ r \in Scripts /\ m \in Scripts
  BY <1>1, StepTypes
<1>3. t # <<>> /\ ~Passing(t)
  BY <1>1, TellAlone
<1>4. s = u ++ tail
  BY Told DEF InnerPoolDrop, in_flight_dec, idle_dec, connection_dropped, ++
<1>5. Len(t) > 0
  <2> HIDE DEF t
  <2> QED
    BY <1>2, <1>3 DEF Scripts
<1>6. Repeat(0, t) = <<>> /\ Repeat(1, t) = t
  <2>1. Repeat(0, t) = <<>>
    BY <1>2, <1>5, RepeatTypes
  <2>2. Repeat(0 + 1, t) = t ++ Repeat(0, t)
    BY <1>2, <1>5, RepeatNext
  <2>3. t ++ <<>> = t
    BY <1>2, NothingMore
  <2> QED
    BY <2>1, <2>2, <2>3
<1>7. CASE own[p].in_flight = 1
  <2>1. s = t
    <3>1. tail = <<>> /\ u = t
      BY <1>6, <1>7
    <3> HIDE DEF t, u, tail, s
    <3> QED
      BY <1>2, <1>4, <3>1, NothingMore
  <2>2. cn2 # "idle"
    BY <1>7
  <2>3. Ending(flavour, p, t, cn2, 0, 0, 1)
    BY <2>2 DEF Ending
  <2> HIDE DEF s, t
  <2> QED
    BY <1>2, <1>3, <1>7, <2>1, <2>3 DEF s
<1>8. CASE own[p].in_flight = 0 /\ conn[p] # "idle"
  <2>1. s = <<>>
    <3>1. tail = <<>> /\ u = <<>>
      BY <1>6, <1>8
    <3> HIDE DEF t, u, tail, s
    <3> QED
      BY <1>4, <3>1, NothingMore, NoScript
  <2>2. Ending(flavour, p, <<>>, cn2, 0, 0, 0)
    BY <1>8 DEF Ending
  <2>3. <<>> \in Scripts /\ ~Passing(<<>>)
    BY NoScript DEF Passing
  <2> HIDE DEF s
  <2> QED
    BY <1>8, <2>1, <2>2, <2>3 DEF s
<1>9. CASE own[p].in_flight = 0 /\ conn[p] = "idle"
  <2> DEFINE v == r ++ m
  <2>1. v \in Scripts
    BY <1>2, Joined
  <2>2. s = q ++ v
    <3>1. tail = (q ++ r) ++ m /\ u = <<>>
      BY <1>6, <1>9
    <3>2. (q ++ r) ++ m \in Scripts /\ (q ++ r) ++ m = q ++ (r ++ m)
      <4> HIDE DEF q, r, m
      <4>1. q ++ r \in Scripts
        BY <1>2, Joined
      <4> QED
        BY <1>2, <4>1, Joined, Regrouped
    <3> HIDE DEF q, r, m, t, u, tail, s
    <3> QED
      BY <1>4, <3>1, <3>2, NothingMore
  <2>3. q ++ v \in Scripts /\ ~Passing(q ++ v)
    <3> HIDE DEF v
    <3> QED
      BY <1>1, <2>1, TellFirst
  <2>4. Ending(flavour, p, q ++ v, cn2, 0, 0, 0)
    BY <1>9 DEF Ending
  <2> HIDE DEF s, q, v
  <2> QED
    BY <1>9, <2>2, <2>3, <2>4 DEF s
<1> QED
  BY <1>7, <1>8, <1>9

LEMMA StopConsumerSteps ==
  ASSUME TypeOK, NEW p \in SubPools, PoolOK(p), StopConsumer(p)
  PROVE  PoolWorks(p)
<1> DEFINE a == Consumer(p)
           s == InnerPoolDrop(p)
           o == own[p]
<1>1. /\ p <= built
      /\ p > ended => alive[p]
      /\ \E k \in Kinds, d \in 0..3 : Agrees(p, k, d)
  BY Exists DEF StopConsumer
<1>2. PICK k \in Kinds, d \in 0..3 : Agrees(p, k, d)
  BY <1>1
<1>3. /\ Posted(inbox[p], conn[p], alive[p], p <= ended, k)
      /\ Dropping(flavour, p, script[Dropper(p)], conn[p], d)
      /\ Balanced(flavour, p, Core(script[a]), conn[p], alive[p], queue[p], o, k, d)
  BY <1>2, Zenon DEF Agrees
<1>4. PICK cn2 : cn2 = IF conn[p] = "inbox" THEN Lost(Last(inbox[p])) ELSE conn[p]
  OBVIOUS
<1>5. /\ alive[p] /\ inbox[p] # <<>> /\ Head(inbox[p]) = "stop"
      /\ script[a] = <<>>
      /\ script' = [script EXCEPT ![a] = s]
      /\ alive' = [alive EXCEPT ![p] = FALSE]
      /\ conn' = [conn EXCEPT ![p] = cn2]
      /\ inbox' = [inbox EXCEPT ![p] = <<>>]
      /\ queue' = [queue EXCEPT ![p] = 0]
      /\ UNCHANGED <<flavour, own, user, built, ended, received, reader>>
  BY <1>4 DEF StopConsumer, counters, Begin, Free, TypeOK
<1>6. p <= ended /\ (k = "none" <=> conn[p] # "inbox") /\ (d > 0 <=> conn[p] = "broken")
  <2>1. (k = "none" <=> conn[p] # "inbox") /\ (d > 0 <=> conn[p] = "broken")
    BY <1>2, AgreeTypes
  <2>2. p <= ended
    BY <1>3, <1>5 DEF Posted, Kinds
  <2> QED
    BY <2>1, <2>2
<1>7. k # "none" => Last(inbox[p]) = k
  <2>1. ASSUME k # "none" PROVE inbox[p] = <<"stop", k>> \/ inbox[p] = <<k, "stop">>
    BY <1>3, <1>5, <1>6, <2>1 DEF Posted
  <2>2. ASSUME k # "none" PROVE inbox[p] = <<"stop", k>>
    <3>1. Head(<<k, "stop">>) = k /\ k # "stop"
      BY DEF Kinds
    <3> QED
      BY <1>5, <2>1, <2>2, <3>1
  <2>3. Len(<<"stop", k>>) = 2 /\ <<"stop", k>>[2] = k
    OBVIOUS
  <2>4. Last(inbox[p]) = inbox[p][Len(inbox[p])]
    BY DEF Last
  <2>5. ASSUME k # "none" PROVE Last(inbox[p]) = k
    <3>1. inbox[p] = <<"stop", k>>
      BY <2>2, <2>5
    <3> HIDE DEF s
    <3> QED
      BY <2>3, <2>4, <3>1
  <2> QED
    BY <2>5
<1>8. Rests(conn[p], queue[p], o, k, d)
  <2>1. Core(script[a]) = <<>>
    BY <1>5 DEF Core, Passing
  <2> QED
    BY <1>3, <1>5, <2>1, PoolTypes, AtRest
<1>9. /\ cn2 = IF conn[p] = "inbox"
                 THEN IF k = "returned" THEN "orphan" ELSE "gone"
                 ELSE conn[p]
      /\ cn2 # "inbox" /\ cn2 # "held" /\ cn2 \in Places
      /\ cn2 = "idle" <=> conn[p] = "idle"
      /\ cn2 = "broken" <=> conn[p] = "broken"
  BY <1>4, <1>6, <1>7, <1>8, PoolTypes DEF Lost, Rests, Places
<1>10. /\ o.in_flight \in 0..1 /\ (o.in_flight = 1 => conn[p] # "idle")
       /\ o.idle = One(cn2 = "idle") /\ o.connections = Present(cn2, "none", d)
  <2>1. Present(cn2, "none", d) = Present(conn[p], k, d)
    <3>1. CASE conn[p] = "inbox"
      <4>1. k \in {"fresh", "returned"}
        BY <1>6, <3>1 DEF Kinds
      <4> QED
        BY <1>9, <3>1, <4>1 DEF Present, One
    <3>2. CASE conn[p] # "inbox"
      BY <1>6, <1>9, <3>2 DEF Present, One
    <3> QED
      BY <3>1, <3>2
  <2>2. One(cn2 = "idle") = One(conn[p] = "idle")
    BY <1>9 DEF One
  <2>3. Lent(conn[p], k, d) \in 0..1 /\ (Lent(conn[p], k, d) = 1 => conn[p] # "idle")
    BY <1>6 DEF Lent, One
  <2> QED
    BY <1>8, <2>1, <2>2, <2>3 DEF Rests
<1>11. /\ s \in Scripts /\ ~Passing(s)
       /\ Ending(flavour, p, s, cn2, 0, 0, o.in_flight)
  BY <1>9, <1>10, InnerPoolDropForm
<1> HIDE DEF s
<1>12. Balanced(flavour, p, s, cn2, FALSE, 0, o, "none", d)
  <2>1. o.reservations \in 0..Limit
    BY <1>8, PoolTypes DEF Rests
  <2>2. PICK f \in -1..1 : f = o.in_flight
    BY <1>10
  <2>3. /\ o.idle = One(cn2 = "idle") + 0
        /\ o.connections = Present(cn2, "none", d) + 0
        /\ o.in_flight = f + 0
    BY <1>10, <2>2, PoolTypes DEF One, Present
  <2>4. Ending(flavour, p, s, cn2, 0, 0, f)
    BY <1>11, <2>2
  <2> DEFINE living == FALSE
  <2>5. ~living
    OBVIOUS
  <2> HIDE DEF living
  <2>6. Balanced(flavour, p, s, cn2, living, 0, o, "none", d)
    BY <1>9, <2>1, <2>3, <2>4, <2>5, SmallNumbers, EndedBalance, Zenon
  <2> QED
    BY <2>6 DEF living
<1>13. /\ conn'[p] = cn2 /\ alive'[p] = FALSE /\ inbox'[p] = <<>> /\ queue'[p] = 0
       /\ script'[a] = s /\ script'[Dropper(p)] = script[Dropper(p)]
  BY <1>5, OneScript DEF TypeOK
<1>14. Core(s) = s
  BY <1>11 DEF Core
<1>15. Posted(<<>>, cn2, FALSE, p <= ended, "none")
  BY <1>9 DEF Posted
<1>16. Dropping(flavour, p, script[Dropper(p)], cn2, d)
  BY <1>3, <1>6, <1>9 DEF Dropping
<1>17. Agrees(p, "none", d)'
  BY <1>5, <1>12, <1>13, <1>14, <1>15, <1>16 DEF Agrees
<1>18. PoolOK(p)'
  <2>1. p <= built' /\ (p > ended' => alive'[p]) /\ "none" \in Kinds
    BY <1>1, <1>5, <1>6, SizesAssumption DEF Kinds, TypeOK, SubPools
  <2> QED
    BY <1>17, <2>1, Settled, Zenon
<1>19. TypeOK'
  <2>1. 0 \in 0..Limit /\ <<>> \in Seq({"fresh", "returned", "stop"})
    BY SizesAssumption
  <2> QED
    BY <1>5, <1>9, <1>11, <2>1 DEF TypeOK, Scripts, reader
<1>20. (\A q \in SubPools \ {p} : Untouched(q)) /\ Apart /\ Tally(p)
  <2>1. \A q \in SubPools \ {p} :
          /\ conn'[q] = conn[q] /\ inbox'[q] = inbox[q]
          /\ alive'[q] = alive[q] /\ queue'[q] = queue[q]
    BY <1>5 DEF TypeOK
  <2>2. ~Passing(script[a])
    BY <1>5 DEF Passing
  <2> QED
    BY <1>5, <1>11, <2>1, <2>2, EffectApart
<1> QED
  BY <1>18, <1>19, <1>20 DEF PoolWorks

-----------------------------------------------------------------------------
(* What the user was told of a sub pool.                                   *)

Owners(p) == {Consumer(p), Dropper(p), Main}

LEMMA OwnerTypes ==
  ASSUME NEW p \in SubPools
  PROVE  Owners(p) \subseteq Actors
BY ActorTypes DEF Owners

\* What an actor has yet to pass on is at the head of its script.
LEMMA LateForms ==
  ASSUME TypeOK, NEW a \in Actors, NEW p \in SubPools, NEW c \in ToSet(Counters)
  PROVE  /\ Late(a, p, c) \in -1..1
         /\ ~Passing(script[a]) => Late(a, p, c) = 0
         /\ Passing(script[a]) =>
              LET x == Head(script[a])
              IN  Late(a, p, c) = IF x.pool = p /\ x.counter = c THEN x.by ELSE 0
<1>1. CASE ~Passing(script[a])
  BY <1>1 DEF Late, Passing, Free
<1>2. CASE Passing(script[a])
  <2>1. Head(script[a]).by \in {-1, 1}
    BY <1>2, HeadTypes
  <2> QED
    BY <1>2, <2>1 DEF Late, Passing, Free
<1> QED
  BY <1>1, <1>2

LEMMA LateSame ==
  ASSUME NEW a, NEW p, NEW c,
         \/ script'[a] = script[a]
         \/ ~Passing(script[a]) /\ ~Passing(script'[a])
  PROVE  Late(a, p, c)' = Late(a, p, c)
BY DEF Late, Passing, Free

LEMMA PassedOnTypes ==
  ASSUME TypeOK, NEW p \in SubPools, NEW c \in ToSet(Counters)
  PROVE  PassedOn(p, c) \in Int
<1>1. own[p][c] \in Int
  BY DEF TypeOK
<1>2. /\ Late(Consumer(p), p, c) \in Int /\ Late(Dropper(p), p, c) \in Int
      /\ Late(Main, p, c) \in Int
  BY ActorTypes, LateForms
<1> QED
  BY <1>1, <1>2 DEF PassedOn

\* Who counts an event has yet to pass it on.
LEMMA CountsKeep ==
  ASSUME TypeOK, TypeOK', flavour = "Custom", NEW p \in SubPools,
         NEW a \in Owners(p),
         NEW counter \in ToSet(Counters), NEW b \in {-1, 1},
         Counts(a, p, counter, b),
         NEW q \in SubPools, NEW c \in ToSet(Counters)
  PROVE  PassedOn(q, c)' = PassedOn(q, c)
<1> DEFINE more == IF q = p /\ c = counter THEN b ELSE 0
<1>1. PICK v \in Scripts :
        /\ ~Passing(v)
        /\ script' = [script EXCEPT ![a] = Pass(flavour, p, counter, b) ++ v]
  BY Zenon DEF Counts
<1>2. a \in Actors /\ ~Passing(script[a])
  BY OwnerTypes DEF Counts
<1>3. script'[a] = Pass(flavour, p, counter, b) ++ v
  BY <1>1, <1>2 DEF TypeOK
<1>4. Passing(script'[a]) /\ Head(script'[a]) = UserStep(p, counter, b)
  BY <1>1, <1>3, TellCore
<1>5. Late(a, q, c)' = more /\ Late(a, q, c) = 0
  <2>1. Late(a, q, c) = 0
    BY <1>2, LateForms
  <2>2. Late(a, q, c)' = more
    BY <1>4 DEF Late, Passing, Free, UserStep
  <2> QED
    BY <2>1, <2>2
<1>6. \A e \in Actors \ {a} : Late(e, q, c)' = Late(e, q, c)
  <2>1. \A e \in Actors \ {a} : script'[e] = script[e]
    BY <1>1 DEF TypeOK
  <2> QED
    BY <2>1, LateSame
<1>7. own'[q][c] = own[q][c] + more /\ own[q][c] \in Int /\ more \in Int
  <2>1. own \in [SubPools -> [ToSet(Counters) -> Int]]
    BY DEF TypeOK
  <2>2. own' = [own EXCEPT ![p] = [own[p] EXCEPT ![counter] = own[p][counter] + b]]
    BY DEF Counts
  <2> QED
    BY <2>1, <2>2
<1>8. /\ Late(Consumer(q), q, c) \in Int /\ Late(Dropper(q), q, c) \in Int
      /\ Late(Main, q, c) \in Int
      /\ Consumer(q) \in Actors /\ Dropper(q) \in Actors /\ Main \in Actors
      /\ Consumer(q) # Dropper(q) /\ Consumer(q) # Main /\ Dropper(q) # Main
  BY ActorTypes, LateForms
<1>9. CASE q = p
  <2> HIDE DEF more
  <2> QED
    BY <1>5, <1>6, <1>7, <1>8, <1>9 DEF PassedOn, Owners
<1>10. CASE q # p
  <2>1. more = 0
    BY <1>10
  <2>2. \A e \in Actors : Late(e, q, c)' = Late(e, q, c)
    BY <1>5, <1>6, <2>1
  <2> HIDE DEF more
  <2> QED
    BY <1>7, <1>8, <2>1, <2>2 DEF PassedOn
<1> QED
  BY <1>9, <1>10

\* Who passes an event on has told the user.
LEMMA PassesKeep ==
  ASSUME TypeOK, TypeOK', NEW p \in SubPools, NEW a \in Owners(p), PassesOn(a),
         Head(script[a]).pool = p,
         NEW q \in SubPools, NEW c \in ToSet(Counters)
  PROVE  PassedOn(q, c)' =
           PassedOn(q, c) + (IF q = p /\ c = Head(script[a]).counter
                               THEN Head(script[a]).by ELSE 0)
<1> DEFINE more == IF q = p /\ c = Head(script[a]).counter
                     THEN Head(script[a]).by ELSE 0
<1>1. /\ Passing(script[a]) /\ ~Passing(Core(script[a]))
      /\ script' = [script EXCEPT ![a] = Core(script[a])]
      /\ own' = own
  BY DEF PassesOn
<1>2. a \in Actors
  BY OwnerTypes
<1>3. script'[a] = Core(script[a])
  BY <1>1, <1>2 DEF TypeOK
<1>4. Late(a, q, c)' = 0 /\ Late(a, q, c) = more
  <2>1. Late(a, q, c) = more
    BY <1>1, <1>2, LateForms
  <2>2. Late(a, q, c)' = 0
    BY <1>1, <1>3 DEF Late, Passing, Free
  <2> QED
    BY <2>1, <2>2
<1>5. \A e \in Actors \ {a} : Late(e, q, c)' = Late(e, q, c)
  <2>1. \A e \in Actors \ {a} : script'[e] = script[e]
    BY <1>1 DEF TypeOK
  <2> QED
    BY <2>1, LateSame
<1>6. own'[q][c] = own[q][c] /\ own[q][c] \in Int /\ more \in Int
  <2>1. own[q][c] \in Int
    BY DEF TypeOK
  <2>2. Head(script[a]).by \in Int
    BY <1>1, <1>2, HeadTypes
  <2> QED
    BY <1>1, <2>1, <2>2
<1>7. /\ Late(Consumer(q), q, c) \in Int /\ Late(Dropper(q), q, c) \in Int
      /\ Late(Main, q, c) \in Int
      /\ Consumer(q) \in Actors /\ Dropper(q) \in Actors /\ Main \in Actors
      /\ Consumer(q) # Dropper(q) /\ Consumer(q) # Main /\ Dropper(q) # Main
  BY ActorTypes, LateForms
<1>8. CASE q = p
  <2> HIDE DEF more
  <2>1. PassedOn(q, c)' = PassedOn(q, c) + more
    BY <1>4, <1>5, <1>6, <1>7, <1>8 DEF PassedOn, Owners
  <2> QED
    BY <2>1 DEF more
<1>9. CASE q # p
  <2>1. more = 0
    BY <1>9
  <2>2. \A e \in Actors : Late(e, q, c)' = Late(e, q, c)
    BY <1>4, <1>5, <2>1
  <2> HIDE DEF more
  <2>3. PassedOn(q, c)' = PassedOn(q, c) + more
    BY <1>6, <1>7, <2>1, <2>2 DEF PassedOn
  <2> QED
    BY <2>3 DEF more
<1> QED
  BY <1>8, <1>9

LEMMA NothingKeeps ==
  ASSUME TypeOK, CountsNothing, NEW q \in SubPools, NEW c
  PROVE  PassedOn(q, c)' = PassedOn(q, c)
<1>1. \A e \in Actors : Late(e, q, c)' = Late(e, q, c)
  BY LateSame DEF CountsNothing
<1>2. Consumer(q) \in Actors /\ Dropper(q) \in Actors /\ Main \in Actors
  BY ActorTypes
<1> QED
  BY <1>1, <1>2 DEF PassedOn, CountsNothing

-----------------------------------------------------------------------------
(* What the counters can be.                                               *)

LEMMA BalancedBounds ==
  ASSUME NEW p \in SubPools, NEW fl, NEW t, NEW cn, NEW living \in BOOLEAN,
         NEW n \in 0..Limit, NEW o \in Records, NEW k \in Kinds, NEW d \in 0..3,
         k = "none" <=> cn # "inbox", d > 0 <=> cn = "broken",
         Balanced(fl, p, t, cn, living, n, o, k, d)
  PROVE  /\ o.idle \in 0..1 /\ o.connections \in 0..1
         /\ o.reservations \in 0..Limit /\ o.in_flight <= 1
         /\ living /\ d = 1 => o.in_flight <= 0
         /\ living /\ o.in_flight < 0 => Has(t, OwnStep(p, "in_flight", 1))
<1>1. PICK i \in -1..1, r \in -1..1, c \in -1..0, f \in -1..1 :
        /\ o.idle = One(cn = "idle") + i
        /\ o.connections = Present(cn, k, d) + c
        /\ \/ /\ living
              /\ Working(fl, p, t, cn, n, i, r, c, f)
              /\ o.reservations = n + r
              /\ o.in_flight = Lent(cn, k, d) + f
           \/ /\ ~living
              /\ Ending(fl, p, t, cn, i, c, f)
              /\ n = 0 /\ o.reservations \in 0..Limit
              /\ cn # "held"
              /\ \E g \in -1..0 :
                   /\ o.in_flight = f + g
                   /\ d \in 2..3 \/ cn = "out" => g = 0
  BY Zenon DEF Balanced
<1>2. /\ Present(cn, k, d) \in 0..1
      /\ cn \in {"held", "idle"} => Present(cn, k, d) = 1
  BY DEF Present, One
<1>3. /\ Lent(cn, k, d) \in 0..1
      /\ cn = "held" \/ d = 1 => Lent(cn, k, d) = 0
  BY DEF Lent, One
<1>4. One(cn = "idle") = IF cn = "idle" THEN 1 ELSE 0
  BY DEF One
<1>5. CASE living
  <2>1. /\ i \in 0..1 /\ (i = 1 => cn = "held")
        /\ r \in -1..1 /\ n + r \in 0..Limit
        /\ c \in -1..0 /\ (c = -1 => cn = "held")
        /\ f \in -1..1 /\ (f = 1 => cn = "held")
        /\ f = -1 => cn # "held" /\ Has(t, OwnStep(p, "in_flight", 1))
    BY <1>1, <1>5, WorkingBounds
  <2>2. o.reservations = n + r /\ o.in_flight = Lent(cn, k, d) + f
    BY <1>1, <1>5
  <2>3. o.idle \in 0..1
    BY <1>1, <1>4, <2>1
  <2>4. o.connections \in 0..1
    BY <1>1, <1>2, <2>1
  <2>5. /\ o.in_flight <= 1 /\ (d = 1 => o.in_flight <= 0)
        /\ o.in_flight < 0 => f = -1
    BY <1>3, <2>1, <2>2
  <2> QED
    BY <1>5, <2>1, <2>2, <2>3, <2>4, <2>5
<1>6. CASE ~living
  <2>1. /\ i \in -1..0 /\ (i = -1 => cn = "idle")
        /\ c \in -1..0 /\ (c = -1 => cn = "idle")
        /\ f \in 0..1
    BY <1>1, <1>6, EndingBounds
  <2>2. o.reservations \in 0..Limit /\ \E g \in -1..0 : o.in_flight = f + g
    BY <1>1, <1>6
  <2>3. o.idle \in 0..1
    BY <1>1, <1>4, <2>1
  <2>4. o.connections \in 0..1
    BY <1>1, <1>2, <2>1
  <2>5. o.in_flight <= 1
    BY <2>1, <2>2
  <2> QED
    BY <1>6, <2>2, <2>3, <2>4, <2>5
<1> QED
  BY <1>5, <1>6

LEMMA HasCore ==
  ASSUME NEW s \in Scripts, NEW x, Has(Core(s), x)
  PROVE  Has(s, x)
<1>1. CASE ~Passing(s)
  BY <1>1 DEF Core
<1>2. CASE Passing(s)
  <2>1. Has(Tail(s), x) /\ s # <<>>
    BY <1>2 DEF Core, Passing
  <2>2. PICK j \in DOMAIN Tail(s) : Tail(s)[j] = x
    BY <2>1 DEF Has
  <2>3. Len(Tail(s)) = Len(s) - 1 /\ j \in 1..(Len(s) - 1) /\ s[j + 1] = Tail(s)[j]
    BY <2>1 DEF Scripts
  <2>4. j + 1 \in DOMAIN s
    BY <2>3 DEF Scripts
  <2> QED
    BY <2>2, <2>3, <2>4 DEF Has
<1> QED
  BY <1>1, <1>2

LEMMA PoolBounds ==
  ASSUME TypeOK, NEW p \in SubPools, PoolOK(p)
  PROVE  /\ own[p].idle \in 0..1 /\ own[p].connections \in 0..1
         /\ own[p].reservations \in 0..Limit /\ own[p].in_flight <= 1
         /\ own[p].in_flight < 0 => HandsOver(p) \/ ~alive[p]
<1>1. CASE Unborn(p)
  <2>1. own[p] = [c \in ToSet(Counters) |-> 0]
    BY <1>1 DEF Unborn, Zero
  <2>2. /\ own[p].idle = 0 /\ own[p].connections = 0
        /\ own[p].reservations = 0 /\ own[p].in_flight = 0
    BY <2>1, CounterNames
  <2> QED
    BY <2>2, SizesAssumption
<1>2. ASSUME NEW k \in Kinds, NEW d \in 0..3, Agrees(p, k, d)
      PROVE  /\ own[p].idle \in 0..1 /\ own[p].connections \in 0..1
             /\ own[p].reservations \in 0..Limit /\ own[p].in_flight <= 1
             /\ own[p].in_flight < 0 => HandsOver(p) \/ ~alive[p]
  <2> DEFINE t == Core(script[Consumer(p)])
             o == own[p]
             x == OwnStep(p, "in_flight", 1)
  <2>1. Balanced(flavour, p, t, conn[p], alive[p], queue[p], o, k, d)
    BY <1>2, Zenon DEF Agrees
  <2>2. (k = "none" <=> conn[p] # "inbox") /\ (d > 0 <=> conn[p] = "broken")
    BY <1>2, AgreeTypes
  <2>3. /\ o.idle \in 0..1 /\ o.connections \in 0..1
        /\ o.reservations \in 0..Limit /\ o.in_flight <= 1
        /\ alive[p] /\ o.in_flight < 0 => Has(t, x)
    <3> HIDE DEF t, x
    <3> QED
      BY <2>1, <2>2, PoolTypes, BalancedBounds DEF x
  <2>4. ASSUME Has(t, x) PROVE HandsOver(p)
    <3>1. Has(script[Consumer(p)], x)
      BY <2>4, PoolTypes, HasCore
    <3>2. PICK j \in DOMAIN script[Consumer(p)] : script[Consumer(p)][j] = x
      BY <3>1 DEF Has
    <3>3. x.does = "own" /\ x.counter = "in_flight" /\ x.by = 1
      BY DEF OwnStep
    <3> HIDE DEF x
    <3> QED
      BY <3>2, <3>3 DEF HandsOver
  <2> QED
    BY <2>3, <2>4
<1> QED
  BY <1>1, <1>2 DEF PoolOK

\* What a dropper passes on.
LEMMA DropperLate ==
  ASSUME TypeOK, NEW p \in SubPools, NEW k, NEW d \in 0..3, Agrees(p, k, d),
         NEW c \in ToSet(Counters)
  PROVE  /\ Late(Dropper(p), p, c) \in -1..0
         /\ Late(Dropper(p), p, c) # 0 =>
              \/ c = "in_flight" /\ d = 1
              \/ c = "connections" /\ d = 2
<1> DEFINE s == script[Dropper(p)]
           create == Create(p)
           last == Tell(flavour, p, "in_flight", -1) ++ create
           x == UserStep(p, "in_flight", -1)
           y == UserStep(p, "connections", -1)
<1>1. Dropping(flavour, p, s, conn[p], d) /\ Dropper(p) \in Actors
  BY ActorTypes DEF Agrees
<1>2. "in_flight" \in ToSet(Counters) /\ "connections" \in ToSet(Counters)
      /\ -1 \in {-1, 1} /\ "out" \in Places
  BY CounterNames DEF Places
<1>3. create \in Scripts /\ ~Passing(create) /\ ~Passing(<<>>)
  BY <1>2, StepTypes, EffectFirst, NoScript DEF Passing
<1>4. last \in Scripts /\ ~Passing(last)
  BY <1>2, <1>3, TellFirst
<1>5. ~Passing(Tell(flavour, p, "connections", -1) ++ last)
  <2> HIDE DEF last
  <2> QED
    BY <1>2, <1>4, TellFirst
<1>6. Head(<<x>> ++ create) = x /\ Head(<<y>> ++ last) = y
  <2>1. Pass("Custom", p, "in_flight", -1) = <<x>>
        /\ Pass("Custom", p, "connections", -1) = <<y>>
    BY DEF Pass
  <2> HIDE DEF create, last, x, y
  <2>2. Head(<<x>> ++ create) = x
    BY <1>2, <1>3, <2>1, TellCore DEF x
  <2>3. Head(<<y>> ++ last) = y
    BY <1>2, <1>4, <2>1, TellCore DEF y
  <2> QED
    BY <2>2, <2>3
<1>7. \/ ~Passing(s)
      \/ Head(s) = x /\ d = 1
      \/ Head(s) = y /\ d = 2
  <2>1. Head(<<UserStep(p, "in_flight", -1)>> ++ Create(p)) = x
    BY <1>6
  <2>2. Head(<<UserStep(p, "connections", -1)>> ++ last) = y
    BY <1>6
  <2>3. \/ s = <<>>
        \/ s = create
        \/ d = 1 /\ s = <<UserStep(p, "in_flight", -1)>> ++ Create(p)
        \/ s = last
        \/ d = 2 /\ s = <<UserStep(p, "connections", -1)>> ++ last
        \/ s = Tell(flavour, p, "connections", -1) ++ last
    BY <1>1, Zenon DEF Dropping
  <2> HIDE DEF create, last, x, y
  <2> QED
    BY <1>3, <1>4, <1>5, <2>1, <2>2, <2>3, Zenon
<1> QED
  BY <1>1, <1>7, LateForms DEF UserStep

-----------------------------------------------------------------------------
(* What the user was told.                                                 *)

\* Main passes on the sub pool it has counted last.
LEMMA MainLate ==
  ASSUME TypeOK, MainOK, NEW q \in SubPools, NEW c \in ToSet(Counters)
  PROVE  /\ own[q].pools \in 0..1
         /\ own[q].pools - Late(Main, q, "pools") \in 0..1
         /\ c # "pools" => Late(Main, q, c) = 0
         /\ Passing(script[Main]) =>
              /\ flavour = "Custom" /\ Core(script[Main]) = <<>>
              /\ Head(script[Main]).counter = "pools"
<1> DEFINE s == script[Main]
           n == own[q].pools
<1>1. "pools" \in ToSet(Counters) /\ Main \in Actors /\ ~Passing(<<>>)
      /\ built \in Int /\ ended \in Int /\ q \in Int
  BY CounterNames, ActorTypes DEF Passing, TypeOK, SubPools
<1>2. n \in 0..1
  <2>1. \E first, last : n = One(q \in first..last)
    BY Zenon DEF MainOK
  <2> QED
    BY <2>1 DEF One
<1>3. CASE ~Passing(s)
  BY <1>1, <1>2, <1>3, LateForms
<1>4. ASSUME NEW m \in SubPools, NEW b \in {-1, 1}, s = <<UserStep(m, "pools", b)>>,
             flavour = "Custom", q = m => n = One(b = 1)
      PROVE  /\ n - Late(Main, q, "pools") \in 0..1
             /\ c # "pools" => Late(Main, q, c) = 0
             /\ Passing(s) =>
                  flavour = "Custom" /\ Core(s) = <<>> /\ Head(s).counter = "pools"
  <2>1. /\ Passing(s) /\ Head(s).counter = "pools" /\ Core(s) = <<>>
        /\ Head(s).pool = m /\ Head(s).by = b
    BY <1>4 DEF Passing, UserStep, Core
  <2>2. /\ Late(Main, q, "pools") = IF m = q THEN b ELSE 0
        /\ c # "pools" => Late(Main, q, c) = 0
    BY <1>1, <2>1, LateForms
  <2> QED
    BY <1>2, <1>4, <2>1, <2>2 DEF One
<1>5. CASE Passing(s)
  <2>1. built > 0 => built \in SubPools
    BY DEF TypeOK, SubPools
  <2>2. ended > 0 => ended \in SubPools
    BY DEF TypeOK, SubPools
  <2>3. \/ /\ ended = 0 /\ built > 0 /\ flavour = "Custom"
           /\ s = <<UserStep(built, "pools", 1)>>
           /\ n = One(q \in 1..built)
        \/ /\ ended > 0 /\ flavour = "Custom"
           /\ s = <<UserStep(ended, "pools", -1)>>
           /\ n = One(q \in (ended + 1)..built)
    <3>1. ASSUME built > 0 PROVE s # Tell(flavour, built, "pools", 1)
      BY <1>1, <1>5, <2>1, <3>1, TellAlone
    <3>2. ASSUME ended > 0 PROVE s # Tell(flavour, ended, "pools", -1)
      BY <1>1, <1>5, <2>2, <3>2, TellAlone
    <3> QED
      BY <1>1, <1>5, <3>1, <3>2, Zenon DEF MainOK
  <2>4. CASE /\ ended = 0 /\ built > 0 /\ flavour = "Custom"
             /\ s = <<UserStep(built, "pools", 1)>>
             /\ n = One(q \in 1..built)
    <3>1. q = built => n = One(1 = 1)
      BY <1>1, <2>4 DEF One
    <3> QED
      BY <1>2, <1>4, <2>1, <2>4, <3>1
  <2>5. CASE /\ ended > 0 /\ flavour = "Custom"
             /\ s = <<UserStep(ended, "pools", -1)>>
             /\ n = One(q \in (ended + 1)..built)
    <3>1. q = ended => n = One(-1 = 1)
      BY <1>1, <2>5 DEF One
    <3> QED
      BY <1>2, <1>4, <2>2, <2>5, <3>1
  <2> QED
    BY <2>3, <2>4, <2>5
<1> QED
  BY <1>2, <1>3, <1>4, <1>5

\* A step that passes nothing on changes nothing the user was told.
LEMMA KeepsOK ==
  ASSUME TypeOK, PassedOnOK, UserOK, flavour' = flavour, user' = user,
         flavour = "Custom" =>
           \A q \in SubPools : \A c \in ToSet(Counters) :
             PassedOn(q, c)' = PassedOn(q, c)
  PROVE  PassedOnOK' /\ UserOK'
<1>1. CASE flavour = "Custom"
  <2>1. \A q \in SubPools : \A c \in ToSet(Counters) :
          PassedOn(q, c)' = PassedOn(q, c)
    BY <1>1
  <2>2. PassedOnOK'
    BY <1>1, <2>1 DEF PassedOnOK
  <2>3. ASSUME NEW c \in ToSet(Counters)
        PROVE  user'[c] = SumFunction([q \in SubPools |-> PassedOn(q, c)'])
    <3>1. [q \in SubPools |-> PassedOn(q, c)'] = [q \in SubPools |-> PassedOn(q, c)]
      BY <2>1
    <3>2. user[c] = SumFunction([q \in SubPools |-> PassedOn(q, c)])
      BY <1>1 DEF UserOK, UserCountsTheSum
    <3> QED
      BY <3>1, <3>2
  <2>4. UserOK'
    BY <1>1, <2>3 DEF UserOK, UserCountsTheSum
  <2> QED
    BY <2>2, <2>4
<1>2. CASE flavour # "Custom"
  BY <1>2 DEF PassedOnOK, UserOK, UserCountsTheSum
<1> QED
  BY <1>1, <1>2

\* A step that passes an event on tells the user of it.
LEMMA TellsOK ==
  ASSUME TypeOK, TypeOK', PassedOnOK, UserOK, flavour = "Custom",
         NEW p \in SubPools, NEW a \in Owners(p), PassesOn(a),
         Head(script[a]).pool = p,
         NEW e \in ToSet(Counters), e = Head(script[a]).counter,
         NEW b \in {-1, 1}, b = Head(script[a]).by,
         PassedOn(p, e) + b <= Most(e),
         e # "in_flight" => PassedOn(p, e) + b >= 0
  PROVE  PassedOnOK' /\ UserOK'
<1>1. \A q \in SubPools : \A c \in ToSet(Counters) :
        PassedOn(q, c)' =
          PassedOn(q, c) + (IF q = p /\ c = e THEN b ELSE 0)
  BY PassesKeep
<1>2. \A q \in SubPools : \A c \in ToSet(Counters) : PassedOn(q, c) \in Int
  BY PassedOnTypes
<1>3. /\ flavour' = flavour /\ user' = [user EXCEPT ![e] = @ + b]
  BY DEF PassesOn
<1>4. PassedOnOK'
  <2>1. ASSUME NEW q \in SubPools, NEW c \in ToSet(Counters)
        PROVE  /\ PassedOn(q, c)' <= Most(c)
               /\ c # "in_flight" => PassedOn(q, c)' >= 0
    <3>1. CASE q = p /\ c = e
      BY <1>1, <3>1
    <3>2. CASE ~(q = p /\ c = e)
      <4>1. PassedOn(q, c)' = PassedOn(q, c)
        BY <1>1, <1>2, <3>2
      <4> QED
        BY <4>1 DEF PassedOnOK
    <3> QED
      BY <3>1, <3>2
  <2> QED
    BY <1>3, <2>1 DEF PassedOnOK, Most
<1>5. ASSUME NEW c \in ToSet(Counters)
      PROVE  user'[c] = SumFunction([q \in SubPools |-> PassedOn(q, c)'])
  <2> DEFINE f == [q \in SubPools |-> PassedOn(q, c)]
             h == [q \in SubPools |-> PassedOn(q, c)']
  <2>1. user[c] = SumFunction(f)
    BY DEF UserOK, UserCountsTheSum
  <2>2. user[c] \in Int /\ user'[c] = IF c = e THEN user[c] + b ELSE user[c]
    BY <1>3 DEF TypeOK
  <2>3. CASE c = e
    <3>1. f \in [SubPools -> Int]
      BY <1>2
    <3>2. \A q \in SubPools : h[q] = IF q = p THEN f[q] + b ELSE f[q]
      BY <1>1, <1>2, <2>3
    <3>3. h \in [SubPools -> Int]
      <4>1. \A q \in SubPools : PassedOn(q, c)' \in Int
        BY <1>1, <1>2
      <4> QED
        BY <4>1
    <3>4. IsFiniteSet(SubPools)
      BY SizesAssumption, FS_Interval DEF SubPools
    <3>5. b \in Int
      OBVIOUS
    <3> HIDE DEF f, h
    <3>6. SumFunction(h) = SumFunction(f) + b
      BY <3>1, <3>2, <3>3, <3>4, <3>5, SumChanges
    <3> QED
      BY <2>1, <2>2, <2>3, <3>6 DEF h
  <2>4. CASE c # e
    <3>1. h = f
      BY <1>1, <1>2, <2>4
    <3> QED
      BY <2>1, <2>2, <2>4, <3>1
  <2> QED
    BY <2>3, <2>4
<1>6. UserOK'
  BY <1>3, <1>5 DEF UserOK, UserCountsTheSum
<1> QED
  BY <1>4, <1>6

\* What the owners of p have yet to pass on fits to what is counted.
LEMMA LateParts ==
  ASSUME TypeOK, NEW p \in SubPools, NEW c \in ToSet(Counters)
  PROVE  /\ own[p][c] \in Int
         /\ Late(Consumer(p), p, c) \in -1..1
         /\ Late(Dropper(p), p, c) \in -1..1
         /\ Late(Main, p, c) \in -1..1
         /\ PassedOn(p, c) = (own[p][c] - Late(Consumer(p), p, c))
                - (Late(Dropper(p), p, c) + Late(Main, p, c))
BY ActorTypes, LateForms DEF PassedOn, TypeOK

LEMMA ConsumerTells ==
  ASSUME TypeOK, NEW p \in SubPools, PoolOK(p), MainOK, PassingOK, PassedOnOK,
         Passing(script[Consumer(p)]),
         NEW e \in ToSet(Counters), e = Head(script[Consumer(p)]).counter,
         NEW b \in {-1, 1}, b = Head(script[Consumer(p)]).by
  PROVE  /\ PassedOn(p, e) + b <= Most(e)
         /\ e # "in_flight" => PassedOn(p, e) + b >= 0
<1> DEFINE lc == Late(Consumer(p), p, e)
           ld == Late(Dropper(p), p, e)
           lm == Late(Main, p, e)
<1>1. /\ flavour = "Custom" /\ Head(script[Consumer(p)]).pool = p
      /\ e # "pools"
      /\ e = "connections" => conn[p] \in {"held", "idle"}
      /\ b = 1 => alive[p]
  BY DEF PassingOK
<1>2. /\ own[p][e] \in Int /\ ld \in -1..1
      /\ PassedOn(p, e) = (own[p][e] - lc) - (ld + lm)
  BY LateParts
<1>3. lc = b /\ lm = 0
  BY <1>1, ActorTypes, LateForms, MainLate
<1>4. PICK k \in Kinds, d \in 0..3 : Agrees(p, k, d)
  BY Exists, Zenon DEF Passing
<1>5. /\ ld \in -1..0
      /\ ld # 0 => \/ e = "in_flight" /\ d = 1
                   \/ e = "connections" /\ d = 2
  BY <1>4, DropperLate
<1>6. /\ e # "in_flight" => own[p][e] \in 0..Most(e)
      /\ e = "in_flight" => own[p][e] <= 1
  BY <1>1, CounterNames, PoolBounds, SizesAssumption DEF Most
<1>7. /\ PassedOn(p, e) <= Most(e)
      /\ e # "in_flight" => PassedOn(p, e) >= 0
  BY <1>1 DEF PassedOnOK
<1>8. Most(e) \in Int /\ (e # "reservations" => Most(e) = 1)
  BY SizesAssumption DEF Most
<1>9. alive[p] /\ e = "in_flight" /\ d = 1 => own[p][e] <= 0
  <2> DEFINE t == Core(script[Consumer(p)])
             o == own[p]
  <2>1. Balanced(flavour, p, t, conn[p], alive[p], queue[p], o, k, d)
    BY <1>4, Zenon DEF Agrees
  <2>2. (k = "none" <=> conn[p] # "inbox") /\ (d > 0 <=> conn[p] = "broken")
    BY <1>4, AgreeTypes
  <2> HIDE DEF t
  <2>3. alive[p] /\ d = 1 => o.in_flight <= 0
    BY <2>1, <2>2, PoolTypes, BalancedBounds
  <2> QED
    BY <2>3
<1>10. e = "connections" => d = 0
  <2>1. d > 0 <=> conn[p] = "broken"
    BY <1>4, AgreeTypes
  <2> QED
    BY <1>1, <2>1
<1> HIDE DEF lc, ld, lm
<1>11. CASE b = 1
  BY <1>1, <1>2, <1>3, <1>5, <1>6, <1>7, <1>8, <1>9, <1>10, <1>11
<1>12. CASE b = -1
  BY <1>1, <1>2, <1>3, <1>5, <1>6, <1>7, <1>8, <1>12
<1> QED
  BY <1>11, <1>12

LEMMA DropperTells ==
  ASSUME TypeOK, NEW p \in SubPools, PoolOK(p), MainOK, PassingOK, PassedOnOK,
         Passing(script[Dropper(p)]),
         NEW e \in ToSet(Counters), e = Head(script[Dropper(p)]).counter,
         NEW b \in {-1, 1}, b = Head(script[Dropper(p)]).by
  PROVE  /\ PassedOn(p, e) + b <= Most(e)
         /\ e # "in_flight" => PassedOn(p, e) + b >= 0
<1> DEFINE lc == Late(Consumer(p), p, e)
           ld == Late(Dropper(p), p, e)
           lm == Late(Main, p, e)
<1>1. /\ flavour = "Custom" /\ Head(script[Dropper(p)]).pool = p
      /\ e # "pools"
  BY DEF PassingOK
<1>2. /\ own[p][e] \in Int /\ lc \in -1..1
      /\ PassedOn(p, e) = (own[p][e] - lc) - (ld + lm)
  BY LateParts
<1>3. ld = b /\ lm = 0
  BY <1>1, ActorTypes, LateForms, MainLate
<1>4. PICK k \in Kinds, d \in 0..3 : Agrees(p, k, d)
  BY Exists, Zenon DEF Passing
<1>5. /\ ld \in -1..0
      /\ ld # 0 => \/ e = "in_flight" /\ d = 1
                   \/ e = "connections" /\ d = 2
  BY <1>4, DropperLate
<1>6. e = "connections" => own[p][e] >= 0
  BY PoolBounds
<1>7. PassedOn(p, e) <= Most(e)
  BY <1>1 DEF PassedOnOK
<1>8. Most(e) \in Int
  BY SizesAssumption DEF Most
<1>9. e = "connections" => lc = 0
  <2>1. d > 0 <=> conn[p] = "broken"
    BY <1>4, AgreeTypes
  <2>2. CASE ~Passing(script[Consumer(p)])
    BY <2>2, ActorTypes, LateForms
  <2>3. CASE Passing(script[Consumer(p)])
    <3>1. e = "connections" =>
            ~(Head(script[Consumer(p)]).counter = "connections")
      BY <1>3, <1>5, <2>1, <2>3 DEF PassingOK
    <3> QED
      BY <2>3, <3>1, ActorTypes, LateForms
  <2> QED
    BY <2>2, <2>3
<1> DEFINE told == PassedOn(p, e)
           mine == own[p][e]
<1>10. told = (mine - lc) - (ld + lm) /\ mine \in Int /\ told <= Most(e)
  BY <1>2, <1>7
<1>11. e = "connections" => mine >= 0
  BY <1>6
<1> HIDE DEF lc, ld, lm, told, mine
<1>12. b = -1 /\ told \in Int
  <2>1. lc \in -1..1
    BY <1>2
  <2>2. b = -1
    BY <1>3, <1>5
  <2> QED
    BY <1>3, <1>10, <2>1, <2>2
<1>13. told + b <= Most(e)
  BY <1>8, <1>10, <1>12
<1>14. e # "in_flight" => told + b >= 0
  BY <1>3, <1>5, <1>9, <1>10, <1>11, <1>12
<1> QED
  BY <1>13, <1>14 DEF told

LEMMA MainTells ==
  ASSUME TypeOK, NEW p \in SubPools, MainOK, PassingOK,
         Passing(script[Main]), Head(script[Main]).pool = p,
         NEW e \in ToSet(Counters), e = Head(script[Main]).counter,
         NEW b \in {-1, 1}, b = Head(script[Main]).by
  PROVE  /\ PassedOn(p, e) + b <= Most(e)
         /\ e # "in_flight" => PassedOn(p, e) + b >= 0
<1> DEFINE lc == Late(Consumer(p), p, e)
           ld == Late(Dropper(p), p, e)
           lm == Late(Main, p, e)
<1>1. e = "pools"
  BY MainLate
<1>2. /\ own[p][e] \in Int /\ lm \in -1..1
      /\ PassedOn(p, e) = (own[p][e] - lc) - (ld + lm)
  BY LateParts
<1>3. lm = b
  BY ActorTypes, LateForms
<1>4. lc = 0 /\ ld = 0
  BY <1>1, ActorTypes, LateForms DEF PassingOK
<1>5. own[p][e] \in 0..1 /\ own[p][e] - lm \in 0..1
  BY <1>1, MainLate
<1> DEFINE told == PassedOn(p, e)
           mine == own[p][e]
<1>6. told = (mine - lc) - (ld + lm) /\ mine \in 0..1
  BY <1>2, <1>5
<1> HIDE DEF lc, ld, lm, told, mine
<1>7. told + b \in 0..1
  BY <1>3, <1>4, <1>6
<1> QED
  BY <1>1, <1>7 DEF told, Most

\* What the counting of a sub pool keeps.
LEMMA TallyPassing ==
  ASSUME TypeOK, PassingOK, NEW p \in SubPools, Tally(p)
  PROVE  PassingOK'
<1> SUFFICES ASSUME NEW q \in SubPools, NEW a \in {Consumer(q), Dropper(q)},
                    Passing(script'[a])
             PROVE  /\ flavour' = "Custom"
                    /\ Head(script'[a]).pool = q
                    /\ Head(script'[a]).counter # "pools"
                    /\ a = Consumer(q) /\ Head(script'[a]).counter = "connections"
                         => conn'[q] \in {"held", "idle"}
                    /\ a = Consumer(q) /\ Head(script'[a]).by = 1 => alive'[q]
  BY Zenon DEF PassingOK, Passing
<1>1. a \in Actors
  BY ActorTypes
<1>2. ASSUME script'[a] = script[a], flavour' = flavour,
             a = Consumer(q) =>
               /\ alive'[q] = alive[q]
               /\ conn[q] \in {"held", "idle"} => conn'[q] = conn[q]
      PROVE  /\ flavour' = "Custom"
             /\ Head(script'[a]).pool = q
             /\ Head(script'[a]).counter # "pools"
             /\ a = Consumer(q) /\ Head(script'[a]).counter = "connections"
                  => conn'[q] \in {"held", "idle"}
             /\ a = Consumer(q) /\ Head(script'[a]).by = 1 => alive'[q]
  BY <1>2 DEF PassingOK
<1>3. ASSUME NEW w \in {Consumer(p), Dropper(p)}, PassesOn(w)
      PROVE  script'[a] = script[a] /\ UNCHANGED <<flavour, alive, conn>>
  <2>1. /\ ~Passing(Core(script[w])) /\ script' = [script EXCEPT ![w] = Core(script[w])]
        /\ UNCHANGED <<flavour, alive, conn>>
    BY <1>3 DEF PassesOn, pool
  <2>2. script'[w] = Core(script[w]) /\ \A x \in Actors \ {w} : script'[x] = script[x]
    BY <2>1, ActorTypes DEF TypeOK
  <2> QED
    BY <1>1, <2>1, <2>2
<1>4. ASSUME NEW w \in {Consumer(p), Dropper(p)}, NEW b \in {-1, 1},
             NEW counter \in {"idle", "reservations", "connections", "in_flight"},
             Counts(w, p, counter, b)
      PROVE  /\ UNCHANGED <<flavour, alive, conn>>
             /\ \/ script'[a] = script[a]
                \/ /\ a = w /\ flavour = "Custom"
                   /\ Head(script'[a]) = UserStep(p, counter, b)
  <2>1. PICK v \in Scripts :
          /\ ~Passing(v)
          /\ script' = [script EXCEPT ![w] = Pass(flavour, p, counter, b) ++ v]
    BY <1>4, Zenon DEF Counts
  <2>2. /\ script'[w] = Pass(flavour, p, counter, b) ++ v
        /\ \A x \in Actors \ {w} : script'[x] = script[x]
    BY <2>1, ActorTypes DEF TypeOK
  <2>3. counter \in ToSet(Counters)
    BY CounterNames
  <2>4. UNCHANGED <<flavour, alive, conn>>
    BY <1>4 DEF Counts, pool
  <2>5. CASE a = w
    BY <2>1, <2>2, <2>3, <2>4, <2>5, TellCore
  <2>6. CASE a # w
    BY <1>1, <2>2, <2>4, <2>6
  <2> QED
    BY <2>5, <2>6
<1>5. CASE \E w \in {Consumer(p), Dropper(p)} : PassesOn(w)
  BY <1>2, <1>3, <1>5
<1>6. CASE CountsNothing
  BY <1>1, <1>2, <1>6 DEF CountsNothing
<1>7. ASSUME NEW w \in {Consumer(p), Dropper(p)}, NEW b \in {-1, 1},
             NEW counter \in {"idle", "reservations", "connections", "in_flight"},
             Counts(w, p, counter, b),
             w = Consumer(p) /\ counter = "connections" => conn[p] \in {"held", "idle"},
             w = Consumer(p) /\ b = 1 => alive[p]
      PROVE  /\ flavour' = "Custom"
             /\ Head(script'[a]).pool = q
             /\ Head(script'[a]).counter # "pools"
             /\ a = Consumer(q) /\ Head(script'[a]).counter = "connections"
                  => conn'[q] \in {"held", "idle"}
             /\ a = Consumer(q) /\ Head(script'[a]).by = 1 => alive'[q]
  <2>1. /\ UNCHANGED <<flavour, alive, conn>>
        /\ \/ script'[a] = script[a]
           \/ /\ a = w /\ flavour = "Custom"
              /\ Head(script'[a]) = UserStep(p, counter, b)
    BY <1>4, <1>7
  <2>2. CASE script'[a] = script[a]
    BY <1>2, <2>1, <2>2
  <2>3. CASE a = w /\ flavour = "Custom" /\ Head(script'[a]) = UserStep(p, counter, b)
    <3>1. /\ Head(script'[a]).pool = p /\ Head(script'[a]).counter = counter
          /\ Head(script'[a]).by = b
      BY <2>3 DEF UserStep
    <3>2. q = p
      BY <2>3, ActorTypes
    <3> QED
      BY <1>7, <2>1, <2>3, <3>1, <3>2
  <2> QED
    BY <2>1, <2>2, <2>3
<1> QED
  BY <1>5, <1>6, <1>7 DEF Tally

LEMMA TallyTold ==
  ASSUME TypeOK, TypeOK', NEW p \in SubPools, PoolOK(p), MainOK, PassingOK,
         PassedOnOK, UserOK, Tally(p)
  PROVE  PassedOnOK' /\ UserOK'
<1>1. CASE CountsNothing
  <2>1. \A q \in SubPools : \A c \in ToSet(Counters) : PassedOn(q, c)' = PassedOn(q, c)
    BY <1>1, NothingKeeps
  <2> QED
    BY <1>1, <2>1, KeepsOK DEF CountsNothing
<1>2. ASSUME NEW a \in {Consumer(p), Dropper(p)}, NEW b \in {-1, 1},
             NEW counter \in {"idle", "reservations", "connections", "in_flight"},
             Counts(a, p, counter, b)
      PROVE  PassedOnOK' /\ UserOK'
  <2>1. counter \in ToSet(Counters) /\ a \in Owners(p)
    BY CounterNames DEF Owners
  <2>2. flavour = "Custom" =>
          \A q \in SubPools : \A c \in ToSet(Counters) : PassedOn(q, c)' = PassedOn(q, c)
    BY <1>2, <2>1, CountsKeep
  <2>3. flavour' = flavour /\ user' = user
    BY <1>2 DEF Counts
  <2> QED
    BY <2>2, <2>3, KeepsOK
<1>3. ASSUME NEW a \in {Consumer(p), Dropper(p)}, PassesOn(a)
      PROVE  PassedOnOK' /\ UserOK'
  <2>1. a \in Owners(p) /\ a \in Actors /\ Passing(script[a])
    BY <1>3, ActorTypes DEF Owners, PassesOn
  <2>2. flavour = "Custom" /\ Head(script[a]).pool = p
    BY <2>1 DEF PassingOK
  <2>3. PICK e \in ToSet(Counters) : e = Head(script[a]).counter
    BY <2>1, HeadTypes
  <2>4. PICK b \in {-1, 1} : b = Head(script[a]).by
    BY <2>1, HeadTypes
  <2>5. /\ PassedOn(p, e) + b <= Most(e)
        /\ e # "in_flight" => PassedOn(p, e) + b >= 0
    <3>1. CASE a = Consumer(p)
      BY <2>1, <2>3, <2>4, <3>1, ConsumerTells
    <3>2. CASE a = Dropper(p)
      BY <2>1, <2>3, <2>4, <3>2, DropperTells
    <3> QED
      BY <3>1, <3>2
  <2> QED
    BY <1>3, <2>1, <2>2, <2>3, <2>4, <2>5, TellsOK
<1> QED
  BY <1>1, <1>2, <1>3 DEF Tally

-----------------------------------------------------------------------------
(* The invariant is inductive.                                             *)

\* What MainOK says of the counted sub pools does not change.
LEMMA MainStays ==
  ASSUME MainOK, UNCHANGED <<flavour, built, ended>>,
         script'[Main] = script[Main],
         \A q \in SubPools : own'[q].pools = own[q].pools
  PROVE  MainOK'
<1>1. /\ flavour' = flavour /\ built' = built /\ ended' = ended
      /\ script'[Main] = script[Main]
      /\ \A q \in SubPools : own'[q].pools = own[q].pools
  OBVIOUS
<1>2. ASSUME NEW first, NEW last,
             \A q \in SubPools : own[q].pools = One(q \in first..last)
      PROVE  \A q \in SubPools : own'[q].pools = One(q \in first..last)
  BY <1>1, <1>2
<1> QED
  BY <1>1, <1>2 DEF MainOK

\* A step of a sub pool.
LEMMA WorkKeeps ==
  ASSUME IInv, NEW p \in SubPools, PoolWorks(p)
  PROVE  IInv'
<1>1. TypeOK' /\ PoolOK(p)' /\ Apart /\ Tally(p)
      /\ \A q \in SubPools \ {p} : Untouched(q)
  BY Zenon DEF PoolWorks
<1>2. TypeOK /\ PoolOK(p) /\ MainOK /\ PassingOK /\ PassedOnOK /\ UserOK /\ ReaderOK
      /\ \A q \in SubPools : PoolOK(q)
  BY Zenon DEF IInv
<1>3. \A q \in SubPools : PoolOK(q)'
  BY <1>1, <1>2, PoolStays
<1>4. MainOK'
  BY <1>1, <1>2, MainStays DEF Apart
<1>5. PassingOK'
  BY <1>1, <1>2, TallyPassing
<1>6. PassedOnOK' /\ UserOK'
  BY <1>1, <1>2, TallyTold
<1>7. ReaderOK'
  BY <1>1, <1>2 DEF ReaderOK, Apart, reader, Loaded
<1> QED
  BY <1>1, <1>3, <1>4, <1>5, <1>6, <1>7, Zenon DEF IInv

\* A step of the reader.
LEMMA ReadKeeps ==
  ASSUME IInv, UNCHANGED <<counters, script, pool>>, TypeOK', ReaderOK'
  PROVE  IInv'
<1>1. TypeOK /\ MainOK /\ PassingOK /\ PassedOnOK /\ UserOK
      /\ \A q \in SubPools : PoolOK(q)
  BY Zenon DEF IInv
<1>2. /\ flavour' = flavour /\ own' = own /\ user' = user
      /\ script' = script /\ built' = built /\ ended' = ended /\ alive' = alive
      /\ conn' = conn /\ inbox' = inbox /\ queue' = queue
  BY DEF counters, pool
<1>3. \A q \in SubPools : PoolOK(q)'
  <2>1. \A q \in SubPools : Untouched(q)
    BY <1>2 DEF Untouched
  <2> QED
    BY <1>1, <2>1, PoolStays
<1>4. MainOK'
  BY <1>1, <1>2, MainStays
<1>5. PassingOK'
  BY <1>1, <1>2 DEF PassingOK
<1>6. PassedOnOK' /\ UserOK'
  BY <1>1, <1>2, KeepsOK DEF PassedOn, Late, Free
<1> QED
  BY <1>3, <1>4, <1>5, <1>6, Zenon DEF IInv

\* As many of at most b each as there are sub pools.
LEMMA Products ==
  ASSUME NEW b \in Nat, NEW m \in Nat, NEW n \in Nat, m < n
  PROVE  /\ b * m \in Nat /\ b * (m + 1) = b * m + b
         /\ b * m + b <= b * n
<1>1. b * m \in Nat /\ b * n \in Nat /\ b * (m + 1) = b * m + b
  OBVIOUS
<1>2. PICK j \in Nat : n = (m + 1) + j
  <2>1. n - (m + 1) \in Nat /\ n = (m + 1) + (n - (m + 1))
    OBVIOUS
  <2> QED
    BY <2>1
<1>3. b * n = b * (m + 1) + b * j /\ b * j \in Nat
  BY <1>2
<1> QED
  BY <1>1, <1>3

LEMMA CallKeeps ==
  ASSUME IInv, CallState
  PROVE  IInv'
<1>1. /\ TypeOK /\ ReaderOK /\ at = 0 /\ at' = 1
      /\ UNCHANGED <<counters, script, pool, report, wrapped>>
      /\ built = N /\ ended = 0 /\ script[Main] = <<>>
  BY DEF IInv, CallState, Free
<1>2. N \in Nat \ {0} /\ Returned = 5 * N + 1 /\ Panicked = 5 * N + 2
  BY SizesAssumption DEF Returned, Panicked, Counters
<1>3. TypeOK'
  <2>1. at' \in 0..Panicked
    BY <1>1, <1>2
  <2> QED
    BY <1>1, <2>1 DEF TypeOK, counters, pool
<1>4. ReaderOK'
  <2>1. report = Zero /\ ~wrapped
    BY <1>1 DEF ReaderOK
  <2>2. \A i \in 1..5 : Counters[i] \in ToSet(Counters)
    BY DEF Counters, ToSet
  <2>3. \A i \in 1..5 : report'[Counters[i]] = 0
    BY <1>1, <2>1, <2>2 DEF Zero
  <2>4. \A i \in 1..5 : Loaded(i)' = 0
    BY <1>1 DEF Loaded
  <2>5. \A i \in 1..5 : Most(Counters[i]) * 0 = 0
    BY SizesAssumption DEF Most
  <2>6. at' # 0 /\ at' # Panicked
    BY <1>1, <1>2
  <2> QED
    BY <1>1, <2>3, <2>4, <2>5, <2>6 DEF ReaderOK, pool
<1> QED
  BY <1>1, <1>3, <1>4, ReadKeeps

LEMMA ForgetKeeps ==
  ASSUME IInv, ForgetState
  PROVE  IInv'
<1>1. /\ TypeOK /\ at' = 0 /\ report' = Zero /\ wrapped' = FALSE
      /\ UNCHANGED <<counters, script, pool>>
  BY DEF IInv, ForgetState
<1>2. N \in Nat \ {0} /\ Returned = 5 * N + 1 /\ Panicked = 5 * N + 2
      /\ Usize \in Nat \ {0}
  BY SizesAssumption, MemoryAssumption DEF Returned, Panicked, Counters
<1>3. TypeOK'
  <2>1. 0 \in 0..Panicked /\ Zero \in [ToSet(Counters) -> 0..(Usize - 1)]
    BY <1>2 DEF Zero
  <2> QED
    BY <1>1, <2>1 DEF TypeOK, counters, pool
<1>4. ReaderOK'
  BY <1>1, <1>2 DEF ReaderOK
<1> QED
  BY <1>1, <1>3, <1>4, ReadKeeps

\* What a load finds.
LEMMA Amounts ==
  ASSUME IInv, NEW q \in SubPools, NEW c \in ToSet(Counters)
  PROVE  /\ own[q][c] \in Int /\ own[q][c] <= Most(c)
         /\ c # "in_flight" => own[q][c] >= 0
         /\ at > 0 /\ c = "pools" => own[q][c] = 1
<1>1. TypeOK /\ MainOK /\ PoolOK(q) /\ ReaderOK
  BY Zenon DEF IInv
<1>2. /\ own[q].pools \in 0..1
      /\ own[q].idle \in 0..1 /\ own[q].connections \in 0..1
      /\ own[q].reservations \in 0..Limit /\ own[q].in_flight <= 1
  BY <1>1, MainLate, PoolBounds, CounterNames
<1>3. own[q][c] \in Int
  BY <1>1 DEF TypeOK
<1>4. at > 0 => own[q].pools = 1
  <2> SUFFICES ASSUME at > 0 PROVE own[q].pools = 1
    OBVIOUS
  <2>1. built = N /\ ended = 0 /\ script[Main] = <<>>
    BY <1>1 DEF ReaderOK
  <2>2. <<>> # Tell(flavour, built, "pools", 1)
    BY <2>1, SizesAssumption, CounterNames, TellAlone DEF SubPools
  <2>3. own[q].pools = One(q \in (0 + 1)..N)
    BY <1>1, <2>1, <2>2, SizesAssumption DEF MainOK
  <2> QED
    BY <2>3 DEF One, SubPools
<1> QED
  BY <1>2, <1>3, <1>4, CounterNames DEF Most

\* Which counter a load is at, and how often each has been loaded.
LEMMA LoadedSoFar ==
  ASSUME NEW a \in Nat, NEW n \in Nat, a < 5 * n
  PROVE  \E m \in 0..(n - 1), j \in 1..5 :
           /\ a = (5 * m + j) - 1
           /\ a \div 5 = m /\ (a % 5) + 1 = j
           /\ \A i \in 1..5 :
                /\ ((a + 5) - i) \div 5 = IF i < j THEN m + 1 ELSE m
                /\ ((a + 6) - i) \div 5 = IF i <= j THEN m + 1 ELSE m
<1> DEFINE m == a \div 5
           j == (a % 5) + 1
<1>1. a = (5 * m + j) - 1 /\ m \in Int /\ j \in 1..5
  OBVIOUS
<1>2. m \in 0..(n - 1)
  BY <1>1
<1>3. ASSUME NEW i \in 1..5
      PROVE  /\ ((a + 5) - i) \div 5 = IF i < j THEN m + 1 ELSE m
             /\ ((a + 6) - i) \div 5 = IF i <= j THEN m + 1 ELSE m
  <2> HIDE DEF m, j
  <2>1. CASE i < j
    BY <1>1, <2>1
  <2>2. CASE i = j
    BY <1>1, <2>2
  <2>3. CASE i > j
    BY <1>1, <2>3
  <2> QED
    BY <1>1, <2>1, <2>2, <2>3
<1> QED
  BY <1>1, <1>2, <1>3

LEMMA LoadKeeps ==
  ASSUME IInv, Load
  PROVE  IInv'
<1>1. /\ TypeOK /\ ReaderOK /\ at \in 1..(Returned - 1)
      /\ UNCHANGED <<counters, script, pool>>
  BY DEF IInv, Load
<1>2. /\ N \in Nat \ {0} /\ Len(Counters) = 5
      /\ Returned = 5 * N + 1 /\ Panicked = 5 * N + 2
      /\ Usize \in Nat \ {0}
  BY SizesAssumption, MemoryAssumption DEF Returned, Panicked, Counters
<1>3. PICK m \in 0..(N - 1), j \in 1..5 :
        /\ at - 1 = (5 * m + j) - 1
        /\ (at - 1) \div 5 = m /\ ((at - 1) % 5) + 1 = j
        /\ \A i \in 1..5 :
             /\ (((at - 1) + 5) - i) \div 5 = IF i < j THEN m + 1 ELSE m
             /\ (((at - 1) + 6) - i) \div 5 = IF i <= j THEN m + 1 ELSE m
  <2>1. at - 1 \in Nat /\ at - 1 < 5 * N
    BY <1>1, <1>2
  <2> QED
    BY <1>2, <2>1, LoadedSoFar
<1> DEFINE c == Counters[j]
           mine == own[m + 1][c]
           amount == mine % Usize
<1>4. \A i \in 1..5 : Loaded(i) = IF i < j THEN m + 1 ELSE m
  <2> SUFFICES ASSUME NEW i \in 1..5
               PROVE  Loaded(i) = IF i < j THEN m + 1 ELSE m
    OBVIOUS
  <2>1. (at + 4) - i = ((at - 1) + 5) - i
    BY <1>1
  <2> QED
    BY <1>3, <2>1 DEF Loaded
<1>5. /\ report' = [report EXCEPT ![c] = (report[c] + amount) % Usize]
      /\ wrapped' = (wrapped \/ mine < 0)
      /\ \/ at' = at + 1
         \/ report[c] + amount >= Usize /\ at' = Panicked
  BY <1>2, <1>3 DEF Load, Add, AsUsize
<1>6. /\ \A i \in 1..5 : Counters[i] \in ToSet(Counters)
      /\ \A i \in 1..5 : i # j => Counters[i] # c
      /\ m + 1 \in SubPools
  <2>1. /\ Counters[1] = "in_flight" /\ Counters[2] = "reservations"
        /\ Counters[3] = "connections" /\ Counters[4] = "idle"
        /\ Counters[5] = "pools"
    BY DEF Counters
  <2>2. \A i \in 1..5 : i = 1 \/ i = 2 \/ i = 3 \/ i = 4 \/ i = 5
    OBVIOUS
  <2>3. \A i \in 1..5 : Counters[i] \in ToSet(Counters)
    BY <2>1, <2>2, CounterNames
  <2>4. \A i, l \in 1..5 : i # l => Counters[i] # Counters[l]
    BY <2>1, <2>2
  <2>5. m + 1 \in SubPools
    BY <1>2 DEF SubPools
  <2> QED
    BY <2>3, <2>4, <2>5
<1>7. /\ mine \in Int /\ mine <= Most(c)
      /\ c # "in_flight" => mine >= 0
      /\ c = "pools" => mine = 1
      /\ report[c] \in 0..(Usize - 1) /\ wrapped \in BOOLEAN
      /\ amount \in 0..(Usize - 1)
  <2>1. /\ mine \in Int /\ mine <= Most(c)
        /\ c # "in_flight" => mine >= 0
        /\ c = "pools" => mine = 1
    BY <1>1, <1>6, Amounts
  <2>2. report[c] \in 0..(Usize - 1) /\ wrapped \in BOOLEAN
    BY <1>1, <1>6 DEF TypeOK
  <2>3. amount \in 0..(Usize - 1)
    <3> HIDE DEF mine
    <3> QED
      BY <1>2, <2>1
  <2> QED
    BY <2>1, <2>2, <2>3
<1>8. /\ Most(c) \in Nat /\ Most(c) * N < Usize
      /\ Most(c) * m \in Nat /\ Most(c) * (m + 1) = Most(c) * m + Most(c)
      /\ Most(c) * m + Most(c) <= Most(c) * N
      /\ c = "pools" => Most(c) = 1
  <2>1. Most(c) \in Nat /\ Most(c) * N < Usize /\ (c = "pools" => Most(c) = 1)
    BY SizesAssumption, MemoryAssumption DEF Most
  <2> HIDE DEF c
  <2> QED
    BY <1>2, <2>1, Products
<1>9. /\ c = "pools" => report[c] = m
      /\ \/ c = "in_flight" /\ wrapped
         \/ report[c] <= Most(c) * m
  <2>1. Loaded(j) = m
    BY <1>4
  <2>2. at \in 1..Returned
    BY <1>1, <1>2
  <2> QED
    BY <1>1, <2>1, <2>2 DEF ReaderOK
<1> HIDE DEF c, mine, amount
<1>10. ~(c = "in_flight" /\ wrapped') =>
         /\ report[c] + amount < Usize
         /\ (report[c] + amount) % Usize <= Most(c) * (m + 1)
         /\ c = "pools" => (report[c] + amount) % Usize = m + 1
  <2> SUFFICES ASSUME ~(c = "in_flight" /\ wrapped')
               PROVE  /\ report[c] + amount < Usize
                      /\ (report[c] + amount) % Usize <= Most(c) * (m + 1)
                      /\ c = "pools" => (report[c] + amount) % Usize = m + 1
    OBVIOUS
  <2>1. mine >= 0 /\ mine < Usize /\ report[c] <= Most(c) * m
    <3>1. mine >= 0 /\ ~(c = "in_flight" /\ wrapped)
      <4>1. wrapped \/ mine < 0 => wrapped'
        BY <1>5, Zenon
      <4> QED
        BY <1>7, <4>1
    <3>2. mine < Usize
      BY <1>2, <1>7, <1>8
    <3> QED
      BY <1>9, <3>1, <3>2
  <2>2. amount = mine
    BY <1>2, <1>7, <2>1 DEF amount
  <2>3. /\ report[c] + amount \in Nat /\ report[c] + amount < Usize
        /\ report[c] + amount <= Most(c) * m + Most(c)
    <3> DEFINE x == Most(c) * m
               y == Most(c) * N
               b == Most(c)
               r == report[c]
    <3>1. x \in Nat /\ b \in Nat /\ y < Usize /\ x + b <= y /\ r <= x
          /\ r \in Nat /\ amount \in Nat /\ amount <= b /\ Usize \in Nat
      BY <1>2, <1>7, <1>8, <2>1, <2>2
    <3>2. y \in Nat
      BY <1>2, <3>1
    <3> HIDE DEF x, y, b, r
    <3>3. r + amount \in Nat /\ r + amount < Usize /\ r + amount <= x + b
      BY <3>1, <3>2
    <3> QED
      BY <3>3 DEF x, b, r
  <2>4. (report[c] + amount) % Usize = report[c] + amount
    BY <1>2, <2>3
  <2> QED
    BY <1>7, <1>8, <1>9, <2>2, <2>3, <2>4
<1>11. TypeOK'
  <2>1. at' \in 0..Panicked
    BY <1>1, <1>2, <1>5
  <2>2. (report[c] + amount) % Usize \in 0..(Usize - 1)
    BY <1>2, <1>7
  <2>3. report' \in [ToSet(Counters) -> 0..(Usize - 1)]
    BY <1>1, <1>5, <2>2 DEF TypeOK
  <2>4. wrapped' \in BOOLEAN
    BY <1>5
  <2> QED
    BY <1>1, <2>1, <2>3, <2>4 DEF TypeOK, counters, pool
<1>12. ReaderOK'
  <2>1. at' # 0 /\ (at' = Panicked => wrapped')
    <3>1. CASE at' = at + 1
      BY <1>1, <1>2, <3>1
    <3>2. CASE report[c] + amount >= Usize /\ at' = Panicked
      BY <1>2, <1>7, <1>10, <3>2
    <3> QED
      BY <1>5, <3>1, <3>2
  <2>2. built' = N /\ ended' = 0 /\ script'[Main] = <<>>
    BY <1>1 DEF ReaderOK, pool
  <2>3. ASSUME at' \in 1..Returned, NEW i \in 1..5
        PROVE  /\ Counters[i] = "pools" => report'[Counters[i]] = Loaded(i)'
               /\ \/ Counters[i] = "in_flight" /\ wrapped'
                  \/ report'[Counters[i]] <= Most(Counters[i]) * Loaded(i)'
    <3>1. at' = at + 1
      BY <1>2, <1>5, <2>3
    <3>2. Loaded(i)' = IF i <= j THEN m + 1 ELSE m
      <4>1. (at' + 4) - i = ((at - 1) + 6) - i
        BY <1>1, <3>1
      <4> QED
        BY <1>3, <4>1 DEF Loaded
    <3>3. CASE i = j
      <4>1. report'[c] = (report[c] + amount) % Usize
        BY <1>1, <1>5, <1>6, <3>3 DEF TypeOK, c
      <4> QED
        BY <1>10, <3>2, <3>3, <4>1 DEF c
    <3>4. CASE i # j
      <4>1. report'[Counters[i]] = report[Counters[i]]
        BY <1>1, <1>5, <1>6, <3>4 DEF TypeOK
      <4>2. Loaded(i)' = Loaded(i)
        BY <1>4, <3>2, <3>4
      <4>3. wrapped => wrapped'
        BY <1>5
      <4>4. /\ Counters[i] = "pools" => report[Counters[i]] = Loaded(i)
            /\ \/ Counters[i] = "in_flight" /\ wrapped
               \/ report[Counters[i]] <= Most(Counters[i]) * Loaded(i)
        BY <1>1, <1>2 DEF ReaderOK
      <4> QED
        BY <4>1, <4>2, <4>3, <4>4
    <3> QED
      BY <3>3, <3>4
  <2> QED
    BY <2>1, <2>2, <2>3 DEF ReaderOK
<1> QED
  BY <1>1, <1>11, <1>12, ReadKeeps

\* A step of Main's script. The reader does not read meanwhile.
LEMMA MainKeeps ==
  ASSUME IInv, script[Main] # <<>>, TypeOK', MainOK', PassedOnOK', UserOK',
         UNCHANGED <<flavour, pool, reader>>,
         NEW s, script' = [script EXCEPT ![Main] = s],
         NEW m \in SubPools, m <= built,
         NEW b \in Int, own' = own \/ own' = [own EXCEPT ![m]["pools"] = @ + b]
  PROVE  IInv'
<1>1. TypeOK /\ PassingOK /\ ReaderOK /\ \A q \in SubPools : PoolOK(q)
  BY Zenon DEF IInv
<1>2. /\ flavour' = flavour /\ built' = built /\ ended' = ended
      /\ alive' = alive /\ conn' = conn /\ inbox' = inbox /\ queue' = queue
      /\ at' = at /\ report' = report /\ wrapped' = wrapped
  BY DEF pool, reader
<1>3. \A a \in Actors \ {Main} : script'[a] = script[a]
  BY <1>1 DEF TypeOK
<1>4. \A q \in SubPools : /\ script'[Consumer(q)] = script[Consumer(q)]
                          /\ script'[Dropper(q)] = script[Dropper(q)]
  BY <1>3, ActorTypes
<1>5. ASSUME NEW q \in SubPools
      PROVE  /\ q > built => own'[q] = own[q]
             /\ own'[q].idle = own[q].idle
             /\ own'[q].reservations = own[q].reservations
             /\ own'[q].connections = own[q].connections
             /\ own'[q].in_flight = own[q].in_flight
  <2>1. CASE own' = own
    BY <2>1
  <2>2. CASE own' = [own EXCEPT ![m]["pools"] = @ + b]
    <3>1. q # m => own'[q] = own[q]
      BY <1>1, <2>2 DEF TypeOK
    <3>2. own'[m] = [own[m] EXCEPT !["pools"] = own[m]["pools"] + b]
          /\ own[m] \in [ToSet(Counters) -> Int]
      BY <1>1, <2>2 DEF TypeOK
    <3>3. /\ own'[m].idle = own[m].idle
          /\ own'[m].reservations = own[m].reservations
          /\ own'[m].connections = own[m].connections
          /\ own'[m].in_flight = own[m].in_flight
      BY <3>2, CounterNames
    <3>4. q > built => q # m
      BY <1>1 DEF TypeOK, SubPools
    <3> QED
      BY <3>1, <3>3, <3>4
  <2> QED
    BY <2>1, <2>2
<1>6. \A q \in SubPools : PoolOK(q)'
  <2>1. \A q \in SubPools : Untouched(q)
    BY <1>2, <1>4, <1>5 DEF Untouched
  <2> QED
    BY <1>1, <2>1, PoolStays
<1>7. PassingOK'
  BY <1>1, <1>2, <1>4 DEF PassingOK
<1>8. ReaderOK'
  <2>1. ~(at > 0)
    BY <1>1 DEF ReaderOK
  <2> QED
    BY <1>1, <1>2, <2>1 DEF ReaderOK, TypeOK
<1> QED
  BY <1>6, <1>7, <1>8, Zenon DEF IInv

\* Main counts a sub pool, or counts it off.
LEMMA MainCounts ==
  ASSUME IInv, Step(Main), NEW m \in SubPools, m <= built, NEW b \in {-1, 1},
         script[Main] = Tell(flavour, m, "pools", b),
         \A q \in SubPools :
           own[q].pools =
             One(q \in (IF b = 1 THEN 1..(m - 1) ELSE m..built)),
         IF b = 1 THEN ended = 0 /\ m = built ELSE ended > 0 /\ m = ended
  PROVE  IInv'
<1> DEFINE s == Pass(flavour, m, "pools", b)
<1>1. TypeOK /\ MainOK /\ PassedOnOK /\ UserOK
  BY Zenon DEF IInv
<1>2. "pools" \in ToSet(Counters) /\ Main \in Actors /\ Main \in Owners(m)
      /\ b \in Int /\ built \in 0..N /\ ended \in 0..N /\ m \in Int
  BY <1>1, CounterNames, ActorTypes DEF Owners, TypeOK, SubPools
<1>3. <<>> \in Scripts /\ ~Passing(<<>>) /\ ~Passing(script[Main])
      /\ script[Main] # <<>>
      /\ script[Main] = Tell(flavour, m, "pools", b) ++ <<>>
      /\ s \in Scripts /\ s ++ <<>> = s
  BY <1>2, NoScript, TellAlone, StepTypes, NothingMore DEF Passing, Places
<1>4. /\ TypeOK' /\ Counts(Main, m, "pools", b)
      /\ own' = [own EXCEPT ![m]["pools"] = @ + b]
      /\ script' = [script EXCEPT ![Main] = Pass(flavour, m, "pools", b) ++ <<>>]
  BY <1>1, <1>2, <1>3, CountsTypes
<1>5. script' = [script EXCEPT ![Main] = s] /\ UNCHANGED <<flavour, user, pool, reader>>
  BY <1>3, <1>4 DEF Counts
<1>6. script'[Main] = s
  BY <1>1, <1>2, <1>5 DEF TypeOK
<1>7. /\ flavour' = flavour /\ built' = built /\ ended' = ended
  BY <1>5 DEF pool
<1>8. \A q \in SubPools :
        own'[q].pools = IF q = m THEN own[q].pools + b ELSE own[q].pools
  BY <1>1, <1>2, <1>4 DEF TypeOK
<1>9. ended > 0 => built = N
  BY <1>1 DEF MainOK
<1>10. MainOK'
  <2>1. CASE b = 1
    <3>1. \A q \in SubPools : own'[q].pools = One(q \in 1..built')
      BY <1>2, <1>7, <1>8, <2>1 DEF One, SubPools
    <3>2. \A q \in SubPools : own'[q].pools = One(q \in (ended' + 1)..built')
      BY <1>7, <2>1, <3>1
    <3>3. ended' = 0 /\ built' > 0 /\ ~(ended' > 0)
      BY <1>2, <1>7, <2>1 DEF SubPools
    <3>4. IF flavour' = "Custom"
            THEN script'[Main] = <<UserStep(built', "pools", 1)>>
            ELSE script'[Main] = <<>>
      BY <1>6, <1>7, <2>1 DEF Pass
    <3> QED
      BY <3>1, <3>2, <3>3, <3>4, Zenon DEF MainOK
  <2>2. CASE b = -1
    <3>1. \A q \in SubPools : own'[q].pools = One(q \in (ended' + 1)..built')
      BY <1>2, <1>7, <1>8, <2>2 DEF One, SubPools
    <3>2. ended' > 0 /\ built' = N
      BY <1>2, <1>7, <1>9, <2>2
    <3>3. IF flavour' = "Custom"
            THEN script'[Main] = <<UserStep(ended', "pools", -1)>>
            ELSE script'[Main] = <<>>
      BY <1>6, <1>7, <2>2 DEF Pass
    <3> QED
      BY <3>1, <3>2, <3>3, Zenon DEF MainOK
  <2> QED
    BY <2>1, <2>2
<1>11. PassedOnOK' /\ UserOK'
  <2>1. flavour = "Custom" =>
          \A q \in SubPools : \A c \in ToSet(Counters) : PassedOn(q, c)' = PassedOn(q, c)
    BY <1>1, <1>2, <1>4, CountsKeep
  <2> QED
    BY <1>1, <1>5, <2>1, KeepsOK
<1> HIDE DEF s
<1> QED
  BY <1>2, <1>3, <1>4, <1>5, <1>10, <1>11, MainKeeps

\* Main passes it on.
LEMMA MainPasses ==
  ASSUME IInv, Step(Main), Passing(script[Main])
  PROVE  IInv'
<1>1. TypeOK /\ MainOK /\ PassingOK /\ PassedOnOK /\ UserOK
  BY Zenon DEF IInv
<1>2. Main \in Actors /\ script[Main] # <<>> /\ 1 \in SubPools
      /\ "idle" \in ToSet(Counters) /\ <<>> \in Scripts /\ ~Passing(<<>>)
      /\ built \in 0..N /\ ended \in 0..N
  BY <1>1, ActorTypes, CounterNames, NoScript, SizesAssumption
     DEF Passing, SubPools, TypeOK
<1>3. flavour = "Custom" /\ Core(script[Main]) = <<>>
  BY <1>1, <1>2, MainLate
<1>4. TypeOK' /\ PassesOn(Main)
  BY <1>1, <1>2, <1>3, PassesOnTypes
<1>5. script' = [script EXCEPT ![Main] = <<>>] /\ own' = own
      /\ UNCHANGED <<flavour, pool, reader>>
  BY <1>3, <1>4 DEF PassesOn
<1>6. /\ flavour' = flavour /\ built' = built /\ ended' = ended
      /\ script'[Main] = <<>>
  BY <1>1, <1>2, <1>5 DEF pool, TypeOK
<1>7. built > 0 => built \in SubPools
  BY <1>2 DEF SubPools
<1>8. ended > 0 => ended \in SubPools
  BY <1>2 DEF SubPools
<1>9. /\ built > 0 => script[Main] # Tell(flavour, built, "pools", 1)
      /\ ended > 0 => script[Main] # Tell(flavour, ended, "pools", -1)
  BY <1>7, <1>8, CounterNames, TellAlone
<1>10. \A q \in SubPools : own[q].pools = One(q \in (ended + 1)..built)
  <2>1. \/ \A q \in SubPools : own[q].pools = One(q \in (ended + 1)..built)
        \/ ended = 0 /\ \A q \in SubPools : own[q].pools = One(q \in 1..built)
    BY <1>1, <1>9, Zenon DEF MainOK
  <2>2. 0 + 1 = 1
    OBVIOUS
  <2> QED
    BY <2>1, <2>2
<1>11. MainOK'
  <2>1. \A q \in SubPools : own'[q].pools = One(q \in (ended' + 1)..built')
    BY <1>5, <1>6, <1>10
  <2>2. ended' > 0 => built' = N
    BY <1>1, <1>6 DEF MainOK
  <2> QED
    BY <1>6, <2>1, <2>2, Zenon DEF MainOK
<1>12. PICK m \in SubPools : m = Head(script[Main]).pool
  BY <1>1, <1>2, HeadTypes
<1>13. PICK e \in ToSet(Counters) : e = Head(script[Main]).counter
  BY <1>1, <1>2, HeadTypes
<1>14. PICK b \in {-1, 1} : b = Head(script[Main]).by
  BY <1>1, <1>2, HeadTypes
<1>15. /\ PassedOn(m, e) + b <= Most(e)
       /\ e # "in_flight" => PassedOn(m, e) + b >= 0
  BY <1>1, <1>12, <1>13, <1>14, MainTells
<1>16. PassedOnOK' /\ UserOK'
  <2>1. Main \in Owners(m)
    BY DEF Owners
  <2> QED
    BY <1>1, <1>3, <1>4, <1>12, <1>13, <1>14, <1>15, <2>1, TellsOK
<1>17. built > 0
  BY <1>1, <1>2 DEF MainOK
<1>18. PICK l \in SubPools : l <= built
  BY <1>2, <1>17
<1>19. PICK s : script' = [script EXCEPT ![Main] = s]
  BY <1>5
<1>20. b \in Int
  OBVIOUS
<1> QED
  BY <1>2, <1>4, <1>5, <1>11, <1>16, <1>18, <1>19, <1>20, MainKeeps

LEMMA MainSteps ==
  ASSUME IInv, Step(Main)
  PROVE  IInv'
<1>1. TypeOK /\ MainOK
  BY Zenon DEF IInv
<1>2. script[Main] # <<>> /\ built \in 0..N /\ ended \in 0..N
  BY <1>1, ActorTypes, NotFree DEF TypeOK
<1>3. CASE Passing(script[Main])
  BY <1>3, MainPasses
<1>4. CASE ~Passing(script[Main])
  <2>1. \A m, b : Passing(<<UserStep(m, "pools", b)>>)
    BY DEF Passing, UserStep
  <2>2. \/ /\ ended = 0 /\ built > 0
           /\ script[Main] = Tell(flavour, built, "pools", 1)
           /\ \A q \in SubPools : own[q].pools = One(q \in 1..(built - 1))
        \/ /\ ended > 0 /\ script[Main] = Tell(flavour, ended, "pools", -1)
           /\ \A q \in SubPools : own[q].pools = One(q \in ended..built)
    BY <1>1, <1>2, <1>4, <2>1, Zenon DEF MainOK
  <2>3. CASE /\ ended = 0 /\ built > 0
             /\ script[Main] = Tell(flavour, built, "pools", 1)
             /\ \A q \in SubPools : own[q].pools = One(q \in 1..(built - 1))
    <3>1. built \in SubPools /\ built <= built
      BY <1>2, <2>3 DEF SubPools
    <3> QED
      BY <2>3, <3>1, MainCounts
  <2>4. CASE /\ ended > 0 /\ script[Main] = Tell(flavour, ended, "pools", -1)
             /\ \A q \in SubPools : own[q].pools = One(q \in ended..built)
    <3>1. built = N
      BY <1>1, <2>4 DEF MainOK
    <3>2. ended \in SubPools /\ ended <= built
      BY <1>2, <2>4, <3>1 DEF SubPools
    <3>3. -1 # 1 /\ -1 \in {-1, 1}
      OBVIOUS
    <3> QED
      BY <2>4, <3>2, <3>3, MainCounts
  <2> QED
    BY <2>2, <2>3, <2>4
<1> QED
  BY <1>3, <1>4

\* Main's next script begins with counting: nothing is counted or told yet.
LEMMA BeginsMain ==
  ASSUME TypeOK, NEW m \in SubPools, NEW b \in {-1, 1},
         NEW s, s = Count(m, "pools", b), script[Main] = <<>>,
         script' = [script EXCEPT ![Main] = s],
         UNCHANGED <<flavour, own, user>>,
         \A q \in SubPools :
           Passing(script[Consumer(q)]) =>
             alive'[q] = alive[q] /\ conn'[q] = conn[q]
  PROVE  /\ script' \in [Actors -> Seq(Steps)]
         /\ script'[Main] = Tell(flavour, m, "pools", b)
         /\ \A q \in SubPools : /\ script'[Consumer(q)] = script[Consumer(q)]
                                /\ script'[Dropper(q)] = script[Dropper(q)]
         /\ Tally(m)
<1>1. s = Tell(flavour, m, "pools", b)
  BY Told
<1>2. s \in Scripts /\ ~Passing(s)
  BY <1>1, CounterNames, TellAlone
<1>3. Main \in Actors /\ script'[Main] = s
      /\ \A a \in Actors \ {Main} : script'[a] = script[a]
  BY ActorTypes DEF TypeOK
<1>4. script' \in [Actors -> Seq(Steps)]
  BY <1>2 DEF TypeOK, Scripts
<1>5. \A q \in SubPools : /\ script'[Consumer(q)] = script[Consumer(q)]
                          /\ script'[Dropper(q)] = script[Dropper(q)]
  BY <1>3, ActorTypes
<1>6. ~Passing(<<>>)
  BY DEF Passing
<1>7. CountsNothing
  <2>1. \A a \in Actors : \/ script'[a] = script[a]
                          \/ ~Passing(script[a]) /\ ~Passing(script'[a])
    BY <1>2, <1>3, <1>6
  <2> QED
    BY <2>1 DEF CountsNothing
<1> QED
  BY <1>1, <1>3, <1>4, <1>5, <1>7 DEF Tally

LEMMA CreateSubPoolKeeps ==
  ASSUME IInv, CreateSubPool
  PROVE  IInv'
<1>1. TypeOK /\ MainOK /\ PassingOK /\ PassedOnOK /\ UserOK /\ ReaderOK
      /\ \A q \in SubPools : PoolOK(q)
  BY Zenon DEF IInv
<1>0. PICK p \in SubPools : p = built + 1
  <2>1. built + 1 \in SubPools
    BY <1>1, SizesAssumption DEF CreateSubPool, TypeOK, SubPools
  <2> QED
    BY <2>1
<1> DEFINE s == pool_added(p)
<1>2. /\ built < N /\ script[Main] = <<>> /\ script' = [script EXCEPT ![Main] = s]
      /\ built' = p /\ alive' = [alive EXCEPT ![p] = TRUE]
      /\ conn' = [conn EXCEPT ![p] = "connecting"]
      /\ flavour' = flavour /\ own' = own /\ user' = user /\ ended' = ended
      /\ inbox' = inbox /\ queue' = queue /\ received' = received
      /\ UNCHANGED reader
  BY <1>0 DEF CreateSubPool, Begin, Free, counters
<1>3. built \in 0..N /\ p \in SubPools /\ p > built /\ ended = 0
      /\ N \in Nat /\ ~(p <= built) /\ at = 0
  BY <1>0, <1>1, <1>2, SizesAssumption DEF TypeOK, SubPools, MainOK, ReaderOK
<1> HIDE DEF s
<1>4. Unborn(p)
  BY <1>1, <1>3, Zenon DEF PoolOK
<1>5. /\ \A q \in SubPools : conn'[q] = IF q = p THEN "connecting" ELSE conn[q]
      /\ \A q \in SubPools : alive'[q] = IF q = p THEN TRUE ELSE alive[q]
  BY <1>1, <1>2 DEF TypeOK
<1>6. s = Count(p, "pools", 1)
  BY DEF pool_added, s
<1>7. \A q \in SubPools :
        Passing(script[Consumer(q)]) =>
          alive'[q] = alive[q] /\ conn'[q] = conn[q]
  BY <1>4, <1>5 DEF Unborn, Passing
<1>8. /\ script' \in [Actors -> Seq(Steps)]
      /\ script'[Main] = Tell(flavour, p, "pools", 1)
      /\ \A q \in SubPools : /\ script'[Consumer(q)] = script[Consumer(q)]
                             /\ script'[Dropper(q)] = script[Dropper(q)]
      /\ Tally(p)
  BY <1>1, <1>2, <1>3, <1>6, <1>7, BeginsMain
<1>9. TypeOK'
  <2>1. built' \in 0..N /\ "connecting" \in Places
    BY <1>2, <1>3 DEF SubPools, Places
  <2>2. alive' \in [SubPools -> BOOLEAN] /\ conn' \in [SubPools -> Places]
    BY <1>1, <1>2, <2>1 DEF TypeOK
  <2> QED
    BY <1>1, <1>2, <1>8, <2>1, <2>2 DEF TypeOK, reader
<1>10. ASSUME NEW q \in SubPools \ {p}
       PROVE  PoolOK(q)'
  <2>1. q <= built' <=> q <= built
    BY <1>0, <1>2, <1>3, <1>10 DEF SubPools
  <2>2. Untouched(q)
    BY <1>2, <1>5, <1>8, <2>1 DEF Untouched
  <2> QED
    BY <1>1, <1>9, <2>2, PoolStays
<1>11. PoolOK(p)'
  <2>1. Posted(inbox[p], "connecting", TRUE, p <= ended, "none")
    <3>1. ~(p <= ended) /\ inbox[p] = <<>>
      BY <1>3, <1>4 DEF Unborn, SubPools
    <3> QED
      BY <3>1 DEF Posted
  <2>2. Dropping(flavour, p, script[Dropper(p)], "connecting", 0)
    BY <1>4 DEF Unborn, Dropping
  <2>3. Balanced(flavour, p, <<>>, "connecting", TRUE, queue[p], own[p], "none", 0)
    <3>1. own[p] = [c \in ToSet(Counters) |-> 0] /\ queue[p] = 0
      BY <1>4 DEF Unborn, Zero
    <3>2. /\ own[p].idle = 0 /\ own[p].connections = 0
          /\ own[p].reservations = 0 /\ own[p].in_flight = 0
      BY <3>1, CounterNames
    <3> DEFINE t == <<>>
               living == TRUE
               i == 0
    <3>3. /\ One("connecting" = "idle") = 0 /\ Present("connecting", "none", 0) = 0
          /\ Lent("connecting", "none", 0) = 0
      BY DEF One, Present, Lent
    <3>4. Working(flavour, p, t, "connecting", queue[p], i, i, i, i)
      BY DEF Working
    <3>5. living /\ i \in -1..1 /\ i \in -1..0 /\ i = 0
      OBVIOUS
    <3> HIDE DEF t, living, i
    <3>6. /\ own[p].idle = One("connecting" = "idle") + i
          /\ own[p].connections = Present("connecting", "none", 0) + i
          /\ own[p].reservations = queue[p] + i
          /\ own[p].in_flight = Lent("connecting", "none", 0) + i
      BY <3>1, <3>2, <3>3, <3>5
    <3>7. Balanced(flavour, p, t, "connecting", living, queue[p], own[p], "none", 0)
      BY <3>4, <3>5, <3>6, LivingBalance, Zenon
    <3> QED
      BY <3>7 DEF t, living
  <2>4. Core(script'[Consumer(p)]) = <<>>
    BY <1>4, <1>8 DEF Unborn, Core, Passing
  <2>5. conn'[p] = "connecting" /\ alive'[p] = TRUE
    BY <1>5
  <2>6. Agrees(p, "none", 0)'
    BY <1>2, <1>8, <2>1, <2>2, <2>3, <2>4, <2>5 DEF Agrees
  <2>7. p <= built' /\ 0 \in 0..3 /\ "none" \in Kinds
    BY <1>2, <1>3, <1>0 DEF Kinds, SubPools
  <2> QED
    BY <2>5, <2>6, <2>7, Settled, Zenon
<1>12. MainOK'
  <2>1. \A q \in SubPools : own[q].pools = One(q \in 1..built)
    <3>1. /\ ~Passing(<<>>) /\ (built > 0 => built \in SubPools)
      BY <1>3 DEF Passing, SubPools
    <3>2. built > 0 => <<>> # Tell(flavour, built, "pools", 1)
      BY <3>1, CounterNames, TellAlone
    <3>3. <<>> # <<UserStep(built, "pools", 1)>>
      OBVIOUS
    <3>4. \A q \in SubPools : own[q].pools = One(q \in (ended + 1)..built)
      BY <1>1, <1>2, <1>3, <3>2, <3>3 DEF MainOK
    <3> QED
      BY <1>3, <3>4
  <2>2. built' - 1 = built /\ built' > 0 /\ ended' = 0 /\ ~(ended' > 0)
    BY <1>0, <1>2, <1>3
  <2>3. \A q \in SubPools : own'[q].pools = One(q \in 1..(built' - 1))
    BY <1>2, <2>1, <2>2
  <2>4. script'[Main] = Tell(flavour', built', "pools", 1)
    BY <1>2, <1>8
  <2> QED
    BY <2>2, <2>3, <2>4, Zenon DEF MainOK
<1>13. PassingOK'
  BY <1>1, <1>3, <1>8, TallyPassing
<1>14. PassedOnOK' /\ UserOK'
  BY <1>1, <1>3, <1>8, <1>9, TallyTold
<1>15. ReaderOK'
  <2>1. at' = 0 /\ report' = report /\ wrapped' = wrapped /\ Panicked # 0
    BY <1>2, <1>3 DEF reader, Panicked, Counters
  <2> QED
    BY <1>1, <1>3, <2>1 DEF ReaderOK
<1> QED
  BY <1>9, <1>10, <1>11, <1>12, <1>13, <1>14, <1>15, Zenon DEF IInv

LEMMA DropSubPoolKeeps ==
  ASSUME IInv, DropSubPool
  PROVE  IInv'
<1>1. TypeOK /\ MainOK /\ PassingOK /\ PassedOnOK /\ UserOK /\ ReaderOK
      /\ \A q \in SubPools : PoolOK(q)
  BY Zenon DEF IInv
<1>0. PICK p \in SubPools : p = ended + 1
  BY <1>1 DEF DropSubPool, TypeOK, SubPools
<1> DEFINE s == pool_removed(p)
<1>2. /\ built = N /\ ended < N /\ at = 0
      /\ script[Main] = <<>> /\ script' = [script EXCEPT ![Main] = s]
      /\ ended' = p /\ inbox' = [inbox EXCEPT ![p] = Append(@, "stop")]
      /\ flavour' = flavour /\ own' = own /\ user' = user /\ built' = built
      /\ alive' = alive /\ conn' = conn /\ queue' = queue
      /\ received' = received /\ UNCHANGED reader
  BY <1>0 DEF DropSubPool, Begin, Free, counters
<1>3. ended \in 0..N /\ p \in SubPools /\ p > ended /\ p <= built
      /\ ~(p > built) /\ N \in Nat /\ ~(p <= ended)
  BY <1>0, <1>1, <1>2, SizesAssumption DEF TypeOK, SubPools
<1> HIDE DEF s
<1>4. alive[p] /\ \E k \in Kinds, d \in 0..3 : Agrees(p, k, d)
  BY <1>1, <1>3, Zenon DEF PoolOK
<1>5. PICK k \in Kinds, d \in 0..3 : Agrees(p, k, d)
  BY <1>4
<1>6. s = Count(p, "pools", -1)
  BY DEF pool_removed, s
<1>7. /\ script' \in [Actors -> Seq(Steps)]
      /\ script'[Main] = Tell(flavour, p, "pools", -1)
      /\ \A q \in SubPools : /\ script'[Consumer(q)] = script[Consumer(q)]
                             /\ script'[Dropper(q)] = script[Dropper(q)]
      /\ Tally(p)
  BY <1>1, <1>2, <1>3, <1>6, BeginsMain
<1>8. /\ \A q \in SubPools \ {p} : inbox'[q] = inbox[q]
      /\ inbox'[p] = Append(inbox[p], "stop")
  BY <1>1, <1>2, <1>3 DEF TypeOK
<1>9. TypeOK'
  <2>1. ended' \in 0..N
    BY <1>2, <1>3 DEF SubPools
  <2>2. inbox' \in [SubPools -> Seq({"fresh", "returned", "stop"})]
    <3> DEFINE S == {"fresh", "returned", "stop"}
    <3>1. "stop" \in S
      OBVIOUS
    <3>2. inbox \in [SubPools -> Seq(S)]
      BY <1>1 DEF TypeOK
    <3> HIDE DEF S
    <3>3. Append(inbox[p], "stop") \in Seq(S)
      BY <3>1, <3>2
    <3>4. inbox' \in [SubPools -> Seq(S)]
      BY <1>2, <3>2, <3>3
    <3> QED
      BY <3>4 DEF S
  <2> QED
    BY <1>1, <1>2, <1>7, <2>1, <2>2 DEF TypeOK, reader
<1>10. ASSUME NEW q \in SubPools \ {p}
       PROVE  PoolOK(q)'
  <2>1. q <= ended' <=> q <= ended
    BY <1>0, <1>2, <1>3, <1>10 DEF SubPools
  <2>2. Untouched(q)
    BY <1>2, <1>7, <1>8, <2>1 DEF Untouched
  <2> QED
    BY <1>1, <1>9, <2>2, PoolStays
<1>11. PoolOK(p)'
  <2>1. Posted(inbox[p], conn[p], alive[p], FALSE, k)
    <3>1. (p <= ended) = FALSE
      BY <1>3
    <3> QED
      BY <1>5, <3>1 DEF Agrees
  <2>2. Posted(inbox'[p], conn[p], alive[p], TRUE, k)
    <3>1. CASE k = "none" /\ inbox[p] = <<>>
      <4>1. inbox'[p] = <<"stop">>
        BY <1>8, <3>1
      <4> QED
        BY <1>4, <2>1, <3>1, <4>1 DEF Posted
    <3>2. CASE k # "none" /\ inbox[p] = <<k>>
      <4>1. inbox'[p] = <<k, "stop">>
        BY <1>8, <3>2, Appended
      <4> QED
        BY <1>4, <2>1, <3>2, <4>1 DEF Posted
    <3> QED
      BY <1>4, <2>1, <3>1, <3>2 DEF Posted
  <2>3. (p <= ended') = TRUE /\ ~(p > ended') /\ p <= built'
    BY <1>2, <1>3 DEF SubPools
  <2>4. Agrees(p, k, d)'
    BY <1>2, <1>5, <1>7, <2>2, <2>3 DEF Agrees
  <2> QED
    BY <2>3, <2>4, Settled, Zenon
<1>12. MainOK'
  <2>1. \A q \in SubPools : own[q].pools = One(q \in (ended + 1)..built)
    <3>1. /\ built \in SubPools /\ (ended > 0 => ended \in SubPools)
      BY <1>2, <1>3 DEF SubPools
    <3>2. /\ <<>> # Tell(flavour, built, "pools", 1)
          /\ ended > 0 => <<>> # Tell(flavour, ended, "pools", -1)
      BY <3>1, CounterNames, TellAlone
    <3>3. /\ <<>> # <<UserStep(built, "pools", 1)>>
          /\ <<>> # <<UserStep(ended, "pools", -1)>>
      OBVIOUS
    <3> QED
      BY <1>1, <1>2, <3>2, <3>3 DEF MainOK
  <2>2. ended' = ended + 1 /\ built' = N /\ ended' > 0
    BY <1>0, <1>2, <1>3
  <2>3. \A q \in SubPools : own'[q].pools = One(q \in ended'..built')
    BY <1>2, <2>1, <2>2
  <2>4. script'[Main] = Tell(flavour', ended', "pools", -1)
    BY <1>2, <1>7
  <2> QED
    BY <2>2, <2>3, <2>4, Zenon DEF MainOK
<1>13. PassingOK'
  BY <1>1, <1>3, <1>7, TallyPassing
<1>14. PassedOnOK' /\ UserOK'
  BY <1>1, <1>3, <1>7, <1>9, TallyTold
<1>15. ReaderOK'
  <2>1. at' = 0 /\ report' = report /\ wrapped' = wrapped /\ Panicked # 0
    BY <1>2, <1>3 DEF reader, Panicked, Counters
  <2> QED
    BY <1>1, <1>2, <2>1 DEF ReaderOK
<1> QED
  BY <1>9, <1>10, <1>11, <1>12, <1>13, <1>14, <1>15, Zenon DEF IInv

LEMMA InitHolds ==
  ASSUME Init
  PROVE  IInv
<1>1. /\ N \in Nat \ {0} /\ Limit \in Nat /\ Usize \in Nat \ {0} /\ MaxCheckouts \in Nat
      /\ Returned = 5 * N + 1 /\ Panicked = 5 * N + 2
  BY SizesAssumption, MemoryAssumption DEF Returned, Panicked, Counters
<1>2. /\ \A a \in Actors : script[a] = <<>> /\ ~Passing(script[a])
      /\ \A p \in SubPools : /\ own[p] = Zero /\ alive[p] = FALSE
                             /\ conn[p] = "none" /\ inbox[p] = <<>> /\ queue[p] = 0
      /\ \A c \in ToSet(Counters) : Zero[c] = 0
  BY DEF Init, Passing, Zero
<1>3. TypeOK
  <2>1. Zero \in [ToSet(Counters) -> Int]
        /\ Zero \in [ToSet(Counters) -> 0..(Usize - 1)]
    BY <1>1 DEF Zero
  <2>2. /\ "none" \in Places /\ 0 \in 0..N /\ 0 \in 0..Limit
        /\ 0 \in 0..MaxCheckouts /\ 0 \in 0..Panicked
    BY <1>1 DEF Places
  <2>3. <<>> \in Seq(Steps) /\ <<>> \in Seq({"fresh", "returned", "stop"})
    BY NoScript DEF Scripts
  <2>4. /\ own \in [SubPools -> [ToSet(Counters) -> Int]]
        /\ script \in [Actors -> Seq(Steps)] /\ alive \in [SubPools -> BOOLEAN]
        /\ conn \in [SubPools -> Places] /\ queue \in [SubPools -> 0..Limit]
        /\ inbox \in [SubPools -> Seq({"fresh", "returned", "stop"})]
    BY <2>1, <2>2, <2>3 DEF Init
  <2> QED
    BY <2>1, <2>2, <2>4 DEF Init, TypeOK
<1>4. ASSUME NEW p \in SubPools
      PROVE  PoolOK(p)
  <2>1. p > built
    BY DEF Init, SubPools
  <2>2. Unborn(p)
    BY <1>2, ActorTypes DEF Unborn
  <2> QED
    BY <2>1, <2>2 DEF PoolOK
<1>5. MainOK
  <2>1. \A p \in SubPools : own[p].pools = One(p \in (ended + 1)..built)
    BY <1>2, CounterNames DEF Init, One, SubPools
  <2>2. script[Main] = <<>> /\ ~(ended > 0)
    BY <1>2, ActorTypes DEF Init
  <2> QED
    BY <2>1, <2>2, Zenon DEF MainOK
<1>6. PassingOK
  BY <1>2, ActorTypes DEF PassingOK
<1>7. ASSUME NEW p \in SubPools, NEW c \in ToSet(Counters)
      PROVE  PassedOn(p, c) = 0
  <2>1. /\ own[p][c] = 0 /\ Late(Consumer(p), p, c) = 0
        /\ Late(Dropper(p), p, c) = 0 /\ Late(Main, p, c) = 0
    BY <1>2, <1>3, ActorTypes, LateForms
  <2> QED
    BY <2>1 DEF PassedOn
<1>8. PassedOnOK
  BY <1>1, <1>7 DEF PassedOnOK, Most
<1>9. UserOK
  <2>1. ASSUME NEW c \in ToSet(Counters)
        PROVE  user[c] = SumFunction([p \in SubPools |-> PassedOn(p, c)])
    <3> DEFINE f == [p \in SubPools |-> PassedOn(p, c)]
    <3>1. f \in [SubPools -> Int] /\ \A p \in SubPools : f[p] = 0
      BY <1>7
    <3>2. IsFiniteSet(SubPools)
      BY SizesAssumption, FS_Interval DEF SubPools
    <3> HIDE DEF f
    <3>3. SumFunction(f) >= 0 /\ SumFunction(f) \in Int
      BY <3>1, <3>2, SumNatural, SumInt
    <3>4. SumFunction(f) <= 0 * N
      <4>1. N \in Nat /\ 0 \in Nat /\ f \in [1..N -> Int] /\ \A x \in 1..N : f[x] <= 0
        BY <1>1, <3>1 DEF SubPools
      <4> QED
        BY <4>1, SumBounded
    <3>5. user[c] = 0 /\ 0 * N = 0
      BY <1>1, <1>2 DEF Init
    <3> QED
      BY <3>3, <3>4, <3>5 DEF f
  <2> QED
    BY <2>1 DEF UserOK, UserCountsTheSum, Init
<1>10. ReaderOK
  BY <1>1 DEF Init, ReaderOK
<1> QED
  BY <1>3, <1>4, <1>5, <1>6, <1>8, <1>9, <1>10, Zenon DEF IInv

LEMMA NextKeeps ==
  ASSUME IInv, [Next]_vars
  PROVE  IInv'
<1>1. TypeOK /\ \A p \in SubPools : PoolOK(p)
  BY Zenon DEF IInv
<1>2. CASE \E a \in Actors : Step(a)
  <2>1. PICK a \in Actors : Step(a)
    BY <1>2
  <2>2. CASE a = Main
    BY <2>1, <2>2, MainSteps
  <2>3. ASSUME NEW p \in SubPools, a = Consumer(p) \/ a = Dropper(p)
        PROVE  IInv'
    <3>1. PoolWorks(p)
      BY <1>1, <2>1, <2>3, ConsumerSteps, DropperSteps
    <3> QED
      BY <3>1, WorkKeeps
  <2> QED
    BY <2>2, <2>3, ActorTypes
<1>3. ASSUME NEW p \in SubPools,
             \/ CheckIn(p) \/ CheckOut(p) \/ CleanupReservations(p)
             \/ StopConsumer(p)
             \/ Connected(p) \/ Return(p) \/ Break(p)
      PROVE  IInv'
  <2>1. PoolWorks(p)
    BY <1>1, <1>3, CheckInSteps, CheckOutSteps, CleanupReservationsSteps,
       StopConsumerSteps, ConnectedSteps, ReturnSteps, BreakSteps
  <2> QED
    BY <2>1, WorkKeeps
<1>4. CASE UNCHANGED vars
  <2>1. UNCHANGED <<counters, script, pool>> /\ UNCHANGED reader
    BY <1>4 DEF vars
  <2>2. TypeOK'
    BY <1>1, <2>1 DEF TypeOK, counters, pool, reader
  <2>3. ReaderOK'
    BY <2>1 DEF IInv, ReaderOK, reader, pool, Loaded
  <2> QED
    BY <2>1, <2>2, <2>3, ReadKeeps
<1> QED
  BY <1>2, <1>3, <1>4, CreateSubPoolKeeps, DropSubPoolKeeps, CallKeeps,
     LoadKeeps, ForgetKeeps DEF Next

-----------------------------------------------------------------------------
(* Theorems.                                                               *)

\* The counters agree at any moment with what the sub pools have and with what
\* is still to be counted.
THEOREM CountersInductive == Spec => []IInv
<1>1. Init => IInv
  BY InitHolds
<1>2. IInv /\ [Next]_vars => IInv'
  BY NextKeeps
<1> QED
  BY <1>1, <1>2, PTL DEF Spec

\* The variables have their types.
THEOREM TypesOfCounters == Spec => []TypeOK
<1>1. IInv => TypeOK
  BY Zenon DEF IInv
<1> QED
  BY <1>1, CountersInductive, PTL

\* What the counters of a sub pool say while nothing is under way.
LEMMA Quiet ==
  ASSUME TypeOK, NEW p \in SubPools, PoolOK(p),
         Free(Consumer(p)), Free(Dropper(p)),
         NEW returned \in BOOLEAN,
         returned <=> conn[p] = "inbox" /\ "returned" \in ToSet(inbox[p])
  PROVE  /\ own[p].idle = One(conn[p] = "idle")
         /\ own[p].connections =
              One(conn[p] \in {"idle", "out", "orphan"} \/ returned)
         /\ IF alive[p]
              THEN /\ own[p].in_flight = One(conn[p] = "out" \/ returned)
                   /\ own[p].reservations = queue[p]
              ELSE own[p].in_flight \in -1..0
<1>1. script[Consumer(p)] = <<>> /\ script[Dropper(p)] = <<>>
  BY DEF Free
<1>2. CASE Unborn(p)
  <2>1. own[p] = [c \in ToSet(Counters) |-> 0] /\ conn[p] = "none" /\ ~alive[p]
    BY <1>2 DEF Unborn, Zero
  <2>2. own[p].idle = 0 /\ own[p].connections = 0 /\ own[p].in_flight = 0
    BY <2>1, CounterNames
  <2> QED
    BY <2>1, <2>2 DEF One
<1>3. ASSUME NEW k \in Kinds, NEW d \in 0..3, Agrees(p, k, d)
      PROVE  /\ own[p].idle = One(conn[p] = "idle")
             /\ own[p].connections =
                  One(conn[p] \in {"idle", "out", "orphan"} \/ returned)
             /\ IF alive[p]
                  THEN /\ own[p].in_flight = One(conn[p] = "out" \/ returned)
                       /\ own[p].reservations = queue[p]
                  ELSE own[p].in_flight \in -1..0
  <2> DEFINE cn == conn[p]
             t == Core(script[Consumer(p)])
             o == own[p]
  <2>1. t = <<>>
    BY <1>1 DEF Core, Passing
  <2>2. /\ Balanced(flavour, p, t, cn, alive[p], queue[p], o, k, d)
        /\ Dropping(flavour, p, <<>>, cn, d)
        /\ Posted(inbox[p], cn, alive[p], p <= ended, k)
    BY <1>1, <1>3, Zenon DEF Agrees
  <2>3. alive[p] \in BOOLEAN /\ queue[p] \in 0..Limit /\ o \in Records
    BY PoolTypes
  <2>4. d = 0
    <3>1. /\ "in_flight" \in ToSet(Counters) /\ "connections" \in ToSet(Counters)
          /\ -1 \in {-1, 1} /\ "out" \in Places
      BY CounterNames DEF Places
    <3> DEFINE create == Create(p)
               last == Tell(flavour, p, "in_flight", -1) ++ create
    <3>2. create \in Scripts /\ create # <<>>
      BY <3>1, StepTypes, EffectFirst, NoScript
    <3>3. last \in Scripts /\ last # <<>>
      BY <3>1, <3>2, TellFirst
    <3>4. /\ <<UserStep(p, "in_flight", -1)>> ++ create # <<>>
          /\ <<UserStep(p, "connections", -1)>> ++ last # <<>>
      <4>1. UserStep(p, "in_flight", -1) \in Steps
            /\ UserStep(p, "connections", -1) \in Steps
        BY <3>1, StepTypes
      <4> HIDE DEF create, last, Steps
      <4> QED
        BY <3>2, <3>3, <4>1, TakenApart DEF Scripts, ++
    <3>5. Tell(flavour, p, "connections", -1) ++ last # <<>>
      <4> HIDE DEF last
      <4> QED
        BY <3>1, <3>3, TellFirst
    <3> QED
      BY <2>2, <3>2, <3>3, <3>4, <3>5 DEF Dropping
  <2>5. returned <=> k = "returned"
    <3>1. ToSet(<<>>) = {} /\ ToSet(<<k>>) = {k} /\ ToSet(<<"stop">>) = {"stop"}
          /\ ToSet(<<k, "stop">>) = {k, "stop"} /\ ToSet(<<"stop", k>>) = {k, "stop"}
      BY DEF ToSet
    <3> QED
      BY <2>2, <3>1 DEF Posted, Kinds
  <2> HIDE DEF t, cn, o
  <2>6. CASE alive[p]
    <3>1. Rests(cn, queue[p], o, k, d)
      BY <2>1, <2>2, <2>3, <2>6, AtRest
    <3> QED
      BY <2>4, <2>5, <2>6, <3>1 DEF Rests, Present, Lent, One, cn, o
  <2>7. CASE ~alive[p]
    <3>1. PICK i \in -1..1, c \in -1..0, f \in -1..1, g \in -1..0 :
            /\ o.idle = One(cn = "idle") + i
            /\ o.connections = Present(cn, k, d) + c
            /\ Ending(flavour, p, t, cn, i, c, f)
            /\ cn # "held"
            /\ o.in_flight = f + g
      BY <2>2, <2>7 DEF Balanced
    <3>2. cn # "idle" /\ i = 0 /\ c = 0 /\ f = 0
      BY <2>1, <3>1, NothingLast
    <3>3. k = "none"
      BY <2>2, <2>7 DEF Posted
    <3> QED
      BY <2>4, <2>5, <2>7, <3>1, <3>2, <3>3 DEF Present, One, cn, o
  <2> QED
    BY <2>3, <2>6, <2>7
<1> QED
  BY <1>2, <1>3 DEF PoolOK

\* While nothing is under way the counters of a sub pool are the truth.
THEOREM QuietCounters == Spec => []QuietCountersExact
<1>1. ASSUME IInv PROVE QuietCountersExact
  <2> SUFFICES ASSUME NEW p \in SubPools, Free(Consumer(p)), Free(Dropper(p)),
                      NEW returned \in BOOLEAN,
                      returned <=> conn[p] = "inbox" /\ "returned" \in ToSet(inbox[p])
               PROVE  /\ own[p].idle = One(conn[p] = "idle")
                      /\ own[p].connections =
                           One(conn[p] \in {"idle", "out", "orphan"} \/ returned)
                      /\ IF alive[p]
                           THEN /\ own[p].in_flight = One(conn[p] = "out" \/ returned)
                                /\ own[p].reservations = queue[p]
                           ELSE own[p].in_flight \in -1..0
    BY DEF QuietCountersExact, One
  <2>1. TypeOK /\ PoolOK(p)
    BY <1>1, Zenon DEF IInv
  <2> QED
    BY <2>1, Quiet
<1> QED
  BY <1>1, CountersInductive, PTL

\* StateCounters has the sum of what the sub pools have passed on.
THEOREM UserCounts == Spec => []UserCountsTheSum
<1>1. IInv => UserCountsTheSum
  BY DEF IInv, UserOK
<1> QED
  BY <1>1, CountersInductive, PTL

\* What the user was told in all.
LEMMA UserBounds ==
  ASSUME IInv, NEW c \in ToSet(Counters)
  PROVE  /\ user[c] <= Most(c) * N
         /\ c # "in_flight" => user[c] >= 0
<1>1. TypeOK /\ PassedOnOK /\ UserOK
  BY Zenon DEF IInv
<1>2. N \in Nat /\ Most(c) \in Nat /\ Most(c) * N \in Nat
  BY SizesAssumption DEF Most
<1>3. CASE flavour = "Custom"
  <2> DEFINE f == [p \in SubPools |-> PassedOn(p, c)]
  <2>1. user[c] = SumFunction(f)
    BY <1>1, <1>3 DEF UserOK, UserCountsTheSum
  <2>2. f \in [SubPools -> Int]
    BY <1>1, PassedOnTypes
  <2>3. /\ \A p \in SubPools : f[p] <= Most(c)
        /\ c # "in_flight" => \A p \in SubPools : f[p] >= 0
    BY <1>1, <1>3 DEF PassedOnOK
  <2>4. IsFiniteSet(SubPools)
    BY SizesAssumption, FS_Interval DEF SubPools
  <2> HIDE DEF f
  <2>5. SumFunction(f) <= Most(c) * N
    <3>1. f \in [1..N -> Int] /\ \A p \in 1..N : f[p] <= Most(c)
      BY <2>2, <2>3 DEF SubPools
    <3> QED
      BY <1>2, <3>1, SumBounded
  <2>6. c # "in_flight" => SumFunction(f) >= 0
    BY <2>2, <2>3, <2>4, SumNatural
  <2> QED
    BY <2>1, <2>5, <2>6
<1>4. CASE flavour # "Custom"
  <2>1. user[c] = 0
    BY <1>1, <1>4 DEF UserOK, Zero
  <2> QED
    BY <1>2, <2>1
<1> QED
  BY <1>3, <1>4

\* The in_flight of the user wraps only with that of a sub pool, or while a
\* connection was handed over and the user has not been told.
LEMMA UserWraps ==
  ASSUME IInv, user.in_flight < 0
  PROVE  \E p \in SubPools : \/ own[p].in_flight < 0
                            \/ Late(Consumer(p), p, "in_flight") = 1
<1> DEFINE c == "in_flight"
           f == [p \in SubPools |-> PassedOn(p, c)]
<1>1. TypeOK /\ MainOK /\ UserOK /\ \A p \in SubPools : PoolOK(p)
  BY Zenon DEF IInv
<1>2. c \in ToSet(Counters) /\ c # "pools"
  BY CounterNames
<1>3. user[c] = SumFunction(f)
  <2>1. flavour = "Custom"
    <3>1. flavour # "Custom" => user[c] = 0
      BY <1>1, <1>2 DEF UserOK, Zero
    <3> QED
      BY <3>1
  <2> QED
    BY <1>1, <1>2, <2>1 DEF UserOK, UserCountsTheSum
<1>4. PICK p \in SubPools : PassedOn(p, c) < 0
  <2>1. f \in [SubPools -> Int]
    BY <1>1, <1>2, PassedOnTypes
  <2>2. IsFiniteSet(SubPools)
    BY SizesAssumption, FS_Interval DEF SubPools
  <2>3. ~ \A p \in SubPools : f[p] >= 0
    <3> SUFFICES ASSUME \A p \in SubPools : f[p] >= 0 PROVE FALSE
      OBVIOUS
    <3> HIDE DEF f
    <3>1. SumFunction(f) >= 0
      BY <2>1, <2>2, SumNatural
    <3>2. SumFunction(f) \in Int
      BY <2>1, <2>2, SumInt
    <3> QED
      BY <1>3, <3>1, <3>2
  <2> QED
    BY <2>1, <2>3
<1>5. own[p][c] \in Int
  BY <1>1, <1>2 DEF TypeOK
<1>6. Late(Consumer(p), p, c) \in -1..1 /\ Late(Dropper(p), p, c) \in -1..1
  BY <1>1, <1>2, ActorTypes, LateForms
<1>7. Late(Main, p, c) = 0
  BY <1>1, <1>2, MainLate
<1>8. Late(Dropper(p), p, c) <= 0
  <2>1. CASE Unborn(p)
    <3>1. Late(Dropper(p), p, c) = 0
      BY <1>1, <1>2, <2>1, ActorTypes, LateForms DEF Unborn, Passing
    <3> QED
      BY <3>1
  <2>2. ASSUME NEW k \in Kinds, NEW d \in 0..3, Agrees(p, k, d)
        PROVE  Late(Dropper(p), p, c) <= 0
    BY <1>1, <1>2, <2>2, DropperLate
  <2> QED
    BY <1>1, <2>1, <2>2 DEF PoolOK
<1>9. own[p][c] < 0 \/ Late(Consumer(p), p, c) = 1
  BY <1>4, <1>5, <1>6, <1>7, <1>8 DEF PassedOn
<1> QED
  BY <1>9

\* No counter wraps but for in_flight, and when that one does.
THEOREM NoOtherWraps == Spec => []OnlyInFlightWraps
<1>1. ASSUME IInv PROVE OnlyInFlightWraps
  <2>1. ASSUME NEW c \in ToSet(Counters) \ {"in_flight"}
        PROVE  user[c] >= 0 /\ \A p \in SubPools : own[p][c] >= 0
    BY <1>1, <2>1, UserBounds, Amounts
  <2>2. \A p \in SubPools : own[p].in_flight < 0 => HandsOver(p) \/ ~alive[p]
    BY <1>1, PoolBounds DEF IInv
  <2>3. user.in_flight < 0 =>
          \E p \in SubPools : \/ own[p].in_flight < 0
                             \/ Late(Consumer(p), p, "in_flight") = 1
    BY <1>1, UserWraps
  <2> QED
    BY <2>1, <2>2, <2>3 DEF OnlyInFlightWraps
<1> QED
  BY <1>1, CountersInductive, PTL

\* No counter ever shows more than there can be.
THEOREM CountersHaveBounds == Spec => []CountersBounded
<1>1. ASSUME IInv PROVE CountersBounded
  <2>1. TypeOK /\ N \in Nat /\ Limit \in Nat /\ user \in [ToSet(Counters) -> Int]
    BY <1>1, SizesAssumption DEF IInv, TypeOK
  <2>2. \A p \in SubPools :
          /\ own[p].idle \in 0..1 /\ own[p].connections \in 0..1
          /\ own[p].reservations \in 0..Limit /\ own[p].in_flight <= 1
    BY <1>1, PoolBounds DEF IInv
  <2>3. \A c \in ToSet(Counters) : user[c] <= Most(c) * N
    BY <1>1, UserBounds
  <2>4. /\ user.connections <= 1 * N /\ user.idle <= 1 * N
        /\ user.in_flight <= 1 * N /\ user.reservations <= Limit * N
    BY <2>3, CounterNames DEF Most
  <2>5. 1 * N = N /\ Limit * N = N * Limit
    BY <2>1
  <2> QED
    BY <2>1, <2>2, <2>4, <2>5 DEF CountersBounded
<1> QED
  BY <1>1, CountersInductive, PTL

\* A report adds up, whatever happens while it is made.
THEOREM ReportsAddUp == Spec => []ReportAddsUp
<1>1. ASSUME IInv PROVE ReportAddsUp
  <2>1. TypeOK /\ ReaderOK /\ N \in Nat \ {0} /\ Limit \in Nat
    BY <1>1, SizesAssumption DEF IInv
  <2>2. Returned = 5 * N + 1 /\ Panicked = 5 * N + 2
    BY <2>1 DEF Returned, Panicked, Counters
  <2>3. at = Panicked => wrapped
    BY <2>1, <2>2 DEF ReaderOK
  <2>4. ASSUME at = Returned
        PROVE  /\ report.pools = N
               /\ report.connections <= N /\ report.idle <= N
               /\ report.reservations <= N * Limit
               /\ wrapped \/ report.in_flight <= N
    <3>1. \A i \in 1..5 : Loaded(i) = N
      <4>1. ASSUME NEW i \in 1..5 PROVE Loaded(i) = N
        <5>1. Loaded(i) = (5 * N + (5 - i)) \div 5
          BY <2>1, <2>2, <2>4 DEF Loaded
        <5> QED
          BY <2>1, <5>1
      <4> QED
        BY <4>1
    <3>2. at \in 1..Returned
      BY <2>1, <2>2, <2>4
    <3>3. /\ Counters[1] = "in_flight" /\ Counters[2] = "reservations"
          /\ Counters[3] = "connections" /\ Counters[4] = "idle"
          /\ Counters[5] = "pools"
      BY DEF Counters
    <3>4. \A i \in 1..5 :
            /\ Counters[i] = "pools" => report[Counters[i]] = N
            /\ \/ Counters[i] = "in_flight" /\ wrapped
               \/ report[Counters[i]] <= Most(Counters[i]) * N
      BY <2>1, <3>1, <3>2 DEF ReaderOK
    <3>5. /\ report.pools = N
          /\ wrapped \/ report.in_flight <= Most("in_flight") * N
          /\ report.reservations <= Most("reservations") * N
          /\ report.connections <= Most("connections") * N
          /\ report.idle <= Most("idle") * N
      BY <3>3, <3>4
    <3>6. /\ Most("in_flight") * N = N /\ Most("connections") * N = N
          /\ Most("idle") * N = N /\ Most("reservations") * N = N * Limit
      BY <2>1 DEF Most
    <3> QED
      BY <3>5, <3>6
  <2> QED
    BY <2>3, <2>4 DEF ReportAddsUp
<1> QED
  BY <1>1, CountersInductive, PTL
=============================================================================
