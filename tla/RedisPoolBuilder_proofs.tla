----------------------- MODULE RedisPoolBuilder_proofs -----------------------
(***************************************************************************)
(* The properties of RedisPoolBuilder for all values a client and the      *)
(* environment can give, any number of sub pools and any number of failed  *)
(* attempts.                                                               *)
(***************************************************************************)
EXTENDS RedisPoolBuilder, DataLemmas, SequenceTheorems

-----------------------------------------------------------------------------
(* The delays of BackoffStrategy, for every attempt.                       *)

\* NEW_CONN_BACKOFFS_MS has 26 rows.
LEMMA TableLength == Len(NewConnBackoffs) = 26
BY DEF NewConnBackoffs

\* They are delays of at most ten seconds.
LEMMA TableBounds ==
  ASSUME NEW i \in 1..26
  PROVE  NewConnBackoffs[i] \in Nat /\ NewConnBackoffs[i] <= 10000
BY DEF NewConnBackoffs

\* No row is below the one before it.
LEMMA TableGrows ==
  ASSUME NEW i \in 1..25
  PROVE  NewConnBackoffs[i] <= NewConnBackoffs[i + 1]
BY DEF NewConnBackoffs

\* calc_backoff stays within the bounds of the table.
LEMMA CalcBackoffRows ==
  ASSUME NEW n \in Nat
  PROVE  /\ n = 0 => CalcBackoff(n) = NewConnBackoffs[1]
         /\ n \in 1..26 => CalcBackoff(n) = NewConnBackoffs[n]
         /\ n > 26 => CalcBackoff(n) = 10000
BY TableLength DEF CalcBackoff, MaxNewConnBackoff

LEMMA CalcBackoffBounds ==
  ASSUME NEW n \in Nat
  PROVE  /\ CalcBackoff(n) \in Nat
         /\ CalcBackoff(n) <= 10000
         /\ n >= 26 => CalcBackoff(n) = 10000
<1>1. CASE n = 0
  <2>1. NewConnBackoffs[1] \in Nat /\ NewConnBackoffs[1] <= 10000
    BY TableBounds
  <2> QED
    BY <1>1, <2>1, CalcBackoffRows
<1>2. CASE n \in 1..26
  <2>1. NewConnBackoffs[n] \in Nat /\ NewConnBackoffs[n] <= 10000
    BY <1>2, TableBounds
  <2>2. NewConnBackoffs[26] = 10000
    BY DEF NewConnBackoffs
  <2> QED
    BY <1>2, <2>1, <2>2, CalcBackoffRows
<1>3. CASE n > 26
  BY <1>3, CalcBackoffRows
<1> QED
  BY <1>1, <1>2, <1>3

\* The next attempt never has a shorter delay.
LEMMA CalcBackoffGrows ==
  ASSUME NEW n \in Nat
  PROVE  CalcBackoff(n) <= CalcBackoff(n + 1)
<1>1. CASE n = 0
  <2>1. NewConnBackoffs[1] \in Nat /\ NewConnBackoffs[1] <= 10000
    BY TableBounds
  <2>2. CalcBackoff(n) = NewConnBackoffs[1]
    BY <1>1, CalcBackoffRows
  <2>3. CalcBackoff(n + 1) = NewConnBackoffs[1]
    BY <1>1, CalcBackoffRows
  <2> QED
    BY <2>1, <2>2, <2>3
<1>2. CASE n \in 1..25
  <2>1. CalcBackoff(n) = NewConnBackoffs[n]
    BY <1>2, CalcBackoffRows
  <2>2. CalcBackoff(n + 1) = NewConnBackoffs[n + 1]
    BY <1>2, CalcBackoffRows
  <2> QED
    BY <1>2, <2>1, <2>2, TableGrows
<1>3. CASE n >= 26
  <2>1. CalcBackoff(n + 1) = 10000
    BY <1>3, CalcBackoffBounds
  <2>2. CalcBackoff(n) = 10000
    BY <1>3, CalcBackoffBounds
  <2> QED
    BY <2>1, <2>2
<1> QED
  BY <1>1, <1>2, <1>3

-----------------------------------------------------------------------------
(* Strategies.                                                             *)

\* The delay without jitter is a number, and at most what the strategy says.
LEMMA BackoffBounds ==
  ASSUME NEW strategy \in Strategies, NEW n \in Nat
  PROVE  /\ Backoff(strategy, n) \in Nat
         /\ Longest(strategy) \in Nat
         /\ Backoff(strategy, n) <= Longest(strategy)
         /\ n >= 26 /\ strategy.kind # "NoBackoff"
              => Backoff(strategy, n) = Longest(strategy)
<1> USE CalcBackoffBounds
<1>1. CASE strategy = NoBackoff
  BY <1>1 DEF NoBackoff, Backoff, Longest, MaxNewConnBackoff
<1>2. CASE strategy \in [kind : {"Constant"}, fixed : Nat, jitter : BOOLEAN]
  BY <1>2 DEF Backoff, Longest, MaxNewConnBackoff
<1>3. CASE strategy \in [kind : {"Incremental"}, jitter : BOOLEAN]
  BY <1>3 DEF Backoff, Longest, MaxNewConnBackoff
<1>4. CASE strategy \in [kind : {"IncrementalCapped"}, cap : Nat,
                         jitter : BOOLEAN]
  BY <1>4 DEF Backoff, Longest, Lower, MaxNewConnBackoff
<1> QED
  BY <1>1, <1>2, <1>3, <1>4 DEF Strategies

LEMMA BackoffGrows ==
  ASSUME NEW strategy \in Strategies, NEW n \in Nat
  PROVE  Backoff(strategy, n) <= Backoff(strategy, n + 1)
<1> USE CalcBackoffBounds, CalcBackoffGrows
<1>1. CASE strategy = NoBackoff
  BY <1>1 DEF NoBackoff, Backoff
<1>2. CASE strategy \in [kind : {"Constant"}, fixed : Nat, jitter : BOOLEAN]
  BY <1>2 DEF Backoff
<1>3. CASE strategy \in [kind : {"Incremental"}, jitter : BOOLEAN]
  BY <1>3 DEF Backoff
<1>4. CASE strategy \in [kind : {"IncrementalCapped"}, cap : Nat,
                         jitter : BOOLEAN]
  BY <1>4 DEF Backoff, Lower
<1> QED
  BY <1>1, <1>2, <1>3, <1>4 DEF Strategies

\* The jitter is less than three seconds and adds at most a third.
LEMMA JitterBounds ==
  ASSUME NEW ms \in Nat
  PROVE  /\ EffectiveJitter(ms) \in Nat
         /\ EffectiveJitter(ms) <= 3000
         /\ EffectiveJitter(ms) > 0 => 3 * (EffectiveJitter(ms) - 1) <= ms
BY DEF EffectiveJitter, Lower

\* What a task can draw: nothing exactly without a backoff, otherwise a delay
\* between the one without jitter and the bounds of the jitter.
LEMMA DelayBounds ==
  ASSUME NEW strategy \in Strategies, NEW n \in Nat
  PROVE  /\ NextBackoffs(strategy, n) = {} <=> strategy.kind = "NoBackoff"
         /\ strategy.kind # "NoBackoff"
              => Backoff(strategy, n) \in NextBackoffs(strategy, n)
         /\ \A delay \in NextBackoffs(strategy, n) :
              /\ delay \in Nat
              /\ Backoff(strategy, n) <= delay
              /\ 3 * delay <= 4 * Longest(strategy)
              /\ delay < Longest(strategy) + 3000
              /\ delay > Longest(strategy) => strategy.jitter
<1> DEFINE backoff == Backoff(strategy, n)
           jitter  == EffectiveJitter(backoff)
<1>1. CASE strategy.kind = "NoBackoff"
  BY <1>1 DEF NextBackoffs
<1>2. CASE strategy.kind # "NoBackoff"
  <2>1. /\ backoff \in Nat /\ Longest(strategy) \in Nat
        /\ backoff <= Longest(strategy)
    BY BackoffBounds
  <2>2. /\ jitter \in Nat
        /\ jitter <= 3000
        /\ jitter > 0 => 3 * (jitter - 1) <= backoff
    BY <2>1, JitterBounds
  <2> HIDE DEF backoff, jitter
  <2>3. CASE strategy.jitter /\ jitter # 0
    <3>1. NextBackoffs(strategy, n) = backoff..(backoff + jitter - 1)
      BY <1>2, <2>3 DEF NextBackoffs, backoff, jitter
    <3> QED
      BY <1>2, <2>1, <2>2, <2>3, <3>1 DEF backoff
  <2>4. CASE ~(strategy.jitter /\ jitter # 0)
    <3>1. NextBackoffs(strategy, n) = {backoff}
      BY <1>2, <2>4 DEF NextBackoffs, backoff, jitter
    <3> QED
      BY <1>2, <2>1, <3>1 DEF backoff
  <2> QED
    BY <2>3, <2>4
<1> QED
  BY <1>1, <1>2

-----------------------------------------------------------------------------
(* Settings.                                                               *)

LEMMA DefaultConfigType == DefaultConfig \in Configs
BY DEF DefaultConfig, Configs, CheckoutModes, Strategies, DefaultStrategy,
       IncrementalCapped, WaitAtMost, Orders

\* The settings and what they can be.
LEMMA FieldNames ==
  Fields = {"desired_pool_size", "default_checkout_mode", "backoff_strategy",
            "reservation_limit", "activation_order", "min_required_nodes",
            "connect_to_nodes", "pool_multiplier", "checkout_queue_size",
            "retry_on_checkout_limit"}
BY DEF Fields, DefaultConfig

\* What a setter can be given has the type of its setting.
LEMMA GivenType ==
  ASSUME NEW c \in Configs, NEW field \in Fields, NEW value \in Given[field]
  PROVE  [c EXCEPT ![field] = value] \in Configs
<1> USE ValuesAssumption DEF Given, Configs
<1>1. CASE field = "desired_pool_size"
  BY <1>1
<1>2. CASE field = "default_checkout_mode"
  BY <1>2 DEF CheckoutModes, FromDuration,
                     WaitAtMost, Immediately, Wait
<1>3. CASE field = "backoff_strategy"
  BY <1>3
<1>4. CASE field = "reservation_limit"
  BY <1>4
<1>5. CASE field = "activation_order"
  BY <1>5
<1>6. CASE field = "min_required_nodes"
  BY <1>6
<1>7. CASE field = "connect_to_nodes"
  BY <1>7
<1>8. CASE field = "pool_multiplier"
  BY <1>8
<1>9. CASE field = "checkout_queue_size"
  BY <1>9
<1>10. CASE field = "retry_on_checkout_limit"
  BY <1>10
<1> QED
  BY <1>1, <1>2, <1>3, <1>4, <1>5, <1>6, <1>7, <1>8, <1>9, <1>10,
     FieldNames

\* The variables of the environment are settings, each is read once.
LEMMA EnvKeyNames ==
  /\ Len(EnvKeys) = 9 /\ DOMAIN EnvKeys = 1..9
  /\ \A i \in 1..9 : EnvKeys[i] \in Fields \ {"backoff_strategy"}
  /\ \A i, j \in 1..9 : EnvKeys[i] = EnvKeys[j] => i = j
BY FieldNames DEF EnvKeys

\* What CONNECT_TO is parsed to is a list of nodes.
LEMMA ConnectToType ==
  ASSUME NEW parts \in Seq(STRING)
  PROVE  ParseConnectTo(parts) \in Seq(STRING)
<1> DEFINE found == Without(parts, {""})
<1>1. found \in Seq(STRING)
  BY WithoutProperties
<1>2. Len(found) \in Nat /\ DOMAIN found = 1..Len(found)
  <2> HIDE DEF found
  <2> QED
    BY <1>1
<1>3. ASSUME NEW i \in 1..Len(found)
      PROVE  (IF found[i] = " " THEN "" ELSE found[i]) \in STRING
  <2> HIDE DEF found
  <2>1. found[i] \in STRING
    BY <1>1
  <2>2. "" \in STRING
    BY LiteralAssumption, Zenon
  <2> QED
    BY <2>1, <2>2, Zenon
<1>4. ParseConnectTo(parts) \in [1..Len(found) -> STRING]
  <2>1. ParseConnectTo(parts)
          = [i \in 1..Len(found) |-> IF found[i] = " " THEN "" ELSE found[i]]
    BY <1>2, Zenon DEF ParseConnectTo
  <2> HIDE DEF found
  <2> QED
    BY <1>3, <2>1
<1> HIDE DEF found
<1>5. [1..Len(found) -> STRING] \in {[1..n -> STRING] : n \in Nat}
  BY <1>2
<1> QED
  BY <1>4, <1>5, SeqDef, Zenon

\* What a variable is parsed to has the type of its setting.
LEMMA ParsedType ==
  ASSUME NEW c \in Configs, NEW key \in Fields \ {"backoff_strategy"},
         NEW raw \in Raw[key] \cup {Invalid}, Parse(key, raw) # Invalid
  PROVE  [c EXCEPT ![key] = Parse(key, raw)] \in Configs
<1> USE ValuesAssumption DEF Raw, Configs, Parse
<1>0. raw # Invalid
  OBVIOUS
<1>1. CASE key = "desired_pool_size"
  BY <1>0, <1>1
<1>2. CASE key = "default_checkout_mode"
  BY <1>0, <1>2 DEF ParseCheckoutMode, CheckoutModes, WaitAtMost,
                          Immediately, Wait
<1>3. CASE key = "reservation_limit"
  BY <1>0, <1>3
<1>4. CASE key = "activation_order"
  BY <1>0, <1>4
<1>5. CASE key = "min_required_nodes"
  BY <1>0, <1>5
<1>6. CASE key = "connect_to_nodes"
  <2>1. raw \in Seq(STRING)
    BY <1>0, <1>6
  <2> QED
    BY <1>0, <1>6, <2>1, ConnectToType DEF GetConnectTo
<1>7. CASE key = "pool_multiplier"
  BY <1>0, <1>7
<1>8. CASE key = "checkout_queue_size"
  BY <1>0, <1>8
<1>9. CASE key = "retry_on_checkout_limit"
  BY <1>0, <1>9
<1> QED
  BY <1>1, <1>2, <1>3, <1>4, <1>5, <1>6, <1>7, <1>8, <1>9,
     FieldNames

-----------------------------------------------------------------------------
(* Sub pools.                                                              *)

\* Rounding a share down and adding one leaves enough for all, and at most
\* one too much for each.
LEMMA ShareBounds ==
  ASSUME NEW amount \in Nat, NEW m \in Nat \ {0}
  PROVE  /\ Share(amount, m) \in Nat
         /\ m * Share(amount, m) >= amount
         /\ m * Share(amount, m) <= amount + m
<1> DEFINE d == amount \div m
<1>1. d \in Nat /\ m * d <= amount /\ amount < m * d + m
  OBVIOUS
<1>2. m * (d + 1) = m * d + m
  BY <1>1
<1> QED
  BY <1>1, <1>2 DEF Share

LEMMA SubPoolType ==
  ASSUME NEW c \in Configs, c.pool_multiplier # 0,
         c.connect_to_nodes # <<>>, NEW i \in Nat \ {0}
  PROVE  SubPool(c, i) \in SubPoolConfigs
<1>1. /\ c.pool_multiplier \in Nat \ {0}
      /\ c.desired_pool_size \in Nat /\ c.reservation_limit \in Nat
      /\ c.activation_order \in Orders /\ c.checkout_queue_size \in Nat
      /\ c.backoff_strategy \in Strategies
      /\ c.connect_to_nodes \in Seq(STRING)
  BY DEF Configs
<1>2. SubPoolSize(c) \in Nat
  BY <1>1, ShareBounds DEF SubPoolSize
<1>3. SubPoolLimit(c) \in Nat
  BY <1>1, ShareBounds DEF SubPoolLimit
<1>4. NodeOf(c, i) \in STRING
  <2> DEFINE nodes == c.connect_to_nodes
  <2>1. Len(nodes) \in Nat \ {0}
    BY <1>1
  <2>2. ((i - 1) % Len(nodes)) + 1 \in 1..Len(nodes)
    <3> DEFINE n == Len(nodes)
    <3>1. n \in Nat /\ n > 0 /\ i - 1 \in Nat
      BY <2>1
    <3> HIDE DEF n
    <3>2. (i - 1) % n \in 0..(n - 1)
      BY <3>1
    <3>3. ((i - 1) % n) + 1 \in 1..n
      BY <3>1, <3>2
    <3> QED
      BY <3>3 DEF n
  <2> QED
    BY <1>1, <2>2 DEF NodeOf
<1> QED
  BY <1>1, <1>2, <1>3, <1>4 DEF SubPool, SubPoolConfigs

-----------------------------------------------------------------------------
(* The inductive invariant.                                                *)

\* Settings are changed before there are sub pools, and never after.
BeforeBuild ==
  stage \in {"config", "builder"} => pools = <<>>

UpdateBeforeBuild ==
  next # 0 => stage \in {"config", "builder"}

\* What is being built, or was built, passed the checks that the sizes need.
Sane ==
  stage = "building" \/ pools # <<>> =>
    config.pool_multiplier # 0 /\ config.connect_to_nodes # <<>>

AllSubPools ==
  \A i \in DOMAIN pools : pools[i] = SubPool(config, i)

\* Attempts are counted by a task of a sub pool that runs.
CountedByOne == failed > 0 => 1 \in running

Inv ==
  /\ TypeOK
  /\ BeforeBuild /\ UpdateBeforeBuild /\ Sane /\ AllSubPools /\ CountedByOne

LEMMA InitInv == Init => Inv
BY DefaultConfigType, ValuesAssumption, EnvKeyNames
   DEF Init, Inv, TypeOK, Stages, BeforeBuild, UpdateBeforeBuild, Sane,
       AllSubPools, CountedByOne, NothingSeen

\* Everything but the settings and the update is as it was.
LEMMA SetInv ==
  ASSUME Inv, NEW field \in Fields, NEW value \in Given[field],
         stage \in {"config", "builder"}, Set(field, value)
  PROVE  Inv'
<1>1. config' \in Configs /\ wanted' \in Configs
  BY GivenType DEF Set, Inv, TypeOK
<1>2. changes' \in 0..MaxChanges
  BY ValuesAssumption DEF Set, Change, Inv, TypeOK
<1>3. pools = <<>>
  BY DEF Inv, BeforeBuild
<1> QED
  BY <1>1, <1>2, <1>3
     DEF Set, Inv, TypeOK, BeforeBuild, UpdateBeforeBuild, Sane,
         AllSubPools, CountedByOne, update, build, Stages

LEMMA ToBuilderInv == Inv /\ ToBuilder => Inv'
<1> SUFFICES ASSUME Inv, ToBuilder PROVE Inv'
  OBVIOUS
<1>1. config' \in Configs
  BY DefaultConfigType DEF ToBuilder, HandOver, Inv, TypeOK, Configs
<1>2. pools = <<>>
  BY DEF Inv, BeforeBuild, ToBuilder
<1> QED
  BY <1>1, <1>2
     DEF ToBuilder, Inv, TypeOK, BeforeBuild, UpdateBeforeBuild, Sane,
         AllSubPools, CountedByOne, update, build, Stages

LEMMA ProceedType ==
  ASSUME Inv, next # 0, NEW value, Proceed(value)
  PROVE  /\ next' \in 0..Len(EnvKeys)
         /\ before' \in Configs
         /\ DOMAIN seen' = DOMAIN EnvKeys
BY DefaultConfigType, EnvKeyNames
   DEF Inv, TypeOK, Proceed, UpdateEnds, NothingSeen

LEMMA UpdateInv ==
  ASSUME Inv, BeginUpdate \/ ReadAbsent \/ ReadPresent
  PROVE  Inv'
<1> USE DEF Inv, TypeOK, BeforeBuild, UpdateBeforeBuild, Sane, AllSubPools,
            CountedByOne
<1>1. CASE BeginUpdate
  BY <1>1, EnvKeyNames DEF BeginUpdate, NothingSeen, settings, build
<1>2. CASE ReadAbsent
  <2>1. /\ next' \in 0..Len(EnvKeys) /\ before' \in Configs
        /\ DOMAIN seen' = DOMAIN EnvKeys
    BY <1>2, ProceedType DEF ReadAbsent
  <2> QED
    BY <1>2, <2>1 DEF ReadAbsent, settings, build
<1>3. CASE ReadPresent
  <2> DEFINE key == EnvKeys[next]
  <2>1. /\ next # 0 /\ next \in 1..9
        /\ key \in Fields \ {"backoff_strategy"}
    BY <1>3, EnvKeyNames DEF ReadPresent
  <2>2. PICK raw \in Raw[key] \cup {Invalid} :
          IF Parse(key, raw) = Invalid
            THEN ReadInvalid ELSE ReadValue(Parse(key, raw))
    BY <1>3 DEF ReadPresent
  <2>3. pools = <<>> /\ stage \in {"config", "builder"}
    BY <2>1
  <2>4. CASE Parse(key, raw) = Invalid
    <3>1. ReadInvalid
      BY <2>2, <2>4
    <3> QED
      BY <2>3, <3>1, DefaultConfigType, ValuesAssumption, EnvKeyNames
         DEF ReadInvalid, Change, UpdateEnds, NothingSeen, build, Stages
  <2>5. CASE Parse(key, raw) # Invalid
    <3>1. ReadValue(Parse(key, raw))
      BY <2>2, <2>5
    <3>2. /\ [config EXCEPT ![key] = Parse(key, raw)] \in Configs
          /\ [wanted EXCEPT ![key] = Parse(key, raw)] \in Configs
      BY <2>1, <2>5, ParsedType
    <3>3. /\ next' \in 0..Len(EnvKeys) /\ before' \in Configs
          /\ DOMAIN seen' = DOMAIN EnvKeys
      BY <2>1, <3>1, ProceedType DEF ReadValue
    <3>4. config' \in Configs /\ wanted' \in Configs
      BY <3>1, <3>2 DEF ReadValue
    <3> QED
      BY <2>3, <3>1, <3>3, <3>4, ValuesAssumption
         DEF ReadValue, Change, build, Stages
  <2> QED
    BY <2>4, <2>5
<1> QED
  BY <1>1, <1>2, <1>3

LEMMA FinishInv == Inv /\ Finish => Inv'
<1> SUFFICES ASSUME Inv, Finish PROVE Inv'
  OBVIOUS
<1> USE DEF Inv, TypeOK, BeforeBuild, UpdateBeforeBuild, Sane, AllSubPools,
            CountedByOne
<1>1. /\ next = 0 /\ pools = <<>>
      /\ stage' \in {"refused", "built", "building"}
      /\ UNCHANGED <<settings, update, build>>
  BY DEF Finish, Refuse
<1>2. stage' = "building" =>
        config.pool_multiplier # 0 /\ config.connect_to_nodes # <<>>
  BY DEF Finish, Refuse, Checks
<1> QED
  BY <1>1, <1>2 DEF settings, update, build, Stages

\* The next sub pool is the one the settings ask for, and the task that
\* connects is one of a sub pool that was there before.
LEMMA CreateSubPoolInv == Inv /\ CreateSubPool => Inv'
<1> SUFFICES ASSUME Inv, CreateSubPool PROVE Inv'
  OBVIOUS
<1> DEFINE n == Len(pools)
           pool == SubPool(config, n + 1)
<1>1. /\ stage = "building" /\ stage' \in {"building", "built"}
      /\ pools' = Append(pools, pool)
      /\ running' = running \cup {n + 1}
      /\ UNCHANGED <<settings, update, stopping, failed>>
  BY DEF CreateSubPool
<1>2. n \in Nat /\ DOMAIN pools = 1..n /\ pools \in Seq(SubPoolConfigs)
  BY DEF Inv, TypeOK
<1>3. pool \in SubPoolConfigs
  <2>1. config \in Configs /\ n + 1 \in Nat \ {0}
    BY <1>2 DEF Inv, TypeOK
  <2>2. config.pool_multiplier # 0 /\ config.connect_to_nodes # <<>>
    BY <1>1 DEF Inv, Sane
  <2> QED
    BY <2>1, <2>2, SubPoolType
<1> HIDE DEF pool
<1>4. /\ pools' \in Seq(SubPoolConfigs) /\ DOMAIN pools' = 1..(n + 1)
      /\ \A i \in 1..n : pools'[i] = pools[i]
      /\ pools'[n + 1] = pool
  BY <1>1, <1>2, <1>3
<1>5. TypeOK'
  BY <1>1, <1>2, <1>4 DEF Inv, TypeOK, settings, update, Stages
<1>6. BeforeBuild' /\ UpdateBeforeBuild' /\ Sane'
  BY <1>1 DEF Inv, BeforeBuild, UpdateBeforeBuild, Sane, settings, update
<1>7. AllSubPools'
  <2> SUFFICES ASSUME NEW i \in 1..(n + 1)
               PROVE  pools'[i] = SubPool(config, i)
    BY <1>1, <1>4 DEF AllSubPools, settings
  <2>1. CASE i = n + 1
    BY <1>4, <2>1 DEF pool
  <2>2. CASE i \in 1..n
    BY <1>2, <1>4, <2>2 DEF Inv, AllSubPools
  <2> QED
    BY <1>2, <2>1, <2>2
<1>8. CountedByOne'
  BY <1>1 DEF Inv, CountedByOne
<1> QED
  BY <1>5, <1>6, <1>7, <1>8 DEF Inv

LEMMA EndInv ==
  ASSUME Inv, FactoryFails \/ DropRedisPool
  PROVE  Inv'
BY DEF FactoryFails, DropCreated, DropRedisPool, Inv, TypeOK, BeforeBuild,
       UpdateBeforeBuild, Sane, AllSubPools, CountedByOne, settings, update,
       Stages

LEMMA StopReceivedInv ==
  ASSUME Inv, NEW i \in running, StopReceived(i)
  PROVE  Inv'
BY ValuesAssumption
   DEF StopReceived, Inv, TypeOK, BeforeBuild, UpdateBeforeBuild, Sane,
       AllSubPools, CountedByOne, settings, update

LEMMA AttemptInv ==
  ASSUME Inv, ConnectFailed \/ Connected
  PROVE  Inv'
BY ValuesAssumption
   DEF ConnectFailed, Connected, Inv, TypeOK, BeforeBuild, UpdateBeforeBuild,
       Sane, AllSubPools, CountedByOne, settings, update

LEMMA NextInv == Inv /\ [Next]_vars => Inv'
<1> SUFFICES ASSUME Inv, [Next]_vars PROVE Inv'
  OBVIOUS
<1>1. CASE \E field \in Fields : \E value \in Given[field] :
             SetInConfig(field, value) \/ SetInBuilder(field, value)
  BY <1>1, SetInv DEF SetInConfig, SetInBuilder
<1>2. CASE ToBuilder
  BY <1>2, ToBuilderInv
<1>3. CASE BeginUpdate \/ ReadAbsent \/ ReadPresent
  BY <1>3, UpdateInv
<1>4. CASE Finish
  BY <1>4, FinishInv
<1>5. CASE CreateSubPool
  BY <1>5, CreateSubPoolInv
<1>6. CASE FactoryFails \/ DropRedisPool
  BY <1>6, EndInv
<1>7. CASE \E i \in running : StopReceived(i)
  BY <1>7, StopReceivedInv
<1>8. CASE ConnectFailed \/ Connected
  BY <1>8, AttemptInv
<1>9. CASE UNCHANGED vars
  BY <1>9 DEF vars, settings, update, build, Inv, TypeOK, BeforeBuild,
              UpdateBeforeBuild, Sane, AllSubPools, CountedByOne
<1> QED
  BY <1>1, <1>2, <1>3, <1>4, <1>5, <1>6, <1>7, <1>8, <1>9 DEF Next

LEMMA InvTheorem == Spec => []Inv
BY InitInv, NextInv, PTL DEF Spec

\* Every setting has a value of its type at all times, whatever a client and
\* the environment give and however an update ends, and the sub pools are
\* built from such values: none is divided by a multiplier of zero.
THEOREM ConfigTypeCorrect == Spec => []TypeOK
<1>1. Inv => TypeOK
  BY DEF Inv
<1> QED
  BY <1>1, InvTheorem, PTL

-----------------------------------------------------------------------------
(* Sizes and delays.                                                       *)

\* Rounding up the share of a sub pool loses nothing: the sub pools of a node
\* have together what was asked for, and at most one more each, for any
\* multiplier and any size.
THEOREM NodeCapacityHolds == Spec => []NodeCapacity
<1>1. ASSUME Inv PROVE NodeCapacity
  <2> SUFFICES ASSUME NEW i \in DOMAIN pools
               PROVE  LET m == config.pool_multiplier
                      IN  /\ m * pools[i].size
                               \in config.desired_pool_size
                                     ..(config.desired_pool_size + m)
                          /\ m * pools[i].limit
                               \in config.reservation_limit
                                     ..(config.reservation_limit + m)
                          /\ config.reservation_limit = 0
                               => pools[i].limit = 0
    BY DEF NodeCapacity
  <2> DEFINE m == config.pool_multiplier
             size == config.desired_pool_size
             limit == config.reservation_limit
  <2>1. size \in Nat /\ limit \in Nat /\ m \in Nat \ {0}
    BY <1>1 DEF Inv, TypeOK, Configs, Sane
  <2>2. /\ pools[i].size = SubPoolSize(config)
        /\ pools[i].limit = SubPoolLimit(config)
    BY <1>1 DEF Inv, AllSubPools, SubPool
  <2>3. /\ SubPoolSize(config) = IF m = 1 THEN size ELSE Share(size, m)
        /\ SubPoolLimit(config) =
             IF m = 1 \/ limit = 0 THEN limit ELSE Share(limit, m)
    BY DEF SubPoolSize, SubPoolLimit
  <2>4. \A amount \in Nat :
          /\ Share(amount, m) \in Nat
          /\ m * Share(amount, m) >= amount
          /\ m * Share(amount, m) <= amount + m
    BY <2>1, ShareBounds
  <2> HIDE DEF m, size, limit
  <2>5. /\ m * SubPoolSize(config) \in size..(size + m)
    <3>1. CASE m = 1
      BY <2>1, <2>3, <3>1
    <3>2. CASE m # 1
      <4> DEFINE share == Share(size, m)
      <4>1. SubPoolSize(config) = share
        BY <2>3, <3>2
      <4>2. /\ m * share \in Nat
            /\ m * share >= size
            /\ m * share <= size + m
        BY <2>1, <2>4
      <4> QED
        BY <2>1, <4>1, <4>2
    <3> QED
      BY <3>1, <3>2
  <2>6. m * SubPoolLimit(config) \in limit..(limit + m)
    <3>1. CASE m = 1 \/ limit = 0
      BY <2>1, <2>3, <3>1
    <3>2. CASE ~(m = 1 \/ limit = 0)
      <4> DEFINE share == Share(limit, m)
      <4>1. SubPoolLimit(config) = share
        BY <2>3, <3>2
      <4>2. /\ m * share \in Nat
            /\ m * share >= limit
            /\ m * share <= limit + m
        BY <2>1, <2>4
      <4> QED
        BY <2>1, <4>1, <4>2
    <3> QED
      BY <3>1, <3>2
  <2> QED
    BY <2>2, <2>3, <2>5, <2>6 DEF m, size, limit
<1> QED
  BY <1>1, InvTheorem, PTL

\* The strategy of a task is one the client can give, and its attempts are
\* counted.
LEMMA TaskType ==
  ASSUME Inv, failed > 0
  PROVE  /\ 1 \in DOMAIN pools
         /\ pools[1].backoff \in Strategies
         /\ failed \in Nat
<1>1. 1 \in DOMAIN pools /\ pools \in Seq(SubPoolConfigs)
  BY DEF Inv, TypeOK, CountedByOne
<1>2. pools[1] \in SubPoolConfigs
  BY <1>1
<1>3. failed \in Nat
  BY ValuesAssumption DEF Inv, TypeOK
<1> QED
  BY <1>1, <1>2, <1>3 DEF SubPoolConfigs

\* While a node cannot be reached, the delays stay within what the strategy
\* promises, and reach it after 26 attempts: at any time of an outage that is
\* as long as it likes.
THEOREM RetriesBackOffHolds == Spec => []RetriesBackOff
<1>1. ASSUME Inv PROVE RetriesBackOff
  <2> SUFFICES ASSUME failed > 0 PROVE RetriesBackOff
    BY DEF RetriesBackOff
  <2> DEFINE strategy == pools[1].backoff
             longest  == Longest(strategy)
  <2>1. strategy \in Strategies /\ failed \in Nat
    BY <1>1, TaskType
  <2>2. NextDelays = NextBackoffs(strategy, failed)
    BY DEF NextDelays
  <2> HIDE DEF strategy
  <2>3. NextDelays = {} <=> strategy.kind = "NoBackoff"
    BY <2>1, <2>2, DelayBounds
  <2>4. ASSUME NEW delay \in NextDelays
        PROVE  /\ 3 * delay <= 4 * longest
               /\ delay < longest + 3000
               /\ failed >= 26 => delay >= longest
               /\ delay > longest => strategy.jitter
    <3>1. /\ delay \in Nat
          /\ Backoff(strategy, failed) <= delay
          /\ 3 * delay <= 4 * longest
          /\ delay < longest + 3000
          /\ delay > longest => strategy.jitter
      BY <2>1, <2>2, DelayBounds
    <3>2. failed >= 26 => Backoff(strategy, failed) = longest
      BY <2>1, <2>3, BackoffBounds
    <3> QED
      BY <3>1, <3>2
  <2> QED
    BY <2>3, <2>4 DEF RetriesBackOff, strategy
<1> QED
  BY <1>1, InvTheorem, PTL

\* The delay without jitter can be drawn, and it does not shrink when another
\* attempt fails, so no longer outage makes a task come back earlier.
THEOREM NeverSoonerHolds == Spec => NeverSooner
<1> DEFINE Earlier ==
             \E earlier \in NextDelays :
               \A later \in NextDelays' : earlier <= later
<1>1. ASSUME Inv, ConnectFailed, failed > 0, NextDelays # {}
      PROVE  Earlier
  <2> DEFINE strategy == pools[1].backoff
  <2>1. strategy \in Strategies /\ failed \in Nat
    BY <1>1, TaskType
  <2>2. /\ NextDelays = NextBackoffs(strategy, failed)
        /\ NextDelays' = NextBackoffs(strategy, failed + 1)
    BY <1>1 DEF NextDelays, ConnectFailed
  <2> HIDE DEF strategy
  <2>3. /\ Backoff(strategy, failed) \in NextDelays
        /\ Backoff(strategy, failed) \in Nat
        /\ Backoff(strategy, failed + 1) \in Nat
        /\ Backoff(strategy, failed) <= Backoff(strategy, failed + 1)
    <3>1. strategy.kind # "NoBackoff"
      BY <1>1, <2>1, <2>2, DelayBounds
    <3>2. Backoff(strategy, failed) \in NextDelays
      BY <2>1, <2>2, <3>1, DelayBounds
    <3>3. failed + 1 \in Nat
      BY <2>1
    <3>4. /\ Backoff(strategy, failed) \in Nat
          /\ Backoff(strategy, failed + 1) \in Nat
      BY <2>1, <3>3, BackoffBounds
    <3>5. Backoff(strategy, failed) <= Backoff(strategy, failed + 1)
      BY <2>1, BackoffGrows
    <3> QED
      BY <3>2, <3>4, <3>5
  <2>4. ASSUME NEW later \in NextDelays'
        PROVE  Backoff(strategy, failed) <= later
    <3>1. later \in Nat /\ Backoff(strategy, failed + 1) <= later
      BY <2>1, <2>2, DelayBounds
    <3> QED
      BY <2>3, <3>1
  <2> QED
    BY <2>3, <2>4
<1>2. Inv => [ConnectFailed /\ failed > 0 /\ NextDelays # {} => Earlier]_vars
  BY <1>1
<1> QED
  BY <1>2, InvTheorem, PTL DEF NeverSooner

-----------------------------------------------------------------------------
(* Settings are kept.                                                      *)

\* The settings as they should be: what was given last, but for the order
\* that Config::builder forgets.
Told == IF origin = "builder" THEN wanted
        ELSE [wanted EXCEPT !.activation_order = config.activation_order]

LEMMA ConfigShape ==
  ASSUME NEW c \in Configs
  PROVE  c = [field \in Fields |-> c[field]]
BY FieldNames DEF Configs

\* That is: all settings agree, the order only in a Builder of its own.
LEMMA ToldByField ==
  ASSUME Inv
  PROVE  config = Told <=>
           \A field \in Fields :
             field # "activation_order" \/ origin = "builder"
               => config[field] = wanted[field]
<1>1. config \in Configs /\ wanted \in Configs
  BY DEF Inv, TypeOK
<1>2. /\ config = [field \in Fields |-> config[field]]
      /\ wanted = [field \in Fields |-> wanted[field]]
  BY <1>1, ConfigShape
<1>3. /\ "activation_order" \in Fields
      /\ DOMAIN config = Fields /\ DOMAIN wanted = Fields
  BY <1>2, FieldNames
<1>4. CASE origin = "builder"
  <2>1. Told = wanted
    BY <1>4 DEF Told
  <2> QED
    BY <1>2, <1>4, <2>1
<1>5. CASE origin # "builder"
  <2>1. Told = [field \in Fields |->
                  IF field = "activation_order" THEN config[field]
                                                ELSE wanted[field]]
    BY <1>2, <1>3, <1>5 DEF Told
  <2> QED
    BY <1>2, <1>5, <2>1
<1> QED
  BY <1>4, <1>5

Agree(c, w) ==
  \A field \in Fields :
    field # "activation_order" \/ origin = "builder" => c[field] = w[field]

\* A setting that is changed agrees afterwards, and the others still do.
LEMMA BothChanged ==
  ASSUME NEW c \in Configs, NEW w \in Configs, NEW key, NEW value,
         Agree(c, w)
  PROVE  Agree([c EXCEPT ![key] = value], [w EXCEPT ![key] = value])
<1>1. DOMAIN c = Fields /\ DOMAIN w = Fields
  BY ConfigShape
<1> QED
  BY <1>1 DEF Agree
\* A Builder is not turned into a Config again.
BuilderStays == origin = "builder" => stage # "config"

Kept == BuilderStays /\ Agree(config, wanted)

LEMMA InitKept == Init => Kept
BY DEF Init, Kept, BuilderStays, Agree

LEMMA NextKept ==
  ASSUME Inv, Kept, [Next]_vars
  PROVE  Kept'
<1>0. /\ config \in Configs /\ wanted \in Configs
      /\ DOMAIN config = Fields /\ DOMAIN wanted = Fields
  BY ConfigShape DEF Inv, TypeOK
<1>1. ASSUME NEW field \in Fields, NEW value \in Given[field],
             SetInConfig(field, value) \/ SetInBuilder(field, value)
      PROVE  Kept'
  <2>1. /\ config' = [config EXCEPT ![field] = value]
        /\ wanted' = [wanted EXCEPT ![field] = value]
        /\ UNCHANGED <<stage, origin>>
    BY <1>1 DEF SetInConfig, SetInBuilder, Set
  <2> QED
    BY <1>0, <2>1, BothChanged DEF Kept, BuilderStays, Agree
<1>2. CASE ToBuilder
  <2>1. /\ origin # "builder" /\ stage' = "builder"
        /\ UNCHANGED <<origin, wanted>>
    BY <1>2 DEF ToBuilder, Kept, BuilderStays
  <2>2. \A field \in Fields \ {"activation_order"} :
          config'[field] = config[field]
    BY <1>0, <1>2 DEF ToBuilder, HandOver
  <2> QED
    BY <2>1, <2>2 DEF Kept, BuilderStays, Agree
<1>3. CASE BeginUpdate \/ ReadAbsent
  BY <1>3 DEF BeginUpdate, ReadAbsent, settings, Kept, BuilderStays, Agree
<1>4. CASE ReadPresent
  <2>1. PICK value :
          IF value = Invalid THEN ReadInvalid ELSE ReadValue(value)
    BY <1>4 DEF ReadPresent
  <2>2. CASE value = Invalid
    BY <2>1, <2>2 DEF ReadInvalid, Kept, BuilderStays, Agree
  <2>3. CASE value # Invalid
    <3> DEFINE key == EnvKeys[next]
    <3>1. /\ config' = [config EXCEPT ![key] = value]
          /\ wanted' = [wanted EXCEPT ![key] = value]
          /\ UNCHANGED <<stage, origin>>
      BY <2>1, <2>3 DEF ReadValue
    <3> QED
      BY <1>0, <3>1, BothChanged DEF Kept, BuilderStays, Agree
  <2> QED
    BY <2>2, <2>3
<1>5. CASE Finish
  BY <1>5 DEF Finish, Refuse, settings, Kept, BuilderStays, Agree
<1>6. CASE CreateSubPool \/ FactoryFails \/ DropRedisPool
  BY <1>6 DEF CreateSubPool, FactoryFails, DropRedisPool, settings, Kept,
              BuilderStays, Agree
<1>7. CASE (\E i \in running : StopReceived(i)) \/ ConnectFailed \/ Connected
  BY <1>7 DEF StopReceived, ConnectFailed, Connected, settings, Kept,
              BuilderStays, Agree
<1>8. CASE UNCHANGED vars
  BY <1>8 DEF vars, settings, Kept, BuilderStays, Agree
<1> QED
  BY <1>1, <1>2, <1>3, <1>4, <1>5, <1>6, <1>7, <1>8 DEF Next

LEMMA KeptTheorem == Spec => []Kept
BY InitKept, NextKept, InvTheorem, PTL DEF Spec

\* However setters, a Config that becomes a Builder and updates that fail half
\* way are combined, pools are built from the last valid value given for every
\* setting, the order of a Config excepted.
THEOREM LastSettingWinsHolds == Spec => []LastSettingWins
<1>1. ASSUME Inv, Kept PROVE LastSettingWins
  <2>1. config = Told
    BY <1>1, ToldByField DEF Kept, Agree
  <2>2. \A i \in DOMAIN pools : pools[i] = SubPool(config, i)
    BY <1>1 DEF Inv, AllSubPools
  <2> QED
    BY <2>1, <2>2 DEF LastSettingWins, Told
<1> QED
  BY <1>1, InvTheorem, KeptTheorem, PTL

-----------------------------------------------------------------------------
(* Updates from the environment.                                           *)

\* What an update has read so far, while it runs.
Prefix ==
  next # 0 =>
    \A i \in 1..9 :
      IF i < next /\ seen[i] # Absent
        THEN config[EnvKeys[i]] = seen[i]
        ELSE config[EnvKeys[i]] = before[EnvKeys[i]] /\ seen[i] = Absent

LEMMA InitPrefix == Init => Prefix
BY DEF Init, Prefix

\* The next variable is read; its setting is no one else's.
LEMMA ReadPrefix ==
  ASSUME Inv, Prefix, next # 0, NEW value, Proceed(value),
         \/ value = Absent /\ UNCHANGED config
         \/ /\ value # Absent
            /\ config' = [config EXCEPT ![EnvKeys[next]] = value]
  PROVE  Prefix'
<1> SUFFICES ASSUME next' # 0, NEW i \in 1..9
             PROVE  IF i < next' /\ seen'[i] # Absent
                      THEN config'[EnvKeys[i]] = seen'[i]
                      ELSE /\ config'[EnvKeys[i]] = before'[EnvKeys[i]]
                           /\ seen'[i] = Absent
  BY DEF Prefix
<1>1. /\ next' = next + 1
      /\ seen' = [seen EXCEPT ![next] = value]
      /\ before' = before
  BY DEF Proceed, UpdateEnds
<1>2. /\ next \in 1..9 /\ DOMAIN seen = 1..9
      /\ DOMAIN config = Fields
      /\ EnvKeys[i] \in Fields /\ EnvKeys[next] \in Fields
      /\ EnvKeys[i] = EnvKeys[next] => i = next
  BY EnvKeyNames, ConfigShape DEF Inv, TypeOK
<1>3. CASE i = next
  <2>1. seen'[i] = value
    BY <1>1, <1>2, <1>3
  <2>2. config[EnvKeys[i]] = before[EnvKeys[i]]
    BY <1>2, <1>3 DEF Prefix
  <2> QED
    BY <1>1, <1>2, <1>3, <2>1, <2>2
<1>4. CASE i # next
  <2>1. seen'[i] = seen[i] /\ config'[EnvKeys[i]] = config[EnvKeys[i]]
    BY <1>1, <1>2, <1>4
  <2>2. i < next' <=> i < next
    BY <1>1, <1>2, <1>4
  <2> QED
    BY <1>1, <2>1, <2>2 DEF Prefix
<1> QED
  BY <1>3, <1>4
LEMMA NextPrefix ==
  ASSUME Inv, Prefix, [Next]_vars
  PROVE  Prefix'
<1>1. CASE BeginUpdate
  BY <1>1, EnvKeyNames DEF BeginUpdate, Prefix, settings, NothingSeen
<1>2. CASE ReadAbsent
  BY <1>2, ReadPrefix DEF ReadAbsent, settings
<1>3. CASE ReadPresent
  <2> DEFINE key == EnvKeys[next]
  <2>1. next # 0 /\ next \in DOMAIN EnvKeys
    BY <1>3, EnvKeyNames DEF ReadPresent, Inv, TypeOK
  <2>2. PICK raw \in Raw[key] \cup {Invalid} :
          IF Parse(key, raw) = Invalid
            THEN ReadInvalid ELSE ReadValue(Parse(key, raw))
    BY <1>3 DEF ReadPresent
  <2>3. CASE Parse(key, raw) = Invalid
    BY <2>2, <2>3 DEF ReadInvalid, UpdateEnds, Prefix
  <2>4. CASE Parse(key, raw) # Invalid
    <3>1. raw # Invalid
      BY <2>4 DEF Parse
    <3>2. Parse(key, raw) # Absent
      BY <2>1, <2>2, <3>1, AbsentAssumption
    <3>3. ReadValue(Parse(key, raw))
      BY <2>2, <2>4
    <3> HIDE DEF key
    <3>4. /\ Proceed(Parse(key, raw))
          /\ config' = [config EXCEPT ![key] = Parse(key, raw)]
      BY <3>3 DEF ReadValue, key
    <3> QED
      BY <2>1, <3>2, <3>4, ReadPrefix DEF key
  <2> QED
    BY <2>3, <2>4
<1>4. CASE \/ \E field \in Fields : \E value \in Given[field] :
                SetInConfig(field, value) \/ SetInBuilder(field, value)
           \/ ToBuilder \/ Finish
  BY <1>4 DEF SetInConfig, SetInBuilder, Set, ToBuilder, Finish, Refuse,
              update, Prefix
<1>5. CASE \/ CreateSubPool \/ FactoryFails \/ DropRedisPool
           \/ \E i \in running : StopReceived(i)
           \/ ConnectFailed \/ Connected
  BY <1>5 DEF CreateSubPool, FactoryFails, DropRedisPool, StopReceived,
              ConnectFailed, Connected, settings, update, Prefix
<1>6. CASE UNCHANGED vars
  BY <1>6 DEF vars, settings, update, Prefix
<1> QED
  BY <1>1, <1>2, <1>3, <1>4, <1>5, <1>6 DEF Next

LEMMA PrefixTheorem == Spec => []Prefix
BY InitPrefix, NextPrefix, InvTheorem, PTL DEF Spec

\* At any time of an update that may still fail, exactly the variables that
\* were read are applied: each to its own setting, and to no other.
THEOREM UpdateIsPrefixHolds == Spec => []UpdateIsPrefix
<1>1. Prefix => UpdateIsPrefix
  BY EnvKeyNames DEF Prefix, UpdateIsPrefix
<1> QED
  BY <1>1, PrefixTheorem, PTL

-----------------------------------------------------------------------------
(* The round robin over the sub pools.                                     *)

\* The build ends with as many sub pools as were planned.
Planned ==
  /\ stage = "building" => Len(pools) < SubPoolCount(config)
  /\ stage = "built" => Len(pools) = SubPoolCount(config)

\* The number of planned sub pools, and that there are some if there are
\* nodes.
LEMMA CountType ==
  ASSUME NEW c \in Configs
  PROVE  /\ Len(c.connect_to_nodes) \in Nat
         /\ c.pool_multiplier \in Nat
         /\ SubPoolCount(c) \in Nat
         /\ c.connect_to_nodes = <<>> => SubPoolCount(c) = 0
         /\ c.connect_to_nodes # <<>> => Len(c.connect_to_nodes) > 0
         /\ c.connect_to_nodes # <<>> /\ c.pool_multiplier # 0
              => SubPoolCount(c) > 0
<1> DEFINE n == Len(c.connect_to_nodes)
           m == c.pool_multiplier
<1>1. /\ n \in Nat /\ m \in Nat
      /\ c.connect_to_nodes = <<>> => n = 0
      /\ c.connect_to_nodes # <<>> => n > 0
  BY DEF Configs
<1>2. SubPoolCount(c) = m * n
  BY DEF SubPoolCount
<1> HIDE DEF n, m
<1>3. m * n \in Nat /\ (n > 0 /\ m # 0 => m * n > 0) /\ (n = 0 => m * n = 0)
  BY <1>1
<1> QED
  BY <1>1, <1>2, <1>3 DEF n, m

LEMMA InitPlanned == Init => Planned
BY DEF Init, Planned

LEMMA NextPlanned ==
  ASSUME Inv, Planned, [Next]_vars
  PROVE  Planned'
<1> USE DEF Planned
<1>1. config \in Configs
  BY DEF Inv, TypeOK
<1>2. CASE Finish
  <2>1. pools = <<>> /\ UNCHANGED <<pools, config>>
    BY <1>2 DEF Finish, Refuse, settings, build, Inv, BeforeBuild
  <2>2. CASE stage' = "built"
    <3>1. config.connect_to_nodes = <<>>
      BY <1>2, <2>2 DEF Finish, Refuse
    <3> QED
      BY <1>1, <2>1, <2>2, <3>1, CountType DEF SubPoolCount
  <2>3. CASE stage' = "building"
    <3>1. config.connect_to_nodes # <<>> /\ config.pool_multiplier # 0
      BY <1>2, <2>3 DEF Finish, Refuse, Checks
    <3>2. SubPoolCount(config) > 0
      BY <1>1, <3>1, CountType
    <3> QED
      BY <2>1, <2>3, <3>2 DEF SubPoolCount
  <2> QED
    BY <2>2, <2>3
<1>3. CASE CreateSubPool
  <2>1. /\ stage = "building" /\ UNCHANGED config
        /\ stage' = IF Len(pools) + 1 = SubPoolCount(config) THEN "built"
                                                            ELSE "building"
    BY <1>3 DEF CreateSubPool, settings
  <2>2. Len(pools') = Len(pools) + 1 /\ Len(pools) \in Nat
    BY <1>3 DEF CreateSubPool, Inv, TypeOK
  <2>3. SubPoolCount(config)' = SubPoolCount(config)
    BY <2>1 DEF SubPoolCount
  <2>4. SubPoolCount(config) \in Nat
    BY <1>1, CountType
  <2> QED
    BY <2>1, <2>2, <2>3, <2>4
<1>4. CASE \/ \E field \in Fields : \E value \in Given[field] :
                SetInConfig(field, value) \/ SetInBuilder(field, value)
           \/ ToBuilder \/ BeginUpdate \/ ReadAbsent \/ ReadPresent
  <2>1. stage \in {"config", "builder"}
    BY <1>4 DEF SetInConfig, SetInBuilder, ToBuilder, BeginUpdate,
                ReadAbsent, ReadPresent, Inv, UpdateBeforeBuild
  <2>2. stage' \in {"config", "builder", "refused"}
    BY <1>4, <2>1
       DEF SetInConfig, SetInBuilder, Set, ToBuilder, BeginUpdate,
           ReadAbsent, ReadPresent, ReadInvalid, ReadValue
  <2> QED
    BY <2>2
<1>5. CASE FactoryFails \/ DropRedisPool
  BY <1>5 DEF FactoryFails, DropRedisPool
<1>6. CASE (\E i \in running : StopReceived(i)) \/ ConnectFailed \/ Connected
  BY <1>6 DEF StopReceived, ConnectFailed, Connected, settings, SubPoolCount
<1>7. CASE UNCHANGED vars
  BY <1>7 DEF vars, settings, build, SubPoolCount
<1> QED
  BY <1>2, <1>3, <1>4, <1>5, <1>6, <1>7 DEF Next

LEMMA PlannedTheorem == Spec => []Planned
BY InitPlanned, NextPlanned, InvTheorem, PTL DEF Spec

\* For any number of nodes and any multiplier, and wherever check_out starts,
\* as many attempts as there are nodes try all nodes.
THEOREM EveryNodeInTurnHolds == Spec => []EveryNodeInTurn
<1>1. ASSUME Inv, Planned PROVE EveryNodeInTurn
  <2> SUFFICES ASSUME stage = "built" PROVE EveryNodeInTurn
    BY DEF EveryNodeInTurn
  <2> DEFINE nodes == config.connect_to_nodes
             n == Len(nodes)
             m == config.pool_multiplier
             Place(first, turn) == ((first + turn) % Len(pools)) + 1
  <2>1. Len(pools) = SubPoolCount(config)
    BY <1>1 DEF Planned
  <2>2. ASSUME NEW first \in DOMAIN pools
        PROVE  {pools[Place(first, turn)].node : turn \in DOMAIN nodes}
                 = Range(nodes)
    <3>1. /\ pools \in Seq(SubPoolConfigs) /\ nodes \in Seq(STRING)
          /\ config \in Configs
      BY <1>1 DEF Inv, TypeOK, Configs
    <3>2. /\ Len(pools) \in Nat \ {0} /\ first \in Nat
          /\ DOMAIN pools = 1..Len(pools) /\ DOMAIN nodes = 1..n
      BY <3>1
    <3>3. Len(pools) = m * n
      BY <2>1 DEF SubPoolCount
    <3>4. n \in Nat \ {0} /\ m \in Nat \ {0}
      <4>1. pools # <<>>
        BY <3>1, <3>2
      <4> QED
        BY <1>1, <3>1, <4>1, CountType DEF Inv, Sane
    <3> HIDE DEF n, m
    <3>5. ASSUME NEW turn \in 1..n
          PROVE  pools[Place(first, turn)].node
                   = nodes[((first + turn) % n) + 1]
      <4> DEFINE x == first + turn
                 l == Len(pools)
      <4>1. x \in Nat
        BY <3>2, <3>4
      <4> HIDE DEF x, l
      <4>2. l \in Nat \ {0}
        BY <3>2 DEF l
      <4>3. x % l \in 0..(l - 1)
        BY <4>1, <4>2
      <4>4. (x % l) + 1 \in 1..l /\ ((x % l) + 1) - 1 = x % l
        BY <4>2, <4>3
      <4>5. (x % l) % n = x % n
        <5>1. (x % (m * n)) % n = x % n
          BY <3>4, <4>1, AroundNodes
        <5>2. l = m * n
          BY <3>3 DEF l
        <5> QED
          BY <5>1, <5>2
      <4>6. pools[(x % l) + 1] = SubPool(config, (x % l) + 1)
        BY <1>1, <3>2, <4>4 DEF Inv, AllSubPools, l
      <4>7. pools[(x % l) + 1].node = NodeOf(config, (x % l) + 1)
        BY <4>6 DEF SubPool
      <4>8. NodeOf(config, (x % l) + 1)
              = nodes[((((x % l) + 1) - 1) % n) + 1]
        BY DEF NodeOf, n
      <4>9. pools[(x % l) + 1].node = nodes[(x % n) + 1]
        BY <4>4, <4>5, <4>7, <4>8
      <4> QED
        BY <4>9 DEF x, l
    <3>6. ASSUME NEW turn \in 1..n
          PROVE  ((first + turn) % n) + 1 \in 1..n
      <4> DEFINE x == first + turn
      <4>1. x \in Nat
        BY <3>2, <3>4
      <4> HIDE DEF x
      <4>2. x % n \in 0..(n - 1)
        BY <3>4, <4>1
      <4>3. (x % n) + 1 \in 1..n
        BY <3>4, <4>2
      <4> QED
        BY <4>3 DEF x
    <3>7. ASSUME NEW j \in 1..n
          PROVE  \E turn \in 1..n : ((first + turn) % n) + 1 = j
      <4>1. PICK turn \in 1..n : (first + turn) % n = j - 1
        BY <3>2, <3>4, SomeTurn
      <4>2. ((first + turn) % n) + 1 = j
        BY <3>4, <4>1
      <4> QED
        BY <4>2
    <3> DEFINE At(turn) == ((first + turn) % n) + 1
               Node(turn) == pools[Place(first, turn)].node
    <3>8. DOMAIN nodes = 1..n /\ Range(nodes) = {nodes[j] : j \in 1..n}
      BY <3>2 DEF Range, n
    <3>9. /\ \A turn \in 1..n : Node(turn) = nodes[At(turn)]
          /\ \A turn \in 1..n : At(turn) \in 1..n
          /\ \A j \in 1..n : \E turn \in 1..n : At(turn) = j
      BY <3>5, <3>6, <3>7
    <3> HIDE DEF At, Node
    <3>10. {Node(turn) : turn \in 1..n} = {nodes[j] : j \in 1..n}
      BY <3>9
    <3> QED
      BY <3>8, <3>10 DEF Node
  <2> QED
    BY <2>1, <2>2 DEF EveryNodeInTurn
<1> QED
  BY <1>1, InvTheorem, PlannedTheorem, PTL
=============================================================================
