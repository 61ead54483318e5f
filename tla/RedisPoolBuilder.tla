-------------------------- MODULE RedisPoolBuilder --------------------------
(***************************************************************************)
(* The way from a Config to a running RedisPool: setters, updates from the *)
(* environment, Config::builder, Builder::finish, which creates the sub    *)
(* pools one after the other while the first ones already run, and the end *)
(* of the pools.                                                           *)
(***************************************************************************)
EXTENDS PoolConfig, FiniteSets

CONSTANTS
  Sizes, Limits, Counts, Multipliers, QueueSizes, Durations,
               \* the values a client or the environment gives
  NodeLists,   \* the nodes a client gives
  PartLists,   \* what CONNECT_TO contains, separated
  Backoffs,    \* the backoff strategies a client gives
  MaxChanges,  \* at most that many settings are changed
  MaxAttempts  \* at most that many attempts to connect fail

ASSUME ValuesAssumption ==
  /\ Absent # Invalid
  /\ Sizes \subseteq Nat /\ Limits \subseteq Nat /\ Counts \subseteq Nat
  /\ Multipliers \subseteq Nat /\ QueueSizes \subseteq Nat
  /\ Durations \subseteq Nat
  /\ \A nodes \in NodeLists \cup PartLists : nodes \in Seq(STRING)
  /\ \A strategy \in Backoffs : strategy \in Strategies
  /\ MaxChanges \in Nat /\ MaxAttempts \in Nat

\* Said because no prover knows that a literal is a string.
ASSUME LiteralAssumption == "" \in STRING

VARIABLES
  stage,     \* how far the client is
  origin,    \* what it started with
  config,    \* the Config it has, or the one in its Builder
  changes,   \* how many settings it has changed
  next,      \* the variable an update from the environment reads next, or 0
  pools,     \* the sub pools that were created
  running,   \* the sub pools whose consumer and connection tasks run
  stopping,  \* the sub pools that were dropped
  failed,    \* attempts of a task of the first one that failed in a row
  wanted,    \* history: the last valid value given for each setting
  before,    \* history: the settings at the start of a running update
  seen       \* history: what a running update has read

settings == <<origin, config, changes, wanted>>
update   == <<next, before, seen>>
build    == <<pools, running, stopping, failed>>
vars     == <<stage, settings, update, build>>

Stages == {"config",    \* the client has a Config
           "builder",   \* the client has a Builder
           "building",  \* in Builder::finish
           "built",     \* the client has a RedisPool
           "refused",   \* the client got an InitializationError
           "dropped"}   \* the client has dropped its RedisPool

NothingSeen == [i \in DOMAIN EnvKeys |-> Absent]

TypeOK ==
  /\ stage \in Stages
  /\ origin \in {"config", "builder"}
  /\ config \in Configs
  /\ changes \in 0..MaxChanges
  /\ next \in 0..Len(EnvKeys)
  /\ pools \in Seq(SubPoolConfigs)
  /\ running \in SUBSET DOMAIN pools
  /\ stopping \in SUBSET running
  /\ failed \in 0..MaxAttempts
  /\ wanted \in Configs
  /\ before \in Configs
  /\ DOMAIN seen = DOMAIN EnvKeys

Init ==
  /\ origin \in {"config", "builder"}
  /\ stage = origin
  /\ config = DefaultConfig
  /\ changes = 0
  /\ next = 0
  /\ pools = <<>>
  /\ running = {}
  /\ stopping = {}
  /\ failed = 0
  /\ wanted = DefaultConfig
  /\ before = DefaultConfig
  /\ seen = NothingSeen

-----------------------------------------------------------------------------
(* Settings.                                                               *)

Given ==
  [desired_pool_size |-> Sizes,
   default_checkout_mode |->
     {Immediately, Wait} \cup {FromDuration(ms) : ms \in Durations},
   backoff_strategy |-> Backoffs,
   reservation_limit |-> Limits,
   activation_order |-> Orders,
   min_required_nodes |-> Counts,
   connect_to_nodes |-> NodeLists,
   pool_multiplier |-> Multipliers,
   checkout_queue_size |-> QueueSizes,
   retry_on_checkout_limit |-> BOOLEAN]

Change ==
  /\ changes < MaxChanges
  /\ changes' = changes + 1

Set(field, value) ==
  /\ Change
  /\ config' = [config EXCEPT ![field] = value]
  /\ wanted' = [wanted EXCEPT ![field] = value]
  /\ UNCHANGED <<stage, origin, update, build>>

\* The setters of Config.
SetInConfig(field, value) ==
  stage = "config" /\ next = 0 /\ Set(field, value)

\* The setters of Builder do the same to the Config in it.
SetInBuilder(field, value) ==
  stage = "builder" /\ next = 0 /\ Set(field, value)

\* Config::builder. The settings are handed over one by one, all but the
\* activation order. Mistake: the multiplier is not handed over either.
HandOverNoMultiplier ==
  [config EXCEPT !.activation_order = DefaultConfig.activation_order,
                 !.pool_multiplier = DefaultConfig.pool_multiplier]
HandOver ==
  [config EXCEPT !.activation_order = DefaultConfig.activation_order]

ToBuilder ==
  /\ stage = "config" /\ next = 0
  /\ stage' = "builder"
  /\ config' = HandOver
  /\ UNCHANGED <<origin, changes, wanted, update, build>>

\* update_from_environment of Config or Builder is called.
BeginUpdate ==
  /\ stage \in {"config", "builder"} /\ next = 0
  /\ changes < MaxChanges
  /\ next' = 1
  /\ before' = config
  /\ seen' = NothingSeen
  /\ UNCHANGED <<stage, settings, build>>

\* What the variables contain.
Raw ==
  [desired_pool_size |-> Sizes,
   default_checkout_mode |->
     {Immediately, Wait} \cup [kind : {"Milliseconds"}, ms : Durations],
   reservation_limit |-> Limits,
   activation_order |-> Orders,
   min_required_nodes |-> Counts,
   connect_to_nodes |-> PartLists,
   pool_multiplier |-> Multipliers,
   checkout_queue_size |-> QueueSizes,
   retry_on_checkout_limit |-> BOOLEAN]

\* No variable that exists is parsed to the value of one that does not.
ASSUME AbsentAssumption ==
  \A i \in DOMAIN EnvKeys : \A raw \in Raw[EnvKeys[i]] :
    Parse(EnvKeys[i], raw) # Absent

\* Nothing is remembered of an update that is over.
UpdateEnds ==
  next' = 0 /\ before' = DefaultConfig /\ seen' = NothingSeen

\* The next variable was read: the one after it follows.
Proceed(value) ==
  IF next = Len(EnvKeys)
    THEN UpdateEnds
    ELSE /\ next' = next + 1
         /\ seen' = [seen EXCEPT ![next] = value]
         /\ UNCHANGED before

\* The next variable does not exist: NotPresent is no error.
ReadAbsent ==
  /\ next # 0
  /\ Proceed(Absent)
  /\ UNCHANGED <<stage, settings, build>>

\* The next variable exists and can be parsed. Mistake: it ends up in the
\* setting whose variable was read before.
ReadValueLate(value) ==
  LET key == EnvKeys[next]
  IN  /\ Change
      /\ config' = [config EXCEPT
           ![IF key = "reservation_limit" THEN "desired_pool_size"
             ELSE key] = value]
      /\ wanted' = [wanted EXCEPT ![key] = value]
      /\ Proceed(value)
      /\ UNCHANGED <<stage, origin, build>>
ReadValue(value) ==
  LET key == EnvKeys[next]
  IN  /\ Change
      /\ config' = [config EXCEPT ![key] = value]
      /\ wanted' = [wanted EXCEPT ![key] = value]
      /\ Proceed(value)
      /\ UNCHANGED <<stage, origin, build>>

\* The next variable cannot be parsed: the update ends with an error. The
\* variables before it stay applied; updated_from_environment also drops the
\* Builder, update_from_environment leaves it to the client.
ReadInvalid ==
  /\ Change
  /\ UpdateEnds
  /\ \/ UNCHANGED stage
     \/ stage = "builder" /\ stage' = "refused"
  /\ UNCHANGED <<origin, config, wanted, build>>

ReadPresent ==
  /\ next # 0
  /\ \E raw \in Raw[EnvKeys[next]] \cup {Invalid} :
       LET value == Parse(EnvKeys[next], raw)
       IN  IF value = Invalid THEN ReadInvalid ELSE ReadValue(value)

-----------------------------------------------------------------------------
(* Builder::finish.                                                        *)

Refuse ==
  /\ stage' = "refused"
  /\ UNCHANGED <<settings, update, build>>

\* Either a check fails, or there are no nodes and the pool is an empty one,
\* or the sub pools are created.
Finish ==
  /\ stage = "builder" /\ next = 0
  /\ IF ~Checks(config) THEN Refuse
     ELSE IF config.connect_to_nodes = <<>>
       THEN stage' = "built" /\ UNCHANGED <<settings, update, build>>
     ELSE IF IsSingle(config) /\ ~SingleCheck(config) THEN Refuse
     ELSE stage' = "building" /\ UNCHANGED <<settings, update, build>>

\* The factory of the next sub pool was made, and the sub pool with it: its
\* consumer and its connection tasks start at once.
CreateSubPool ==
  /\ stage = "building"
  /\ pools' = Append(pools, SubPool(config, Len(pools) + 1))
  /\ running' = running \cup {Len(pools) + 1}
  /\ stage' = IF Len(pools) + 1 = SubPoolCount(config) THEN "built"
                                                       ELSE "building"
  /\ UNCHANGED <<settings, update, stopping, failed>>

\* Making the factory of the next sub pool fails: the ones created before are
\* dropped with the vector they are in. Mistakes: only the last one is; so are
\* those that were not created yet.
DropLast == stopping' = running \cap {Len(pools)}
DropPlanned == stopping' = 1..SubPoolCount(config)
DropCreated == stopping' = running

FactoryFails ==
  /\ stage = "building"
  /\ stage' = "refused"
  /\ DropCreated
  /\ UNCHANGED <<settings, update, pools, running, failed>>

\* The last clone of the RedisPool is dropped, and all sub pools with it.
DropRedisPool ==
  /\ stage = "built"
  /\ stage' = "dropped"
  /\ stopping' = running
  /\ UNCHANGED <<settings, update, pools, running, failed>>

\* The consumer of a dropped sub pool receives Stop and ends, and with it the
\* tasks that connect; PoolInternal has the details.
StopReceived(i) ==
  /\ i \in stopping
  /\ running' = running \ {i}
  /\ stopping' = stopping \ {i}
  /\ failed' = IF i = 1 THEN 0 ELSE failed
  /\ UNCHANGED <<stage, settings, update, pools>>

-----------------------------------------------------------------------------
(* Connecting. A task of the first sub pool counts its attempts.           *)

\* An attempt fails: the task waits for one of NextDelays and tries again.
ConnectFailed ==
  /\ 1 \in running
  /\ failed < MaxAttempts
  /\ failed' = failed + 1
  /\ UNCHANGED <<stage, settings, update, pools, running, stopping>>

\* An attempt succeeds and the task ends; the task that replaces the
\* connection once it is broken counts from the beginning.
Connected ==
  /\ failed > 0
  /\ failed' = 0
  /\ UNCHANGED <<stage, settings, update, pools, running, stopping>>

\* The delays the task may draw. Mistake: the attempts are not counted.
DelaysUncounted == NextBackoffs(pools[1].backoff, 1)
NextDelays == NextBackoffs(pools[1].backoff, failed)

-----------------------------------------------------------------------------

Next ==
  \/ \E field \in Fields : \E value \in Given[field] :
       SetInConfig(field, value) \/ SetInBuilder(field, value)
  \/ ToBuilder
  \/ BeginUpdate \/ ReadAbsent \/ ReadPresent
  \/ Finish \/ CreateSubPool \/ FactoryFails
  \/ DropRedisPool
  \/ \E i \in running : StopReceived(i)
  \/ ConnectFailed \/ Connected

\* The runtime runs the consumers that were told to stop.
Fairness == WF_vars(\E i \in running : StopReceived(i))

Spec == Init /\ [][Next]_vars

FairSpec == Spec /\ Fairness

-----------------------------------------------------------------------------
(* Properties.                                                             *)

\* Sub pools are built from the last valid value that was given for each
\* setting, wherever it was given: in a Config, in the Builder made of it, or
\* by a variable of an update that failed later. Left out is the activation
\* order of a Config, which Config::builder forgets (ActivationOrderKept).
LastSettingWins ==
  LET told == IF origin = "builder" THEN wanted
              ELSE [wanted EXCEPT !.activation_order =
                                    config.activation_order]
  IN  /\ config = told
      /\ \A i \in DOMAIN pools : pools[i] = SubPool(told, i)

\* "Create a Builder initialized with the values from this Config"
\* (config/mod.rs:230): the order that was asked for is the one in use.
ActivationOrderKept ==
  \A i \in DOMAIN pools : pools[i].order = wanted.activation_order

\* An update from the environment is not atomic, but it is a prefix: the
\* variables that were read are applied, the others are as they were, so an
\* error leaves the settings before the invalid variable changed and no other
\* (config/mod.rs:190-228).
UpdateIsPrefix ==
  next # 0 =>
    \A i \in DOMAIN EnvKeys :
      LET key == EnvKeys[i]
      IN  IF i < next /\ seen[i] # Absent
            THEN config[key] = seen[i]
            ELSE config[key] = before[key] /\ seen[i] = Absent

\* The sub pools of a node have together at least as many connections and
\* reservations as were asked for, and at most one more for each of them; no
\* reservations stay no reservations (inner.rs:42-63).
NodeCapacity ==
  \A i \in DOMAIN pools :
    LET times == config.pool_multiplier
        Between(asked) == asked..(asked + times)
    IN  /\ times * pools[i].size \in Between(config.desired_pool_size)
        /\ times * pools[i].limit \in Between(config.reservation_limit)
        /\ config.reservation_limit = 0 => pools[i].limit = 0

\* Wherever the round robin of check_out starts, the sub pools it visits in
\* the first as many attempts as there are nodes belong to all nodes, and
\* every node has a sub pool for each turn of the multiplier.
EveryNodeInTurn ==
  stage = "built" =>
    /\ Len(pools) = SubPoolCount(config)
    /\ \A first \in DOMAIN pools :
         {pools[((first + turn) % Len(pools)) + 1].node :
            turn \in DOMAIN config.connect_to_nodes}
           = Range(config.connect_to_nodes)

\* How long a task waits while its node cannot be reached: not at all exactly
\* if there is no backoff, never longer than its strategy says plus a jitter
\* of at most a third and less than three seconds, and after a long outage as
\* long as it says (backoff_strategy.rs:54-97).
RetriesBackOff ==
  failed > 0 =>
    LET strategy == pools[1].backoff
        longest  == Longest(strategy)
    IN  /\ NextDelays = {} <=> strategy.kind = "NoBackoff"
        /\ \A delay \in NextDelays :
             /\ 3 * delay <= 4 * longest
             /\ delay < longest + 3000
             /\ failed >= 26 => delay >= longest
             /\ delay > longest => strategy.jitter

\* A longer outage never makes a task come back earlier: it could have drawn
\* a delay before that is no longer than any it can draw after one more
\* failure (backoff_strategy.rs:54-97).
NeverSooner ==
  [][ConnectFailed /\ failed > 0 /\ NextDelays # {} =>
       \E earlier \in NextDelays :
         \A later \in NextDelays' : earlier <= later]_vars

\* FairSpec: a build that fails half way, and a pool that is dropped, leave no
\* sub pool behind (inner.rs:65-90).
NothingLeftBehind ==
  stage \in {"refused", "dropped"} ~> running = {}
=============================================================================
