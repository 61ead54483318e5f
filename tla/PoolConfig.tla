----------------------------- MODULE PoolConfig -----------------------------
(***************************************************************************)
(* The settings of a RedisPool: config/mod.rs, config/config_types.rs,     *)
(* helpers.rs and the checks and sizes of config/builder.rs and of the     *)
(* pools. RedisPoolBuilder sets them and builds pools from them.           *)
(*                                                                         *)
(* What an environment variable contains is represented by what it is      *)
(* parsed to; Absent and Invalid stand for a variable that does not exist  *)
(* and for one that cannot be parsed.                                      *)
(***************************************************************************)
EXTENDS Naturals, SequencesExt, Filter, BackoffStrategy

CONSTANTS Absent, Invalid

\* DefaultPoolCheckoutMode
Immediately    == [kind |-> "Immediately"]
Wait           == [kind |-> "Wait"]
WaitAtMost(ms) == [kind |-> "WaitAtMost", ms |-> ms]

CheckoutModes == {Immediately, Wait} \cup [kind : {"WaitAtMost"}, ms : Nat]

\* The mode that is set with a Duration: one of zero does not wait.
FromDuration(ms) == IF ms # 0 THEN WaitAtMost(ms) ELSE Immediately

Orders == {"FiFo", "LiFo"}

Configs ==
  [desired_pool_size : Nat, default_checkout_mode : CheckoutModes,
   backoff_strategy : Strategies, reservation_limit : Nat,
   activation_order : Orders, min_required_nodes : Nat,
   connect_to_nodes : Seq(STRING), pool_multiplier : Nat,
   checkout_queue_size : Nat, retry_on_checkout_limit : BOOLEAN]

DefaultConfig ==
  [desired_pool_size |-> 50, default_checkout_mode |-> WaitAtMost(30),
   backoff_strategy |-> DefaultStrategy, reservation_limit |-> 50,
   activation_order |-> "FiFo", min_required_nodes |-> 1,
   connect_to_nodes |-> <<>>, pool_multiplier |-> 1,
   checkout_queue_size |-> 100, retry_on_checkout_limit |-> TRUE]

Fields == DOMAIN DefaultConfig

-----------------------------------------------------------------------------
(* The environment.                                                        *)

\* The variables in the order in which update_from_environment reads them.
EnvKeys ==
  <<"desired_pool_size", "default_checkout_mode", "reservation_limit",
    "activation_order", "min_required_nodes", "connect_to_nodes",
    "pool_multiplier", "checkout_queue_size", "retry_on_checkout_limit">>

\* A number is always WaitAtMost, also zero.
ParseCheckoutMode(raw) ==
  IF raw.kind = "Milliseconds" THEN WaitAtMost(raw.ms) ELSE raw

\* Empty parts are left out before blank ones are trimmed to nothing.
ParseConnectTo(parts) ==
  LET found == Without(parts, {""})
  IN  [i \in DOMAIN found |-> IF found[i] = " " THEN "" ELSE found[i]]

\* get_connect_to
GetConnectTo(parts) ==
  IF ParseConnectTo(parts) # <<>> THEN ParseConnectTo(parts) ELSE Invalid

\* What a variable of the environment is parsed to.
Parse(key, raw) ==
  CASE raw = Invalid -> Invalid
    [] raw # Invalid /\ key = "default_checkout_mode" ->
         ParseCheckoutMode(raw)
    [] raw # Invalid /\ key = "connect_to_nodes" -> GetConnectTo(raw)
    [] OTHER -> raw

-----------------------------------------------------------------------------
(* From the settings to the pools.                                         *)

\* The checks of Builder::finish.
Checks(config) ==
  /\ config.pool_multiplier # 0
  /\ config.checkout_queue_size # 0
  /\ Len(config.connect_to_nodes) >= config.min_required_nodes

IsSingle(config) ==
  Len(config.connect_to_nodes) = 1 /\ config.pool_multiplier = 1

\* SinglePool::new checks what PoolPerNode does not.
SingleCheck(config) == config.desired_pool_size # 0

SubPoolCount(config) == config.pool_multiplier * Len(config.connect_to_nodes)

\* The share of one of several sub pools of a node.
Share(amount, multiplier) == amount \div multiplier + 1

\* Mistakes: the sizes are not recalculated; they are rounded down.
SizeAsConfigured(config) == config.desired_pool_size
SizeRoundedDown(config) == config.desired_pool_size \div config.pool_multiplier
SubPoolSize(config) ==
  IF config.pool_multiplier = 1
    THEN config.desired_pool_size
    ELSE Share(config.desired_pool_size, config.pool_multiplier)

SubPoolLimit(config) ==
  IF config.pool_multiplier = 1 \/ config.reservation_limit = 0
    THEN config.reservation_limit
    ELSE Share(config.reservation_limit, config.pool_multiplier)

\* The nodes are gone through once for each turn of the multiplier.
\* Mistake: the multiplier is gone through for each node.
NodeByNode(config, i) ==
  config.connect_to_nodes[((i - 1) \div config.pool_multiplier) + 1]
NodeOf(config, i) ==
  config.connect_to_nodes[((i - 1) % Len(config.connect_to_nodes)) + 1]

\* The sub pool number i.
SubPool(config, i) ==
  [node |-> NodeOf(config, i), size |-> SubPoolSize(config),
   limit |-> SubPoolLimit(config), order |-> config.activation_order,
   queue |-> config.checkout_queue_size,
   backoff |-> config.backoff_strategy]

SubPoolConfigs ==
  [node : STRING, size : Nat, limit : Nat, order : Orders, queue : Nat,
   backoff : Strategies]
=============================================================================
