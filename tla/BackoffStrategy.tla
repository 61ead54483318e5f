--------------------------- MODULE BackoffStrategy ---------------------------
(***************************************************************************)
(* How long a connection task waits after a failed attempt                 *)
(* (backoff_strategy.rs). Durations are whole milliseconds. A delay that   *)
(* is drawn at random is the set of delays that can be drawn, and no delay *)
(* is the empty set.                                                       *)
(***************************************************************************)
EXTENDS Naturals, Sequences

\* NEW_CONN_BACKOFFS_MS and MAX_NEW_CONN_BACKOFF_MS
NewConnBackoffs ==
  <<5, 10, 10, 15, 30, 30, 50, 50, 100, 100, 100, 200, 300, 500, 500,
    1000, 1000, 1000, 2500, 2500, 5000, 5000, 5000, 7500, 7500, 10000>>

MaxNewConnBackoff == 10000

Lower(a, b) == IF a <= b THEN a ELSE b

\* NoBackoff, Constant, Incremental and IncrementalCapped
NoBackoff == [kind |-> "NoBackoff"]
Constant(fixed, jitter) ==
  [kind |-> "Constant", fixed |-> fixed, jitter |-> jitter]
Incremental(jitter) == [kind |-> "Incremental", jitter |-> jitter]
IncrementalCapped(cap, jitter) ==
  [kind |-> "IncrementalCapped", cap |-> cap, jitter |-> jitter]

Strategies ==
  {NoBackoff}
    \cup [kind : {"Constant"}, fixed : Nat, jitter : BOOLEAN]
    \cup [kind : {"Incremental"}, jitter : BOOLEAN]
    \cup [kind : {"IncrementalCapped"}, cap : Nat, jitter : BOOLEAN]

DefaultStrategy == IncrementalCapped(10000, TRUE)

\* The delay of an attempt, which counts from 1; 0 is treated like 1.
\* Mistake: the table is started over at its end.
StartOver(attempt) ==
  LET row == IF attempt = 0 THEN 1 ELSE attempt
  IN  NewConnBackoffs[((row - 1) % Len(NewConnBackoffs)) + 1]
CalcBackoff(attempt) ==
  LET row == IF attempt = 0 THEN 1 ELSE attempt
  IN  IF row <= Len(NewConnBackoffs)
        THEN NewConnBackoffs[row]
        ELSE MaxNewConnBackoff

\* The delay without jitter. Mistake: the cap is taken for the delay.
CapAsDelay(strategy, attempt) ==
  CASE strategy.kind = "Constant" -> strategy.fixed
    [] strategy.kind = "Incremental" -> CalcBackoff(attempt)
    [] strategy.kind = "IncrementalCapped" -> strategy.cap
    [] OTHER -> 0
Backoff(strategy, attempt) ==
  CASE strategy.kind = "Constant" -> strategy.fixed
    [] strategy.kind = "Incremental" -> CalcBackoff(attempt)
    [] strategy.kind = "IncrementalCapped" ->
         Lower(CalcBackoff(attempt), strategy.cap)
    [] OTHER -> 0

\* What the documentation of a strategy allows without jitter.
Longest(strategy) ==
  CASE strategy.kind = "Constant" -> strategy.fixed
    [] strategy.kind = "IncrementalCapped" ->
         Lower(strategy.cap, MaxNewConnBackoff)
    [] OTHER -> MaxNewConnBackoff

\* What gen_range draws from ends before this; nothing is drawn if it is 0.
EffectiveJitter(ms) ==
  IF ms >= 100 THEN Lower(ms \div 5, 3000)
  ELSE IF ms = 1 THEN 1
  ELSE ms \div 3

\* get_next_backoff
NextBackoffs(strategy, attempt) ==
  LET backoff == Backoff(strategy, attempt)
      jitter  == EffectiveJitter(backoff)
  IN  IF strategy.kind = "NoBackoff" THEN {}
      ELSE IF strategy.jitter /\ jitter # 0
             THEN backoff..(backoff + jitter - 1)
             ELSE {backoff}
=============================================================================
