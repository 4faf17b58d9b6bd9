------------------------------ MODULE Backoff -------------------------------
(***************************************************************************)
(* transport/backoff.rs as BusActor drives it: a delay is drawn after every *)
(* failed open and every session that ends, the counter is reset by every  *)
(* open that succeeds.  Times are in milliseconds.                         *)
(***************************************************************************)
EXTENDS Integers

CONSTANTS
  Configs,        \* BackoffConfigs [initial, max, multiplier, jitter_pct]
  MaxAttempt      \* the u32 at which the counter saturates

ASSUME BackoffAssumption ==
  /\ Configs \subseteq [initial : Nat, max : Nat, multiplier : Nat, jitter_pct : Nat]
  /\ MaxAttempt \in Nat \ {0}

VARIABLES
  config,     \* Backoff.config
  attempt,    \* Backoff.attempt
  connected,  \* a session is open
  base,       \* the latest delay before jitter
  delay,      \* the latest delay
  failures    \* history: delays drawn since the last open that succeeded

backoffVars == <<config, attempt, connected, base, delay, failures>>

AtMost(a, b)  == IF a < b THEN a ELSE b
AtLeast(a, b) == IF a > b THEN a ELSE b

(* capped_exp: multiply once per attempt, and stop at max. *)
CappedExp(c, n) ==
  LET mult == AtLeast(c.multiplier, 1)
      ms[k \in 0..n] == IF k = 0 THEN c.initial ELSE AtMost(ms[k - 1] * mult, c.max)
  IN  AtMost(ms[n], c.max)

(* The delay has stopped growing long before a u32 saturates. *)
ASSUME SaturationAssumption ==
  \A c \in Configs : CappedExp(c, MaxAttempt) = CappedExp(c, MaxAttempt - 1)

(* Mutant: the span is the whole of the base. *)
JitterOfAll(c, b) == IF b = 0 THEN {b} ELSE {0, b, 2 * b}

(* apply_jitter: the ends and the middle of low..=high. *)
Jitter(c, b) ==
  LET span == AtLeast((b * c.jitter_pct) \div 100, 1)
  IN  IF b = 0 \/ c.jitter_pct = 0 THEN {b} ELSE {AtLeast(b - span, 0), b, b + span}
-----------------------------------------------------------------------------
BackoffInit ==
  /\ config \in Configs
  /\ attempt = 0 /\ connected = FALSE /\ base = 0 /\ delay = 0 /\ failures = 0

(* next_delay. *)
NextDelay ==
  /\ base' = CappedExp(config, attempt)
  /\ delay' \in Jitter(config, base')
  /\ attempt' = AtMost(attempt + 1, MaxAttempt)

(* An open fails. *)
OpenFails ==
  /\ ~connected
  /\ NextDelay
  /\ failures' = AtMost(failures + 1, MaxAttempt)
  /\ UNCHANGED <<config, connected>>

(* Mutant: a connection does not reset the counter. *)
ConnectKeepsAttempt ==
  /\ ~connected
  /\ connected' = TRUE /\ failures' = 0
  /\ UNCHANGED <<config, attempt, base, delay>>

(* An open succeeds: reset. *)
Connect ==
  /\ ~connected
  /\ connected' = TRUE /\ attempt' = 0 /\ failures' = 0
  /\ UNCHANGED <<config, base, delay>>

(* A session ends and the Actor reconnects. *)
SessionEnds ==
  /\ connected
  /\ NextDelay
  /\ connected' = FALSE /\ failures' = AtMost(failures + 1, MaxAttempt)
  /\ UNCHANGED config

BackoffNext == OpenFails \/ Connect \/ SessionEnds

BackoffSpec == BackoffInit /\ [][BackoffNext]_backoffVars
-----------------------------------------------------------------------------
(* x ^ n, which the provers do not know. *)
Power(x, n) ==
  LET p[k \in 0..n] == IF k = 0 THEN 1 ELSE p[k - 1] * x
  IN  p[n]

(* The delays follow from the failures since the last connection alone.       *)
(* Before jitter a delay is initial, then multiplied by multiplier each time, *)
(* and never above max, also when initial is above it, the multiplier is zero *)
(* or the counter has saturated.  max is not a bound on what is slept: jitter *)
(* may add jitter_pct hundredths of the delay, or one millisecond, and no     *)
(* more.                                                                     *)
FollowsFailures ==
  LET capped == AtMost(config.max,
                       config.initial * Power(AtLeast(config.multiplier, 1), failures - 1))
  IN  failures > 0 => /\ base = capped
                      /\ 100 * (delay - capped) <= AtLeast(capped * config.jitter_pct, 100)

(* The Actor does not reconnect in a tight loop: whatever the jitter, a delay *)
(* is at least half of initial, or of max where that is less, when the jitter *)
(* is at most a half and there are two milliseconds to halve.                *)
NeverSpins ==
  failures > 0 /\ config.jitter_pct <= 50 /\ AtMost(config.initial, config.max) >= 2 =>
    delay >= AtMost(config.initial, config.max) \div 2
=============================================================================
