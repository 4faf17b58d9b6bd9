-------------------------- MODULE AlgorithmsProofs --------------------------
(* Proofs about the parts of the service that share no state with the others: *)
(* Backoff, ListenWindow, Startup and HexFixture.                            *)
EXTENDS Backoff, ListenWindow, Startup, HexFixture, InductionFacts, SequenceTheorems

(* The first of two numbers that is below m is so in both or in neither, also *)
(* when both are multiplied.                                                 *)
LEMMA CapLater ==
  ASSUME NEW a \in Nat, NEW b \in Nat, NEW m \in Nat, NEW x \in Nat, x >= 1,
         AtMost(a, m) = AtMost(b, m)
  PROVE  AtMost(AtMost(a * x, m), m) = AtMost(b * x, m)
<1>1. a * x \in Nat /\ b * x \in Nat
  OBVIOUS
<1>2. a * x >= a /\ b * x >= b
  <2>1. PICK y \in Nat : x = y + 1
    <3>1. x - 1 \in Nat /\ x = x - 1 + 1
      OBVIOUS
    <3> QED BY <3>1
  <2>2. \A z \in Nat : z * (y + 1) = z * y + z /\ z * y \in Nat
    OBVIOUS
  <2>3. a * x = a * y + a /\ b * x = b * y + b /\ a * y \in Nat /\ b * y \in Nat
    BY <2>1, <2>2
  <2> DEFINE p == a * y
             q == b * y
  <2>4. a * x = p + a /\ b * x = q + b /\ p \in Nat /\ q \in Nat
    BY <2>3
  <2> HIDE DEF p, q
  <2> QED BY <2>4
<1>3. CASE a < m
  <2>1. b = a
    BY <1>3 DEF AtMost
  <2> QED BY <1>1, <2>1 DEF AtMost
<1>4. CASE a >= m
  <2>1. b >= m
    BY <1>4 DEF AtMost
  <2> DEFINE u == a * x
             v == b * x
  <2>2. u >= m /\ v >= m /\ u \in Nat /\ v \in Nat
    BY <1>1, <1>2, <1>4, <2>1
  <2> HIDE DEF u, v
  <2>3. AtMost(AtMost(u, m), m) = AtMost(v, m)
    BY <2>2 DEF AtMost
  <2> QED BY <2>3 DEF u, v
<1> QED BY <1>3, <1>4

(* f is the function CappedExp defines, and g the one Power defines.         *)
Capped(f, c, n) ==
  f = [k \in 0..n |-> IF k = 0 THEN c.initial
                      ELSE AtMost(f[k - 1] * AtLeast(c.multiplier, 1), c.max)]

Powers(g, x, n) == g = [k \in 0..n |-> IF k = 0 THEN 1 ELSE g[k - 1] * x]

ConfigTypes == [initial : Nat, max : Nat, multiplier : Nat, jitter_pct : Nat]

LEMMA CappedExists ==
  ASSUME NEW c \in ConfigTypes, NEW n \in Nat
  PROVE  \E f \in [0..n -> Nat] : Capped(f, c, n)
<1> DEFINE x == AtLeast(c.multiplier, 1)
           next == [i \in 1..n |-> [v \in Nat |-> AtMost(v * x, c.max)]]
<1>1. x \in Nat /\ c.max \in Nat /\ c.initial \in Nat
  BY DEF ConfigTypes, AtLeast
<1> HIDE DEF x
<1>2. \A v \in Nat : AtMost(v * x, c.max) \in Nat
  <2>1. \A v \in Nat : v * x \in Nat
    BY <1>1
  <2> QED BY <1>1, <2>1 DEF AtMost
<1>3. next \in [1..n -> [Nat -> Nat]]
  BY <1>2
<1>4. PICK f \in [0..n -> Nat] : Iterates(f, c.initial, next, n)
  <2> HIDE DEF next
  <2> QED BY <1>1, <1>3, IterationExists
<1>5. ASSUME NEW k \in 0..n, k # 0 PROVE next[k][f[k - 1]] = AtMost(f[k - 1] * x, c.max)
  <2>1. k \in 1..n /\ k - 1 \in 0..n
    BY <1>5
  <2>2. f[k - 1] \in Nat
    BY <2>1
  <2> QED BY <2>1, <2>2
<1> HIDE DEF next
<1>6. [k \in 0..n |-> IF k = 0 THEN c.initial ELSE next[k][f[k - 1]]]
      = [k \in 0..n |-> IF k = 0 THEN c.initial ELSE AtMost(f[k - 1] * x, c.max)]
  BY <1>5
<1>7. Capped(f, c, n)
  BY <1>4, <1>6 DEF Iterates, Capped, x
<1> QED BY <1>7

LEMMA PowersExists ==
  ASSUME NEW x \in Nat, NEW n \in Nat
  PROVE  \E g \in [0..n -> Nat] : Powers(g, x, n)
<1> DEFINE next == [i \in 1..n |-> [v \in Nat |-> v * x]]
<1>1. next \in [1..n -> [Nat -> Nat]]
  <2>1. \A v \in Nat : v * x \in Nat
    OBVIOUS
  <2> QED BY <2>1
<1>2. PICK g \in [0..n -> Nat] : Iterates(g, 1, next, n)
  <2> HIDE DEF next
  <2> QED BY <1>1, IterationExists
<1>3. ASSUME NEW k \in 0..n, k # 0 PROVE next[k][g[k - 1]] = g[k - 1] * x
  <2>1. k \in 1..n /\ k - 1 \in 0..n
    BY <1>3
  <2>2. g[k - 1] \in Nat
    BY <2>1
  <2> QED BY <2>1, <2>2
<1> HIDE DEF next
<1>4. [k \in 0..n |-> IF k = 0 THEN 1 ELSE next[k][g[k - 1]]]
      = [k \in 0..n |-> IF k = 0 THEN 1 ELSE g[k - 1] * x]
  BY <1>3
<1>5. Powers(g, x, n)
  BY <1>2, <1>4 DEF Iterates, Powers
<1> QED BY <1>5

(* Multiplying step by step and stopping at max is to multiply and then cap. *)
LEMMA CappedExpIs ==
  ASSUME NEW c \in ConfigTypes, NEW n \in Nat
  PROVE  /\ Power(AtLeast(c.multiplier, 1), n) \in Nat
         /\ Power(AtLeast(c.multiplier, 1), n) >= 1
         /\ CappedExp(c, n) = AtMost(c.max, c.initial * Power(AtLeast(c.multiplier, 1), n))
<1> DEFINE x == AtLeast(c.multiplier, 1)
           f == CHOOSE h : Capped(h, c, n)
           g == CHOOSE h : Powers(h, x, n)
<1>1. x \in Nat /\ x >= 1 /\ c.max \in Nat /\ c.initial \in Nat
  BY DEF ConfigTypes, AtLeast
<1>2. Capped(f, c, n) /\ CappedExp(c, n) = AtMost(f[n], c.max)
  <2>1. Capped(f, c, n)
    BY CappedExists, Zenon
  <2>2. CappedExp(c, n) = AtMost(f[n], c.max)
    BY DEF CappedExp, Capped
  <2> QED BY <2>1, <2>2
<1>3. Powers(g, x, n) /\ Power(x, n) = g[n]
  <2> HIDE DEF x
  <2>1. \E h : Powers(h, x, n)
    BY <1>1, PowersExists
  <2>2. Powers(g, x, n)
    BY <2>1, Zenon
  <2>3. Power(x, n) = g[n]
    BY DEF Power, Powers
  <2> QED BY <2>2, <2>3
<1> HIDE DEF f, g
<1> DEFINE T == {k \in Nat : k <= n => /\ f[k] \in Nat /\ g[k] \in Nat /\ g[k] >= 1
                                       /\ AtMost(f[k], c.max) = AtMost(c.initial * g[k], c.max)}
<1>4. /\ \A k \in 0..n : f[k] = IF k = 0 THEN c.initial ELSE AtMost(f[k - 1] * x, c.max)
      /\ \A k \in 0..n : g[k] = IF k = 0 THEN 1 ELSE g[k - 1] * x
  BY <1>2, <1>3 DEF Capped, Powers
<1> HIDE DEF x
<1>5. 0 \in T
  <2>1. 0 \in 0..n
    OBVIOUS
  <2>2. f[0] = c.initial /\ g[0] = 1 /\ c.initial * 1 = c.initial
    BY <1>1, <1>4, <2>1
  <2> QED BY <1>1, <2>2
<1>6. ASSUME NEW k \in Nat, k \in T PROVE k + 1 \in T
  <2> SUFFICES ASSUME k + 1 <= n
               PROVE  /\ f[k + 1] \in Nat /\ g[k + 1] \in Nat /\ g[k + 1] >= 1
                      /\ AtMost(f[k + 1], c.max) = AtMost(c.initial * g[k + 1], c.max)
    OBVIOUS
  <2>1. k + 1 \in 0..n /\ k + 1 # 0 /\ k + 1 - 1 = k /\ k <= n
    OBVIOUS
  <2>2. f[k + 1] = AtMost(f[k] * x, c.max) /\ g[k + 1] = g[k] * x
    BY <1>4, <2>1
  <2>3. /\ f[k] \in Nat /\ g[k] \in Nat /\ g[k] >= 1
        /\ AtMost(f[k], c.max) = AtMost(c.initial * g[k], c.max)
    BY <1>6, <2>1
  <2> DEFINE a == f[k]
             p == g[k]
             b == c.initial * p
  <2>4. a \in Nat /\ p \in Nat /\ p >= 1 /\ b \in Nat
    BY <1>1, <2>3
  <2>5. a * x \in Nat /\ p * x \in Nat /\ p * x >= 1 /\ b * x = c.initial * (p * x)
    <3> HIDE DEF a, p
    <3>1. \A y, z, w \in Nat : (y * z) * w = y * (z * w) /\ y * z \in Nat
      OBVIOUS
    <3>2. \A y, z \in Nat : y >= 1 /\ z >= 1 => y * z >= 1
      OBVIOUS
    <3> QED BY <1>1, <2>4, <3>1, <3>2
  <2>6. AtMost(AtMost(a * x, c.max), c.max) = AtMost(b * x, c.max)
    <3> HIDE DEF a, b
    <3> QED BY <1>1, <2>3, <2>4, CapLater DEF a, b
  <2>7. AtMost(a * x, c.max) \in Nat
    BY <1>1, <2>5 DEF AtMost
  <2> QED BY <2>2, <2>5, <2>6, <2>7
<1>7. Nat \subseteq T
  <2> HIDE DEF T
  <2> QED BY <1>5, <1>6, SetInduction
<1>8. f[n] \in Nat /\ g[n] \in Nat /\ g[n] >= 1 /\ AtMost(f[n], c.max) = AtMost(c.initial * g[n], c.max)
  BY <1>7
<1>9. AtMost(c.initial * g[n], c.max) = AtMost(c.max, c.initial * g[n])
  <2>1. c.initial * g[n] \in Nat
    BY <1>1, <1>8
  <2> DEFINE b == c.initial * g[n]
  <2>2. b \in Nat
    BY <2>1
  <2> HIDE DEF b
  <2>3. AtMost(b, c.max) = AtMost(c.max, b)
    BY <1>1, <2>2 DEF AtMost
  <2> QED BY <2>3 DEF b
<1> QED BY <1>2, <1>3, <1>8, <1>9 DEF x
-----------------------------------------------------------------------------
(* The counter is the number of failures since the last connection, and the  *)
(* latest delay was drawn for the failure before the counter went up.        *)
BackoffInv ==
  /\ config \in Configs
  /\ failures \in 0..MaxAttempt
  /\ attempt = failures
  /\ failures > 0 => /\ base = CappedExp(config, failures - 1)
                     /\ delay \in Jitter(config, base)

LEMMA BackoffStarts == BackoffInit => BackoffInv
  BY BackoffAssumption DEF BackoffInit, BackoffInv

LEMMA DelayIsDrawn ==
  ASSUME BackoffInv, NextDelay, failures' = AtMost(failures + 1, MaxAttempt), config' = config
  PROVE  BackoffInv'
<1>1. failures \in 0..MaxAttempt /\ attempt = failures /\ config \in Configs
  BY DEF BackoffInv
<1>2. MaxAttempt \in Nat \ {0}
  BY BackoffAssumption
<1>3. attempt' = failures'
  BY <1>1 DEF NextDelay
<1>4. failures' \in 1..MaxAttempt
  BY <1>1, <1>2 DEF AtMost
<1>5. base' = CappedExp(config, failures' - 1)
  <2>1. CASE failures = MaxAttempt
    <3>1. failures' = MaxAttempt
      BY <1>1, <1>2, <2>1 DEF AtMost
    <3> QED BY <1>1, <2>1, <3>1, SaturationAssumption DEF NextDelay
  <2>2. CASE failures # MaxAttempt
    <3>1. failures' - 1 = failures
      BY <1>1, <1>2, <2>2 DEF AtMost
    <3> QED BY <1>1, <3>1 DEF NextDelay
  <2> QED BY <2>1, <2>2
<1>6. delay' \in Jitter(config', base')
  BY DEF NextDelay
<1>7. failures' \in 0..MaxAttempt
  BY <1>2, <1>4
<1> QED BY <1>1, <1>3, <1>5, <1>6, <1>7 DEF BackoffInv

LEMMA BackoffKept == BackoffInv /\ [BackoffNext]_backoffVars => BackoffInv'
<1> SUFFICES ASSUME BackoffInv, [BackoffNext]_backoffVars PROVE BackoffInv'
  OBVIOUS
<1>1. CASE OpenFails
  BY <1>1, DelayIsDrawn DEF OpenFails
<1>2. CASE Connect
  BY <1>2, BackoffAssumption DEF Connect, BackoffInv
<1>3. CASE SessionEnds
  BY <1>3, DelayIsDrawn DEF SessionEnds
<1>4. CASE UNCHANGED backoffVars
  BY <1>4 DEF backoffVars, BackoffInv, Jitter, CappedExp
<1> QED BY <1>1, <1>2, <1>3, <1>4 DEF BackoffNext

LEMMA BackoffInvHolds == BackoffSpec => []BackoffInv
  BY BackoffStarts, BackoffKept, PTL DEF BackoffSpec

(* Jitter adds at most its hundredths of the delay, or one millisecond.      *)
LEMMA JitterAddsShare ==
  ASSUME NEW c \in ConfigTypes, NEW b \in Nat, NEW d \in Jitter(c, b)
  PROVE  100 * (d - b) <= AtLeast(b * c.jitter_pct, 100)
<1> DEFINE q == b * c.jitter_pct
           span == AtLeast(q \div 100, 1)
<1>1. q \in Nat
  BY DEF ConfigTypes
<1>2. d \in {b, AtLeast(b - span, 0), b + span}
  BY DEF Jitter
<1> HIDE DEF q
<1>3. q \div 100 \in Nat /\ 100 * (q \div 100) <= q
  BY <1>1
<1>4. span \in Nat /\ 100 * span <= AtLeast(q, 100) /\ AtLeast(q, 100) >= 100
  BY <1>1, <1>3 DEF AtLeast
<1> HIDE DEF span
<1>5. AtLeast(b - span, 0) \in Nat /\ AtLeast(b - span, 0) <= b
  BY <1>4 DEF AtLeast
<1>6. AtLeast(q, 100) \in Nat
  BY <1>1 DEF AtLeast
<1> DEFINE room == AtLeast(q, 100)
<1>7. d \in Nat /\ d - b <= span
  BY <1>2, <1>4, <1>5
<1>8. room \in Nat /\ 100 * span <= room
  BY <1>4, <1>6
<1> HIDE DEF room
<1>9. 100 * (d - b) <= room
  BY <1>4, <1>7, <1>8
<1> QED BY <1>9 DEF room, q

(* Whatever the configuration and however long the outage, a delay before     *)
(* jitter is initial times the multiplier to the power of the failures before *)
(* it, cut off at max: stopping at max on the way, a counter that saturates   *)
(* and the reset by an open that succeeds make no difference to that.  What   *)
(* is slept may lie above it, and above max, by what jitter adds.            *)
THEOREM DelayFollowsFailures == BackoffSpec => []FollowsFailures
<1>1. BackoffInv => FollowsFailures
  <2> DEFINE capped == AtMost(config.max,
                              config.initial * Power(AtLeast(config.multiplier, 1), failures - 1))
  <2> SUFFICES ASSUME BackoffInv, failures > 0
               PROVE  /\ base = capped
                      /\ 100 * (delay - capped) <= AtLeast(capped * config.jitter_pct, 100)
    BY DEF FollowsFailures
  <2>1. config \in ConfigTypes
    BY BackoffAssumption DEF BackoffInv, ConfigTypes
  <2>2. failures - 1 \in Nat
    BY BackoffAssumption DEF BackoffInv
  <2>3. base = capped
    BY <2>1, <2>2, CappedExpIs DEF BackoffInv
  <2>4. base \in Nat
    <3> DEFINE times == Power(AtLeast(config.multiplier, 1), failures - 1)
               grown == config.initial * times
    <3>1. times \in Nat /\ config.max \in Nat /\ config.initial \in Nat
      BY <2>1, <2>2, CappedExpIs DEF ConfigTypes
    <3> HIDE DEF times
    <3>2. grown \in Nat
      BY <3>1
    <3>3. base = AtMost(config.max, grown)
      BY <2>3 DEF times
    <3> HIDE DEF grown
    <3> QED BY <3>1, <3>2, <3>3 DEF AtMost
  <2>5. delay \in Jitter(config, base)
    BY DEF BackoffInv
  <2>6. 100 * (delay - base) <= AtLeast(base * config.jitter_pct, 100)
    BY <2>1, <2>4, <2>5, JitterAddsShare
  <2> HIDE DEF capped
  <2> QED BY <2>3, <2>6
<1> QED BY <1>1, BackoffInvHolds, PTL

(* Jitter takes away at most half, unless there is less than two to halve.   *)
LEMMA JitterTakesHalf ==
  ASSUME NEW c \in ConfigTypes, c.jitter_pct <= 50, NEW b \in Nat, b >= 2,
         NEW d \in Jitter(c, b)
  PROVE  d \in Nat /\ 2 * d >= b - 1
<1> DEFINE p == c.jitter_pct
           h == (b * p) \div 100
           span == AtLeast(h, 1)
<1>1. p \in Nat /\ p <= 50
  BY DEF ConfigTypes
<1>2. h \in Nat /\ 2 * h <= b
  <2> HIDE DEF p
  <2>1. b * p \in Nat /\ b * p <= b * 50
    BY <1>1
  <2> DEFINE q == b * p
  <2>2. q \in Nat /\ q <= 50 * b
    BY <2>1
  <2> HIDE DEF q
  <2>3. q \div 100 \in Nat /\ 100 * (q \div 100) <= q
    BY <2>2
  <2>4. 2 * (q \div 100) <= b
    BY <2>2, <2>3
  <2> QED BY <2>3, <2>4 DEF q
<1>3. span \in Nat /\ 2 * span <= b
  <2> HIDE DEF h
  <2> QED BY <1>2 DEF AtLeast
<1>4. d \in {b, AtLeast(b - span, 0), b + span}
  BY DEF Jitter
<1> HIDE DEF span
<1>5. AtLeast(b - span, 0) \in Nat /\ 2 * AtLeast(b - span, 0) >= b
  BY <1>3 DEF AtLeast
<1> QED BY <1>3, <1>4, <1>5

(* The Actor never retries in a tight loop, for every configuration whose     *)
(* jitter is at most a half.                                                 *)
THEOREM DelaysAreNoLoop == BackoffSpec => []NeverSpins
<1>1. BackoffInv => NeverSpins
  <2> DEFINE least == AtMost(config.initial, config.max)
  <2> SUFFICES ASSUME BackoffInv, failures > 0, config.jitter_pct <= 50, least >= 2
               PROVE  delay >= least \div 2
    BY DEF NeverSpins
  <2>1. config \in ConfigTypes
    BY BackoffAssumption DEF BackoffInv, ConfigTypes
  <2>2. failures - 1 \in Nat
    BY BackoffAssumption DEF BackoffInv
  <2> DEFINE times == Power(AtLeast(config.multiplier, 1), failures - 1)
  <2>3. times \in Nat /\ times >= 1 /\ base = AtMost(config.max, config.initial * times)
    BY <2>1, <2>2, CappedExpIs DEF BackoffInv
  <2>4. config.max \in Nat /\ config.initial \in Nat
    BY <2>1 DEF ConfigTypes
  <2>5. config.initial * times \in Nat /\ config.initial * times >= config.initial
    <3> HIDE DEF times
    <3>1. \A x, y \in Nat : y >= 1 => x * y \in Nat /\ x * y >= x
      <4> TAKE x, y \in Nat
      <4> HAVE y >= 1
      <4>1. y - 1 \in Nat /\ y = y - 1 + 1
        OBVIOUS
      <4>2. x * (y - 1) \in Nat
        BY <4>1
      <4>3. x * (y - 1) = x * y - x /\ x * y \in Nat
        OBVIOUS
      <4> QED BY <4>2, <4>3
    <3> QED BY <2>3, <2>4, <3>1
  <2> DEFINE grown == config.initial * times
  <2>6. grown \in Nat /\ grown >= config.initial /\ base = AtMost(config.max, grown)
    BY <2>3, <2>5
  <2> HIDE DEF grown
  <2>7. base \in Nat /\ least \in Nat /\ base >= least
    BY <2>4, <2>6 DEF AtMost
  <2> HIDE DEF least
  <2>8. delay \in Nat /\ 2 * delay >= base - 1
    BY <2>1, <2>7, JitterTakesHalf DEF BackoffInv
  <2>9. least \div 2 \in Nat /\ 2 * (least \div 2) <= least
    BY <2>7
  <2>10. 2 * delay >= 2 * (least \div 2) - 1
    BY <2>7, <2>8, <2>9
  <2> QED BY <2>8, <2>9, <2>10
<1> QED BY <1>1, BackoffInvHolds, PTL
-----------------------------------------------------------------------------
Verdicts == {"timeout", "ack", "status"}

(* h is the function Classify defines. *)
Classifies(h, op, frames) ==
  h = [n \in 0..Len(frames) |->
         IF n = 0 THEN "timeout"
         ELSE IF h[n - 1] = "ack" \/ IsAck(frames[n], op) THEN "ack"
         ELSE IF IsStatus(frames[n]) THEN "status" ELSE h[n - 1]]

LEMMA ClassifiesExists ==
  ASSUME NEW op, NEW S, NEW frames \in Seq(S)
  PROVE  \E h \in [0..Len(frames) -> Verdicts] : Classifies(h, op, frames)
<1> DEFINE len == Len(frames)
           next == [i \in 1..len |->
                      [v \in Verdicts |-> IF v = "ack" \/ IsAck(frames[i], op) THEN "ack"
                                          ELSE IF IsStatus(frames[i]) THEN "status" ELSE v]]
<1>1. len \in Nat /\ "timeout" \in Verdicts /\ "ack" \in Verdicts /\ "status" \in Verdicts
  BY DEF Verdicts
<1>2. next \in [1..len -> [Verdicts -> Verdicts]]
  BY <1>1, Zenon
<1>3. PICK h \in [0..len -> Verdicts] : Iterates(h, "timeout", next, len)
  <2> HIDE DEF next, len
  <2> QED BY <1>1, <1>2, IterationExists
<1>4. ASSUME NEW n \in 0..len, n # 0
      PROVE  next[n][h[n - 1]] = IF h[n - 1] = "ack" \/ IsAck(frames[n], op) THEN "ack"
                                 ELSE IF IsStatus(frames[n]) THEN "status" ELSE h[n - 1]
  <2>1. n \in 1..len /\ n - 1 \in 0..len
    BY <1>1, <1>4
  <2>2. h[n - 1] \in Verdicts
    BY <1>3, <2>1, Zenon
  <2> QED BY <2>1, <2>2, Zenon
<1> HIDE DEF next
<1>5. [n \in 0..len |-> IF n = 0 THEN "timeout" ELSE next[n][h[n - 1]]]
      = [n \in 0..len |->
           IF n = 0 THEN "timeout"
           ELSE IF h[n - 1] = "ack" \/ IsAck(frames[n], op) THEN "ack"
           ELSE IF IsStatus(frames[n]) THEN "status" ELSE h[n - 1]]
  BY <1>4, Zenon
<1>6. Classifies(h, op, frames)
  BY <1>3, <1>5, Zenon DEF Iterates, Classifies
<1> QED BY <1>3, <1>6, Zenon

(* The single pass over the frames finds what a look at all of them finds.   *)
LEMMA ClassifyIsDocumented ==
  ASSUME NEW op, NEW S, NEW frames \in Seq(S)
  PROVE  Classify(op, frames) = Documented(op, frames)
<1> DEFINE len == Len(frames)
           h == CHOOSE f : Classifies(f, op, frames)
           acked(n) == \E i \in 1..n : IsAck(frames[i], op)
           heardStatus(n) == \E i \in 1..n : IsStatus(frames[i])
           said(n) == IF acked(n) THEN "ack" ELSE IF heardStatus(n) THEN "status" ELSE "timeout"
<1>1. Classifies(h, op, frames)
  <2>1. \E f : Classifies(f, op, frames)
    BY ClassifiesExists, Zenon
  <2> QED BY <2>1, Zenon
<1>2. Classify(op, frames) = h[len]
  BY Zenon DEF Classify, Classifies
<1> HIDE DEF h
<1>3. \A n \in 0..len :
        h[n] = IF n = 0 THEN "timeout"
               ELSE IF h[n - 1] = "ack" \/ IsAck(frames[n], op) THEN "ack"
               ELSE IF IsStatus(frames[n]) THEN "status" ELSE h[n - 1]
  BY <1>1, Zenon DEF Classifies
<1>4. len \in Nat
  OBVIOUS
<1> DEFINE T == {n \in Nat : n <= len => h[n] = said(n)}
<1> HIDE DEF len
<1>5. 0 \in T
  <2>1. h[0] = "timeout"
    <3>1. 0 \in 0..len
      BY <1>4
    <3> QED BY <1>3, <3>1, Zenon
  <2>2. ~acked(0) /\ ~heardStatus(0)
    OBVIOUS
  <2> QED BY <2>1, <2>2
<1>6. ASSUME NEW n \in Nat, n \in T PROVE n + 1 \in T
  <2> SUFFICES ASSUME n + 1 <= len PROVE h[n + 1] = said(n + 1)
    OBVIOUS
  <2>1. n + 1 \in 0..len /\ n + 1 # 0 /\ n + 1 - 1 = n /\ n <= len
    BY <1>4
  <2>2. h[n + 1] = IF h[n] = "ack" \/ IsAck(frames[n + 1], op) THEN "ack"
                   ELSE IF IsStatus(frames[n + 1]) THEN "status" ELSE h[n]
    BY <1>3, <2>1
  <2>3. h[n] = said(n)
    BY <1>6, <2>1
  <2>4. \A i : i \in 1..(n + 1) <=> i \in 1..n \/ i = n + 1
    OBVIOUS
  <2>5. /\ acked(n + 1) <=> acked(n) \/ IsAck(frames[n + 1], op)
        /\ heardStatus(n + 1) <=> heardStatus(n) \/ IsStatus(frames[n + 1])
    BY <2>4, Zenon
  <2> HIDE DEF acked, heardStatus
  <2> QED BY <2>2, <2>3, <2>5
<1>7. Nat \subseteq T
  <2> HIDE DEF T
  <2> QED BY <1>5, <1>6, SetInduction
<1>8. h[len] = said(len)
  BY <1>4, <1>7
<1>9. DOMAIN frames = 1..len
  BY DEF len
<1> QED BY <1>2, <1>8, <1>9, Zenon DEF Documented

(* heard is a sequence of frames, and HeardDecides itself.                   *)
WindowInv == heard \in Seq(BusFrames) /\ HeardDecides

LEMMA WindowKept == WindowInv /\ [WindowNext]_windowVars => WindowInv'
<1> SUFFICES ASSUME WindowInv, [WindowNext]_windowVars PROVE WindowInv'
  OBVIOUS
<1>1. CASE Hear
  <2>1. heard' \in Seq(BusFrames) /\ verdict' = "open"
    BY <1>1 DEF Hear, WindowInv
  <2> QED BY <2>1 DEF WindowInv, HeardDecides
<1>2. CASE DryRunEnds
  <2>1. path' = "dry" /\ heard' = heard
    BY <1>2 DEF DryRunEnds
  <2>2. verdict' = Documented(command, DryRunFrames(command))
    <3>1. DryRunFrames(command) \in Seq({Frame("ack", command, TRUE)})
      BY DEF DryRunFrames
    <3>2. Classify(command, DryRunFrames(command)) = Documented(command, DryRunFrames(command))
      BY <3>1, ClassifyIsDocumented
    <3> QED BY <1>2, <3>2 DEF DryRunEnds
  <2>3. IsAck(Frame("ack", command, TRUE), command)
    BY DEF IsAck, Frame
  <2>4. \E i \in DOMAIN DryRunFrames(command) : IsAck(DryRunFrames(command)[i], command)
    <3> DEFINE f == Frame("ack", command, TRUE)
               fs == <<f>>
    <3>1. DryRunFrames(command) = fs
      BY DEF DryRunFrames
    <3> HIDE DEF f
    <3>2. 1 \in DOMAIN fs /\ fs[1] = f
      OBVIOUS
    <3> HIDE DEF fs
    <3> QED BY <2>3, <3>1, <3>2, Zenon DEF f
  <2>5. verdict' = "ack"
    BY <2>2, <2>4 DEF Documented
  <2> QED BY <2>1, <2>5 DEF WindowInv, HeardDecides
<1>3. CASE LiveEnds
  BY <1>3 DEF LiveEnds, WindowInv, HeardDecides
<1>4. CASE BytesEnd
  <2>1. verdict' = Documented(command, heard)
    BY <1>4, ClassifyIsDocumented DEF BytesEnd, WindowInv
  <2> QED BY <1>4, <2>1 DEF BytesEnd, WindowInv, HeardDecides
<1>5. CASE UNCHANGED windowVars
  BY <1>5 DEF windowVars, WindowInv, HeardDecides
<1> QED BY <1>1, <1>2, <1>3, <1>4, <1>5 DEF WindowNext

(* However many frames come while the window is open and in whatever order,   *)
(* the verdict on what a caller heard is the documented one, and a dry run    *)
(* is acknowledged.                                                          *)
THEOREM VerdictAsDocumented == WindowSpec => []HeardDecides
<1>1. WindowInit => WindowInv
  BY DEF WindowInit, WindowInv, HeardDecides
<1>2. WindowInv => HeardDecides
  BY DEF WindowInv
<1> QED BY <1>1, <1>2, WindowKept, PTL DEF WindowSpec
-----------------------------------------------------------------------------
(* What ConfigBuilder takes from the environment is what the layer says.     *)
LEMMA EnvSaysIsEnvLayer == \A k \in Keys : EnvSays(k) = EnvLayer(k)
<1> SUFFICES ASSUME NEW k \in Keys PROVE EnvSays(k) = EnvLayer(k)
  OBVIOUS
<1>1. CASE k \in Limits \cup {"transport_url", "journal_path"}
  <2>1. k \notin {"bind_addr", "log_level"} /\ k \notin Parsed \ Limits
    BY <1>1 DEF Limits, Parsed
  <2> QED BY <1>1, <2>1, Zenon DEF EnvSays, EnvLayer
<1>2. CASE k \in {"bind_addr", "log_level"}
  <2>1. k \notin Limits \cup {"transport_url", "journal_path"} /\ k \notin Parsed
    BY <1>2 DEF Limits, Parsed
  <2> QED BY <1>2, <2>1, Zenon DEF EnvSays, EnvLayer
<1>3. CASE k \in {"writes_enabled", "listen_window_ms"}
  <2>1. /\ k \notin Limits \cup {"transport_url", "journal_path"}
        /\ k \in Parsed \ Limits /\ k \notin {"bind_addr", "log_level"}
    BY <1>3 DEF Limits, Parsed
  <2> QED BY <2>1, Zenon DEF EnvSays, EnvLayer
<1> QED BY <1>1, <1>2, <1>3 DEF Keys, Limits

LEMMA DefaultIsSet == \A k \in Keys : Set(k, Defaults[k]) = Defaults[k]
<1>1. Trim(<<>>) = <<>>
  <2>1. {i \in DOMAIN <<>> : <<>>[i] # " "} = {}
    OBVIOUS
  <2> QED BY <2>1 DEF Trim
<1>2. Set("transport_url", Defaults["transport_url"]) = Defaults["transport_url"]
  <2>1. Defaults["transport_url"] = <<>>
    BY DEF Defaults
  <2>2. IsBlank("transport_url", <<>>)
    BY <1>1 DEF IsBlank
  <2> QED BY <2>1, <2>2 DEF Set, Limits
<1>3. ASSUME NEW k \in Keys \ {"transport_url"} PROVE Set(k, Defaults[k]) = Defaults[k]
  <2>1. CASE k \in {"bind_addr", "log_level"}
    <3>1. k # "transport_url" /\ k \notin Limits \cup {"journal_path"}
          /\ k # "listen_window_ms" /\ k # "writes_enabled"
      BY <2>1 DEF Limits
    <3> QED BY <3>1, Zenon DEF Set
  <2>2. CASE k \in Limits \cup {"journal_path"}
    <3>1. Defaults[k] = "none"
      BY <2>2 DEF Defaults, Limits
    <3>2. k # "transport_url" /\ k # "listen_window_ms" /\ k # "writes_enabled"
          /\ ~IsBlank(k, "none")
      BY <2>2 DEF Limits, IsBlank
    <3> QED BY <3>1, <3>2, Zenon DEF Set
  <2>3. CASE k = "writes_enabled"
    <3>1. Defaults[k] = "false" /\ "false" \notin Yes
      BY <2>3 DEF Defaults, Yes
    <3>2. k # "transport_url" /\ k \notin Limits \cup {"journal_path"}
          /\ k # "listen_window_ms"
      BY <2>3 DEF Limits
    <3> QED BY <2>3, <3>1, <3>2, Zenon DEF Set
  <2>4. CASE k = "listen_window_ms"
    <3>1. Defaults[k] = "500" /\ "500" # "0"
      BY <2>4 DEF Defaults
    <3>2. k # "transport_url" /\ k \notin Limits \cup {"journal_path"}
          /\ k # "writes_enabled"
      BY <2>4 DEF Limits
    <3> QED BY <3>1, <3>2, Zenon DEF Set
  <2> QED BY <1>3, <2>1, <2>2, <2>3, <2>4 DEF Keys, Limits
<1> QED BY <1>2, <1>3

(* A layer that says something says that word. *)
LEMMA TheOnlyOne ==
  ASSUME NEW S, AtMostOneOf(S), S # {}
  PROVE  S = {Word(S)}
BY Zenon DEF AtMostOneOf, Word

(* A setter keeps a layer a single word. *)
LEMMA SetOfOne ==
  ASSUME NEW k, NEW S, AtMostOneOf(S)
  PROVE  AtMostOneOf({Set(k, v) : v \in S})
BY Zenon DEF AtMostOneOf

LEMMA OneSaysIt ==
  ASSUME inst \in Installations, NEW k \in Keys
  PROVE  AtMostOneOf(EnvLayer(k)) /\ AtMostOneOf(FileLayer(k))
<1>1. AtMostOneOf(inst.env[k]) /\ EnvLayer(k) \subseteq inst.env[k]
  BY InstallationsAssumption, Zenon DEF EnvLayer
<1>2. AtMostOneOf(EnvLayer(k))
  BY <1>1, Zenon DEF AtMostOneOf
<1>3. AtMostOneOf(ConfigFile) /\ \A f \in ConfigFile : AtMostOneOf(f.says[k])
  <2>1. CASE inst.path_set
    BY <2>1, InstallationsAssumption, Zenon DEF ConfigFile
  <2>2. CASE ~inst.path_set
    BY <2>2, InstallationsAssumption, Zenon DEF ConfigFile
  <2> QED BY <2>1, <2>2
<1>4. AtMostOneOf(FileLayer(k))
  <2> SUFFICES ASSUME NEW x \in FileLayer(k), NEW y \in FileLayer(k) PROVE x = y
    BY DEF AtMostOneOf
  <2>1. PICK f \in ConfigFile : x \in f.says[k]
    BY Zenon DEF FileLayer
  <2>2. PICK g \in ConfigFile : y \in g.says[k]
    BY Zenon DEF FileLayer
  <2>3. f = g
    BY <1>3, Zenon DEF AtMostOneOf
  <2> QED BY <1>3, <2>1, <2>2, <2>3, Zenon DEF AtMostOneOf
<1> QED BY <1>2, <1>4

(* Each setting that ConfigBuilder builds is what its setter makes of the    *)
(* last word on it.                                                          *)
LEMMA BuiltAsLastSaid ==
  ASSUME inst \in Installations, NEW k \in Keys
  PROVE  {BuildConfig[k]} = {Set(k, v) : v \in LastSaid(k)}
<1>1. EnvSays(k) = EnvLayer(k)
  BY EnvSaysIsEnvLayer
<1>2. MergeFile(k) = {Set(k, v) : v \in FileLayer(k)}
  <2>1. \A x : x \in MergeFile(k) <=> \E f \in ConfigFile : \E v \in f.says[k] : x = Set(k, v)
    <3> DEFINE part(f) == {Set(k, v) : v \in f.says[k]}
    <3>1. \A f : \A x : x \in part(f) <=> \E v \in f.says[k] : x = Set(k, v)
      BY Zenon
    <3>2. MergeFile(k) = UNION {part(f) : f \in ConfigFile}
      BY Zenon DEF MergeFile
    <3> HIDE DEF part
    <3> QED BY <3>1, <3>2
  <2>2. \A v : v \in FileLayer(k) <=> \E f \in ConfigFile : v \in f.says[k]
    BY Zenon DEF FileLayer
  <2>3. \A x : x \in MergeFile(k) <=> \E v \in FileLayer(k) : x = Set(k, v)
    BY <2>1, <2>2, Zenon
  <2>4. \A x : x \in {Set(k, v) : v \in FileLayer(k)} <=> \E v \in FileLayer(k) : x = Set(k, v)
    BY Zenon
  <2> QED BY <2>3, <2>4, Zenon
<1>3. BuildConfig[k] = IF Merge(k) = {} THEN Defaults[k] ELSE Word(Merge(k))
  BY Zenon DEF BuildConfig
<1>4. CASE EnvLayer(k) # {}
  <2>1. Merge(k) = {Set(k, v) : v \in EnvLayer(k)} /\ LastSaid(k) = EnvLayer(k)
    BY <1>1, <1>4, Zenon DEF Merge, LastSaid
  <2>2. Merge(k) # {}
    BY <1>4, <2>1, Zenon
  <2>3. AtMostOneOf(Merge(k))
    BY <2>1, OneSaysIt, SetOfOne
  <2> QED BY <1>3, <2>1, <2>2, <2>3, TheOnlyOne
<1>5. CASE EnvLayer(k) = {} /\ FileLayer(k) # {}
  <2>1. Merge(k) = {Set(k, v) : v \in FileLayer(k)} /\ LastSaid(k) = FileLayer(k)
    BY <1>1, <1>2, <1>5, Zenon DEF Merge, LastSaid
  <2>2. Merge(k) # {}
    BY <1>5, <2>1, Zenon
  <2>3. AtMostOneOf(Merge(k))
    BY <2>1, OneSaysIt, SetOfOne
  <2> QED BY <1>3, <2>1, <2>2, <2>3, TheOnlyOne
<1>6. CASE EnvLayer(k) = {} /\ FileLayer(k) = {}
  <2>1. Merge(k) = {} /\ LastSaid(k) = {Defaults[k]}
    BY <1>1, <1>2, <1>6, Zenon DEF Merge, LastSaid
  <2>2. {Set(k, v) : v \in LastSaid(k)} = {Set(k, Defaults[k])}
    BY <2>1, Zenon
  <2> QED BY <1>3, <2>1, <2>2, DefaultIsSet
<1> QED BY <1>4, <1>5, <1>6

(* Settings are usable exactly when Load and ParseAddr let them through. *)
LEMMA UsableIs ==
  ASSUME inst \in Installations
  PROVE  Unusable <=> FileFails \/ EnvFails \/ BuildConfig["bind_addr"] \notin Addresses
<1>1. ASSUME NEW k \in Parsed PROVE "junk" \in EnvSays(k) <=> "junk" \in inst.env[k]
  <2>1. ~IsBlank(k, "junk") /\ k \notin {"bind_addr", "log_level"}
    BY <1>1 DEF IsBlank, Parsed, Limits
  <2> QED BY <2>1, Zenon DEF EnvSays
<1>2. EnvFails <=> \E k \in Parsed : "junk" \in inst.env[k]
  BY <1>1, Zenon DEF EnvFails
<1>3. {BuildConfig["bind_addr"]} = {Set("bind_addr", v) : v \in LastSaid("bind_addr")}
  <2>1. "bind_addr" \in Keys
    BY DEF Keys
  <2> QED BY <2>1, BuiltAsLastSaid
<1>4. \A v : Set("bind_addr", v) = v
  BY DEF Set, Limits
<1>5. {BuildConfig["bind_addr"]} = LastSaid("bind_addr")
  <2>1. \A x : x \in {Set("bind_addr", v) : v \in LastSaid("bind_addr")}
                <=> \E v \in LastSaid("bind_addr") : x = Set("bind_addr", v)
    BY Zenon
  <2>2. \A x : x \in {Set("bind_addr", v) : v \in LastSaid("bind_addr")}
                <=> x \in LastSaid("bind_addr")
    BY <1>4, <2>1, Zenon
  <2> QED BY <1>3, <2>2, Zenon
<1> QED BY <1>2, <1>5, Zenon DEF Unusable

(* What has been built follows from the settings, step by step; and the      *)
(* process is still running or has ended for a reason.                       *)
WritesEnabled == BuildConfig.writes_enabled = "true"
Endpoint == ParseUrl(BuildConfig.transport_url)
Stages == {"start", "loaded", "addressed", "journalled", "gated", "spawned", "serving", "exited"}

StartupInv ==
  /\ inst \in Installations /\ stage \in Stages
  /\ stage \notin {"start", "exited"} => settings = BuildConfig /\ ~FileFails /\ ~EnvFails
  /\ stage \notin {"start", "loaded", "exited"} => ~Unusable
  /\ stage \in {"start", "loaded"} => journal = "untouched" /\ bus = Invalid
  /\ stage = "exited" => \/ Unusable /\ journal = "untouched" /\ bus = Invalid
                         \/ ~Unusable /\ ~inst.port_free
  /\ stage \in {"gated", "spawned", "serving"} =>
       gate.live = WritesEnabled /\ gate.handle = WritesEnabled
  /\ stage = "gated" => writeRx = IF WritesEnabled THEN "run" ELSE "none"
  /\ stage \in {"spawned", "serving"} =>
       /\ bus = Endpoint
       /\ writeRx = IF ~WritesEnabled THEN "none" ELSE IF bus = Invalid THEN "dropped" ELSE "actor"
  /\ answer # "none" =>
       /\ stage = "serving"
       /\ answer = IF ~WritesEnabled THEN "200 dry run"
                   ELSE IF bus = Invalid THEN "502 transport" ELSE "to the bus"

LEMMA StartupStarts == StartupInit => StartupInv
  BY DEF StartupInit, NothingBuilt, StartupInv, Stages

(* The settings and what is wrong with them depend on the surroundings only. *)
LEMMA SameSurroundings ==
  inst' = inst => /\ BuildConfig' = BuildConfig /\ FileFails' = FileFails
                  /\ EnvFails' = EnvFails /\ Unusable' = Unusable
                  /\ WritesEnabled' = WritesEnabled /\ Endpoint' = Endpoint
<1> SUFFICES ASSUME inst' = inst
             PROVE  /\ BuildConfig' = BuildConfig /\ FileFails' = FileFails
                    /\ EnvFails' = EnvFails /\ Unusable' = Unusable
                    /\ WritesEnabled' = WritesEnabled /\ Endpoint' = Endpoint
  OBVIOUS
<1>1. BuildConfig' = BuildConfig
  <2>1. ASSUME NEW k \in Keys PROVE Merge(k)' = Merge(k)
    <3>1. MergeFile(k)' = MergeFile(k)
      BY Zenon DEF MergeFile, ConfigFile
    <3>2. EnvSays(k)' = EnvSays(k)
      BY Zenon DEF EnvSays
    <3> QED BY <3>1, <3>2, Zenon DEF Merge
  <2>2. BuildConfig' = [k \in Keys |-> IF Merge(k)' = {} THEN Defaults[k] ELSE Word(Merge(k)')]
    BY DEF BuildConfig
  <2>3. BuildConfig = [k \in Keys |-> IF Merge(k) = {} THEN Defaults[k] ELSE Word(Merge(k))]
    BY DEF BuildConfig
  <2> QED BY <2>1, <2>2, <2>3
<1>2. FileFails' = FileFails
  BY Zenon DEF FileFails, ConfigFile
<1>3. EnvFails' = EnvFails
  BY Zenon DEF EnvFails, EnvSays
<1>4. Unusable' = Unusable
  <2>1. LastSaid("bind_addr")' = LastSaid("bind_addr")
    <3>1. FileLayer("bind_addr")' = FileLayer("bind_addr")
      BY Zenon DEF FileLayer, ConfigFile
    <3>2. EnvLayer("bind_addr")' = EnvLayer("bind_addr")
      BY Zenon DEF EnvLayer
    <3> QED BY <3>1, <3>2, Zenon DEF LastSaid
  <2> QED BY <1>2, <2>1, Zenon DEF Unusable
<1> QED BY <1>1, <1>2, <1>3, <1>4, Zenon DEF WritesEnabled, Endpoint

LEMMA StartupKept == StartupInv /\ [StartupNext]_startupVars => StartupInv'
<1> SUFFICES ASSUME StartupInv, [StartupNext]_startupVars PROVE StartupInv'
  OBVIOUS
<1>1. inst' = inst
  BY DEF StartupNext, startupVars, Load, ParseAddr, OpenJournal, MakeGate, SpawnBus, Bind, Command
<1>2. /\ BuildConfig' = BuildConfig /\ FileFails' = FileFails /\ EnvFails' = EnvFails
      /\ Unusable' = Unusable /\ WritesEnabled' = WritesEnabled /\ Endpoint' = Endpoint
  BY <1>1, SameSurroundings
<1>3. CASE Load
  <2>1. stage = "start" /\ journal = "untouched" /\ bus = Invalid /\ answer = "none"
    BY <1>3 DEF Load, StartupInv
  <2>2. CASE FileFails \/ EnvFails \/ IsBlank("bind_addr", BuildConfig.bind_addr)
    <3>1. stage' = "exited"
      BY <1>3, <2>2 DEF Load
    <3>2. \A v : IsBlank("bind_addr", v) => v \notin Addresses
      BY DEF IsBlank, Addresses
    <3>3. Unusable
      BY <2>2, <3>2, UsableIs DEF StartupInv
    <3> QED BY <1>1, <1>2, <1>3, <2>1, <3>1, <3>3 DEF Load, StartupInv, Stages
  <2>3. CASE ~(FileFails \/ EnvFails \/ IsBlank("bind_addr", BuildConfig.bind_addr))
    <3>1. stage' = "loaded" /\ settings' = BuildConfig
      BY <1>3, <2>3 DEF Load
    <3> QED BY <1>1, <1>2, <1>3, <2>1, <2>3, <3>1 DEF Load, StartupInv, Stages
  <2> QED BY <2>2, <2>3
<1>4. CASE ParseAddr
  <2>1. /\ stage = "loaded" /\ settings = BuildConfig /\ ~FileFails /\ ~EnvFails
        /\ journal = "untouched" /\ bus = Invalid /\ answer = "none"
    BY <1>4 DEF ParseAddr, StartupInv
  <2>2. Unusable <=> settings.bind_addr \notin Addresses
    BY <2>1, UsableIs DEF StartupInv
  <2>3. stage' = IF Unusable THEN "exited" ELSE "addressed"
    BY <1>4, <2>2 DEF ParseAddr
  <2> QED BY <1>1, <1>2, <1>4, <2>1, <2>3 DEF ParseAddr, StartupInv, Stages
<1>5. CASE OpenJournal
  BY <1>1, <1>2, <1>5 DEF OpenJournal, StartupInv, Stages
<1>6. CASE MakeGate
  <2>1. settings = BuildConfig /\ stage' = "gated" /\ answer = "none"
    BY <1>6 DEF MakeGate, StartupInv
  <2>2. gate'.live = WritesEnabled /\ gate'.handle = WritesEnabled
    BY <1>6, <2>1 DEF MakeGate, WritesEnabled
  <2>3. writeRx' = IF WritesEnabled THEN "run" ELSE "none"
    BY <1>6, <2>1 DEF MakeGate, WritesEnabled
  <2> QED BY <1>1, <1>2, <1>6, <2>1, <2>2, <2>3 DEF MakeGate, StartupInv, Stages
<1>7. CASE SpawnBus
  <2>1. settings = BuildConfig /\ stage' = "spawned" /\ answer = "none"
    BY <1>7 DEF SpawnBus, StartupInv
  <2>2. bus' = Endpoint
    BY <1>7, <2>1 DEF SpawnBus, Endpoint
  <2>3. writeRx' = IF ~WritesEnabled THEN "none" ELSE IF bus' = Invalid THEN "dropped" ELSE "actor"
    BY <1>7 DEF SpawnBus, StartupInv
  <2> QED BY <1>1, <1>2, <1>7, <2>1, <2>2, <2>3 DEF SpawnBus, StartupInv, Stages
<1>8. CASE Bind
  BY <1>1, <1>2, <1>8 DEF Bind, StartupInv, Stages
<1>9. CASE Command
  <2>1. /\ stage = "serving" /\ gate.live = WritesEnabled /\ gate.handle = WritesEnabled
        /\ writeRx = IF ~WritesEnabled THEN "none" ELSE IF bus = Invalid THEN "dropped" ELSE "actor"
    BY <1>9 DEF Command, StartupInv
  <2>2. answer' = IF ~WritesEnabled THEN "200 dry run"
                  ELSE IF bus = Invalid THEN "502 transport" ELSE "to the bus"
    BY <1>9, <2>1 DEF Command, Outcome
  <2> QED BY <1>1, <1>2, <1>9, <2>1, <2>2 DEF Command, StartupInv, Stages
<1>10. CASE UNCHANGED startupVars
  BY <1>1, <1>2, <1>10 DEF startupVars, StartupInv
<1> QED BY <1>3, <1>4, <1>5, <1>6, <1>7, <1>8, <1>9, <1>10 DEF StartupNext

LEMMA StartupInvHolds == StartupSpec => []StartupInv
  BY StartupStarts, StartupKept, PTL DEF StartupSpec

(* Defaults, then the file, then the environment, later wins, key by key, for *)
(* every file and every environment.                                        *)
THEOREM ConfiguredAsSaid == StartupSpec => []AsConfigured
<1>1. StartupInv => AsConfigured
  <2> SUFFICES ASSUME StartupInv, stage \notin {"start", "exited"}, NEW k \in Keys
               PROVE  {settings[k]} = {Set(k, v) : v \in LastSaid(k)}
    BY DEF AsConfigured
  <2>1. settings = BuildConfig /\ inst \in Installations
    BY DEF StartupInv
  <2> QED BY <2>1, BuiltAsLastSaid
<1> QED BY <1>1, StartupInvHolds, PTL

(* The process ends before it has touched journal or transport if a setting   *)
(* is unusable, and otherwise only because the port is in use.               *)
THEOREM ExitsForCause == StartupSpec => []EndsOnlyForCause
<1>1. StartupInv => EndsOnlyForCause
  BY DEF StartupInv, EndsOnlyForCause
<1> QED BY <1>1, StartupInvHolds, PTL

(* A command is sent on only if the last word on writes_enabled was yes, and  *)
(* then to the endpoint that the last word on transport_url parses to; if it  *)
(* parses to none the command fails.                                         *)
SentAsLastSaid ==
  answer # "none" =>
    /\ \E u \in LastSaid("transport_url") : bus = ParseUrl(u)
    /\ answer = IF LastSaid("writes_enabled") \cap Yes = {} THEN "200 dry run"
                ELSE IF bus = Invalid THEN "502 transport" ELSE "to the bus"

LEMMA SentAsSaid == StartupInv => SentAsLastSaid
<1> SUFFICES ASSUME StartupInv, answer # "none"
             PROVE  /\ \E u \in LastSaid("transport_url") : bus = ParseUrl(u)
                    /\ answer = IF LastSaid("writes_enabled") \cap Yes = {} THEN "200 dry run"
                                ELSE IF bus = Invalid THEN "502 transport" ELSE "to the bus"
  BY DEF SentAsLastSaid
<1>1. /\ stage = "serving" /\ bus = Endpoint /\ inst \in Installations
      /\ answer = IF ~WritesEnabled THEN "200 dry run"
                  ELSE IF bus = Invalid THEN "502 transport" ELSE "to the bus"
  BY DEF StartupInv
<1>2. "transport_url" \in Keys /\ "writes_enabled" \in Keys
  BY DEF Keys
<1>3. \E u \in LastSaid("transport_url") : bus = ParseUrl(u)
  <2>1. BuildConfig["transport_url"] \in {Set("transport_url", v) : v \in LastSaid("transport_url")}
    BY <1>1, <1>2, BuiltAsLastSaid, Zenon
  <2>2. PICK u \in LastSaid("transport_url") : BuildConfig["transport_url"] = Set("transport_url", u)
    BY <2>1, Zenon
  <2>3. CASE IsBlank("transport_url", u)
    <3>1. Set("transport_url", u) = <<>>
      BY <2>3 DEF Set, Limits
    <3>2. Trim(u) = <<>>
      BY <2>3, Zenon DEF IsBlank
    <3>3. ParseUrl(u) = Invalid
      BY <3>2, Zenon DEF ParseUrl
    <3>4. Trim(<<>>) = <<>>
      <4>1. {i \in DOMAIN <<>> : <<>>[i] # " "} = {}
        OBVIOUS
      <4> QED BY <4>1 DEF Trim
    <3>5. ParseUrl(<<>>) = Invalid
      BY <3>4, Zenon DEF ParseUrl
    <3> QED BY <1>1, <2>2, <3>1, <3>3, <3>5, Zenon DEF Endpoint
  <2>4. CASE ~IsBlank("transport_url", u)
    <3>1. Set("transport_url", u) = u
      BY <2>4 DEF Set, Limits
    <3> QED BY <1>1, <2>2, <3>1, Zenon DEF Endpoint
  <2> QED BY <2>3, <2>4
<1>4. WritesEnabled <=> LastSaid("writes_enabled") \cap Yes # {}
  <2>1. {BuildConfig["writes_enabled"]} = {Set("writes_enabled", v) : v \in LastSaid("writes_enabled")}
    BY <1>1, <1>2, BuiltAsLastSaid
  <2>2. \A v : Set("writes_enabled", v) = "true" <=> v \in Yes
    BY DEF Set, Limits
  <2>3. WritesEnabled <=> \E v \in LastSaid("writes_enabled") : Set("writes_enabled", v) = "true"
    <3>1. WritesEnabled <=> "true" \in {Set("writes_enabled", v) : v \in LastSaid("writes_enabled")}
      BY <2>1, Zenon DEF WritesEnabled
    <3> QED BY <3>1, Zenon
  <2> QED BY <2>2, <2>3, Zenon
<1> QED BY <1>1, <1>3, <1>4
-----------------------------------------------------------------------------
(* Texts: the recording of a replay, and transport_url.                       *)

(* A blank: the prover's SMT translation cannot read the string.  *)
Gap == " "

(* Where the elements of a joined sequence are. *)
IsJoin(c, s, t) ==
  /\ Len(c) = Len(s) + Len(t)
  /\ \A i \in 1..Len(s) : c[i] = s[i]
  /\ \A i \in 1..Len(t) : c[Len(s) + i] = t[i]

LEMMA Joined ==
  ASSUME NEW A, NEW s \in Seq(A), NEW t \in Seq(A)
  PROVE  s \o t \in Seq(A) /\ IsJoin(s \o t, s, t)
<1>1. Len(s) \in Nat /\ Len(t) \in Nat
  OBVIOUS
<1>2. s \o t \in Seq(A) /\ Len(s \o t) = Len(s) + Len(t)
      /\ \A i \in 1..Len(s) + Len(t) : (s \o t)[i] = IF i <= Len(s) THEN s[i]
                                                    ELSE t[i - Len(s)]
  BY ConcatProperties
<1>3. ASSUME NEW i \in 1..Len(s) PROVE (s \o t)[i] = s[i]
  BY <1>1, <1>2
<1>4. ASSUME NEW i \in 1..Len(t) PROVE (s \o t)[Len(s) + i] = t[i]
  <2> DEFINE j == Len(s) + i
             c == s \o t
  <2>1. j \in 1..Len(s) + Len(t) /\ ~(j <= Len(s)) /\ j - Len(s) = i
    BY <1>1
  <2>2. \A k \in 1..Len(s) + Len(t) : c[k] = IF k <= Len(s) THEN s[k] ELSE t[k - Len(s)]
    BY <1>2
  <2> HIDE DEF j, c
  <2>3. c[j] = t[j - Len(s)]
    BY <2>1, <2>2
  <2>4. c[j] = t[i]
    BY <2>1, <2>3
  <2> QED BY <2>4 DEF j, c
<1> QED BY <1>2, <1>3, <1>4 DEF IsJoin

(* The digits of a recording's text: DigitsOf keeps or drops one character     *)
(* after the other.                                                          *)
Keeps(g, s) ==
  g = [n \in 0..Len(s) |-> IF n = 0 THEN <<>>
                           ELSE IF s[n] \in HexDigit THEN Append(g[n - 1], s[n])
                           ELSE g[n - 1]]

LEMMA KeepsExists ==
  ASSUME NEW A, NEW s \in Seq(A)
  PROVE  \E g \in [0..Len(s) -> Seq(HexDigit)] : Keeps(g, s)
<1> DEFINE n == Len(s)
           next == [i \in 1..n |-> [x \in Seq(HexDigit) |->
                      IF s[i] \in HexDigit THEN Append(x, s[i]) ELSE x]]
<1>1. n \in Nat /\ <<>> \in Seq(HexDigit)
  OBVIOUS
<1>2. next \in [1..n -> [Seq(HexDigit) -> Seq(HexDigit)]]
  <2>1. ASSUME NEW i \in 1..n, NEW x \in Seq(HexDigit)
        PROVE  (IF s[i] \in HexDigit THEN Append(x, s[i]) ELSE x) \in Seq(HexDigit)
    BY AppendProperties
  <2> QED BY <2>1
<1>3. PICK g \in [0..n -> Seq(HexDigit)] : Iterates(g, <<>>, next, n)
  <2> HIDE DEF next, n
  <2> QED BY <1>1, <1>2, IterationExists
<1>4. ASSUME NEW i \in 0..n, i # 0
      PROVE  next[i][g[i - 1]] = IF s[i] \in HexDigit THEN Append(g[i - 1], s[i])
                                 ELSE g[i - 1]
  <2>1. i \in 1..n /\ i - 1 \in 0..n
    BY <1>1, <1>4
  <2>2. g[i - 1] \in Seq(HexDigit)
    BY <1>3, <2>1, Zenon
  <2> QED BY <2>1, <2>2, Zenon
<1> HIDE DEF next
<1>5. [i \in 0..n |-> IF i = 0 THEN <<>> ELSE next[i][g[i - 1]]]
      = [i \in 0..n |-> IF i = 0 THEN <<>>
                        ELSE IF s[i] \in HexDigit THEN Append(g[i - 1], s[i])
                        ELSE g[i - 1]]
  BY <1>4, Zenon
<1>6. Keeps(g, s)
  BY <1>3, <1>5, Zenon DEF Iterates, Keeps
<1> QED BY <1>3, <1>6, Zenon

LEMMA KeepsStep ==
  ASSUME NEW s, Len(s) \in Nat, NEW g, Keeps(g, s)
  PROVE  /\ g[0] = <<>>
         /\ \A i \in 1..Len(s) : g[i] = IF s[i] \in HexDigit THEN Append(g[i - 1], s[i])
                                        ELSE g[i - 1]
<1>1. \A i \in 0..Len(s) : g[i] = IF i = 0 THEN <<>>
                                  ELSE IF s[i] \in HexDigit THEN Append(g[i - 1], s[i])
                                  ELSE g[i - 1]
  BY Zenon DEF Keeps
<1>2. 0 \in 0..Len(s) /\ \A i \in 1..Len(s) : i \in 0..Len(s) /\ i # 0
  OBVIOUS
<1> QED BY <1>1, <1>2, Zenon

(* Two that keep the digits of texts with a common beginning agree on it. *)
LEMMA KeepsAgree ==
  ASSUME NEW s, NEW t, Len(s) \in Nat, Len(t) \in Nat, Len(s) <= Len(t),
         \A i \in 1..Len(s) : t[i] = s[i],
         NEW f, Keeps(f, s), NEW g, Keeps(g, t)
  PROVE  f[Len(s)] = g[Len(s)]
<1> DEFINE n == Len(s)
           m == Len(t)
<1>1. f[0] = <<>> /\ \A i \in 1..n : f[i] = IF s[i] \in HexDigit THEN Append(f[i - 1], s[i])
                                            ELSE f[i - 1]
  BY KeepsStep, Zenon
<1>2. g[0] = <<>> /\ \A i \in 1..m : g[i] = IF t[i] \in HexDigit THEN Append(g[i - 1], t[i])
                                            ELSE g[i - 1]
  BY KeepsStep, Zenon
<1>3. \A i \in 1..n : t[i] = s[i]
  OBVIOUS
<1>4. n \in Nat /\ m \in Nat /\ n <= m
  OBVIOUS
<1> HIDE DEF n, m
<1> DEFINE T == {k \in Nat : k <= n => f[k] = g[k]}
<1>5. 0 \in T
  BY <1>1, <1>2, Zenon
<1>6. ASSUME NEW k \in Nat, k \in T PROVE k + 1 \in T
  <2> SUFFICES ASSUME k + 1 <= n PROVE f[k + 1] = g[k + 1]
    OBVIOUS
  <2> DEFINE j == k + 1
  <2>1. j \in 1..n /\ j \in 1..m /\ j - 1 = k /\ k <= n
    BY <1>4
  <2>2. f[k] = g[k]
    BY <1>6, <2>1
  <2> HIDE DEF j
  <2>3. /\ f[j] = IF s[j] \in HexDigit THEN Append(f[j - 1], s[j]) ELSE f[j - 1]
        /\ g[j] = IF s[j] \in HexDigit THEN Append(g[j - 1], s[j]) ELSE g[j - 1]
    BY <1>1, <1>2, <1>3, <2>1, Zenon
  <2>4. f[j] = g[j]
    BY <2>1, <2>2, <2>3, Zenon
  <2> QED BY <2>4 DEF j
<1>7. Nat \subseteq T
  <2> HIDE DEF T
  <2> QED BY <1>5, <1>6, SetInduction
<1>8. f[n] = g[n]
  BY <1>4, <1>7
<1> QED BY <1>8 DEF n

LEMMA DigitsOfIs ==
  ASSUME NEW A, NEW s \in Seq(A)
  PROVE  \E g \in [0..Len(s) -> Seq(HexDigit)] : Keeps(g, s) /\ DigitsOf(s) = g[Len(s)]
<1>1. PICK f \in [0..Len(s) -> Seq(HexDigit)] : Keeps(f, s)
  BY KeepsExists
<1> DEFINE g == CHOOSE h : Keeps(h, s)
<1>2. Keeps(g, s)
  BY <1>1, Zenon
<1>3. DigitsOf(s) = g[Len(s)]
  BY Zenon DEF DigitsOf, Keeps
<1> HIDE DEF g
<1>4. g[Len(s)] = f[Len(s)]
  <2>1. Len(s) \in Nat /\ Len(s) <= Len(s)
    OBVIOUS
  <2> QED BY <1>1, <1>2, <2>1, KeepsAgree, Zenon
<1> QED BY <1>1, <1>3, <1>4

LEMMA DigitsOfNone == DigitsOf(<<>>) = <<>>
<1>1. <<>> \in Seq({}) /\ Len(<<>>) = 0
  OBVIOUS
<1>2. PICK g \in [0..0 -> Seq(HexDigit)] : Keeps(g, <<>>) /\ DigitsOf(<<>>) = g[0]
  BY <1>1, DigitsOfIs
<1>3. g[0] = <<>>
  BY <1>1, <1>2, KeepsStep
<1> QED BY <1>2, <1>3

LEMMA DigitsOfTyped ==
  ASSUME NEW A, NEW s \in Seq(A)
  PROVE  DigitsOf(s) \in Seq(HexDigit)
<1>1. PICK g \in [0..Len(s) -> Seq(HexDigit)] : Keeps(g, s) /\ DigitsOf(s) = g[Len(s)]
  BY DigitsOfIs
<1>2. Len(s) \in 0..Len(s)
  OBVIOUS
<1> QED BY <1>1, <1>2

(* One character more. *)
LEMMA DigitsOfMore ==
  ASSUME NEW A, NEW s \in Seq(A), NEW t \in Seq(A), Len(t) = Len(s) + 1,
         \A i \in 1..Len(s) : t[i] = s[i]
  PROVE  /\ DigitsOf(s) \in Seq(HexDigit)
         /\ DigitsOf(t) = IF t[Len(t)] \in HexDigit THEN Append(DigitsOf(s), t[Len(t)])
                          ELSE DigitsOf(s)
<1> DEFINE n == Len(s)
           m == Len(t)
<1>1. n \in Nat /\ m \in Nat /\ m = n + 1 /\ n <= m
  OBVIOUS
<1>2. PICK f \in [0..n -> Seq(HexDigit)] : Keeps(f, s) /\ DigitsOf(s) = f[n]
  BY DigitsOfIs
<1>3. PICK g \in [0..m -> Seq(HexDigit)] : Keeps(g, t) /\ DigitsOf(t) = g[m]
  BY DigitsOfIs
<1>4. f[n] = g[n]
  BY <1>1, <1>2, <1>3, KeepsAgree
<1>5. \A i \in 1..m : g[i] = IF t[i] \in HexDigit THEN Append(g[i - 1], t[i]) ELSE g[i - 1]
  BY <1>1, <1>3, KeepsStep
<1> HIDE DEF n, m
<1>6. m \in 1..m /\ m - 1 = n /\ n \in 0..n
  BY <1>1
<1>7. g[m] = IF t[m] \in HexDigit THEN Append(g[n], t[m]) ELSE g[n]
  BY <1>5, <1>6, Zenon
<1>8. f[n] \in Seq(HexDigit)
  BY <1>2, <1>6
<1> QED BY <1>2, <1>3, <1>4, <1>7, <1>8, Zenon DEF n, m

(* One text behind another. *)
LEMMA DigitsOfJoin ==
  ASSUME NEW A, NEW s \in Seq(A), NEW t \in Seq(A)
  PROVE  DigitsOf(s \o t) = DigitsOf(s) \o DigitsOf(t)
<1> DEFINE n == Len(t)
           U(k) == SubSeq(t, 1, k)
           T == {k \in Nat : k <= n => DigitsOf(s \o U(k)) = DigitsOf(s) \o DigitsOf(U(k))}
<1>1. n \in Nat
  OBVIOUS
<1>2. DigitsOf(s) \in Seq(HexDigit)
  BY DigitsOfTyped
<1>3. 0 \in T
  <2>1. U(0) = <<>> /\ s \o <<>> = s
    OBVIOUS
  <2>2. DigitsOf(s) \o <<>> = DigitsOf(s)
    BY <1>2
  <2> HIDE DEF U
  <2>3. DigitsOf(s \o U(0)) = DigitsOf(s) \o DigitsOf(U(0))
    BY <2>1, <2>2, DigitsOfNone
  <2> QED BY <2>3
<1>4. ASSUME NEW k \in Nat, k \in T PROVE k + 1 \in T
  <2> SUFFICES ASSUME k + 1 <= n
               PROVE  DigitsOf(s \o U(k + 1)) = DigitsOf(s) \o DigitsOf(U(k + 1))
    OBVIOUS
  <2> DEFINE u == U(k)
             v == U(k + 1)
             x == t[k + 1]
  <2>1. /\ u \in Seq(A) /\ v \in Seq(A) /\ Len(v) = Len(u) + 1 /\ v[Len(v)] = x
        /\ \A i \in 1..Len(u) : v[i] = u[i]
    OBVIOUS
  <2>2. DigitsOf(s \o u) = DigitsOf(s) \o DigitsOf(u)
    BY <1>4
  <2> HIDE DEF u, v, x, T, U
  <2>3. /\ DigitsOf(u) \in Seq(HexDigit)
        /\ DigitsOf(v) = IF x \in HexDigit THEN Append(DigitsOf(u), x) ELSE DigitsOf(u)
    BY <2>1, DigitsOfMore
  <2> DEFINE a == s \o u
             b == s \o v
  <2>4. /\ a \in Seq(A) /\ b \in Seq(A) /\ Len(b) = Len(a) + 1 /\ b[Len(b)] = x
        /\ \A i \in 1..Len(a) : b[i] = a[i]
    <3>8. u \in Seq(A) /\ v \in Seq(A)
      BY <2>1
    <3>9. a \in Seq(A) /\ IsJoin(a, s, u) /\ b \in Seq(A) /\ IsJoin(b, s, v)
      BY <3>8, Joined, Zenon
    <3> HIDE DEF a, b
    <3>1. /\ a \in Seq(A) /\ Len(a) = Len(s) + Len(u)
          /\ \A i \in 1..Len(s) : a[i] = s[i]
          /\ \A i \in 1..Len(u) : a[Len(s) + i] = u[i]
      BY <3>9 DEF IsJoin
    <3>2. /\ b \in Seq(A) /\ Len(b) = Len(s) + Len(v)
          /\ \A i \in 1..Len(s) : b[i] = s[i]
          /\ \A i \in 1..Len(v) : b[Len(s) + i] = v[i]
      BY <3>9 DEF IsJoin
    <3>3. Len(s) \in Nat /\ Len(u) \in Nat
      BY <2>1
    <3>4. b[Len(b)] = x
      <4>1. Len(v) \in 1..Len(v)
        BY <2>1, <3>3
      <4> QED BY <2>1, <3>2, <4>1
    <3>5. ASSUME NEW i \in 1..Len(a) PROVE b[i] = a[i]
      <4>1. CASE i <= Len(s)
        BY <3>1, <3>2, <3>3, <4>1
      <4>2. CASE i > Len(s)
        <5> DEFINE e == i - Len(s)
        <5>1. e \in 1..Len(u) /\ e \in 1..Len(v) /\ i = Len(s) + e
          BY <2>1, <3>1, <3>3, <4>2
        <5> HIDE DEF e
        <5>2. b[Len(s) + e] = v[e] /\ a[Len(s) + e] = u[e] /\ v[e] = u[e]
          BY <2>1, <3>1, <3>2, <5>1, Zenon
        <5> QED BY <5>1, <5>2
      <4> QED BY <3>1, <3>3, <4>1, <4>2
    <3>6. Len(b) = Len(a) + 1
      BY <2>1, <3>1, <3>2, <3>3
    <3> QED BY <3>1, <3>2, <3>4, <3>5, <3>6
  <2>5. a = s \o u /\ b = s \o v
    OBVIOUS
  <2> HIDE DEF a, b
  <2>6. DigitsOf(b) = IF x \in HexDigit THEN Append(DigitsOf(a), x) ELSE DigitsOf(a)
    BY <2>4, DigitsOfMore
  <2>7. x \in HexDigit =>
          Append(DigitsOf(s) \o DigitsOf(u), x) = DigitsOf(s) \o Append(DigitsOf(u), x)
    <3> SUFFICES ASSUME x \in HexDigit
                 PROVE  Append(DigitsOf(s) \o DigitsOf(u), x) = DigitsOf(s) \o Append(DigitsOf(u), x)
      OBVIOUS
    <3> DEFINE d == DigitsOf(s)
               e == DigitsOf(u)
    <3>1. d \in Seq(HexDigit) /\ e \in Seq(HexDigit) /\ <<x>> \in Seq(HexDigit)
      BY <1>2, <2>3
    <3> HIDE DEF d, e
    <3>2. d \o e \in Seq(HexDigit)
      BY <3>1, ConcatProperties
    <3>3. Append(e, x) = e \o <<x>> /\ Append(d \o e, x) = (d \o e) \o <<x>>
      BY <3>1, <3>2, AppendIsConcat
    <3>4. (d \o e) \o <<x>> = d \o (e \o <<x>>)
      BY <3>1, ConcatAssociative
    <3> QED BY <3>3, <3>4 DEF d, e
  <2>8. DigitsOf(b) = DigitsOf(s) \o DigitsOf(v)
    BY <2>2, <2>3, <2>5, <2>6, <2>7, Zenon
  <2> QED BY <2>5, <2>8 DEF v
<1>5. Nat \subseteq T
  <2> HIDE DEF T
  <2> QED BY <1>3, <1>4, SetInduction
<1>6. U(n) = t
  OBVIOUS
<1>7. DigitsOf(s \o U(n)) = DigitsOf(s) \o DigitsOf(U(n))
  BY <1>1, <1>5
<1> HIDE DEF U
<1> QED BY <1>6, <1>7

(* A byte as it is written in a line. *)
Char == HexDigit \cup {Gap}
Chunk(b, spaced) == (IF spaced THEN <<Gap>> ELSE <<>>) \o b

LEMMA ChunkIs ==
  ASSUME NEW b \in HexDigit \X HexDigit, NEW spaced \in BOOLEAN
  PROVE  /\ Chunk(b, spaced) \in Seq(Char) /\ DigitsOf(Chunk(b, spaced)) = b
         /\ b = <<b[1], b[2]>> /\ b[1] \in HexDigit /\ b[2] \in HexDigit
         /\ Len(Chunk(b, spaced)) = IF spaced THEN 3 ELSE 2
         /\ spaced => Chunk(b, spaced)[1] = Gap /\ Chunk(b, spaced)[2] = b[1]
                      /\ Chunk(b, spaced)[3] = b[2]
         /\ ~spaced => Chunk(b, spaced)[1] = b[1] /\ Chunk(b, spaced)[2] = b[2]
<1> DEFINE x == b[1]
           y == b[2]
<1>1. b = <<x, y>> /\ x \in HexDigit /\ y \in HexDigit
  OBVIOUS
<1> HIDE DEF x, y
<1>2. Gap \notin HexDigit
  BY Zenon DEF HexDigit, Gap
<1>3. /\ <<>> \in Seq(Char) /\ <<Gap>> \in Seq(Char) /\ <<x>> \in Seq(Char)
      /\ <<x, y>> \in Seq(Char)
  BY <1>1 DEF Char
<1>4. DigitsOf(<<Gap>>) = <<>>
  <2> DEFINE s == <<>>
             t == <<Gap>>
  <2>1. s \in Seq(Char) /\ t \in Seq(Char) /\ Len(t) = Len(s) + 1 /\ t[Len(t)] = Gap
        /\ \A i \in 1..Len(s) : t[i] = s[i]
    BY <1>3
  <2>2. DigitsOf(s) = <<>>
    BY DigitsOfNone
  <2> HIDE DEF s, t
  <2>3. DigitsOf(t) = <<>>
    BY <1>2, <2>1, <2>2, DigitsOfMore
  <2> QED BY <2>3 DEF t
<1>5. DigitsOf(<<x, y>>) = <<x, y>>
  <2> DEFINE s == <<>>
             t == <<x>>
             u == <<x, y>>
  <2>1. s \in Seq(Char) /\ t \in Seq(Char) /\ Len(t) = Len(s) + 1 /\ t[Len(t)] = x
        /\ \A i \in 1..Len(s) : t[i] = s[i]
    BY <1>3
  <2>2. u \in Seq(Char) /\ Len(u) = Len(t) + 1 /\ u[Len(u)] = y
        /\ \A i \in 1..Len(t) : u[i] = t[i]
    BY <1>3
  <2>3. DigitsOf(s) = s
    BY DigitsOfNone
  <2>4. Append(s, x) = t /\ Append(t, y) = u /\ s = <<>>
    <3>1. Append(s, x) \in Seq(Char) /\ Len(Append(s, x)) = 1 /\ Append(s, x)[1] = x
      BY <1>1, <2>1, AppendProperties DEF Char
    <3>2. Append(t, y) \in Seq(Char) /\ Len(Append(t, y)) = 2 /\ Append(t, y)[1] = x
          /\ Append(t, y)[2] = y
      BY <1>1, <2>1, <2>2, AppendProperties DEF Char
    <3>3. t[1] = x /\ Len(t) = 1 /\ u[1] = x /\ u[2] = y /\ Len(u) = 2
      OBVIOUS
    <3> DEFINE c == Append(s, x)
               e == Append(t, y)
    <3> HIDE DEF t, u, c, e
    <3>4. c = t
      <4>1. c \in Seq(Char) /\ t \in Seq(Char) /\ Len(c) = Len(t)
            /\ \A i \in 1..Len(c) : c[i] = t[i]
        BY <2>1, <3>1, <3>3 DEF c
      <4> QED BY <4>1, SeqEqual
    <3>5. e = u
      <4>1. e \in Seq(Char) /\ u \in Seq(Char) /\ Len(e) = Len(u)
            /\ \A i \in 1..Len(e) : e[i] = u[i]
        BY <2>2, <3>2, <3>3 DEF e
      <4> QED BY <4>1, SeqEqual
    <3> QED BY <3>4, <3>5 DEF c, e
  <2> HIDE DEF s, t, u
  <2>5. DigitsOf(t) = t
    <3>1. DigitsOf(t) = IF t[Len(t)] \in HexDigit THEN Append(DigitsOf(s), t[Len(t)])
                        ELSE DigitsOf(s)
      BY <2>1, DigitsOfMore
    <3> QED BY <1>1, <2>1, <2>3, <2>4, <3>1
  <2>6. DigitsOf(u) = u
    <3>1. DigitsOf(u) = IF u[Len(u)] \in HexDigit THEN Append(DigitsOf(t), u[Len(u)])
                        ELSE DigitsOf(t)
      BY <2>1, <2>2, DigitsOfMore
    <3> QED BY <1>1, <2>2, <2>4, <2>5, <3>1
  <2> QED BY <2>4, <2>6 DEF u
<1>6. CASE spaced
  <2>1. Chunk(b, spaced) = <<Gap>> \o <<x, y>>
    BY <1>1, <1>6 DEF Chunk
  <2>2. DigitsOf(<<Gap>> \o <<x, y>>) = <<>> \o <<x, y>>
    BY <1>3, <1>4, <1>5, DigitsOfJoin
  <2>3. <<>> \o <<x, y>> = <<x, y>>
    OBVIOUS
  <2>4. DigitsOf(Chunk(b, spaced)) = b
    BY <1>1, <2>1, <2>2, <2>3
  <2> DEFINE p == <<Gap>>
             q == <<x, y>>
             c == p \o q
  <2>5. p \in Seq(Char) /\ q \in Seq(Char) /\ Len(p) = 1 /\ Len(q) = 2
        /\ p[1] = Gap /\ q[1] = x /\ q[2] = y
    BY <1>3
  <2>6. c = Chunk(b, spaced)
    BY <2>1
  <2> HIDE DEF p, q
  <2>9. c \in Seq(Char) /\ IsJoin(c, p, q)
    BY <2>5, Joined
  <2> HIDE DEF c
  <2>7. /\ c \in Seq(Char) /\ Len(c) = Len(p) + Len(q)
        /\ \A i \in 1..Len(p) : c[i] = p[i]
        /\ \A i \in 1..Len(q) : c[Len(p) + i] = q[i]
    BY <2>9 DEF IsJoin
  <2>8. Len(c) = 3 /\ c[1] = Gap /\ c[2] = x /\ c[3] = y
    <3>1. 1 \in 1..1 /\ 1 \in 1..2 /\ 2 \in 1..2 /\ 1 + 1 = 2 /\ 1 + 2 = 3
      OBVIOUS
    <3>2. c[1] = p[1] /\ c[1 + 1] = q[1] /\ c[1 + 2] = q[2]
      BY <2>5, <2>7, <3>1
    <3> QED BY <2>5, <2>7, <3>1, <3>2
  <2> QED BY <1>1, <1>6, <2>4, <2>6, <2>7, <2>8 DEF x, y
<1>7. CASE ~spaced
  <2>1. Chunk(b, spaced) = <<x, y>>
    BY <1>1, <1>7 DEF Chunk
  <2> QED BY <1>1, <1>3, <1>5, <1>7, <2>1 DEF x, y
<1> QED BY <1>6, <1>7

(* The bytes of a line as they are written. *)
Body(bytes, spaced) == FlattenSeq([i \in DOMAIN bytes |-> Chunk(bytes[i], spaced)])

LEMMA BodyIs ==
  ASSUME NEW bytes \in Seq(HexDigit \X HexDigit), bytes # <<>>, NEW spaced \in BOOLEAN
  PROVE  LET body == Body(bytes, spaced) IN
         /\ body \in Seq(Char) /\ Len(body) >= 2 /\ PushHexPairs(body) = bytes
         /\ body[Len(body)] \in HexDigit
         /\ IF spaced THEN body[1] = Gap /\ body[2] \in HexDigit ELSE body[1] \in HexDigit
<1> DEFINE n == Len(bytes)
           ss == [i \in DOMAIN bytes |-> Chunk(bytes[i], spaced)]
<1>1. n \in Nat /\ n >= 1 /\ DOMAIN bytes = 1..n
  OBVIOUS
<1>2. \A i \in 1..n : bytes[i] \in HexDigit \X HexDigit
  OBVIOUS
<1>3. ss \in Seq(Seq(Char)) /\ Len(ss) = n /\ \A i \in 1..n : ss[i] = Chunk(bytes[i], spaced)
  <2>1. \A i \in 1..n : Chunk(bytes[i], spaced) \in Seq(Char)
    BY <1>2, ChunkIs
  <2>2. ss = [i \in 1..n |-> Chunk(bytes[i], spaced)]
    BY <1>1
  <2> QED BY <1>1, <2>1, <2>2, IsASeq
<1>4. PICK g \in [0..Len(ss) -> Seq(Char)] : Flattens(g, ss) /\ FlattenSeq(ss) = g[Len(ss)]
  <2> HIDE DEF ss
  <2> QED BY <1>3, FlattenIs
<1>5. g[0] = <<>> /\ \A i \in 1..n : g[i] = g[i - 1] \o ss[i]
  <2> HIDE DEF ss
  <2> QED BY <1>1, <1>3, <1>4, FlattensStep
<1>6. \A i \in 0..n : g[i] \in Seq(Char)
  BY <1>3, <1>4
<1>7. Body(bytes, spaced) = g[n]
  BY <1>3, <1>4 DEF Body
<1> HIDE DEF ss, n
<1> DEFINE D(k) == DigitsOf(g[k])
           Good(k) ==
             /\ D(k) \in Seq(HexDigit) /\ Len(D(k)) = 2 * k
             /\ \A i \in 1..k : D(k)[2*i - 1] = bytes[i][1] /\ D(k)[2*i] = bytes[i][2]
             /\ k >= 1 => /\ Len(g[k]) >= 2 /\ g[k][Len(g[k])] \in HexDigit
                          /\ IF spaced THEN g[k][1] = Gap /\ g[k][2] \in HexDigit
                             ELSE g[k][1] \in HexDigit
           T == {k \in Nat : k <= n => Good(k)}
<1>8. 0 \in T
  <2>1. D(0) = <<>>
    BY <1>5, DigitsOfNone
  <2>2. <<>> \in Seq(HexDigit) /\ Len(<<>>) = 2 * 0
    OBVIOUS
  <2> HIDE DEF D
  <2>3. D(0) \in Seq(HexDigit) /\ Len(D(0)) = 2 * 0
    BY <2>1, <2>2
  <2>4. Good(0)
    BY <2>3
  <2> HIDE DEF Good
  <2> QED BY <2>4
<1>9. ASSUME NEW k \in Nat, k \in T PROVE k + 1 \in T
  <2> SUFFICES ASSUME k + 1 <= n PROVE Good(k + 1)
    OBVIOUS
  <2> DEFINE j == k + 1
             c == Chunk(bytes[j], spaced)
             b == bytes[j]
  <2>1. j \in 1..n /\ j - 1 = k /\ k \in 0..n /\ j \in Nat
    BY <1>1
  <2>2. Good(k)
    BY <1>9, <2>1
  <2>3. g[j] = g[k] \o c
    BY <1>3, <1>5, <2>1
  <2>4. /\ c \in Seq(Char) /\ DigitsOf(c) = b /\ b = <<b[1], b[2]>>
        /\ b[1] \in HexDigit /\ b[2] \in HexDigit /\ Len(c) = IF spaced THEN 3 ELSE 2
        /\ spaced => c[1] = Gap /\ c[2] = b[1] /\ c[3] = b[2]
        /\ ~spaced => c[1] = b[1] /\ c[2] = b[2]
    BY <1>2, <2>1, ChunkIs
  <2>5. g[k] \in Seq(Char)
    BY <1>6, <2>1
  <2> DEFINE h == g[k]
             d == D(k)
  <2> HIDE DEF c
  <2>6. D(j) = d \o <<b[1], b[2]>>
    <3>1. DigitsOf(h \o c) = DigitsOf(h) \o DigitsOf(c)
      BY <2>4, <2>5, DigitsOfJoin
    <3> QED BY <2>3, <2>4, <3>1
  <2>7. d \in Seq(HexDigit) /\ Len(d) = 2 * k
        /\ \A i \in 1..k : d[2*i - 1] = bytes[i][1] /\ d[2*i] = bytes[i][2]
    BY <2>2
  <2>8. k >= 1 => /\ Len(h) >= 2 /\ IF spaced THEN h[1] = Gap /\ h[2] \in HexDigit
                                    ELSE h[1] \in HexDigit
    BY <2>2
  <2>9. Len(g[j]) >= 2 /\ g[j][Len(g[j])] \in HexDigit
        /\ IF spaced THEN g[j][1] = Gap /\ g[j][2] \in HexDigit ELSE g[j][1] \in HexDigit
    <3>1. CASE k = 0
      <4>1. h = <<>>
        BY <1>5, <3>1
      <4>2. g[j] = c
        BY <2>3, <2>4, <4>1
      <4> QED BY <2>4, <4>2
    <3>2. CASE k >= 1
      <4> HIDE DEF h
      <4>0. h \in Seq(Char) /\ g[j] = h \o c
        BY <2>3, <2>5 DEF h
      <4>1. /\ Len(g[j]) = Len(h) + Len(c)
            /\ g[j][1] = h[1] /\ g[j][2] = h[2] /\ g[j][Len(h) + Len(c)] = c[Len(c)]
        <5>0. h \o c \in Seq(Char) /\ IsJoin(h \o c, h, c)
          BY <2>4, <4>0, Joined
        <5>1. /\ Len(h \o c) = Len(h) + Len(c)
              /\ \A i \in 1..Len(h) : (h \o c)[i] = h[i]
              /\ \A i \in 1..Len(c) : (h \o c)[Len(h) + i] = c[i]
          BY <5>0 DEF IsJoin
        <5>2. 1 \in 1..Len(h) /\ 2 \in 1..Len(h) /\ Len(c) \in 1..Len(c)
          BY <2>4, <2>8, <3>2, <4>0
        <5> QED BY <4>0, <5>1, <5>2
      <4>2. c[Len(c)] \in HexDigit
        BY <2>4
      <4> QED BY <2>4, <2>8, <3>2, <4>0, <4>1, <4>2
    <3> QED BY <3>1, <3>2
  <2>10. /\ D(j) \in Seq(HexDigit) /\ Len(D(j)) = 2 * j
         /\ \A i \in 1..j : D(j)[2*i - 1] = bytes[i][1] /\ D(j)[2*i] = bytes[i][2]
    <3> DEFINE e == D(j)
               x == b[1]
               y == b[2]
    <3>0. x \in HexDigit /\ y \in HexDigit /\ e = d \o <<x, y>>
      BY <2>4, <2>6
    <3> HIDE DEF d, e, x, y, D
    <3>1. e \in Seq(HexDigit) /\ Len(e) = 2 * k + 2
          /\ (\A i \in 1..(2 * k) : e[i] = d[i]) /\ e[2 * k + 1] = x /\ e[2 * k + 2] = y
      <4> DEFINE m == 2 * k
                 p == <<x, y>>
      <4>1. m \in Nat /\ Len(d) = m /\ d \in Seq(HexDigit)
        BY <2>7
      <4>2. p \in Seq(HexDigit) /\ Len(p) = 2 /\ p[1] = x /\ p[2] = y /\ e = d \o p
        BY <3>0
      <4> HIDE DEF m, p
      <4>3. e \in Seq(HexDigit) /\ Len(e) = m + 2
            /\ (\A i \in 1..m : e[i] = d[i]) /\ e[m + 1] = p[1] /\ e[m + 2] = p[2]
        <5>0. d \o p \in Seq(HexDigit) /\ IsJoin(d \o p, d, p)
          BY <4>1, <4>2, Joined
        <5>1. /\ Len(d \o p) = Len(d) + Len(p)
              /\ \A i \in 1..Len(d) : (d \o p)[i] = d[i]
              /\ \A i \in 1..Len(p) : (d \o p)[Len(d) + i] = p[i]
          BY <5>0 DEF IsJoin
        <5>2. 1 \in 1..Len(p) /\ 2 \in 1..Len(p)
          BY <4>2
        <5> QED BY <4>1, <4>2, <5>0, <5>1, <5>2
      <4> QED BY <4>2, <4>3 DEF m
    <3>2. ASSUME NEW i \in 1..j PROVE e[2*i - 1] = bytes[i][1] /\ e[2*i] = bytes[i][2]
      <4>1. CASE i = j
        <5>1. 2*i - 1 = 2*k + 1 /\ 2*i = 2*k + 2
          BY <2>1, <4>1
        <5> QED BY <3>1, <4>1, <5>1 DEF x, y
      <4>2. CASE i # j
        <5>1. i \in 1..k /\ 2*i - 1 \in 1..(2*k) /\ 2*i \in 1..(2*k)
          BY <2>1, <4>2
        <5> QED BY <2>7, <3>1, <5>1
      <4> QED BY <4>1, <4>2
    <3>3. Len(e) = 2 * j
      BY <2>1, <3>1
    <3> QED BY <3>1, <3>2, <3>3 DEF e
  <2> HIDE DEF D
  <2>11. Good(j)
    BY <2>9, <2>10
  <2> QED BY <2>11 DEF j
<1>10. Nat \subseteq T
  <2> HIDE DEF T
  <2> QED BY <1>8, <1>9, SetInduction
<1>11. Good(n)
  <2> HIDE DEF Good
  <2> QED BY <1>1, <1>10
<1>12. PushHexPairs(g[n]) = bytes
  <2> DEFINE h == DigitsOf(g[n])
  <2>1. Len(h) = 2 * n /\ \A i \in 1..n : h[2*i - 1] = bytes[i][1] /\ h[2*i] = bytes[i][2]
    BY <1>11
  <2> HIDE DEF h
  <2>2. Len(h) \div 2 = n
    BY <1>1, <2>1
  <2>3. \A i \in 1..n : <<h[2*i - 1], h[2*i]>> = bytes[i]
    <3> SUFFICES ASSUME NEW i \in 1..n PROVE <<h[2*i - 1], h[2*i]>> = bytes[i]
      OBVIOUS
    <3>1. bytes[i] = <<bytes[i][1], bytes[i][2]>>
      BY <1>2
    <3> QED BY <2>1, <3>1
  <2>4. [i \in 1..n |-> <<h[2*i - 1], h[2*i]>>] = bytes
    <3>1. bytes = [i \in 1..n |-> bytes[i]]
      BY <1>1
    <3> QED BY <2>3, <3>1, Zenon
  <2>5. PushHexPairs(g[n]) = [i \in 1..(Len(h) \div 2) |-> <<h[2*i - 1], h[2*i]>>]
    BY DEF PushHexPairs, h
  <2> QED BY <2>2, <2>4, <2>5
<1>13. /\ g[n] \in Seq(Char) /\ Len(g[n]) >= 2 /\ g[n][Len(g[n])] \in HexDigit
       /\ IF spaced THEN g[n][1] = Gap /\ g[n][2] \in HexDigit ELSE g[n][1] \in HexDigit
  <2>1. g[n] \in Seq(Char) /\ n >= 1
    BY <1>1, <1>6
  <2> HIDE DEF D
  <2> QED BY <1>11, <2>1, Zenon
<1> QED BY <1>7, <1>12, <1>13

(* What Trim, FirstOf and LastOf find. *)
LEMMA MinIs ==
  ASSUME NEW S, S \subseteq Int, NEW x \in S, \A y \in S : x <= y
  PROVE  Min(S) = x
<1>1. \A z \in S : (\A y \in S : z <= y) => z = x
  OBVIOUS
<1> QED BY <1>1 DEF Min

LEMMA MaxIs ==
  ASSUME NEW S, S \subseteq Int, NEW x \in S, \A y \in S : x >= y
  PROVE  Max(S) = x
<1>1. \A z \in S : (\A y \in S : z >= y) => z = x
  OBVIOUS
<1> QED BY <1>1 DEF Max

LEMMA FirstIs ==
  ASSUME NEW mark, NEW t, Len(t) \in Nat, NEW i \in 1..Len(t), t[i] = mark,
         \A j \in 1..(i - 1) : t[j] # mark
  PROVE  FirstOf(mark, t) = i
<1> DEFINE S == {j \in 1..Len(t) : t[j] = mark}
<1>1. S \subseteq Int /\ i \in S /\ \A y \in S : i <= y
  OBVIOUS
<1>2. FirstOf(mark, t) = IF S # {} THEN Min(S) ELSE 0
  BY DEF FirstOf, SelectInSeq
<1> HIDE DEF S
<1>3. Min(S) = i
  BY <1>1, MinIs
<1> QED BY <1>1, <1>2, <1>3

LEMMA FirstNone ==
  ASSUME NEW mark, NEW t, \A j \in 1..Len(t) : t[j] # mark
  PROVE  FirstOf(mark, t) = 0
<1> DEFINE S == {j \in 1..Len(t) : t[j] = mark}
<1>1. S = {}
  OBVIOUS
<1>2. FirstOf(mark, t) = IF S # {} THEN Min(S) ELSE 0
  BY DEF FirstOf, SelectInSeq
<1> QED BY <1>1, <1>2

LEMMA LastIs ==
  ASSUME NEW mark, NEW t, Len(t) \in Nat, NEW i \in 1..Len(t), t[i] = mark,
         \A j \in (i + 1)..Len(t) : t[j] # mark
  PROVE  LastOf(mark, t) = i
<1> DEFINE S == {j \in 1..Len(t) : t[j] = mark}
<1>1. S \subseteq Int /\ i \in S /\ \A y \in S : i >= y
  OBVIOUS
<1>2. LastOf(mark, t) = IF S # {} THEN Max(S) ELSE 0
  BY DEF LastOf, SelectLastInSeq
<1> HIDE DEF S
<1>3. Max(S) = i
  BY <1>1, MaxIs
<1> QED BY <1>1, <1>2, <1>3

LEMMA LastNone ==
  ASSUME NEW mark, NEW t, \A j \in 1..Len(t) : t[j] # mark
  PROVE  LastOf(mark, t) = 0
<1> DEFINE S == {j \in 1..Len(t) : t[j] = mark}
<1>1. S = {}
  OBVIOUS
<1>2. LastOf(mark, t) = IF S # {} THEN Max(S) ELSE 0
  BY DEF LastOf, SelectLastInSeq
<1> QED BY <1>1, <1>2

LEMMA TrimIs ==
  ASSUME NEW A, NEW t \in Seq(A), NEW a \in 1..Len(t), NEW b \in 1..Len(t),
         t[a] # Gap, t[b] # Gap, \A i \in 1..Len(t) : i < a \/ i > b => t[i] = Gap
  PROVE  Trim(t) = SubSeq(t, a, b)
<1> DEFINE n == Len(t)
           S == {i \in 1..n : t[i] # Gap}
<1>1. n \in Nat /\ DOMAIN t = 1..n
  OBVIOUS
<1>2. Trim(t) = IF S = {} THEN <<>> ELSE SubSeq(t, Min(S), Max(S))
  BY <1>1, Zenon DEF Trim, Gap
<1>3. \A i \in 1..n : t[i] # Gap => a <= i /\ i <= b
  OBVIOUS
<1>4. a \in S /\ b \in S
  OBVIOUS
<1> HIDE DEF n
<1>5. S \subseteq Int /\ (\A y \in S : a <= y) /\ \A y \in S : b >= y
  BY <1>1, <1>3
<1> HIDE DEF S
<1>6. Min(S) = a /\ Max(S) = b
  BY <1>4, <1>5, MinIs, MaxIs
<1> QED BY <1>2, <1>4, <1>6

LEMMA TrimNone ==
  ASSUME NEW t, \A i \in DOMAIN t : t[i] = Gap
  PROVE  Trim(t) = <<>>
BY Zenon DEF Trim, Gap

(* A text that neither begins nor ends with a blank. *)
LEMMA TrimWhole ==
  ASSUME NEW A, NEW t \in Seq(A), Len(t) >= 1, t[1] # Gap, t[Len(t)] # Gap
  PROVE  Trim(t) = t
<1> DEFINE n == Len(t)
<1>1. n \in Nat /\ n >= 1 /\ t[1] # Gap /\ t[n] # Gap
  OBVIOUS
<1>2. SubSeq(t, 1, n) = t
  OBVIOUS
<1>3. 1 \in 1..n /\ n \in 1..n /\ \A i \in 1..n : i < 1 \/ i > n => t[i] = Gap
  <2> HIDE DEF n
  <2> QED BY <1>1
<1>4. Trim(t) = SubSeq(t, 1, n)
  BY <1>1, <1>3, TrimIs
<1> QED BY <1>2, <1>4

(* A text with a blank before it. *)
LEMMA TrimAhead ==
  ASSUME NEW A, NEW t \in Seq(A), Len(t) >= 2, t[1] = Gap, t[2] # Gap, t[Len(t)] # Gap
  PROVE  Trim(t) = Tail(t)
<1> DEFINE n == Len(t)
<1>1. n \in Nat /\ n >= 2 /\ t[1] = Gap /\ t[2] # Gap /\ t[n] # Gap
  OBVIOUS
<1>2. SubSeq(t, 2, n) = Tail(t)
  OBVIOUS
<1>3. 2 \in 1..n /\ n \in 1..n /\ \A i \in 1..n : i < 2 \/ i > n => t[i] = Gap
  <2> HIDE DEF n
  <2> QED BY <1>1
<1>4. Trim(t) = SubSeq(t, 2, n)
  BY <1>1, <1>3, TrimIs
<1> QED BY <1>2, <1>4

(* What is left begins with the first word. *)
LEMMA TrimFirst ==
  ASSUME NEW A, NEW t \in Seq(A), Len(t) >= 1, t[1] # Gap
  PROVE  Trim(t) # <<>> /\ Trim(t)[1] = t[1]
<1> DEFINE n == Len(t)
           S == {i \in 1..n : t[i] # Gap}
<1>1. n \in Nat /\ n >= 1 /\ DOMAIN t = 1..n /\ t[1] # Gap
  OBVIOUS
<1>2. Trim(t) = IF S = {} THEN <<>> ELSE SubSeq(t, Min(S), Max(S))
  BY <1>1, Zenon DEF Trim, Gap
<1> HIDE DEF n
<1>3. S \subseteq 0..n /\ 1 \in S /\ \A y \in S : 1 <= y /\ y <= n
  BY <1>1
<1> HIDE DEF S
<1>4. PICK b \in S : \A y \in S : b >= y
  BY <1>1, <1>3, GreatestNatural
<1>5. S \subseteq Int /\ S # {} /\ b \in 1..n
  BY <1>1, <1>3, <1>4
<1>6. Min(S) = 1
  BY <1>3, <1>5, MinIs
<1>7. Max(S) = b
  BY <1>4, <1>5, MaxIs
<1>8. Trim(t) = SubSeq(t, 1, b)
  BY <1>2, <1>5, <1>6, <1>7
<1>9. SubSeq(t, 1, b) # <<>> /\ SubSeq(t, 1, b)[1] = t[1]
  <2>1. b \in 1..Len(t)
    BY <1>5 DEF n
  <2>2. SubSeq(t, 1, b) = [i \in 1..b |-> t[i]] /\ 1 \in 1..b
    BY <2>1
  <2> QED BY <2>1, <2>2
<1> QED BY <1>8, <1>9

(* The characters of an address, of bytes and of comment marks. *)
LEMMA CharFacts ==
  /\ Gap \notin HexDigit /\ Gap \notin AddressDigit /\ Gap \notin Comments
  /\ ":" \notin Char /\ ":" \notin AddressDigit
  /\ "<" \notin Char /\ "<" \notin AddressDigit /\ "<" \notin Comments /\ "<" # Gap
  /\ \A c \in HexDigit : c \in AddressDigit /\ c \in Char
  /\ \A c \in AddressDigit : c \notin Comments /\ c # Gap /\ c # ":" /\ c # "<"
  /\ \A c \in Char : c # ":" /\ c # "<"
  /\ Char = HexDigit \cup {Gap}
<1>1. Gap \notin HexDigit /\ Gap \notin Comments /\ Gap # "x" /\ Gap # ":" /\ Gap # "<"
  BY Zenon DEF Gap, HexDigit, Comments
<1>2. /\ \A c \in HexDigit : c \notin Comments /\ c # ":" /\ c # "<"
      /\ "x" \notin Comments /\ "x" # ":" /\ "x" # "<" /\ "<" \notin Comments
  BY DEF HexDigit, Comments
<1> QED BY <1>1, <1>2, Zenon DEF Char, AddressDigit

(* Lines without bytes. *)
LEMMA RemarkHasNone ==
  ASSUME NEW r \in Seq(STRING), IsRemark(r)
  PROVE  BytesOf(r) = <<>>
<1>1. Len(r) \in Nat /\ DOMAIN r = 1..Len(r)
  OBVIOUS
<1>2. CASE \A i \in DOMAIN r : r[i] = " "
  <2>1. Trim(r) = <<>>
    BY <1>2, TrimNone, Zenon DEF Gap
  <2> QED BY <2>1, Zenon DEF BytesOf
<1>3. CASE r[1] \in Comments /\ r # <<>>
  <2>1. Len(r) >= 1
    BY <1>1, <1>3
  <2>2. r[1] # Gap
    BY <1>3, CharFacts, Zenon
  <2>3. Trim(r) # <<>> /\ Trim(r)[1] = r[1]
    BY <2>1, <2>2, TrimFirst
  <2> QED BY <1>3, <2>3, Zenon DEF BytesOf
<1>4. CASE r = <<>>
  <2>1. \A i \in DOMAIN r : r[i] = " "
    <3>1. DOMAIN r = {}
      BY <1>4
    <3> QED BY <3>1, Zenon
  <2> QED BY <1>2, <2>1
<1> QED BY <1>2, <1>3, <1>4, Zenon DEF IsRemark

(* Bytes without an address: a blank before the first is trimmed.  *)
LEMMA BodyTrimmed ==
  ASSUME NEW bytes \in Seq(HexDigit \X HexDigit), bytes # <<>>, NEW spaced \in BOOLEAN
  PROVE  LET s == Trim(Body(bytes, spaced)) IN
         s \in Seq(Char) /\ Len(s) >= 1 /\ s[1] \in HexDigit /\ PushHexPairs(s) = bytes
<1> DEFINE body == Body(bytes, spaced)
           n == Len(body)
<1>1. /\ body \in Seq(Char) /\ n >= 2 /\ PushHexPairs(body) = bytes /\ body[n] \in HexDigit
      /\ IF spaced THEN body[1] = Gap /\ body[2] \in HexDigit ELSE body[1] \in HexDigit
  BY BodyIs, Zenon
<1> HIDE DEF body
<1>2. body[n] # Gap
  BY <1>1, CharFacts, Zenon
<1>3. n \in Nat
  BY <1>1
<1>4. CASE spaced
  <2>1. body[1] = Gap /\ body[2] \in HexDigit
    BY <1>1, <1>4, Zenon
  <2>2. body[2] # Gap
    BY <2>1, CharFacts, Zenon
  <2>3. Trim(body) = Tail(body)
    BY <1>1, <1>2, <2>1, <2>2, TrimAhead
  <2> DEFINE s == Tail(body)
             g == <<Gap>>
  <2>4. s \in Seq(Char) /\ Len(s) = n - 1 /\ s[1] = body[2]
        /\ \A i \in 1..Len(s) : s[i] = body[i + 1]
    BY <1>1
  <2>5. g \in Seq(Char) /\ Len(g) = 1 /\ g[1] = Gap
    BY CharFacts
  <2>6. DigitsOf(g) = <<>>
    <3> DEFINE e == <<>>
    <3>1. e \in Seq(Char) /\ Len(g) = Len(e) + 1 /\ \A i \in 1..Len(e) : g[i] = e[i]
      BY <2>5
    <3>2. DigitsOf(e) = <<>>
      BY DigitsOfNone
    <3> HIDE DEF e, g
    <3>3. DigitsOf(g) = IF g[Len(g)] \in HexDigit THEN Append(DigitsOf(e), g[Len(g)])
                        ELSE DigitsOf(e)
      BY <2>5, <3>1, DigitsOfMore
    <3>4. g[Len(g)] = Gap
      BY <2>5
    <3> QED BY <3>2, <3>3, <3>4, CharFacts, Zenon
  <2> HIDE DEF s, g
  <2>7. g \o s \in Seq(Char) /\ IsJoin(g \o s, g, s)
    BY <2>4, <2>5, Joined
  <2>8. g \o s = body
    <3> DEFINE c == g \o s
    <3>1. c \in Seq(Char) /\ Len(c) = Len(g) + Len(s)
          /\ (\A i \in 1..Len(g) : c[i] = g[i]) /\ \A i \in 1..Len(s) : c[Len(g) + i] = s[i]
      BY <2>7 DEF IsJoin
    <3> HIDE DEF c
    <3>2. Len(c) = n
      BY <1>3, <2>4, <2>5, <3>1
    <3>3. ASSUME NEW i \in 1..Len(c) PROVE c[i] = body[i]
      <4>1. CASE i = 1
        BY <1>1, <2>1, <2>5, <3>1, <4>1
      <4>2. CASE i # 1
        <5> DEFINE j == i - 1
        <5>1. j \in 1..Len(s) /\ i = 1 + j /\ i = j + 1
          BY <1>3, <2>4, <3>2, <4>2
        <5> HIDE DEF j
        <5>2. c[Len(g) + j] = s[j] /\ s[j] = body[j + 1]
          BY <2>4, <3>1, <5>1, Zenon
        <5> QED BY <2>5, <5>1, <5>2
      <4> QED BY <4>1, <4>2
    <3>4. c = body
      BY <1>1, <3>1, <3>2, <3>3, SeqEqual
    <3> QED BY <3>4 DEF c
  <2>9. DigitsOf(body) = DigitsOf(g) \o DigitsOf(s)
    BY <2>4, <2>5, <2>8, DigitsOfJoin
  <2>10. DigitsOf(s) \in Seq(HexDigit)
    BY <2>4, DigitsOfTyped
  <2>11. DigitsOf(body) = DigitsOf(s)
    BY <2>6, <2>9, <2>10
  <2>12. PushHexPairs(s) = PushHexPairs(body)
    BY <2>11, Zenon DEF PushHexPairs
  <2>13. Len(s) >= 1
    BY <1>1, <1>3, <2>4
  <2>14. Trim(body) = s
    BY <2>3 DEF s
  <2> QED BY <1>1, <2>1, <2>4, <2>12, <2>13, <2>14 DEF body
<1>5. CASE ~spaced
  <2>1. body[1] \in HexDigit
    BY <1>1, <1>5, Zenon
  <2>2. body[1] # Gap
    BY <2>1, CharFacts, Zenon
  <2>3. Len(body) >= 1
    BY <1>1, <1>3
  <2>4. Trim(body) = body
    BY <1>1, <1>2, <2>2, <2>3, TrimWhole
  <2> QED BY <1>1, <2>1, <2>3, <2>4 DEF body
<1> QED BY <1>4, <1>5

(* A line that begins with neither a mark nor a blank. *)
LEMMA BytesOfStripped ==
  ASSUME NEW line, Trim(line) # <<>>, Trim(line)[1] \notin Comments
  PROVE  BytesOf(line) = PushHexPairs(StripDumpPrefix(Trim(line)))
BY Zenon DEF BytesOf

LEMMA NoColon ==
  ASSUME NEW s \in Seq(Char)
  PROVE  FirstOf(":", s) = 0
<1>1. \A j \in 1..Len(s) : s[j] \in Char
  OBVIOUS
<1>2. \A j \in 1..Len(s) : s[j] # ":"
  BY <1>1, CharFacts, Zenon
<1> QED BY <1>2, FirstNone

LEMMA PlainLine ==
  ASSUME NEW bytes \in Seq(HexDigit \X HexDigit), bytes # <<>>, NEW spaced \in BOOLEAN
  PROVE  BytesOf(Body(bytes, spaced)) = bytes
<1> DEFINE body == Body(bytes, spaced)
           s == Trim(body)
<1>1. s \in Seq(Char) /\ Len(s) >= 1 /\ s[1] \in HexDigit /\ PushHexPairs(s) = bytes
  BY BodyTrimmed, Zenon
<1> HIDE DEF s
<1>2. s # <<>>
  BY <1>1
<1>3. s[1] \notin Comments /\ s[1] # "<"
  BY <1>1, CharFacts, Zenon
<1>4. StripDumpPrefix(s) = s
  <2>1. FirstOf(":", s) = 0
    BY <1>1, NoColon
  <2> QED BY <1>3, <2>1, Zenon DEF StripDumpPrefix
<1>5. BytesOf(body) = PushHexPairs(StripDumpPrefix(s))
  BY <1>2, <1>3, BytesOfStripped, Zenon DEF s
<1> QED BY <1>1, <1>4, <1>5 DEF body


(* A line with an address in front of its bytes, of the two forms. *)
Text == STRING \cup Char

LEMMA BehindAddress ==
  ASSUME NEW p \in Seq(Text), NEW b \in Seq(Text), Len(p) >= 1, Len(b) >= 1
  PROVE  LET line == p \o b IN
         /\ line \in Seq(Text) /\ Len(line) = Len(p) + Len(b)
         /\ line[1] = p[1] /\ line[Len(line)] = b[Len(b)]
         /\ \A i \in 1..Len(p) : line[i] = p[i]
         /\ After(Len(p), line) = b
<1> DEFINE line == p \o b
<1>1. line \in Seq(Text) /\ IsJoin(line, p, b)
  BY Joined
<1>2. Len(p) \in Nat /\ Len(b) \in Nat
  OBVIOUS
<1> HIDE DEF line
<1>3. /\ Len(line) = Len(p) + Len(b) /\ (\A i \in 1..Len(p) : line[i] = p[i])
      /\ \A i \in 1..Len(b) : line[Len(p) + i] = b[i]
  BY <1>1 DEF IsJoin
<1>4. line[1] = p[1] /\ line[Len(line)] = b[Len(b)]
  BY <1>2, <1>3
<1> DEFINE a == After(Len(p), line)
<1>5. a = SubSeq(line, Len(p) + 1, Len(line))
  BY DEF After
<1> HIDE DEF a
<1>6. /\ a \in Seq(Text) /\ Len(a) = Len(b)
      /\ \A i \in 1..Len(b) : a[i] = line[Len(p) + i]
  <2> DEFINE m == Len(p) + 1
             n == Len(line)
  <2>1. m \in Int /\ n \in Int /\ m <= n /\ n - m + 1 = Len(b) /\ m >= 1
    BY <1>2, <1>3
  <2>2. \A i \in m..n : line[i] \in Text
    BY <1>1, <2>1
  <2> HIDE DEF m, n
  <2>3. /\ SubSeq(line, m, n) \in Seq(Text) /\ Len(SubSeq(line, m, n)) = n - m + 1
        /\ \A i \in 1..(n - m + 1) : SubSeq(line, m, n)[i] = line[m + i - 1]
    BY <2>1, <2>2, SubSeqProperties
  <2>4. \A i \in 1..Len(b) : m + i - 1 = Len(p) + i
    BY <1>2 DEF m
  <2>5. a = SubSeq(line, m, n)
    BY <1>5 DEF m, n
  <2>6. \A i \in 1..Len(b) : a[i] = line[Len(p) + i]
    BY <2>1, <2>3, <2>4, <2>5
  <2> QED BY <2>1, <2>3, <2>5, <2>6
<1>7. a = b
  <2>1. \A i \in 1..Len(a) : a[i] = b[i]
    BY <1>3, <1>6
  <2> QED BY <1>6, <2>1, SeqEqual
<1> QED BY <1>1, <1>3, <1>4, <1>7 DEF line, a

(* "0010:" *)
LEMMA ColonLine ==
  ASSUME NEW p \in Seq(Text), Len(p) > 1, p[Len(p)] = ":",
         \A i \in 1..(Len(p) - 1) : p[i] \in AddressDigit,
         NEW body \in Seq(Char), Len(body) >= 1, body[Len(body)] \in HexDigit
  PROVE  BytesOf(p \o body) = PushHexPairs(body)
<1> DEFINE line == p \o body
           m == Len(p)
<1>1. m \in Nat /\ m > 1 /\ p[m] = ":"
  OBVIOUS
<1>2. \A i \in 1..(m - 1) : p[i] \in AddressDigit
  OBVIOUS
<1>3. body \in Seq(Text)
  <2>1. Char \subseteq Text
    BY DEF Text
  <2> QED BY <2>1, SeqMonotonic
<1>4. /\ line \in Seq(Text) /\ Len(line) = Len(p) + Len(body)
      /\ line[1] = p[1] /\ line[Len(line)] = body[Len(body)]
      /\ \A i \in 1..Len(p) : line[i] = p[i]
      /\ After(Len(p), line) = body
  <2>1. Len(p) >= 1
    BY <1>1
  <2> QED BY <1>3, <2>1, BehindAddress
<1> HIDE DEF line
<1>5. line[1] \in AddressDigit
  BY <1>1, <1>2, <1>4
<1>6. line[1] # Gap /\ line[1] # "<" /\ line[1] \notin Comments /\ line[Len(line)] # Gap
  <2>1. body[Len(body)] \in HexDigit
    OBVIOUS
  <2> QED BY <1>4, <1>5, <2>1, CharFacts, Zenon
<1>7. Len(line) >= 1
  BY <1>1, <1>4
<1>8. Trim(line) = line
  BY <1>4, <1>6, <1>7, TrimWhole
<1>9. FirstOf(":", line) = m
  <2>1. m \in 1..Len(line) /\ Len(line) \in Nat /\ line[m] = ":"
    BY <1>1, <1>4
  <2>2. \A j \in 1..(m - 1) : line[j] \in AddressDigit
    BY <1>1, <1>2, <1>4
  <2>3. \A j \in 1..(m - 1) : line[j] # ":"
    BY <2>2, CharFacts, Zenon
  <2> HIDE DEF m
  <2> QED BY <2>1, <2>3, FirstIs
<1>10. ToSet(Before(m, line)) \subseteq HexDigit \cup {"x"}
  <2>1. Before(m, line) = SubSeq(line, 1, m - 1)
    BY DEF Before
  <2>2. \A i \in 1..(m - 1) : line[i] \in AddressDigit
    BY <1>1, <1>2, <1>4
  <2> HIDE DEF m
  <2> DEFINE q == SubSeq(line, 1, m - 1)
  <2>3. q \in Seq(AddressDigit)
    <3>1. 1 \in Int /\ m - 1 \in Int
      BY <1>1
    <3> QED BY <2>2, <3>1, SubSeqProperties
  <2> HIDE DEF q
  <2>4. \A i \in DOMAIN q : q[i] \in AddressDigit
    BY <2>3
  <2>5. ToSet(q) \subseteq AddressDigit
    BY <2>4 DEF ToSet
  <2> QED BY <2>1, <2>5, Zenon DEF AddressDigit, q
<1>11. StripDumpPrefix(line) = body
  <2>1. m # 0
    BY <1>1
  <2>2. After(m, line) = body
    BY <1>4
  <2> HIDE DEF m
  <2> QED BY <1>6, <1>9, <1>10, <2>1, <2>2, Zenon DEF StripDumpPrefix
<1>12. line # <<>>
  BY <1>7
<1>13. BytesOf(line) = PushHexPairs(StripDumpPrefix(line))
  BY <1>6, <1>8, <1>12, BytesOfStripped, Zenon
<1> QED BY <1>11, <1>13 DEF line

(* "< 0x10 " *)
LEMMA AngleLine ==
  ASSUME NEW p \in Seq(Text), Len(p) > 3, p[1] = "<", p[2] = Gap, p[Len(p)] = Gap,
         \A i \in 3..(Len(p) - 1) : p[i] \in AddressDigit,
         NEW body \in Seq(Char), Len(body) >= 1, body[Len(body)] \in HexDigit,
         Trim(body) \in Seq(Char)
  PROVE  BytesOf(p \o body) = PushHexPairs(Trim(body))
<1> DEFINE line == p \o body
           m == Len(p)
           n == Len(line)
<1>1. m \in Nat /\ m > 3 /\ p[1] = "<" /\ p[2] = Gap /\ p[m] = Gap
  OBVIOUS
<1>2. \A i \in 3..(m - 1) : p[i] \in AddressDigit
  OBVIOUS
<1>3. body \in Seq(Text)
  <2>1. Char \subseteq Text
    BY DEF Text
  <2> QED BY <2>1, SeqMonotonic
<1>4. /\ line \in Seq(Text) /\ n = m + Len(body)
      /\ line[1] = p[1] /\ line[n] = body[Len(body)]
      /\ \A i \in 1..m : line[i] = p[i]
      /\ After(m, line) = body
  <2>1. Len(p) >= 1
    BY <1>1
  <2> QED BY <1>3, <2>1, BehindAddress
<1>5. Len(body) \in Nat /\ Len(body) >= 1 /\ n \in Nat /\ body[Len(body)] \in HexDigit
  BY <1>4
<1> HIDE DEF line
<1>6. line[1] = "<" /\ line[2] = Gap /\ line[3] \in AddressDigit /\ line[m] = Gap
  <2>1. 1 \in 1..m /\ 2 \in 1..m /\ 3 \in 1..m /\ m \in 1..m /\ 3 \in 3..(m - 1)
    BY <1>1
  <2> QED BY <1>1, <1>2, <1>4, <2>1, Zenon
<1>7. line[1] # Gap /\ line[1] \notin Comments /\ line[n] # Gap /\ line[3] # Gap
  BY <1>4, <1>5, <1>6, CharFacts, Zenon
<1>8. Trim(line) = line
  <2>1. Len(line) >= 1
    BY <1>1, <1>4, <1>5
  <2> QED BY <1>4, <1>7, <2>1, TrimWhole
<1> DEFINE t == Tail(line)
           rest == Tail(t)
<1>9. t \in Seq(Text) /\ Len(t) = n - 1 /\ \A i \in 1..(n - 1) : t[i] = line[i + 1]
  <2>1. line # <<>>
    BY <1>1, <1>4, <1>5
  <2> QED BY <1>4, <2>1, HeadTailProperties
<1> HIDE DEF t
<1>10. rest \in Seq(Text) /\ Len(rest) = n - 2 /\ \A i \in 1..(n - 2) : rest[i] = t[i + 1]
  BY <1>1, <1>4, <1>5, <1>9
<1> HIDE DEF rest, n, m
<1>11. \A i \in 1..(n - 2) : rest[i] = line[i + 2]
  <2> SUFFICES ASSUME NEW i \in 1..(n - 2) PROVE rest[i] = line[i + 2]
    OBVIOUS
  <2> DEFINE j == i + 1
  <2>1. j \in 1..(n - 1) /\ j + 1 = i + 2
    BY <1>5
  <2>2. rest[i] = t[j]
    BY <1>10
  <2> HIDE DEF j
  <2>3. t[j] = line[j + 1]
    BY <1>9, <2>1
  <2> QED BY <2>1, <2>2, <2>3
<1>12. Trim(t) = rest
  <2>1. Len(t) >= 2
    BY <1>1, <1>4, <1>5, <1>9
  <2>2. t[1] = line[2] /\ t[2] = line[3] /\ t[Len(t)] = line[n]
    <3>1. 1 \in 1..(n - 1) /\ 2 \in 1..(n - 1) /\ n - 1 \in 1..(n - 1) /\ n - 1 + 1 = n
          /\ 1 + 1 = 2 /\ 2 + 1 = 3
      BY <1>1, <1>4, <1>5
    <3>2. t[1] = line[1 + 1] /\ t[2] = line[2 + 1] /\ t[n - 1] = line[n - 1 + 1]
      BY <1>9, <3>1, Zenon
    <3> QED BY <1>9, <3>1, <3>2
  <2>3. t[1] = Gap /\ t[2] # Gap /\ t[Len(t)] # Gap
    BY <1>6, <1>7, <2>2, Zenon
  <2> QED BY <1>9, <2>1, <2>3, TrimAhead DEF rest
<1> DEFINE k == m - 2
<1>13. FirstOf(Gap, rest) = k
  <2>1. k \in 1..Len(rest) /\ Len(rest) \in Nat /\ rest[k] = line[m]
    BY <1>1, <1>4, <1>5, <1>10, <1>11
  <2>2. \A j \in 1..(k - 1) : rest[j] \in AddressDigit
    <3> SUFFICES ASSUME NEW j \in 1..(k - 1) PROVE rest[j] \in AddressDigit
      OBVIOUS
    <3>1. j + 2 \in 3..(m - 1) /\ j + 2 \in 1..m /\ j \in 1..(n - 2)
      BY <1>1, <1>4, <1>5
    <3>2. rest[j] = line[j + 2] /\ line[j + 2] = p[j + 2]
      BY <1>4, <1>11, <3>1
    <3> QED BY <1>2, <3>1, <3>2
  <2>3. \A j \in 1..(k - 1) : rest[j] # Gap
    BY <2>2, CharFacts, Zenon
  <2>4. rest[k] = Gap
    BY <1>6, <2>1
  <2> HIDE DEF k
  <2> QED BY <2>1, <2>3, <2>4, FirstIs
<1>14. After(k, rest) = body
  <2> DEFINE a == After(k, rest)
             l == Len(body)
  <2>1. a = SubSeq(rest, k + 1, Len(rest))
    BY DEF After
  <2> HIDE DEF a, l
  <2>2. /\ k + 1 \in Int /\ Len(rest) \in Int /\ k + 1 <= Len(rest) /\ k + 1 >= 1
        /\ Len(rest) - (k + 1) + 1 = l
    BY <1>1, <1>4, <1>5, <1>10 DEF l
  <2> DEFINE u == k + 1
             v == Len(rest)
  <2>3. \A i \in u..v : rest[i] \in Text
    BY <1>10, <2>2
  <2>4. u \in Int /\ v \in Int /\ u <= v /\ v - u + 1 = l
    BY <2>2
  <2>5. \A i \in 1..l : u + i - 1 = m - 2 + i
    BY <1>1
  <2>6. a = SubSeq(rest, u, v)
    BY <2>1
  <2> HIDE DEF u, v
  <2>7. /\ SubSeq(rest, u, v) \in Seq(Text) /\ Len(SubSeq(rest, u, v)) = v - u + 1
        /\ \A i \in 1..(v - u + 1) : SubSeq(rest, u, v)[i] = rest[u + i - 1]
    BY <2>3, <2>4, SubSeqProperties
  <2>8. a \in Seq(Text) /\ Len(a) = l /\ \A i \in 1..l : a[i] = rest[m - 2 + i]
    BY <2>4, <2>5, <2>6, <2>7
  <2> DEFINE z == After(m, line)
  <2>9. z = SubSeq(line, m + 1, n)
    BY DEF After, n
  <2> HIDE DEF z
  <2>10. \A i \in 1..l : z[i] = line[m + i]
    <3> DEFINE x == m + 1
    <3>1. x \in Int /\ n \in Int /\ x <= n /\ n - x + 1 = l /\ x >= 1 /\ n = Len(line)
      BY <1>1, <1>4, <1>5 DEF l, n
    <3>2. \A i \in x..n : line[i] \in Text
      BY <1>4, <3>1
    <3>3. \A i \in 1..l : x + i - 1 = m + i
      BY <1>1
    <3>4. z = SubSeq(line, x, n)
      BY <2>9
    <3> HIDE DEF x
    <3>5. \A i \in 1..(n - x + 1) : SubSeq(line, x, n)[i] = line[x + i - 1]
      BY <3>1, <3>2, SubSeqProperties
    <3> QED BY <3>1, <3>3, <3>4, <3>5
  <2>11. z = body
    BY <1>4 DEF z
  <2>12. \A i \in 1..l : a[i] = body[i]
    <3> SUFFICES ASSUME NEW i \in 1..l PROVE a[i] = body[i]
      OBVIOUS
    <3> DEFINE j == m - 2 + i
    <3>1. j \in 1..(n - 2) /\ j + 2 = m + i
      BY <1>1, <1>4, <1>5 DEF l
    <3>2. a[i] = rest[j]
      BY <2>8
    <3> HIDE DEF j
    <3>3. rest[j] = line[j + 2]
      BY <1>11, <3>1
    <3>4. z[i] = line[m + i]
      BY <2>10
    <3> QED BY <2>11, <3>1, <3>2, <3>3, <3>4
  <2>13. body \in Seq(Text) /\ Len(a) = Len(body) /\ \A i \in 1..Len(a) : a[i] = body[i]
    BY <1>3, <2>8, <2>12 DEF l
  <2>14. a = body
    BY <2>8, <2>13, SeqEqual
  <2> QED BY <2>14 DEF a
<1>15. FirstOf(":", Trim(body)) = 0
  BY NoColon
<1>16. StripDumpPrefix(line) = Trim(body)
  <2>1. Trim(Tail(line)) = rest /\ FirstOf(" ", rest) = k
    BY <1>12, <1>13, Zenon DEF t, Gap
  <2>2. After(FirstOf(" ", Trim(Tail(line))), Trim(Tail(line))) = body
    BY <1>14, <2>1, Zenon
  <2>3. line[1] = "<"
    BY <1>6
  <2> QED BY <1>15, <2>2, <2>3, Zenon DEF StripDumpPrefix
<1>17. line # <<>>
  <2>1. Len(line) >= 1
    BY <1>1, <1>4, <1>5 DEF n
  <2> QED BY <2>1
<1>18. BytesOf(line) = PushHexPairs(StripDumpPrefix(line))
  BY <1>7, <1>8, <1>17, BytesOfStripped, Zenon
<1> QED BY <1>16, <1>18 DEF line

(* Each line gives the bytes it was written for.  *)
LEMMA LineIsRead ==
  ASSUME NEW line, IsDumpLine(line)
  PROVE  BytesOf(Written(line)) = Content(line)
<1>1. CASE "remark" \in DOMAIN line
  <2>1. Written(line) = line.remark /\ Content(line) = <<>>
    BY <1>1, Zenon DEF Written, Content
  <2>2. line.remark \in Seq(STRING) /\ IsRemark(line.remark)
    BY <1>1, Zenon DEF IsDumpLine
  <2> QED BY <2>1, <2>2, RemarkHasNone, Zenon
<1>2. CASE "remark" \notin DOMAIN line
  <2> DEFINE p == line.prefix
             bytes == line.bytes
             spaced == line.spaced
             body == Body(bytes, spaced)
  <2>1. Content(line) = bytes
    BY <1>2, Zenon DEF Content
  <2>2. Written(line) = p \o body
    BY <1>2, Zenon DEF Written, Body, Chunk, Gap
  <2>3. /\ p \in Seq(STRING) /\ IsAddress(p)
        /\ bytes \in Seq(HexDigit \X HexDigit) \ {<<>>} /\ spaced \in BOOLEAN
    BY <1>2, Zenon DEF IsDumpLine
  <2> HIDE DEF p, bytes, spaced
  <2>4. bytes \in Seq(HexDigit \X HexDigit) /\ bytes # <<>>
    BY <2>3
  <2>5. p \in Seq(Text)
    <3>1. STRING \subseteq Text
      BY DEF Text
    <3> QED BY <2>3, <3>1, SeqMonotonic
  <2>6. /\ body \in Seq(Char) /\ Len(body) >= 2 /\ PushHexPairs(body) = bytes
        /\ body[Len(body)] \in HexDigit
    BY <2>3, <2>4, BodyIs, Zenon
  <2>7. CASE p = <<>>
    <3>1. BytesOf(body) = bytes
      BY <2>3, <2>4, PlainLine
    <3> HIDE DEF body
    <3>2. p \o body = body
      BY <2>6, <2>7
    <3> QED BY <2>1, <2>2, <3>1, <3>2, Zenon
  <2> HIDE DEF body
  <2>8. Len(body) >= 1
    BY <2>6
  <2>9. CASE /\ Len(p) > 3 /\ p[1] = "<" /\ p[2] = Gap /\ p[Len(p)] = Gap
             /\ \A i \in 3..(Len(p) - 1) : p[i] \in AddressDigit
    <3>1. Trim(body) \in Seq(Char) /\ PushHexPairs(Trim(body)) = bytes
      BY <2>3, <2>4, BodyTrimmed, Zenon DEF body
    <3>2. BytesOf(p \o body) = PushHexPairs(Trim(body))
      BY <2>5, <2>6, <2>8, <2>9, <3>1, AngleLine
    <3> QED BY <2>1, <2>2, <3>1, <3>2, Zenon
  <2>10. CASE /\ Len(p) > 1 /\ p[Len(p)] = ":"
              /\ \A i \in 1..(Len(p) - 1) : p[i] \in AddressDigit
    <3>1. BytesOf(p \o body) = PushHexPairs(body)
      BY <2>5, <2>6, <2>8, <2>10, ColonLine
    <3> QED BY <2>1, <2>2, <2>6, <3>1, Zenon
  <2> QED BY <2>3, <2>7, <2>9, <2>10, Zenon DEF IsAddress, Gap
<1> QED BY <1>1, <1>2

(* The recording is loaded as it was dumped. *)
LoadedAsDumped ==
  /\ dump \in Dumps
  /\ data = NotLoaded \/ data = ParseHexBytes([i \in DOMAIN dump |-> Written(dump[i])])

LEMMA LoadedInv == FixtureSpec => []LoadedAsDumped
<1>1. FixtureInit => LoadedAsDumped
  BY Zenon DEF FixtureInit, LoadedAsDumped
<1>2. LoadedAsDumped /\ [LoadFromPath]_fixtureVars => LoadedAsDumped'
  BY Zenon DEF LoadedAsDumped, LoadFromPath, fixtureVars
<1> QED BY <1>1, <1>2, PTL DEF FixtureSpec

LEMMA LoadedIsDumped == LoadedAsDumped => PlayedAsDumped
<1> SUFFICES ASSUME LoadedAsDumped PROVE PlayedAsDumped
  OBVIOUS
<1> DEFINE text == [i \in DOMAIN dump |-> Written(dump[i])]
           meant == FlattenSeq([i \in DOMAIN dump |-> Content(dump[i])])
           read == FlattenSeq([i \in DOMAIN text |-> BytesOf(text[i])])
<1>1. \A i \in DOMAIN dump : IsDumpLine(dump[i])
  BY DumpsAssumption, Zenon DEF LoadedAsDumped
<1>2. \A i \in DOMAIN dump : BytesOf(Written(dump[i])) = Content(dump[i])
  BY <1>1, LineIsRead, Zenon
<1>3. [i \in DOMAIN text |-> BytesOf(text[i])] = [i \in DOMAIN dump |-> Content(dump[i])]
  <2>1. DOMAIN text = DOMAIN dump /\ \A i \in DOMAIN dump : text[i] = Written(dump[i])
    BY Zenon
  <2> HIDE DEF text
  <2>2. \A i \in DOMAIN dump : BytesOf(text[i]) = Content(dump[i])
    BY <1>2, <2>1, Zenon
  <2> QED BY <2>1, <2>2, Zenon
<1>4. read = meant
  BY <1>3, Zenon
<1>5. ParseHexBytes(text) = IF read = <<>> THEN PushHexPairs(FlattenSeq(text)) ELSE read
  BY Zenon DEF ParseHexBytes
<1>6. data = NotLoaded \/ data = ParseHexBytes(text)
  BY Zenon DEF LoadedAsDumped
<1>7. PlayedAsDumped <=> data = NotLoaded \/ meant = <<>> \/ data = meant
  BY Zenon DEF PlayedAsDumped
<1> HIDE DEF text, meant, read
<1> QED BY <1>4, <1>5, <1>6, <1>7, Zenon

(* PlayedAsDumped: a dump, with any addresses, spacing and comments, is the   *)
(* bytes that were dumped.                                                   *)
THEOREM RecordingIsDump == FixtureSpec => []PlayedAsDumped
BY LoadedInv, LoadedIsDumped, PTL
-----------------------------------------------------------------------------
(* The text of transport_url, taken apart and put together.                   *)

(* A text taken apart at one of its words, and put together again. *)
PartedAt(A, w, i) ==
  /\ Before(i, w) \in Seq(A) /\ After(i, w) \in Seq(A)
  /\ Len(Before(i, w)) = i - 1 /\ Len(After(i, w)) = Len(w) - i
  /\ \A j \in 1..(i - 1) : Before(i, w)[j] = w[j]
  /\ \A j \in 1..(Len(w) - i) : After(i, w)[j] = w[i + j]
  /\ w = Before(i, w) \o (<<w[i]>> \o After(i, w))

LEMMA Parted ==
  ASSUME NEW A, NEW w \in Seq(A), NEW i \in 1..Len(w)
  PROVE  PartedAt(A, w, i)
<1> DEFINE n == Len(w)
           b == SubSeq(w, 1, i - 1)
           a == SubSeq(w, i + 1, n)
           m == <<w[i]>>
           v == b \o (m \o a)
<1>1. n \in Nat /\ i \in 1..n /\ w \in Seq(A) /\ w[i] \in A
  OBVIOUS
<1>2. b \in Seq(A) /\ Len(b) = i - 1 /\ \A j \in 1..(i - 1) : b[j] = w[j]
  <2>1. b \in Seq(A) /\ Len(b) = i - 1
    BY <1>1
  <2> QED BY <1>1, <2>1
<1>3. a \in Seq(A) /\ Len(a) = n - i /\ \A j \in 1..(n - i) : a[j] = w[i + j]
  <2>1. a \in Seq(A) /\ Len(a) = n - i
    BY <1>1
  <2> QED BY <1>1, <2>1
<1>4. m \in Seq(A) /\ Len(m) = 1 /\ m[1] = w[i]
  BY <1>1
<1>5. Before(i, w) = b /\ After(i, w) = a
  BY DEF Before, After
<1> HIDE DEF a, b, m
<1>6. m \o a \in Seq(A) /\ IsJoin(m \o a, m, a)
  BY <1>3, <1>4, Joined
<1>7. v \in Seq(A) /\ IsJoin(v, b, m \o a)
  BY <1>2, <1>6, Joined
<1> HIDE DEF v
<1> DEFINE r == m \o a
<1>8. Len(r) = n - i + 1 /\ r[1] = w[i] /\ \A j \in 1..(n - i) : r[1 + j] = w[i + j]
  BY <1>1, <1>3, <1>4, <1>6 DEF IsJoin
<1>9. IsJoin(v, b, r)
  BY <1>7
<1> HIDE DEF r
<1>10. Len(v) = n /\ \A j \in 1..n : v[j] = w[j]
  <2>1. Len(v) = n
    BY <1>1, <1>2, <1>8, <1>9 DEF IsJoin
  <2>2. ASSUME NEW j \in 1..n, j < i PROVE v[j] = w[j]
    BY <1>1, <1>2, <1>9, <2>2 DEF IsJoin
  <2>3. v[i] = w[i]
    <3>1. 1 \in 1..Len(r) /\ Len(b) + 1 = i
      BY <1>1, <1>2, <1>8
    <3>2. v[Len(b) + 1] = r[1]
      BY <1>9, <3>1 DEF IsJoin
    <3> QED BY <1>8, <3>1, <3>2
  <2>4. ASSUME NEW j \in 1..n, j > i PROVE v[j] = w[j]
    <3>1. PICK k \in 1..(n - i) : j = i + k
      BY <1>1, <2>4
    <3>2. v[i - 1 + (1 + k)] = r[1 + k] /\ r[1 + k] = w[i + k]
      BY <1>1, <1>2, <1>8, <1>9, <3>1 DEF IsJoin
    <3>3. i - 1 + (1 + k) = j
      BY <1>1, <3>1
    <3> QED BY <3>1, <3>2, <3>3
  <2> QED BY <2>1, <2>2, <2>3, <2>4
<1>11. v = w
  BY <1>1, <1>7, <1>10, SeqEqual
<1> QED BY <1>1, <1>2, <1>3, <1>5, <1>11 DEF v, m, PartedAt

SplitAt(w, i, h, m, s) ==
  /\ i \in 1..Len(w) /\ i = Len(h) + 1 /\ Len(w) = i + Len(s)
  /\ w[i] = m /\ Before(i, w) = h /\ After(i, w) = s
  /\ \A j \in 1..Len(h) : w[j] = h[j]
  /\ \A j \in 1..Len(s) : w[i + j] = s[j]

LEMMA PutTogether ==
  ASSUME NEW A, NEW h \in Seq(A), NEW m \in A, NEW s \in Seq(A)
  PROVE  LET w == h \o (<<m>> \o s)
         IN  w \in Seq(A) /\ SplitAt(w, Len(h) + 1, h, m, s)
<1> DEFINE one == <<m>>
           r == one \o s
           w == h \o r
           i == Len(h) + 1
<1>1. Len(h) \in Nat /\ Len(s) \in Nat
  OBVIOUS
<1>2. one \in Seq(A) /\ Len(one) = 1 /\ one[1] = m
  OBVIOUS
<1> HIDE DEF one
<1>3. r \in Seq(A) /\ IsJoin(r, one, s)
  BY <1>2, Joined
<1>4. Len(r) = 1 + Len(s) /\ r[1] = m /\ \A j \in 1..Len(s) : r[1 + j] = s[j]
  BY <1>1, <1>2, <1>3 DEF IsJoin
<1> HIDE DEF r
<1>5. w \in Seq(A) /\ IsJoin(w, h, r)
  BY <1>3, Joined
<1> HIDE DEF w
<1>6. Len(w) = Len(h) + 1 + Len(s) /\ w[Len(h) + 1] = m
      /\ (\A j \in 1..Len(h) : w[j] = h[j]) /\ \A j \in 1..Len(s) : w[Len(h) + (1 + j)] = r[1 + j]
  BY <1>1, <1>4, <1>5 DEF IsJoin
<1>7. i \in 1..Len(w) /\ Len(w) = i + Len(s) /\ w[i] = m
      /\ (\A j \in 1..Len(h) : w[j] = h[j]) /\ \A j \in 1..Len(s) : w[i + j] = s[j]
  <2>1. ASSUME NEW j \in 1..Len(s) PROVE w[i + j] = s[j]
    <3>1. Len(h) + (1 + j) = i + j
      BY <1>1
    <3> QED BY <1>4, <1>6, <3>1
  <2> QED BY <1>1, <1>6, <2>1
<1>8. i - 1 = Len(h) /\ Len(w) - i = Len(s) /\ i \in Nat
  BY <1>1, <1>7
<1> HIDE DEF i
<1>9. /\ Before(i, w) \in Seq(A) /\ After(i, w) \in Seq(A)
      /\ Len(Before(i, w)) = Len(h) /\ Len(After(i, w)) = Len(s)
      /\ \A j \in 1..Len(h) : Before(i, w)[j] = w[j]
      /\ \A j \in 1..Len(s) : After(i, w)[j] = w[i + j]
  <2>1. /\ Before(i, w) \in Seq(A) /\ After(i, w) \in Seq(A)
        /\ Len(Before(i, w)) = i - 1 /\ Len(After(i, w)) = Len(w) - i
        /\ \A j \in 1..(i - 1) : Before(i, w)[j] = w[j]
        /\ \A j \in 1..(Len(w) - i) : After(i, w)[j] = w[i + j]
    BY <1>5, <1>7, Parted DEF PartedAt
  <2> QED BY <1>8, <2>1
<1>10. Before(i, w) = h
  BY <1>7, <1>9, SeqEqual
<1>11. After(i, w) = s
  BY <1>7, <1>9, SeqEqual
<1>12. SplitAt(w, i, h, m, s)
  BY <1>7, <1>8, <1>10, <1>11 DEF SplitAt
<1> QED BY <1>5, <1>12 DEF w, r, one, i

LEMMA FirstOfIs ==
  ASSUME NEW mark, NEW A, NEW t \in Seq(A)
  PROVE  \/ FirstOf(mark, t) = 0 /\ \A j \in 1..Len(t) : t[j] # mark
         \/ /\ FirstOf(mark, t) \in 1..Len(t) /\ t[FirstOf(mark, t)] = mark
            /\ \A j \in 1..(FirstOf(mark, t) - 1) : t[j] # mark
<1> DEFINE n == Len(t)
           T == {j \in 1..n : t[j] = mark}
<1>1. n \in Nat
  OBVIOUS
<1>2. CASE T = {}
  <2>1. \A j \in 1..Len(t) : t[j] # mark
    BY <1>2
  <2>2. FirstOf(mark, t) = 0
    BY <2>1, FirstNone
  <2> QED BY <2>1, <2>2
<1>3. CASE T # {}
  <2>1. T \subseteq Nat
    BY <1>1
  <2>2. PICK x \in T : \A y \in T : x <= y
    <3> HIDE DEF T
    <3> QED BY <1>3, <2>1, LeastNatural
  <2>3. x \in 1..n /\ t[x] = mark /\ \A j \in 1..(x - 1) : t[j] # mark
    BY <1>1, <2>2
  <2>4. Len(t) \in Nat /\ x \in 1..Len(t)
    BY <1>1, <2>3
  <2>5. FirstOf(mark, t) = x
    BY <2>3, <2>4, FirstIs
  <2> QED BY <2>3, <2>4, <2>5
<1> QED BY <1>2, <1>3

LEMMA LastOfIs ==
  ASSUME NEW mark, NEW A, NEW t \in Seq(A)
  PROVE  \/ LastOf(mark, t) = 0 /\ \A j \in 1..Len(t) : t[j] # mark
         \/ /\ LastOf(mark, t) \in 1..Len(t) /\ t[LastOf(mark, t)] = mark
            /\ \A j \in (LastOf(mark, t) + 1)..Len(t) : t[j] # mark
<1> DEFINE n == Len(t)
           T == {j \in 1..n : t[j] = mark}
<1>1. n \in Nat
  OBVIOUS
<1>2. CASE T = {}
  <2>1. \A j \in 1..Len(t) : t[j] # mark
    BY <1>2
  <2>2. LastOf(mark, t) = 0
    BY <2>1, LastNone
  <2> QED BY <2>1, <2>2
<1>3. CASE T # {}
  <2>1. T \subseteq 0..n
    BY <1>1
  <2>2. PICK x \in T : \A y \in T : x >= y
    <3> HIDE DEF T
    <3> QED BY <1>1, <1>3, <2>1, GreatestNatural
  <2>3. x \in 1..n /\ t[x] = mark /\ \A j \in (x + 1)..n : t[j] # mark
    BY <1>1, <2>2
  <2>4. Len(t) \in Nat /\ x \in 1..Len(t) /\ \A j \in (x + 1)..Len(t) : t[j] # mark
    BY <1>1, <2>3
  <2>5. LastOf(mark, t) = x
    BY <2>3, <2>4, LastIs
  <2> QED BY <2>3, <2>4, <2>5
<1> QED BY <1>2, <1>3

LEMMA Pair ==
  ASSUME NEW A, NEW a \in A, NEW b \in A
  PROVE  <<a, b>> = <<a>> \o <<b>>
<1> DEFINE x == <<a>>
           y == <<b>>
           xy == <<a, b>>
           s == x \o y
<1>1. x \in Seq(A) /\ Len(x) = 1 /\ x[1] = a
  OBVIOUS
<1>2. y \in Seq(A) /\ Len(y) = 1 /\ y[1] = b
  OBVIOUS
<1>3. xy \in Seq(A) /\ Len(xy) = 2 /\ xy[1] = a /\ xy[2] = b
  OBVIOUS
<1> HIDE DEF x, y, xy
<1>4. s \in Seq(A) /\ IsJoin(s, x, y)
  BY <1>1, <1>2, Joined
<1> HIDE DEF s
<1>5. Len(s) = 2 /\ s[1] = a /\ s[1 + 1] = b
  BY <1>1, <1>2, <1>4 DEF IsJoin
<1>6. Len(s) = Len(xy) /\ \A i \in 1..Len(s) : s[i] = xy[i]
  BY <1>3, <1>5
<1>7. s = xy
  BY <1>3, <1>4, <1>6, SeqEqual
<1> QED BY <1>7 DEF x, y, xy, s

LEMMA Triple ==
  ASSUME NEW A, NEW a \in A, NEW b \in A, NEW c \in A
  PROVE  <<a, b, c>> = <<a>> \o <<b, c>>
<1> DEFINE x == <<a>>
           z == <<b, c>>
           xz == <<a, b, c>>
           s == x \o z
<1>1. x \in Seq(A) /\ Len(x) = 1 /\ x[1] = a
  OBVIOUS
<1>2. z \in Seq(A) /\ Len(z) = 2 /\ z[1] = b /\ z[2] = c
  OBVIOUS
<1>3. xz \in Seq(A) /\ Len(xz) = 3 /\ xz[1] = a /\ xz[2] = b /\ xz[3] = c
  OBVIOUS
<1> HIDE DEF x, z, xz
<1>4. s \in Seq(A) /\ IsJoin(s, x, z)
  BY <1>1, <1>2, Joined
<1> HIDE DEF s
<1>5. Len(s) = 3 /\ s[1] = a /\ s[1 + 1] = b /\ s[1 + 2] = c
  BY <1>1, <1>2, <1>4 DEF IsJoin
<1>6. Len(s) = Len(xz) /\ \A i \in 1..Len(s) : s[i] = xz[i]
  BY <1>3, <1>5
<1>7. s = xz
  BY <1>3, <1>4, <1>6, SeqEqual
<1> QED BY <1>7 DEF x, z, xz, s

LEMMA Trimmed ==
  ASSUME NEW A, NEW t \in Seq(A)
  PROVE  /\ Trim(t) \in Seq(A) /\ Trim(Trim(t)) = Trim(t)
         /\ Trim(t) # <<>> => Trim(t)[1] # Gap /\ Trim(t)[Len(Trim(t))] # Gap
<1> DEFINE n == Len(t)
           S == {i \in 1..n : t[i] # Gap}
<1>1. n \in Nat /\ DOMAIN t = 1..n
  OBVIOUS
<1>2. CASE S = {}
  <2>1. Trim(t) = <<>>
    BY <1>1, <1>2, TrimNone
  <2>2. Trim(<<>>) = <<>>
    <3>1. \A i \in DOMAIN <<>> : <<>>[i] = Gap
      OBVIOUS
    <3> QED BY <3>1, TrimNone
  <2> QED BY <2>1, <2>2
<1>3. CASE S # {}
  <2>1. S \subseteq Nat /\ S \subseteq 0..n
    BY <1>1
  <2> HIDE DEF S
  <2>2. PICK a \in S : \A y \in S : a <= y
    BY <1>3, <2>1, LeastNatural
  <2>3. PICK b \in S : \A y \in S : b >= y
    BY <1>1, <1>3, <2>1, GreatestNatural
  <2>4. a \in 1..n /\ b \in 1..n /\ a <= b /\ t[a] # Gap /\ t[b] # Gap
    BY <2>2, <2>3 DEF S
  <2>5. \A i \in 1..n : i < a \/ i > b => t[i] = Gap
    <3> SUFFICES ASSUME NEW i \in 1..n, t[i] # Gap PROVE ~(i < a) /\ ~(i > b)
      OBVIOUS
    <3>1. i \in S
      BY DEF S
    <3> QED BY <1>1, <2>2, <2>3, <2>4, <3>1
  <2> DEFINE s == SubSeq(t, a, b)
  <2>6. Trim(t) = s
    BY <2>4, <2>5, TrimIs
  <2>7. s \in Seq(A) /\ Len(s) = b - a + 1 /\ s[1] = t[a] /\ s[b - a + 1] = t[b]
    <3>1. s \in Seq(A) /\ Len(s) = b - a + 1
      BY <1>1, <2>4
    <3> QED BY <1>1, <2>4, <3>1
  <2> HIDE DEF s
  <2>8. Len(s) >= 1 /\ s[1] # Gap /\ s[Len(s)] # Gap
    BY <1>1, <2>4, <2>7
  <2>9. Trim(s) = s
    BY <2>7, <2>8, TrimWhole
  <2> QED BY <2>6, <2>7, <2>8, <2>9
<1> QED BY <1>2, <1>3

LEMMA RestOfRest ==
  ASSUME NEW A, NEW w \in Seq(A), NEW i \in 1..Len(w), NEW j \in 1..(Len(w) - i)
  PROVE  After(j, After(i, w)) = After(i + j, w)
<1> DEFINE a == After(i, w)
           x == After(j, a)
           y == After(i + j, w)
<1>1. Len(w) \in Nat /\ i + j \in 1..Len(w)
  OBVIOUS
<1>2. a \in Seq(A) /\ Len(a) = Len(w) - i /\ \A k \in 1..(Len(w) - i) : a[k] = w[i + k]
  BY Parted DEF PartedAt
<1>3. y \in Seq(A) /\ Len(y) = Len(w) - (i + j)
      /\ \A k \in 1..(Len(w) - (i + j)) : y[k] = w[i + j + k]
  BY <1>1, Parted DEF PartedAt
<1> HIDE DEF a, y
<1>4. x \in Seq(A) /\ Len(x) = Len(a) - j /\ \A k \in 1..(Len(a) - j) : x[k] = a[j + k]
  <2>1. j \in 1..Len(a)
    BY <1>2
  <2> QED BY <1>2, <2>1, Parted DEF PartedAt
<1> HIDE DEF x
<1>5. Len(x) = Len(y)
  BY <1>1, <1>2, <1>3, <1>4
<1>6. ASSUME NEW k \in 1..Len(x) PROVE x[k] = y[k]
  <2>1. k \in 1..(Len(a) - j) /\ j + k \in 1..(Len(w) - i) /\ k \in 1..(Len(w) - (i + j))
        /\ i + (j + k) = i + j + k
    BY <1>1, <1>2, <1>4
  <2> QED BY <1>2, <1>3, <1>4, <2>1
<1> QED BY <1>3, <1>4, <1>5, <1>6, SeqEqual DEF x, y, a

FirstApart(A, w, a) ==
  /\ w = <<w[1]>> \o a /\ a \in Seq(A) /\ a = After(1, w) /\ a = Tail(w)
  /\ Len(a) = Len(w) - 1 /\ \A j \in 1..(Len(w) - 1) : a[j] = w[1 + j]

LEMMA FirstWord ==
  ASSUME NEW A, NEW w \in Seq(A), Len(w) >= 1
  PROVE  FirstApart(A, w, After(1, w))
<1> DEFINE b == Before(1, w)
           r == <<w[1]>> \o After(1, w)
<1>1. 1 \in 1..Len(w) /\ Len(w) \in Nat
  OBVIOUS
<1>2. /\ b \in Seq(A) /\ After(1, w) \in Seq(A) /\ Len(b) = 1 - 1
      /\ Len(After(1, w)) = Len(w) - 1 /\ \A j \in 1..(Len(w) - 1) : After(1, w)[j] = w[1 + j]
      /\ w = b \o r
  BY <1>1, Parted DEF PartedAt
<1>3. b = <<>>
  BY <1>2
<1>4. <<w[1]>> \in Seq(A)
  BY <1>1
<1>5. r \in Seq(A)
  BY <1>2, <1>4
<1>6. <<>> \o r = r
  BY <1>5, ConcatEmptySeq
<1>7. After(1, w) = Tail(w)
  BY <1>1 DEF After
<1> QED BY <1>2, <1>3, <1>6, <1>7 DEF FirstApart

LEMMA BehindFirst ==
  ASSUME NEW A, NEW m \in A, NEW h \in Seq(A)
  PROVE  LET w == <<m>> \o h IN
         /\ w \in Seq(A) /\ Len(w) = 1 + Len(h) /\ w[1] = m /\ After(1, w) = h
         /\ \A j \in 1..Len(h) : w[1 + j] = h[j]
<1> DEFINE e == <<>>
           r == <<m>> \o h
           w == e \o r
           i == Len(e) + 1
<1>1. Len(h) \in Nat /\ e \in Seq(A) /\ Len(e) = 0 /\ i = 1
  OBVIOUS
<1>2. r \in Seq(A)
  <2>1. <<m>> \in Seq(A)
    OBVIOUS
  <2> QED BY <2>1
<1>3. w = r
  BY <1>2, ConcatEmptySeq
<1> HIDE DEF e
<1>4. /\ w \in Seq(A) /\ Len(w) = i + Len(h) /\ w[i] = m /\ After(i, w) = h
      /\ \A j \in 1..Len(h) : w[i + j] = h[j]
  <2>1. w \in Seq(A) /\ SplitAt(w, i, e, m, h)
    BY <1>1, PutTogether
  <2> HIDE DEF w, i
  <2> QED BY <2>1 DEF SplitAt
<1> HIDE DEF w, r, i
<1> QED BY <1>1, <1>3, <1>4 DEF r

Bracketed(A, w, i, s) ==
  /\ Before(i, w) = <<w[1]>> \o s /\ s \in Seq(A) /\ Len(s) = i - 2
  /\ \A j \in 1..(i - 2) : s[j] = w[1 + j]

LEMMA InBrackets ==
  ASSUME NEW A, NEW w \in Seq(A), NEW i \in 2..Len(w)
  PROVE  Bracketed(A, w, i, SubSeq(w, 2, i - 1))
<1> DEFINE b == Before(i, w)
           s == SubSeq(w, 2, i - 1)
           a == After(1, b)
<1>1. Len(w) \in Nat /\ i \in 1..Len(w) /\ 1 \in 1..(i - 1) /\ i \in Nat
  OBVIOUS
<1>2. b \in Seq(A) /\ Len(b) = i - 1 /\ \A j \in 1..(i - 1) : b[j] = w[j]
  BY <1>1, Parted DEF PartedAt
<1>3. s \in Seq(A) /\ Len(s) = i - 2
  BY <1>1
<1>4. \A j \in 1..(i - 2) : s[j] = w[1 + j]
  <2>1. SubSeq(w, 2, i - 1) = [j \in 1..(i - 1 - 2 + 1) |-> w[2 + j - 1]]
    BY <1>1
  <2> QED BY <1>1, <2>1
<1> HIDE DEF b, s
<1>5. Len(b) >= 1
  BY <1>1, <1>2
<1>6. /\ b = <<b[1]>> \o a /\ a \in Seq(A) /\ Len(a) = Len(b) - 1
      /\ \A j \in 1..(Len(b) - 1) : a[j] = b[1 + j]
  BY <1>2, <1>5, FirstWord DEF FirstApart
<1> HIDE DEF a
<1>7. Len(a) = Len(s) /\ b[1] = w[1]
  BY <1>1, <1>2, <1>3, <1>6
<1>8. ASSUME NEW j \in 1..Len(a) PROVE a[j] = s[j]
  <2>1. j \in 1..(Len(b) - 1) /\ 1 + j \in 1..(i - 1) /\ j \in 1..(i - 2)
    BY <1>1, <1>2, <1>6
  <2> QED BY <1>2, <1>4, <1>6, <2>1
<1>9. a = s
  BY <1>3, <1>6, <1>7, <1>8, SeqEqual
<1> QED BY <1>3, <1>4, <1>6, <1>7, <1>9 DEF b, s, Bracketed

LEMMA OneWord ==
  ASSUME NEW A, NEW s \in Seq(A), Len(s) = 1
  PROVE  s = <<s[1]>>
<1> DEFINE x == <<s[1]>>
<1>1. s[1] \in A
  OBVIOUS
<1>2. x \in Seq(A) /\ Len(x) = 1 /\ x[1] = s[1]
  BY <1>1
<1> HIDE DEF x
<1>3. \A i \in 1..1 : s[i] = x[i]
  BY <1>2
<1>4. s = x
  BY <1>2, <1>3, SeqEqual
<1> QED BY <1>4 DEF x

(* The words of a text: the prover does not know that a word is a STRING, nor *)
(* can its SMT translation read a comma.                                     *)
Comma == ","
Token == STRING \cup Digits \cup {":", "[", "]", "?", "baud=", Comma}

LEMMA TokenFacts ==
  /\ ":" \in Token /\ "[" \in Token /\ "]" \in Token /\ "?" \in Token
  /\ "baud=" \in Token /\ Comma \in Token /\ "[" # "]"
  /\ \A p \in U16 : p \in Token /\ p # ":" /\ p # "]"
BY DEF U16, U32, Digits, Token

(* How IsHostAndPort says it. *)
SpelledHost(w, h, p) ==
  \/ w = (<<"[">> \o h) \o <<"]", ":", p>> /\ \A j \in 1..Len(h) : h[j] # "]"
  \/ w = h \o <<":", p>> /\ h[1] # "["

(* An address and port, taken apart, is put together from what was found. *)
LEMMA HostFound ==
  ASSUME NEW w \in Seq(Token), NEW h, NEW port, HostAndPort(w).found,
         h = HostAndPort(w).host, port = HostAndPort(w).port, h # <<>>, Len(port) = 1, port[1] \in U16
  PROVE  h \in Seq(Token) /\ SpelledHost(w, h, port[1])
<1> DEFINE p == port[1]
           close == FirstOf("]", w)
           colon == LastOf(":", w)
           A == Token
<1>0. Len(w) \in Nat /\ w \in Seq(A) /\ p \in A /\ ":" \in A /\ "]" \in A /\ "[" \in A
  BY TokenFacts
<1> HIDE DEF A, p
<1>1. CASE w # <<>> /\ w[1] = "["
  <2>1. /\ h = SubSeq(w, 2, close - 1) /\ port = After(close + 1, w)
        /\ close # 0 /\ close < Len(w) /\ w[close + 1] = ":"
    BY <1>1 DEF HostAndPort
  <2> HIDE DEF close, colon
  <2>2. h = SubSeq(w, 2, close - 1) /\ port = After(close + 1, w)
        /\ close # 0 /\ close < Len(w) /\ w[close + 1] = ":"
    BY <2>1
  <2>3. close \in 1..Len(w) /\ w[close] = "]" /\ \A j \in 1..(close - 1) : w[j] # "]"
    BY <1>0, <2>2, FirstOfIs DEF close
  <2>5. close \in 2..Len(w) /\ 1 \in 1..(Len(w) - close)
    BY <1>0, <1>1, <2>2, <2>3, TokenFacts
  <2> DEFINE b == Before(close, w)
             a == After(close, w)
  <2>6. /\ a \in Seq(A) /\ Len(a) = Len(w) - close /\ w = b \o (<<w[close]>> \o a)
        /\ \A j \in 1..(Len(w) - close) : a[j] = w[close + j]
    <3>1. PartedAt(A, w, close)
      BY <1>0, <2>3, Parted
    <3> QED BY <3>1 DEF PartedAt
  <2>7. /\ b = <<w[1]>> \o h /\ h \in Seq(A) /\ Len(h) = close - 2
        /\ \A j \in 1..(close - 2) : h[j] = w[1 + j]
    <3>1. Bracketed(A, w, close, SubSeq(w, 2, close - 1))
      BY <1>0, <2>5, InBrackets
    <3> QED BY <2>2, <3>1 DEF Bracketed
  <2>8. After(1, a) = port
    BY <1>0, <2>2, <2>3, <2>5, RestOfRest
  <2> HIDE DEF a, b
  <2>9. Len(a) >= 1 /\ a[1] = ":"
    BY <1>0, <2>2, <2>5, <2>6
  <2>10. a = <<":">> \o port /\ port \in Seq(A)
    <3>1. FirstApart(A, a, After(1, a))
      BY <2>6, <2>9, FirstWord
    <3> QED BY <2>8, <2>9, <3>1 DEF FirstApart
  <2>11. port = <<p>>
    BY <2>10, OneWord DEF p
  <2>12. a = <<":", p>>
    <3>1. <<":", p>> = <<":">> \o <<p>>
      BY <1>0, Pair
    <3> QED BY <2>10, <2>11, <3>1, Zenon
  <2>13. <<"]">> \o a = <<"]", ":", p>>
    <3>1. <<"]", ":", p>> = <<"]">> \o <<":", p>>
      BY <1>0, Triple
    <3> QED BY <2>12, <3>1, Zenon
  <2>14. w = (<<"[">> \o h) \o <<"]", ":", p>>
    BY <1>1, <2>3, <2>6, <2>7, <2>13
  <2>15. ASSUME NEW j \in 1..Len(h) PROVE h[j] # "]"
    <3>1. j \in 1..(close - 2) /\ 1 + j \in 1..(close - 1)
      BY <2>5, <2>7
    <3> QED BY <2>3, <2>7, <3>1
  <2> QED BY <2>7, <2>14, <2>15 DEF A, p, SpelledHost
<1>2. CASE ~(w # <<>> /\ w[1] = "[")
  <2>1. h = Before(colon, w) /\ port = After(colon, w) /\ colon # 0
    BY <1>2 DEF HostAndPort
  <2> HIDE DEF close, colon
  <2>2. h = Before(colon, w) /\ port = After(colon, w) /\ colon # 0
    BY <2>1
  <2>3. colon \in 1..Len(w) /\ w[colon] = ":"
    BY <1>0, <2>2, LastOfIs DEF colon
  <2>4. /\ h \in Seq(A) /\ Len(h) = colon - 1 /\ port \in Seq(A) /\ w = h \o (<<w[colon]>> \o port)
        /\ \A j \in 1..(colon - 1) : h[j] = w[j]
    <3>1. PartedAt(A, w, colon)
      BY <1>0, <2>3, Parted
    <3> QED BY <2>2, <3>1 DEF PartedAt
  <2>5. port = <<p>>
    BY <2>4, OneWord DEF p
  <2>6. <<w[colon]>> \o port = <<":", p>>
    <3>1. <<":", p>> = <<":">> \o <<p>>
      BY <1>0, Pair
    <3> QED BY <2>3, <2>5, <3>1, Zenon
  <2>7. w = h \o <<":", p>>
    BY <2>4, <2>6
  <2>8. h[1] # "["
    <3>1. Len(h) # 0
      BY <2>4
    <3>2. 1 \in 1..(colon - 1) /\ w # <<>>
      BY <1>0, <2>3, <2>4, <3>1
    <3> QED BY <1>2, <2>4, <3>2
  <2> QED BY <2>4, <2>7, <2>8 DEF A, p, SpelledHost
<1> QED BY <1>1, <1>2

(* The two words behind the mark at which a text is parted. *)
LEMMA SecondOfTwo ==
  ASSUME NEW A, NEW a \in A, NEW b \in A
  PROVE  /\ <<a, b>> \in Seq(A) /\ Len(<<a, b>>) = 2 /\ <<a, b>>[1] = a /\ <<a, b>>[2] = b
         /\ After(1, <<a, b>>) = <<b>>
<1> DEFINE s == <<a, b>>
           x == <<b>>
           y == After(1, s)
<1>1. s \in Seq(A) /\ Len(s) = 2 /\ s[1] = a /\ s[2] = b
  OBVIOUS
<1>2. x \in Seq(A) /\ Len(x) = 1 /\ x[1] = b
  OBVIOUS
<1> HIDE DEF s, x
<1>3. Len(s) >= 1
  BY <1>1
<1>4. FirstApart(A, s, y)
  BY <1>1, <1>3, FirstWord
<1> HIDE DEF y
<1>5. y \in Seq(A) /\ Len(y) = 1 /\ y[1] = b
  BY <1>1, <1>4 DEF FirstApart
<1>6. Len(y) = Len(x) /\ \A i \in 1..Len(y) : y[i] = x[i]
  BY <1>2, <1>5
<1>7. y = x
  BY <1>2, <1>5, <1>6, SeqEqual
<1> QED BY <1>1, <1>7 DEF s, x, y

(* And the other way round: it is taken apart where it was put together. *)
LEMMA HostTaken ==
  ASSUME NEW h \in Seq(Token), h # <<>>, NEW p \in U16, NEW w, SpelledHost(w, h, p)
  PROVE  HostAndPort(w).found /\ HostAndPort(w).host = h /\ HostAndPort(w).port = <<p>>
<1> DEFINE A == Token
           s == <<":", p>>
<1>0. Len(h) \in Nat /\ Len(h) >= 1 /\ p \in A /\ ":" \in A /\ "]" \in A /\ "[" \in A
  BY TokenFacts
<1> HIDE DEF A
<1>1. s \in Seq(A) /\ Len(s) = 2 /\ s[1] = ":" /\ s[2] = p /\ After(1, s) = <<p>>
  BY <1>0, SecondOfTwo
<1>2. CASE w = (<<"[">> \o h) \o <<"]", ":", p>> /\ \A j \in 1..Len(h) : h[j] # "]"
  <2> DEFINE x == <<"[">> \o h
             i == Len(x) + 1
  <2>1. /\ x \in Seq(A) /\ Len(x) = 1 + Len(h) /\ x[1] = "[" /\ After(1, x) = h
        /\ \A j \in 1..Len(h) : x[1 + j] = h[j]
    BY <1>0, BehindFirst DEF A
  <2>2. <<"]", ":", p>> = <<"]">> \o s
    BY <1>0, Triple
  <2> HIDE DEF x, s
  <2>3. w = x \o (<<"]">> \o s)
    BY <1>2, <2>2 DEF x
  <2>4. w \in Seq(A) /\ SplitAt(w, i, x, "]", s)
    BY <1>0, <1>1, <2>1, <2>3, PutTogether
  <2>5. /\ i \in 1..Len(w) /\ i = Len(h) + 2 /\ Len(w) = i + 2 /\ w[i] = "]"
        /\ Before(i, w) = x /\ After(i, w) = s
        /\ (\A j \in 1..Len(x) : w[j] = x[j]) /\ w[i + 1] = ":"
    BY <1>0, <1>1, <2>1, <2>4 DEF SplitAt
  <2> HIDE DEF i
  <2>6. ASSUME NEW j \in 1..(i - 1) PROVE w[j] # "]"
    <3>1. j \in 1..Len(x) /\ w[j] = x[j]
      BY <1>0, <2>1, <2>5
    <3>2. CASE j = 1
      BY <2>1, <3>1, <3>2, TokenFacts
    <3>3. CASE j # 1
      <4>1. PICK k \in 1..Len(h) : j = 1 + k
        BY <1>0, <2>1, <3>1, <3>3
      <4> QED BY <1>2, <2>1, <3>1, <4>1
    <3> QED BY <3>2, <3>3
  <2>7. Len(w) \in Nat
    BY <2>4
  <2>8. FirstOf("]", w) = i
    <3>1. i \in 1..Len(w) /\ w[i] = "]"
      BY <2>5
    <3>2. \A j \in 1..(i - 1) : w[j] # "]"
      BY <2>6
    <3> QED BY <2>7, <3>1, <3>2, FirstIs
  <2>9. After(i + 1, w) = <<p>>
    <3>1. 1 \in 1..(Len(w) - i)
      BY <1>0, <2>5
    <3>2. After(1, After(i, w)) = After(i + 1, w)
      BY <2>4, <2>5, <3>1, RestOfRest
    <3> QED BY <1>1, <2>5, <3>2
  <2>10. SubSeq(w, 2, i - 1) = h
    <3> DEFINE b == SubSeq(w, 2, i - 1)
    <3>1. i \in 2..Len(w)
      BY <1>0, <2>5
    <3>2. Bracketed(A, w, i, b)
      BY <2>4, <3>1, InBrackets
    <3> HIDE DEF b
    <3>3. b \in Seq(A) /\ Len(b) = Len(h) /\ \A j \in 1..Len(h) : b[j] = w[1 + j]
      BY <1>0, <2>5, <3>2 DEF Bracketed
    <3>4. ASSUME NEW j \in 1..Len(h) PROVE b[j] = h[j]
      <4>1. 1 + j \in 1..Len(x)
        BY <1>0, <2>1
      <4> QED BY <2>1, <2>5, <3>3, <4>1
    <3>5. b = h
      BY <3>3, <3>4, SeqEqual DEF A
    <3> QED BY <3>5 DEF b
  <2>11. w # <<>> /\ w[1] = "["
    <3>1. 1 \in 1..Len(x)
      BY <1>0, <2>1
    <3> QED BY <1>0, <2>1, <2>5, <3>1
  <2>12. i # 0 /\ i < Len(w)
    BY <1>0, <2>5
  <2> QED BY <2>5, <2>8, <2>9, <2>10, <2>11, <2>12 DEF HostAndPort
<1>3. CASE w = h \o <<":", p>> /\ h[1] # "["
  <2> DEFINE x == <<p>>
             i == Len(h) + 1
  <2>1. x \in Seq(A) /\ Len(x) = 1 /\ x[1] = p
    BY <1>0
  <2>2. <<":", p>> = <<":">> \o x
    BY <1>0, Pair
  <2> HIDE DEF x
  <2>3. w \in Seq(A) /\ SplitAt(w, i, h, ":", x)
    BY <1>0, <1>3, <2>1, <2>2, PutTogether DEF A
  <2>4. /\ i \in 1..Len(w) /\ Len(w) = i + 1 /\ w[i] = ":" /\ Before(i, w) = h /\ After(i, w) = x
        /\ w[i + 1] = p /\ w[1] = h[1]
    BY <1>0, <2>1, <2>3 DEF SplitAt
  <2>5. i # 0 /\ Len(w) \in Nat /\ w # <<>>
    BY <1>0, <2>4
  <2> HIDE DEF i
  <2>6. \A j \in (i + 1)..Len(w) : w[j] # ":"
    BY <2>4, TokenFacts
  <2>7. LastOf(":", w) = i
    BY <2>4, <2>5, <2>6, LastIs
  <2>8. ~(w # <<>> /\ w[1] = "[")
    BY <1>3, <2>4
  <2> QED BY <2>4, <2>5, <2>7, <2>8 DEF HostAndPort, x
<1> QED BY <1>2, <1>3 DEF SpelledHost

LEMMA SpelledHostIs ==
  ASSUME NEW w, NEW e, e.host \in Seq(Token)
  PROVE  IsHostAndPort(w, e)
           <=> e.host # <<>> /\ e.port \in U16 /\ SpelledHost(w, e.host, e.port)
<1> DEFINE h == e.host
<1>1. "]" \notin ToSet(h) <=> \A j \in 1..Len(h) : h[j] # "]"
  <2>1. ToSet(h) = {h[j] : j \in 1..Len(h)}
    BY DEF ToSet
  <2> QED BY <2>1
<1> QED BY <1>1, Zenon DEF IsHostAndPort, SpelledHost

(* What ParseTcp accepts is what spells an address, and it takes the address  *)
(* that is spelled.                                                          *)
TcpEndpoint(e) == e.kind = "tcp" /\ e = Tcp(e.host, e.port) /\ e.host \in Seq(Token)

LEMMA TcpParsed ==
  ASSUME NEW t \in Seq(Token)
  PROVE  /\ ParseTcp(t) # Invalid => TcpEndpoint(ParseTcp(t)) /\ IsHostAndPort(Trim(t), ParseTcp(t))
         /\ \A e : TcpEndpoint(e) /\ IsHostAndPort(Trim(t), e) => ParseTcp(t) = e
<1> DEFINE w == Trim(t)
           parts == HostAndPort(w)
<1>1. w \in Seq(Token)
  BY Trimmed
<1>2. ParseTcp(t) = IF ~parts.found \/ parts.host = <<>> \/ ~Number(parts.port, U16) THEN Invalid
                    ELSE Tcp(parts.host, parts.port[1])
  BY Zenon DEF ParseTcp
<1> HIDE DEF w
<1>3. ASSUME ParseTcp(t) # Invalid
      PROVE  TcpEndpoint(ParseTcp(t)) /\ IsHostAndPort(w, ParseTcp(t))
  <2> DEFINE h == parts.host
             port == parts.port
             e == ParseTcp(t)
  <2>1. parts.found /\ h # <<>> /\ Number(port, U16) /\ e = Tcp(h, port[1])
    BY <1>2, <1>3, Zenon
  <2>2. Len(port) = 1 /\ port[1] \in U16
    BY <2>1, Zenon DEF Number
  <2>3. e.kind = "tcp" /\ e.host = h /\ e.port = port[1]
    BY <2>1 DEF Tcp
  <2>4. h = HostAndPort(w).host /\ port = HostAndPort(w).port /\ HostAndPort(w).found
    BY <2>1
  <2> HIDE DEF e, h, port
  <2>5. h \in Seq(Token) /\ SpelledHost(w, h, port[1])
    BY <1>1, <2>1, <2>2, <2>4, HostFound
  <2>6. IsHostAndPort(w, e)
    BY <2>1, <2>2, <2>3, <2>5, SpelledHostIs
  <2>7. TcpEndpoint(e)
    BY <2>1, <2>3, <2>5, Zenon DEF TcpEndpoint
  <2> QED BY <2>6, <2>7 DEF e
<1>4. ASSUME NEW e, TcpEndpoint(e), IsHostAndPort(w, e)
      PROVE  ParseTcp(t) = e
  <2> DEFINE h == e.host
             p == e.port
  <2>1. h \in Seq(Token) /\ e = Tcp(h, p)
    BY <1>4, Zenon DEF TcpEndpoint
  <2>2. h # <<>> /\ p \in U16 /\ SpelledHost(w, h, p)
    BY <1>4, <2>1, SpelledHostIs
  <2> HIDE DEF h, p
  <2>3. HostAndPort(w).found /\ HostAndPort(w).host = h /\ HostAndPort(w).port = <<p>>
    BY <2>1, <2>2, HostTaken
  <2>4. Number(<<p>>, U16) /\ <<p>>[1] = p
    BY <2>2 DEF Number
  <2>5. ParseTcp(t) = Tcp(h, p)
    BY <1>2, <2>2, <2>3, <2>4, Zenon
  <2> QED BY <2>1, <2>5
<1> QED BY <1>3, <1>4 DEF w

(* How IsPathAndBaud says it. *)
BaudEnds(w) == Len(w) > 1 /\ w[Len(w) - 1] = Comma /\ w[Len(w)] \in Digits

SpelledPath(w, p, b) ==
  /\ \A j \in 1..Len(p) : p[j] # "?"
  /\ \/ w = p \o <<"?", "baud=", b>>
     \/ w = p \o <<"?", b>>
     \/ w = p \o <<Comma, b>>
     \/ w = p /\ b = "9600" /\ ~BaudEnds(w)

LEMMA BaudFacts ==
  /\ \A b \in U32 : b \in Token /\ b \in Digits /\ b # "?" /\ b # "baud=" /\ b # Comma
  /\ \A b \in Digits : b # Comma
  /\ Comma # "?"
<1>1. Comma # "?" /\ Comma \notin Digits
  BY Zenon DEF Comma, Digits, U32, U16
<1>2. \A b \in U32 : b \in Token /\ b \in Digits /\ b # "?" /\ b # "baud="
  BY DEF U16, U32, Digits, Token
<1> QED BY <1>1, <1>2

LEMMA PathAndBaudIs ==
  ASSUME NEW w, NEW q, q = FirstOf("?", w), NEW c, c = LastOf(Comma, w),
         NEW a, a = After(q, w)
  PROVE  /\ q # 0 => /\ PathAndBaud(w).path = Before(q, w)
                     /\ PathAndBaud(w).baud = IF a # <<>> /\ a[1] = "baud=" THEN After(q + 1, w)
                                              ELSE a
         /\ q = 0 /\ c # 0 /\ Number(After(c, w), Digits)
              => PathAndBaud(w).path = Before(c, w) /\ PathAndBaud(w).baud = After(c, w)
         /\ q = 0 /\ ~(c # 0 /\ Number(After(c, w), Digits))
              => PathAndBaud(w).path = w /\ PathAndBaud(w).baud = <<"9600">>
<1> DEFINE query == IF a # <<>> /\ a[1] = "baud=" THEN After(q + 1, w) ELSE a
<1>1. PathAndBaud(w) =
        IF q # 0 THEN [path |-> Before(q, w), baud |-> query]
        ELSE IF c # 0 /\ Number(After(c, w), Digits)
          THEN [path |-> Before(c, w), baud |-> After(c, w)]
        ELSE [path |-> w, baud |-> <<"9600">>]
  BY Zenon DEF PathAndBaud, Comma
<1> HIDE DEF query
<1>2. /\ q # 0 => PathAndBaud(w).path = Before(q, w) /\ PathAndBaud(w).baud = query
      /\ q = 0 /\ c # 0 /\ Number(After(c, w), Digits)
           => PathAndBaud(w).path = Before(c, w) /\ PathAndBaud(w).baud = After(c, w)
      /\ q = 0 /\ ~(c # 0 /\ Number(After(c, w), Digits))
           => PathAndBaud(w).path = w /\ PathAndBaud(w).baud = <<"9600">>
  BY <1>1
<1> QED BY <1>2 DEF query

LEMMA PathFound ==
  ASSUME NEW w \in Seq(Token), NEW p, p = PathAndBaud(w).path,
         NEW baud, baud = PathAndBaud(w).baud, Len(baud) = 1, baud[1] \in U32
  PROVE  p \in Seq(Token) /\ SpelledPath(w, p, baud[1])
<1> DEFINE A == Token
           b == baud[1]
           q == FirstOf("?", w)
           c == LastOf(Comma, w)
           a == After(q, w)
<1>0. Len(w) \in Nat /\ b \in A /\ "?" \in A /\ "baud=" \in A /\ Comma \in A /\ w \in Seq(A)
  BY TokenFacts, BaudFacts
<1>1. /\ q # 0 => p = Before(q, w)
                  /\ baud = IF a # <<>> /\ a[1] = "baud=" THEN After(q + 1, w) ELSE a
      /\ q = 0 /\ c # 0 /\ Number(After(c, w), Digits) => p = Before(c, w) /\ baud = After(c, w)
      /\ q = 0 /\ ~(c # 0 /\ Number(After(c, w), Digits)) => p = w /\ baud = <<"9600">>
  BY PathAndBaudIs
<1>2. \/ q = 0 /\ \A j \in 1..Len(w) : w[j] # "?"
      \/ q \in 1..Len(w) /\ w[q] = "?" /\ \A j \in 1..(q - 1) : w[j] # "?"
  BY FirstOfIs
<1>3. \/ c = 0 /\ \A j \in 1..Len(w) : w[j] # Comma
      \/ c \in 1..Len(w) /\ w[c] = Comma /\ \A j \in (c + 1)..Len(w) : w[j] # Comma
  BY LastOfIs
<1> HIDE DEF A, q, c, b
<1>4. CASE q # 0
  <2>1. q \in 1..Len(w) /\ w[q] = "?" /\ \A j \in 1..(q - 1) : w[j] # "?"
    BY <1>2, <1>4
  <2>2. PartedAt(A, w, q)
    BY <1>0, <2>1, Parted
  <2> HIDE DEF a
  <2>3. /\ p \in Seq(A) /\ Len(p) = q - 1 /\ (\A j \in 1..(q - 1) : p[j] = w[j])
        /\ a \in Seq(A) /\ Len(a) = Len(w) - q /\ w = p \o (<<"?">> \o a)
    BY <1>1, <1>4, <2>1, <2>2 DEF PartedAt, a
  <2>4. \A j \in 1..Len(p) : p[j] # "?"
    BY <2>1, <2>3
  <2>5. CASE a # <<>> /\ a[1] = "baud="
    <3>1. Len(a) >= 1 /\ 1 \in 1..(Len(w) - q)
      <4>1. a \in Seq(A) /\ a # <<>>
        BY <2>3, <2>5
      <4>2. Len(a) # 0 /\ Len(a) \in Nat
        BY <4>1
      <4>3. Len(a) = Len(w) - q /\ Len(w) \in Nat /\ q \in 1..Len(w)
        BY <1>0, <2>1, <2>3
      <4> QED BY <4>2, <4>3
    <3>2. baud = After(1, a)
      <4>1. After(1, After(q, w)) = After(q + 1, w)
        BY <1>0, <2>1, <3>1, RestOfRest
      <4> QED BY <1>1, <1>4, <2>5, <4>1 DEF a
    <3>3. FirstApart(A, a, After(1, a))
      BY <2>3, <3>1, FirstWord
    <3>4. a = <<"baud=">> \o baud /\ baud \in Seq(A)
      BY <2>5, <3>2, <3>3 DEF FirstApart
    <3>5. baud = <<b>>
      BY <3>4, OneWord DEF b
    <3>6. <<"baud=", b>> = <<"baud=">> \o <<b>>
      BY <1>0, Pair
    <3>7. <<"?", "baud=", b>> = <<"?">> \o <<"baud=", b>>
      BY <1>0, Triple
    <3>8. w = p \o <<"?", "baud=", b>>
      BY <2>3, <3>4, <3>5, <3>6, <3>7, Zenon
    <3> QED BY <2>3, <2>4, <3>8 DEF SpelledPath, A, b
  <2>6. CASE ~(a # <<>> /\ a[1] = "baud=")
    <3>1. baud = a
      BY <1>1, <1>4, <2>6
    <3>2. a = <<b>>
      BY <2>3, <3>1, OneWord DEF b
    <3>3. <<"?", b>> = <<"?">> \o <<b>>
      BY <1>0, Pair
    <3>4. w = p \o <<"?", b>>
      BY <2>3, <3>2, <3>3, Zenon
    <3> QED BY <2>3, <2>4, <3>4 DEF SpelledPath, A, b
  <2> QED BY <2>5, <2>6
<1>5. CASE q = 0 /\ c # 0 /\ Number(After(c, w), Digits)
  <2>1. c \in 1..Len(w) /\ w[c] = Comma /\ \A j \in 1..Len(w) : w[j] # "?"
    BY <1>0, <1>2, <1>3, <1>5
  <2>2. PartedAt(A, w, c)
    BY <1>0, <2>1, Parted
  <2>3. /\ p \in Seq(A) /\ Len(p) = c - 1 /\ (\A j \in 1..(c - 1) : p[j] = w[j])
        /\ baud \in Seq(A) /\ w = p \o (<<Comma>> \o baud)
    BY <1>1, <1>5, <2>1, <2>2 DEF PartedAt
  <2>4. \A j \in 1..Len(p) : p[j] # "?"
    <3>1. ASSUME NEW j \in 1..(c - 1) PROVE p[j] # "?"
      <4>1. j \in 1..Len(w)
        BY <1>0, <2>1
      <4>2. p[j] = w[j]
        BY <2>3, <3>1
      <4> QED BY <2>1, <4>1, <4>2
    <3> QED BY <2>3, <3>1
  <2>5. baud = <<b>>
    BY <2>3, OneWord DEF b
  <2>6. <<Comma, b>> = <<Comma>> \o <<b>>
    BY <1>0, Pair
  <2>7. w = p \o <<Comma, b>>
    BY <2>3, <2>5, <2>6, Zenon
  <2> QED BY <2>3, <2>4, <2>7 DEF SpelledPath, A, b
<1>6. CASE q = 0 /\ ~(c # 0 /\ Number(After(c, w), Digits))
  <2>1. p = w /\ baud = <<"9600">>
    BY <1>1, <1>6
  <2>2. b = "9600" /\ \A j \in 1..Len(w) : w[j] # "?"
    BY <1>0, <1>2, <1>6, <2>1 DEF b
  <2>3. ASSUME BaudEnds(w) PROVE FALSE
    <3> DEFINE i == Len(w) - 1
               s == After(i, w)
    <3>1. i \in 1..Len(w) /\ i + 1 = Len(w) /\ w[i] = Comma /\ w[i + 1] \in Digits
      BY <1>0, <2>3 DEF BaudEnds
    <3> HIDE DEF i
    <3>2. \A j \in (i + 1)..Len(w) : w[j] # Comma
      BY <1>0, <3>1, BaudFacts
    <3>3. c = i
      BY <1>0, <3>1, <3>2, LastIs DEF c
    <3>4. PartedAt(A, w, i)
      BY <1>0, <3>1, Parted
    <3> HIDE DEF s
    <3>5. Len(s) = 1 /\ s[1] = w[i + 1]
      BY <1>0, <3>1, <3>4 DEF PartedAt, s
    <3>6. Number(s, Digits)
      BY <3>1, <3>5 DEF Number
    <3> QED BY <1>0, <1>6, <3>1, <3>3, <3>6 DEF s
  <2> QED BY <1>0, <2>1, <2>2, <2>3 DEF SpelledPath, A, b
<1> QED BY <1>4, <1>5, <1>6

LEMMA PathTaken ==
  ASSUME NEW p \in Seq(Token), NEW b \in U32, NEW w, SpelledPath(w, p, b)
  PROVE  PathAndBaud(w).path = p /\ PathAndBaud(w).baud = <<b>>
<1> DEFINE A == Token
           q == FirstOf("?", w)
           c == LastOf(Comma, w)
           a == After(q, w)
           x == <<b>>
           i == Len(p) + 1
<1>0. Len(p) \in Nat /\ b \in A /\ "?" \in A /\ "baud=" \in A /\ Comma \in A /\ p \in Seq(A)
  BY TokenFacts, BaudFacts
<1>1. /\ q # 0 => /\ PathAndBaud(w).path = Before(q, w)
                  /\ PathAndBaud(w).baud = IF a # <<>> /\ a[1] = "baud=" THEN After(q + 1, w) ELSE a
      /\ q = 0 /\ c # 0 /\ Number(After(c, w), Digits)
           => PathAndBaud(w).path = Before(c, w) /\ PathAndBaud(w).baud = After(c, w)
      /\ q = 0 /\ ~(c # 0 /\ Number(After(c, w), Digits))
           => PathAndBaud(w).path = w /\ PathAndBaud(w).baud = <<"9600">>
  BY PathAndBaudIs
<1>2. \A j \in 1..Len(p) : p[j] # "?"
  BY DEF SpelledPath
<1>3. x \in Seq(A) /\ Len(x) = 1 /\ x[1] = b
  BY <1>0
<1> HIDE DEF A, q, c, a, x
<1>4. ASSUME NEW s \in Seq(A), w = p \o (<<"?">> \o s)
      PROVE  q = i /\ q # 0 /\ PathAndBaud(w).path = p /\ a = s /\ w \in Seq(A) /\ i \in 1..Len(w)
             /\ Len(w) - i = Len(s) /\ Len(w) \in Nat
  <2>1. w \in Seq(A) /\ SplitAt(w, i, p, "?", s)
    BY <1>0, <1>4, PutTogether
  <2> HIDE DEF i
  <2>2. /\ i \in 1..Len(w) /\ Len(w) = i + Len(s) /\ w[i] = "?" /\ Before(i, w) = p /\ After(i, w) = s
        /\ i = Len(p) + 1 /\ \A j \in 1..Len(p) : w[j] = p[j]
    BY <2>1 DEF SplitAt
  <2>3. Len(w) \in Nat /\ Len(s) \in Nat
    BY <2>1
  <2>4. \A j \in 1..(i - 1) : w[j] # "?"
    BY <1>0, <1>2, <2>2
  <2>5. i \in 1..Len(w) /\ w[i] = "?"
    BY <2>2
  <2>6. q = i
    BY <2>3, <2>4, <2>5, FirstIs DEF q
  <2> QED BY <1>1, <2>1, <2>2, <2>3, <2>6 DEF a
<1>5. CASE w = p \o <<"?", "baud=", b>>
  <2> DEFINE s == <<"baud=", b>>
  <2>1. s \in Seq(A) /\ Len(s) = 2 /\ s[1] = "baud=" /\ After(1, s) = x
    BY <1>0, SecondOfTwo DEF x
  <2>2. <<"?", "baud=", b>> = <<"?">> \o s
    BY <1>0, Triple
  <2> HIDE DEF s, i
  <2>3. q = i /\ q # 0 /\ PathAndBaud(w).path = p /\ a = s /\ w \in Seq(A) /\ i \in 1..Len(w)
        /\ Len(w) - i = Len(s)
    BY <1>4, <1>5, <2>1, <2>2
  <2>4. 1 \in 1..(Len(w) - i)
    BY <2>1, <2>3
  <2>5. After(1, After(i, w)) = After(i + 1, w)
    BY <2>3, <2>4, RestOfRest
  <2>6. a # <<>> /\ a[1] = "baud="
    <3>1. a = s /\ Len(s) = 2 /\ s[1] = "baud="
      BY <2>1, <2>3
    <3>2. s # <<>>
      <4>1. Len(<<>>) = 0
        OBVIOUS
      <4>2. Len(s) # 0
        BY <3>1
      <4> QED BY <4>1, <4>2, Zenon
    <3> QED BY <3>1, <3>2
  <2> QED BY <1>1, <2>1, <2>3, <2>5, <2>6 DEF a, x
<1>6. CASE w = p \o <<"?", b>>
  <2>1. <<"?", b>> = <<"?">> \o x
    BY <1>0, Pair DEF x
  <2>2. q # 0 /\ PathAndBaud(w).path = p /\ a = x
    BY <1>3, <1>4, <1>6, <2>1
  <2>3. a[1] # "baud="
    BY <1>3, <2>2, BaudFacts
  <2> QED BY <1>1, <2>2, <2>3 DEF x
<1>7. CASE w = p \o <<Comma, b>>
  <2>1. <<Comma, b>> = <<Comma>> \o x
    BY <1>0, Pair DEF x
  <2>2. w \in Seq(A) /\ SplitAt(w, i, p, Comma, x)
    BY <1>0, <1>3, <1>7, <2>1, PutTogether
  <2> HIDE DEF i
  <2>3. /\ i \in 1..Len(w) /\ Len(w) = i + 1 /\ w[i] = Comma /\ Before(i, w) = p /\ After(i, w) = x
        /\ i = Len(p) + 1 /\ (\A j \in 1..Len(p) : w[j] = p[j]) /\ w[i + 1] = b
    BY <1>3, <2>2 DEF SplitAt
  <2>4. Len(w) \in Nat
    BY <2>2
  <2>5. ASSUME NEW j \in 1..Len(w) PROVE w[j] # "?"
    <3>1. j \in 1..Len(p) \/ j = i \/ j = i + 1
      BY <1>0, <2>3
    <3> QED BY <1>2, <2>3, <3>1, BaudFacts
  <2>6. q = 0
    BY <2>5, FirstNone DEF q
  <2>7. \A j \in (i + 1)..Len(w) : w[j] # Comma
    BY <2>3, BaudFacts
  <2>8. i \in 1..Len(w) /\ w[i] = Comma /\ i # 0
    BY <2>3
  <2>9. c = i
    BY <2>4, <2>7, <2>8, LastIs DEF c
  <2>10. Number(x, Digits)
    BY <1>3, BaudFacts DEF Number
  <2> QED BY <1>1, <2>3, <2>6, <2>8, <2>9, <2>10 DEF x
<1>8. CASE w = p /\ b = "9600" /\ ~BaudEnds(w)
  <2>1. q = 0
    BY <1>2, <1>8, FirstNone DEF q
  <2>2. ASSUME c # 0, Number(After(c, w), Digits) PROVE FALSE
    <3> DEFINE s == After(c, w)
    <3>0. w \in Seq(A) /\ Len(w) \in Nat
      BY <1>0, <1>8
    <3>1. c \in 1..Len(w) /\ w[c] = Comma
      BY <2>2, <3>0, LastOfIs DEF c
    <3>2. PartedAt(A, w, c)
      BY <3>0, <3>1, Parted
    <3>3. Len(s) = 1 /\ s[1] \in Digits
      BY <2>2, Zenon DEF Number
    <3> HIDE DEF s
    <3>4. Len(w) - c = 1 /\ s[1] = w[c + 1]
      <4>1. Len(s) = Len(w) - c /\ \A j \in 1..(Len(w) - c) : s[j] = w[c + j]
        BY <3>2 DEF PartedAt, s
      <4>2. Len(w) - c = 1
        BY <3>3, <4>1
      <4>3. 1 \in 1..(Len(w) - c)
        BY <4>2
      <4> QED BY <4>1, <4>2, <4>3
    <3>5. Len(w) > 1 /\ Len(w) - 1 = c /\ Len(w) = c + 1
      BY <3>0, <3>1, <3>4
    <3> QED BY <1>8, <3>1, <3>3, <3>4, <3>5 DEF BaudEnds
  <2> QED BY <1>1, <1>8, <2>1, <2>2
<1> QED BY <1>5, <1>6, <1>7, <1>8 DEF SpelledPath

LEMMA SpelledPathIs ==
  ASSUME NEW w, NEW e, e.path \in Seq(Token)
  PROVE  IsPathAndBaud(w, e)
           <=> e.path # <<>> /\ e.baud \in U32 /\ SpelledPath(w, e.path, e.baud)
<1> DEFINE p == e.path
<1>1. "?" \notin ToSet(p) <=> \A j \in 1..Len(p) : p[j] # "?"
  <2>1. ToSet(p) = {p[j] : j \in 1..Len(p)}
    BY DEF ToSet
  <2> QED BY <2>1
<1>2. EndsInBaud(w) <=> BaudEnds(w)
  BY Zenon DEF EndsInBaud, BaudEnds, Comma
<1> QED BY <1>1, <1>2, Zenon DEF IsPathAndBaud, SpelledPath, Comma

(* What ParseSerial accepts is what spells a path and a baud rate.           *)
SerialEndpoint(e) == e.kind = "serial" /\ e = Serial(e.path, e.baud) /\ e.path \in Seq(Token)

LEMMA SerialParsed ==
  ASSUME NEW t \in Seq(Token)
  PROVE  /\ ParseSerial(t) # Invalid
              => SerialEndpoint(ParseSerial(t)) /\ IsPathAndBaud(Trim(t), ParseSerial(t))
         /\ \A e : SerialEndpoint(e) /\ IsPathAndBaud(Trim(t), e) => ParseSerial(t) = e
<1> DEFINE w == Trim(t)
           parts == PathAndBaud(w)
<1>1. w \in Seq(Token)
  BY Trimmed
<1>2. ParseSerial(t) = IF parts.path = <<>> \/ ~Number(parts.baud, U32) THEN Invalid
                       ELSE Serial(parts.path, parts.baud[1])
  BY Zenon DEF ParseSerial
<1> HIDE DEF w
<1>3. ASSUME ParseSerial(t) # Invalid
      PROVE  SerialEndpoint(ParseSerial(t)) /\ IsPathAndBaud(w, ParseSerial(t))
  <2> DEFINE p == parts.path
             baud == parts.baud
             e == ParseSerial(t)
  <2>1. p # <<>> /\ Number(baud, U32) /\ e = Serial(p, baud[1])
    BY <1>2, <1>3, Zenon
  <2>2. Len(baud) = 1 /\ baud[1] \in U32
    BY <2>1, Zenon DEF Number
  <2>3. e.kind = "serial" /\ e.path = p /\ e.baud = baud[1]
    BY <2>1 DEF Serial
  <2>4. p = PathAndBaud(w).path /\ baud = PathAndBaud(w).baud
    OBVIOUS
  <2> HIDE DEF e, p, baud
  <2>5. p \in Seq(Token) /\ SpelledPath(w, p, baud[1])
    BY <1>1, <2>2, <2>4, PathFound
  <2>6. IsPathAndBaud(w, e)
    BY <2>1, <2>2, <2>3, <2>5, SpelledPathIs
  <2>7. SerialEndpoint(e)
    BY <2>1, <2>3, <2>5, Zenon DEF SerialEndpoint
  <2> QED BY <2>6, <2>7 DEF e
<1>4. ASSUME NEW e, SerialEndpoint(e), IsPathAndBaud(w, e)
      PROVE  ParseSerial(t) = e
  <2> DEFINE p == e.path
             b == e.baud
  <2>1. p \in Seq(Token) /\ e = Serial(p, b)
    BY <1>4, Zenon DEF SerialEndpoint
  <2>2. p # <<>> /\ b \in U32 /\ SpelledPath(w, p, b)
    BY <1>4, <2>1, SpelledPathIs
  <2> HIDE DEF p, b
  <2>3. PathAndBaud(w).path = p /\ PathAndBaud(w).baud = <<b>>
    BY <2>1, <2>2, PathTaken
  <2>4. Number(<<b>>, U32) /\ <<b>>[1] = b
    BY <2>2 DEF Number
  <2>5. ParseSerial(t) = Serial(p, b)
    BY <1>2, <2>2, <2>3, <2>4, Zenon
  <2> QED BY <2>1, <2>5
<1> QED BY <1>3, <1>4 DEF w

(* What ParseUrl accepts is what spells an endpoint: the kinds of endpoints   *)
(* begin with different schemes.                                             *)
ReplayEndpoint(e) == e.kind = "replay" /\ e = Replay(e.path)

Wellformed(e) == TcpEndpoint(e) \/ SerialEndpoint(e) \/ ReplayEndpoint(e)

LEMMA UrlParsed ==
  ASSUME NEW url \in Seq(Token)
  PROVE  /\ ParseUrl(url) # Invalid => Spells(url, ParseUrl(url))
         /\ \A e : Wellformed(e) /\ Spells(url, e) => ParseUrl(url) = e
<1> DEFINE t == Trim(url)
           r == Tail(t)
           rest == Trim(r)
           x == ParseUrl(url)
<1>1. t \in Seq(Token) /\ Trim(t) = t
  BY Trimmed
<1>2. x = IF t = <<>> THEN Invalid ELSE
          CASE t[1] = "tcp://"        -> ParseTcp(r)
            [] t[1] \in ReplaySchemes -> ParseReplay(r)
            [] t[1] \in SerialSchemes -> ParseSerial(r)
            [] t[1] \in DevicePaths   -> ParseSerial(t)
            [] OTHER                  -> Invalid
  BY Zenon DEF ParseUrl
<1>3. \A e : Spells(url, e) <=>
        /\ t # <<>>
        /\ \/ e.kind = "tcp" /\ t[1] = "tcp://" /\ IsHostAndPort(rest, e)
           \/ e.kind = "replay" /\ t[1] \in ReplaySchemes /\ rest # <<>> /\ rest = e.path
           \/ e.kind = "serial" /\ t[1] \in SerialSchemes /\ IsPathAndBaud(rest, e)
           \/ e.kind = "serial" /\ t[1] \in DevicePaths /\ IsPathAndBaud(t, e)
  BY Zenon DEF Spells
<1> HIDE DEF t, x
<1>4. t # <<>> => r \in Seq(Token)
  BY <1>1
<1>5. \A e : Wellformed(e) =>
        /\ e.kind = "tcp" => TcpEndpoint(e)
        /\ e.kind = "serial" => SerialEndpoint(e)
        /\ e.kind = "replay" => ReplayEndpoint(e)
  <2>1. "tcp" # "serial" /\ "tcp" # "replay" /\ "serial" # "replay"
    OBVIOUS
  <2> QED BY <2>1, Zenon DEF Wellformed, TcpEndpoint, SerialEndpoint, ReplayEndpoint
<1> HIDE DEF r
<1>6. t # <<>> =>
        /\ ParseTcp(r) # Invalid => TcpEndpoint(ParseTcp(r)) /\ IsHostAndPort(rest, ParseTcp(r))
        /\ \A e : TcpEndpoint(e) /\ IsHostAndPort(rest, e) => ParseTcp(r) = e
  BY <1>4, TcpParsed
<1>7. t # <<>> =>
        /\ ParseSerial(r) # Invalid => SerialEndpoint(ParseSerial(r)) /\ IsPathAndBaud(rest, ParseSerial(r))
        /\ \A e : SerialEndpoint(e) /\ IsPathAndBaud(rest, e) => ParseSerial(r) = e
  BY <1>4, SerialParsed
<1>8. /\ ParseSerial(t) # Invalid => SerialEndpoint(ParseSerial(t)) /\ IsPathAndBaud(t, ParseSerial(t))
      /\ \A e : SerialEndpoint(e) /\ IsPathAndBaud(t, e) => ParseSerial(t) = e
  <2>1. /\ ParseSerial(t) # Invalid => SerialEndpoint(ParseSerial(t)) /\ IsPathAndBaud(Trim(t), ParseSerial(t))
        /\ \A e : SerialEndpoint(e) /\ IsPathAndBaud(Trim(t), e) => ParseSerial(t) = e
    BY <1>1, SerialParsed
  <2> QED BY <1>1, <2>1, Zenon
<1>9. ParseReplay(r) = IF rest = <<>> THEN Invalid ELSE Replay(rest)
  BY Zenon DEF ParseReplay
<1> HIDE DEF rest
<1>10. \A p : Replay(p).kind = "replay" /\ Replay(p).path = p
  BY DEF Replay
<1>11. /\ "tcp://" \notin ReplaySchemes \cup SerialSchemes \cup DevicePaths
       /\ ReplaySchemes \cap (SerialSchemes \cup DevicePaths) = {} /\ SerialSchemes \cap DevicePaths = {}
  BY DEF ReplaySchemes, SerialSchemes, DevicePaths
<1>12. CASE t = <<>>
  BY <1>2, <1>3, <1>12, Zenon DEF x
<1>13. CASE t # <<>> /\ t[1] = "tcp://"
  <2>1. x = ParseTcp(r)
    BY <1>2, <1>11, <1>13
  <2>2. \A e : Spells(url, e) <=> e.kind = "tcp" /\ IsHostAndPort(rest, e)
    BY <1>3, <1>11, <1>13
  <2> QED BY <1>5, <1>6, <1>13, <2>1, <2>2, Zenon DEF x, TcpEndpoint
<1>14. CASE t # <<>> /\ t[1] \in ReplaySchemes
  <2>1. x = ParseReplay(r)
    BY <1>2, <1>11, <1>14
  <2>2. \A e : Spells(url, e) <=> e.kind = "replay" /\ rest # <<>> /\ rest = e.path
    BY <1>3, <1>11, <1>14
  <2> QED BY <1>5, <1>9, <1>10, <2>1, <2>2, Zenon DEF x, ReplayEndpoint
<1>15. CASE t # <<>> /\ t[1] \in SerialSchemes
  <2>1. x = ParseSerial(r)
    BY <1>2, <1>11, <1>15
  <2>2. \A e : Spells(url, e) <=> e.kind = "serial" /\ IsPathAndBaud(rest, e)
    BY <1>3, <1>11, <1>15
  <2> QED BY <1>5, <1>7, <1>15, <2>1, <2>2, Zenon DEF x, SerialEndpoint
<1>16. CASE t # <<>> /\ t[1] \in DevicePaths
  <2>1. x = ParseSerial(t)
    BY <1>2, <1>11, <1>16
  <2>2. \A e : Spells(url, e) <=> e.kind = "serial" /\ IsPathAndBaud(t, e)
    BY <1>3, <1>11, <1>16
  <2> QED BY <1>5, <1>8, <2>1, <2>2, Zenon DEF x, SerialEndpoint
<1>17. CASE t # <<>> /\ t[1] # "tcp://" /\ t[1] \notin ReplaySchemes /\ t[1] \notin SerialSchemes
            /\ t[1] \notin DevicePaths
  BY <1>2, <1>3, <1>17 DEF x
<1> QED BY <1>12, <1>13, <1>14, <1>15, <1>16, <1>17

(* What is said of transport_url is a text, and the endpoints are of the kinds *)
(* that a text can name.                                                     *)
LEMMA SaidIsText ==
  ASSUME inst \in Installations, NEW u \in LastSaid("transport_url")
  PROVE  u \in Seq(Token)
<1>1. "transport_url" \in Keys
  BY DEF Keys
<1>2. EnvLayer("transport_url") = inst.env["transport_url"]
  BY DEF EnvLayer
<1>3. inst.env["transport_url"] \subseteq Seq(STRING)
  BY InstallationsAssumption
<1>4. \A f \in ConfigFile : f.says["transport_url"] \subseteq Seq(STRING)
  BY InstallationsAssumption, Zenon DEF ConfigFile
<1>5. FileLayer("transport_url") \subseteq Seq(STRING)
  BY <1>4, Zenon DEF FileLayer
<1>6. Defaults["transport_url"] = <<>>
  BY DEF Defaults
<1>7. u \in Seq(STRING)
  <2>1. u \in EnvLayer("transport_url") \/ u \in FileLayer("transport_url") \/ u = <<>>
    BY <1>6, Zenon DEF LastSaid
  <2>2. <<>> \in Seq(STRING)
    OBVIOUS
  <2> QED BY <1>2, <1>3, <1>5, <2>1, <2>2, Zenon
<1>8. STRING \subseteq Token
  BY DEF Token
<1>9. Seq(STRING) \subseteq Seq(Token)
  BY <1>8, SeqMonotonic
<1> QED BY <1>7, <1>9

LEMMA EndpointsAreWellformed ==
  ASSUME NEW e \in Endpoints
  PROVE  Wellformed(e)
<1>1. \A s \in Seq(STRING) : s \in Seq(Token)
  <2>1. STRING \subseteq Token
    BY DEF Token
  <2> QED BY <2>1, SeqMonotonic
<1> QED BY <1>1, EndpointsAssumption, Zenon
        DEF Wellformed, TcpEndpoint, SerialEndpoint, ReplayEndpoint

LEMMA ToldIsSpelled == inst \in Installations /\ SentAsLastSaid => SentWhereTold
<1> SUFFICES ASSUME inst \in Installations, SentAsLastSaid, answer # "none"
             PROVE  \E url \in LastSaid("transport_url") :
                      /\ bus # Invalid => Spells(url, bus)
                      /\ \A e \in Endpoints : Spells(url, e) => bus = e
                      /\ answer = IF LastSaid("writes_enabled") \cap Yes = {} THEN "200 dry run"
                                  ELSE IF bus = Invalid THEN "502 transport" ELSE "to the bus"
  BY Zenon DEF SentWhereTold
<1>1. PICK u \in LastSaid("transport_url") : bus = ParseUrl(u)
  BY Zenon DEF SentAsLastSaid
<1>2. u \in Seq(Token)
  BY SaidIsText
<1>3. /\ ParseUrl(u) # Invalid => Spells(u, ParseUrl(u))
      /\ \A e : Wellformed(e) /\ Spells(u, e) => ParseUrl(u) = e
  BY <1>2, UrlParsed
<1>4. \A e \in Endpoints : Spells(u, e) => bus = e
  BY <1>1, <1>3, EndpointsAreWellformed, Zenon
<1> QED BY <1>1, <1>3, <1>4, Zenon DEF SentAsLastSaid

(* SentWhereTold: a command is sent on only if the last word on writes_enabled *)
(* was yes, and then to the one endpoint that the last word on transport_url   *)
(* spells, however it is written; if it spells none the command fails.        *)
THEOREM WritesOnlyIfTold == StartupSpec => []SentWhereTold
<1>1. StartupInv => SentWhereTold
  BY SentAsSaid, ToldIsSpelled DEF StartupInv
<1> QED BY <1>1, StartupInvHolds, PTL
=============================================================================
