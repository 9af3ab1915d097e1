---------------------------- MODULE GuardProofs ----------------------------
(***************************************************************************)
(* Theorems of the execution guard, for any callers, keys and rules.  The  *)
(* invariants that TLC checks are inductive in this order: TypeOK by       *)
(* itself, StateCoherent given TypeOK (a request under way has a key),     *)
(* NoBurst given both (a probe exists only on an expired cooldown), and    *)
(* ProbeHasOwner given TypeOK.  CooldownScaled follows from StateCoherent  *)
(* and what the two loops of Backoff compute for every rule; the recursion *)
(* is reasoned about by its least counterexample.                          *)
(***************************************************************************)
EXTENDS Guard, WellFoundedInduction, TLAPS

LEMMA LessThan == \A a, b \in Nat : a < b => <<a, b>> \in OpToRel(<, Nat)
BY Z3 DEF OpToRel

(* A set of numbers has a least one. *)
LEMMA Least == ASSUME NEW S \in SUBSET Nat, S # {} PROVE \E x \in S : \A y \in S : x <= y
<1>1. PICK x \in S : \A y \in S : ~(<<y, x>> \in OpToRel(<, Nat))
  BY NatLessThanWellFounded, WFMin
<1>2. ASSUME NEW y \in S PROVE x <= y
  <2>1. x \in Nat /\ y \in Nat /\ ~(y < x)
    BY <1>1, LessThan
  <2>2. QED
    BY <2>1
<1>3. QED
  BY <1>2

(* The equation of maxPenaltyLevel's loop, over the numbers not less than   *)
(* maximumCooldown - m, and the function that solves it over all of them.   *)
LevelFrom(rule, m, f) ==
    f = [c \in {x \in Nat \ {0} : x + m >= rule.maximumCooldown} |->
            IF c < rule.maximumCooldown THEN 1 + f[2 * c] ELSE 1]
LevelEq(rule, f) ==
    f = [c \in Nat \ {0} |-> IF c < rule.maximumCooldown THEN 1 + f[2 * c] ELSE 1]
Level(rule) == CHOOSE f : LevelEq(rule, f)

(* The loop ends wherever it starts, so that its equation has a solution.  *)
LEMMA LevelSolved == ASSUME NEW rule \in Rule PROVE LevelEq(rule, Level(rule))
<1> DEFINE M == rule.maximumCooldown
           D(m) == {x \in Nat \ {0} : x + m >= M}
<1>0. M \in Nat \ {0}
  BY DEF Rule
<1>1. \A m \in Nat : \E f : LevelFrom(rule, m, f)
  <2> SUFFICES ASSUME NEW S, S = {m \in Nat : ~\E f : LevelFrom(rule, m, f)}, S # {}
               PROVE  FALSE
    OBVIOUS
  <2>1. PICK n \in S : \A y \in S : n <= y
    BY Least
  <2>2. CASE n = 0
    <3> DEFINE f == [c \in D(0) |-> 1]
    <3>1. \A c \in D(0) : ~(c < M)
      BY <1>0
    <3>2. f = [c \in D(0) |-> IF c < M THEN 1 + f[2 * c] ELSE 1]
      BY <3>1
    <3>3. LevelFrom(rule, 0, f)
      BY <3>2 DEF LevelFrom
    <3>4. QED
      BY <2>2, <3>3
  <2>3. CASE n # 0
    <3>1. n \in Nat /\ n - 1 \in Nat /\ n - 1 \notin S
      BY <2>1, <2>3
    <3>2. PICK g : LevelFrom(rule, n - 1, g)
      BY <3>1
    <3>3. \A c \in D(n - 1) : c \in D(n) /\ g[c] = IF c < M THEN 1 + g[2 * c] ELSE 1
      BY <3>1, <3>2, <1>0 DEF LevelFrom
    <3>4. \A c \in D(n) : 2 * c \in D(n - 1)
      BY <3>1, <1>0
    <3> DEFINE f == [c \in D(n) |-> IF c < M THEN 1 + g[2 * c] ELSE 1]
    <3>5. \A c \in D(n - 1) : f[c] = g[c]
      BY <3>3
    <3>6. \A c \in D(n) : f[2 * c] = g[2 * c]
      BY <3>4, <3>5
    <3> HIDE DEF D
    <3>7. f = [c \in D(n) |-> IF c < M THEN 1 + f[2 * c] ELSE 1]
      BY <3>6, Zenon
    <3>8. LevelFrom(rule, n, f)
      BY <3>7 DEF LevelFrom, D
    <3>9. QED
      BY <3>8
  <2>4. QED
    BY <2>2, <2>3
<1>2. PICK f : LevelFrom(rule, M, f)
  BY <1>0, <1>1
<1>3. D(M) = Nat \ {0}
  BY <1>0
<1>4. LevelEq(rule, f)
  BY <1>2, <1>3 DEF LevelFrom, LevelEq
<1>5. QED
  BY <1>4 DEF Level

LEMMA LevelIs ==
    ASSUME NEW rule \in Rule
    PROVE  /\ MaxPenaltyLevel(rule) = Level(rule)[rule.baseCooldown]
           /\ \A c \in Nat \ {0} :
                 Level(rule)[c] = IF c < rule.maximumCooldown THEN 1 + Level(rule)[2 * c] ELSE 1
<1>1. MaxPenaltyLevel(rule) = Level(rule)[rule.baseCooldown]
  BY Zenon DEF MaxPenaltyLevel, Level, LevelEq
<1>2. QED
  BY <1>1, LevelSolved DEF LevelEq

(* The equation of cooldown's loop, up to level m and for all levels. *)
DoubledTo(rule, m, f) ==
    f = [n \in 0..m |-> IF n <= 1 THEN rule.baseCooldown
                        ELSE IF f[n - 1] >= rule.maximumCooldown \div 2 THEN rule.maximumCooldown
                        ELSE 2 * f[n - 1]]
DoubledEq(rule, f) ==
    f = [n \in Nat |-> IF n <= 1 THEN rule.baseCooldown
                       ELSE IF f[n - 1] >= rule.maximumCooldown \div 2 THEN rule.maximumCooldown
                       ELSE 2 * f[n - 1]]

LEMMA DoubledIs ==
    ASSUME NEW rule \in Rule
    PROVE  \A n \in Nat :
             Doubled(rule)[n] = IF n <= 1 THEN rule.baseCooldown
                                ELSE IF Doubled(rule)[n - 1] >= rule.maximumCooldown \div 2
                                     THEN rule.maximumCooldown ELSE 2 * Doubled(rule)[n - 1]
<1> DEFINE Next1(x, n) == IF n <= 1 THEN rule.baseCooldown
                          ELSE IF x >= rule.maximumCooldown \div 2 THEN rule.maximumCooldown ELSE 2 * x
<1>1. \A m \in Nat : \E f : DoubledTo(rule, m, f)
  <2> SUFFICES ASSUME NEW S, S = {m \in Nat : ~\E f : DoubledTo(rule, m, f)}, S # {}
               PROVE  FALSE
    OBVIOUS
  <2>1. PICK m \in S : \A y \in S : m <= y
    BY Least
  <2>2. CASE m = 0
    <3>1. DoubledTo(rule, 0, [n \in 0..0 |-> rule.baseCooldown])
      BY DEF DoubledTo
    <3>2. QED
      BY <2>2, <3>1
  <2>3. CASE m # 0
    <3>1. m \in Nat /\ m - 1 \in Nat /\ m - 1 \notin S
      BY <2>1, <2>3
    <3>2. PICK g : DoubledTo(rule, m - 1, g)
      BY <3>1
    <3> DEFINE f == [n \in 0..m |-> Next1(g[n - 1], n)]
    <3>3. \A n \in 0..m - 1 : g[n] = Next1(g[n - 1], n)
      BY <3>1, <3>2 DEF DoubledTo
    <3>4. \A n \in 0..m - 1 : f[n] = g[n]
      BY <3>1, <3>3
    <3>5. \A n \in 0..m : Next1(f[n - 1], n) = Next1(g[n - 1], n)
      <4>1. TAKE n \in 0..m
      <4>2. CASE n <= 1
        BY <4>2
      <4>3. CASE ~(n <= 1)
        <5>1. n - 1 \in 0..m - 1
          BY <4>3, <3>1
        <5>2. QED
          BY <5>1, <3>4
      <4>4. QED
        BY <4>2, <4>3
    <3> HIDE DEF Next1
    <3>6. f = [n \in 0..m |-> Next1(f[n - 1], n)]
      BY <3>5, Zenon
    <3>7. DoubledTo(rule, m, f)
      BY <3>6 DEF DoubledTo, Next1
    <3>8. QED
      BY <3>7
  <2>4. QED
    BY <2>2, <2>3
<1> HIDE DEF Next1
<1>2. ASSUME NEW m \in Nat, NEW f, NEW k \in Nat, NEW g, m <= k, DoubledTo(rule, m, f), DoubledTo(rule, k, g)
      PROVE  \A n \in 0..m : f[n] = g[n]
  <2> DEFINE S == {n \in 0..m : f[n] # g[n]}
  <2> SUFFICES ASSUME S # {} PROVE FALSE
    OBVIOUS
  <2>1. PICK n \in S : \A y \in S : n <= y
    <3>1. S \in SUBSET Nat
      OBVIOUS
    <3>2. QED
      BY <3>1, Least
  <2>2. n \in 0..m /\ n \in 0..k
    BY <1>2
  <2>3. f[n] = Next1(f[n - 1], n) /\ g[n] = Next1(g[n - 1], n)
    BY <2>2, <1>2 DEF DoubledTo, Next1
  <2>4. n <= 1 \/ f[n - 1] = g[n - 1]
    <3>1. n > 1 => n - 1 \in 0..m /\ n - 1 \notin S
      BY <2>1, <2>2
    <3>2. QED
      BY <3>1, <2>2
  <2>5. f[n] = g[n]
    BY <2>3, <2>4, <2>2 DEF Next1
  <2>6. QED
    BY <2>5
<1> DEFINE F(m) == CHOOSE f : DoubledTo(rule, m, f)
           d == [n \in Nat |-> F(n)[n]]
<1>3. \A m \in Nat : DoubledTo(rule, m, F(m))
  BY <1>1
<1> HIDE DEF F
<1>4. \A n \in Nat : d[n] = Next1(d[n - 1], n)
  <2>1. TAKE n \in Nat
  <2>2. F(n)[n] = Next1(F(n)[n - 1], n)
    BY <1>3 DEF DoubledTo, Next1
  <2>3. CASE n <= 1
    BY <2>2, <2>3 DEF Next1
  <2>4. CASE n > 1
    <3>1. n - 1 \in Nat /\ n - 1 <= n /\ n - 1 \in 0..n - 1
      BY <2>4
    <3>2. \A i \in 0..n - 1 : F(n - 1)[i] = F(n)[i]
      <4>1. DoubledTo(rule, n - 1, F(n - 1)) /\ DoubledTo(rule, n, F(n))
        BY <1>3, <3>1
      <4>2. QED
        BY <4>1, <3>1, <1>2
    <3>3. d[n - 1] = F(n)[n - 1]
      BY <3>1, <3>2
    <3>4. QED
      BY <2>2, <3>3
  <2>5. QED
    BY <2>3, <2>4
<1>5. DoubledEq(rule, d)
  <2>1. d = [n \in Nat |-> Next1(d[n - 1], n)]
    BY <1>4, Zenon
  <2>2. QED
    BY <2>1 DEF DoubledEq, Next1
<1> HIDE DEF d
<1>6. DoubledEq(rule, CHOOSE f : DoubledEq(rule, f))
  BY <1>5
<1>7. Doubled(rule) = CHOOSE f : DoubledEq(rule, f)
  BY Zenon DEF Doubled, DoubledEq
<1>8. QED
  BY <1>6, <1>7 DEF DoubledEq
LEMMA LevelPositive == ASSUME NEW rule \in Rule PROVE \A c \in Nat \ {0} : Level(rule)[c] \in Nat \ {0}
<1> DEFINE M == rule.maximumCooldown
           L == Level(rule)
<1> SUFFICES ASSUME NEW S, S = {m \in Nat : \E c \in Nat \ {0} : c + m >= M /\ L[c] \notin Nat \ {0}},
                    S # {}
             PROVE  FALSE
  <2>1. ASSUME NEW c \in Nat \ {0}, L[c] \notin Nat \ {0}
        PROVE  M \in {m \in Nat : \E x \in Nat \ {0} : x + m >= M /\ L[x] \notin Nat \ {0}}
    BY <2>1 DEF Rule
  <2>2. QED
    BY <2>1
<1>1. PICK m \in S : \A y \in S : m <= y
  BY Least
<1>2. PICK c \in Nat \ {0} : c + m >= M /\ L[c] \notin Nat \ {0}
  BY <1>1
<1>3. m \in Nat /\ M \in Nat
  BY <1>1 DEF Rule
<1>4. L[c] = IF c < M THEN 1 + L[2 * c] ELSE 1
  BY LevelIs
<1>5. c < M /\ L[2 * c] \notin Nat \ {0}
  BY <1>2, <1>4
<1>6. m - 1 \in Nat /\ 2 * c + (m - 1) >= M /\ 2 * c \in Nat \ {0}
  BY <1>2, <1>3, <1>5
<1>7. m - 1 \in S
  BY <1>5, <1>6
<1>8. m <= m - 1
  BY <1>1, <1>7
<1>9. QED
  BY <1>3, <1>8

(* The two loops side by side: before its last level a rule's cooldown is   *)
(* the base doubled, at the last it is the maximum.                         *)
Powers == {1, 2, 4, 8, 16, 32, 64, 128, 256, 512}
Climbs(rule, n) ==
    LET c == Doubled(rule)[n] IN
    IF n < MaxPenaltyLevel(rule)
    THEN /\ \E p \in Powers : c = p * rule.baseCooldown
         /\ c < rule.maximumCooldown
         /\ Level(rule)[c] = MaxPenaltyLevel(rule) - n + 1
         /\ n > 1 => c = 2 * Doubled(rule)[n - 1]
    ELSE c = rule.maximumCooldown

LEMMA RoomAbove ==
    ASSUME NEW rule \in Rule, Graded(rule), NEW c, \E p \in Powers : c = p * rule.baseCooldown,
           c < rule.maximumCooldown
    PROVE  /\ c \in Nat \ {0} /\ c >= rule.baseCooldown /\ c + c \div 4 < rule.maximumCooldown - 1
           /\ 2 * c < rule.maximumCooldown => \E p \in Powers : 2 * c = p * rule.baseCooldown
<1>1. rule.baseCooldown \in Nat \ {0} /\ rule.maximumCooldown \in Nat \ {0}
  BY DEF Rule
<1>2. PICK p \in Powers : c = p * rule.baseCooldown
  OBVIOUS
<1>3. c \in Nat \ {0} /\ c >= rule.baseCooldown
  BY <1>1, <1>2 DEF Powers
<1>4. c + c \div 4 < rule.maximumCooldown - 1
  BY <1>2 DEF Graded, Powers
<1>5. ASSUME 2 * c < rule.maximumCooldown PROVE \E q \in Powers : 2 * c = q * rule.baseCooldown
  <2>1. CASE p = 512
    <3>1. 2 * c = 1024 * rule.baseCooldown
      BY <1>1, <1>2, <2>1
    <3>2. rule.maximumCooldown <= 1024 * rule.baseCooldown
      BY <1>1 DEF Graded
    <3>3. QED
      BY <1>1, <1>5, <3>1, <3>2
  <2>2. CASE p # 512
    <3>1. 2 * p \in Powers
      BY <2>2 DEF Powers
    <3>2. 2 * c = (2 * p) * rule.baseCooldown
      BY <1>1, <1>2 DEF Powers
    <3>3. QED
      BY <3>1, <3>2
  <2>3. QED
    BY <2>1, <2>2
<1>6. QED
  BY <1>3, <1>4, <1>5

LEMMA Climbing ==
    ASSUME NEW rule \in Rule, Graded(rule)
    PROVE  /\ MaxPenaltyLevel(rule) \in Nat \ {0}
           /\ \A n \in 1..MaxPenaltyLevel(rule) : Climbs(rule, n)
<1> DEFINE B == rule.baseCooldown
           M == rule.maximumCooldown
           N == MaxPenaltyLevel(rule)
           L == Level(rule)
           d == Doubled(rule)
<1>1. B \in Nat \ {0} /\ M \in Nat \ {0} /\ B <= M
  BY DEF Rule, Graded
<1>2. N = L[B] /\ N \in Nat \ {0}
  BY <1>1, LevelIs, LevelPositive
<1>3. Climbs(rule, 1)
  <2>1. d[1] = B
    BY DoubledIs
  <2>2. N > 1 <=> B < M
    <3>1. L[B] = IF B < M THEN 1 + L[2 * B] ELSE 1
      BY <1>1, LevelIs
    <3>2. L[2 * B] \in Nat \ {0}
      BY <1>1, LevelPositive
    <3>3. QED
      BY <1>1, <1>2, <3>1, <3>2
  <2>3. CASE B < M
    <3>1. 1 \in Powers /\ B = 1 * B
      BY <1>1 DEF Powers
    <3>2. L[B] = N - 1 + 1
      BY <1>2
    <3>3. QED
      BY <2>1, <2>2, <2>3, <3>1, <3>2 DEF Climbs
  <2>4. CASE ~(B < M)
    BY <1>1, <1>2, <2>1, <2>2, <2>4 DEF Climbs
  <2>5. QED
    BY <2>3, <2>4
<1>4. ASSUME NEW n \in 2..N, Climbs(rule, n - 1)
      PROVE  Climbs(rule, n)
  <2> DEFINE x == d[n - 1]
  <2>1. n \in Nat /\ n - 1 < N
    BY <1>2
  <2>2. /\ \E p \in Powers : x = p * B
        /\ x < M /\ L[x] = N - (n - 1) + 1
    BY <1>4, <2>1 DEF Climbs
  <2>3. /\ x \in Nat \ {0} /\ x + x \div 4 < M - 1
        /\ 2 * x < M => \E p \in Powers : 2 * x = p * B
    BY <2>2, RoomAbove
  <2>4. d[n] = IF x >= M \div 2 THEN M ELSE 2 * x
    BY <2>1, DoubledIs
  <2>5. L[2 * x] = N - n + 1
    <3>1. L[x] = 1 + L[2 * x] /\ L[2 * x] \in Nat \ {0}
      BY <2>2, <2>3, LevelIs, LevelPositive
    <3> HIDE DEF x, L, N
    <3>2. QED
      BY <1>2, <2>1, <2>2, <3>1
  <2>6. L[2 * x] = IF 2 * x < M THEN 1 + L[2 * (2 * x)] ELSE 1
    BY <2>3, LevelIs
  <2>7. L[2 * (2 * x)] \in Nat \ {0}
    BY <2>3, LevelPositive
  <2>8. n < N <=> 2 * x < M
    <3> HIDE DEF x, L, N, M
    <3>1. QED
      BY <1>2, <2>1, <2>5, <2>6, <2>7
  <2>9. CASE n < N
    <3>1. 2 * x < M /\ \E p \in Powers : 2 * x = p * B
      BY <2>3, <2>8, <2>9
    <3>2. 2 * x < M - 1
      <4>1. 2 * x \in Nat /\ 2 * x + (2 * x) \div 4 < M - 1
        BY <3>1, RoomAbove
      <4>2. QED
        BY <4>1, <1>1
    <3>3. ~(x >= M \div 2)
      BY <3>2, <2>3, <1>1
    <3>4. d[n] = 2 * x
      BY <2>4, <3>3
    <3>5. QED
      BY <3>1, <3>4, <2>5, <2>9 DEF Climbs
  <2>10. CASE ~(n < N)
    <3>1. 2 * x >= M
      BY <2>3, <2>8, <2>10, <1>1
    <3>2. x >= M \div 2
      BY <3>1, <2>3, <1>1
    <3>3. QED
      BY <2>4, <2>10, <3>2 DEF Climbs
  <2>11. QED
    BY <2>9, <2>10
<1> SUFFICES ASSUME NEW S, S = {n \in 1..N : ~Climbs(rule, n)}, S # {}
             PROVE  FALSE
  BY <1>2
<1>5. PICK n \in S : \A y \in S : n <= y
  <2>1. S \in SUBSET Nat
    OBVIOUS
  <2>2. QED
    BY <2>1, Least
<1>6. n \in 1..N /\ ~Climbs(rule, n)
  BY <1>5
<1>7. n # 1
  BY <1>3, <1>6
<1>8. n \in 2..N /\ n - 1 \in 1..N /\ n - 1 \notin S
  BY <1>2, <1>5, <1>6, <1>7
<1>9. QED
  BY <1>4, <1>6, <1>8

(* The jitter of a level below the last keeps clear of the maximum, and the *)
(* last level has none.                                                     *)
LEMMA CooldownsAre ==
    ASSUME NEW rule \in Rule, Graded(rule), NEW n \in 1..MaxPenaltyLevel(rule)
    PROVE  LET c == Doubled(rule)[n] IN
           IF n < MaxPenaltyLevel(rule)
           THEN /\ c \in Nat \ {0} /\ c >= rule.baseCooldown /\ c + c \div 4 < rule.maximumCooldown
                /\ Cooldowns(rule, n) = c .. (c + c \div 4)
                /\ n > 1 => c = 2 * Doubled(rule)[n - 1]
           ELSE Cooldowns(rule, n) = {rule.maximumCooldown}
<1>1. Climbs(rule, n)
  BY Climbing
<1>2. rule.baseCooldown \in Nat \ {0} /\ rule.maximumCooldown \in Nat \ {0}
  BY DEF Rule
<1>3. CASE n < MaxPenaltyLevel(rule)
  <2> SUFFICES ASSUME NEW c, c = Doubled(rule)[n]
               PROVE  /\ c \in Nat \ {0} /\ c >= rule.baseCooldown /\ c + c \div 4 < rule.maximumCooldown
                      /\ Cooldowns(rule, n) = c .. (c + c \div 4)
                      /\ n > 1 => c = 2 * Doubled(rule)[n - 1]
    BY <1>3
  <2>1. /\ \E p \in Powers : c = p * rule.baseCooldown
        /\ c < rule.maximumCooldown
        /\ n > 1 => c = 2 * Doubled(rule)[n - 1]
    BY <1>1, <1>3 DEF Climbs
  <2>2. c \in Nat \ {0} /\ c >= rule.baseCooldown /\ c + c \div 4 < rule.maximumCooldown - 1
    BY <2>1, RoomAbove
  <2>3. c + c \div 4 < rule.maximumCooldown
    BY <1>2, <2>2
  <2>4. Cooldowns(rule, n) = c .. (c + c \div 4)
    BY <1>2, <2>1, <2>2, <2>3 DEF Cooldowns
  <2>5. QED
    BY <2>1, <2>2, <2>3, <2>4
<1>4. CASE ~(n < MaxPenaltyLevel(rule))
  <2>1. Doubled(rule)[n] = rule.maximumCooldown
    BY <1>1, <1>4 DEF Climbs
  <2>2. Cooldowns(rule, n) = {rule.maximumCooldown}
    BY <1>2, <2>1 DEF Cooldowns
  <2>3. QED
    BY <1>4, <2>2
<1>5. QED
  BY <1>3, <1>4

(* Of a graded rule every level that Record can reach is scaled (guard.go:202). *)
LEMMA GradedScaled ==
    ASSUME NEW rule \in Rule, Graded(rule)
    PROVE  \A n \in 1..MaxPenaltyLevel(rule) : Scaled(rule, n)
<1> DEFINE N == MaxPenaltyLevel(rule)
           M == rule.maximumCooldown
           B == rule.baseCooldown
<1>1. B \in Nat \ {0} /\ M \in Nat \ {0} /\ B <= M /\ N \in Nat \ {0}
  BY Climbing DEF Rule, Graded
<1>2. SUFFICES ASSUME NEW n \in 1..N, NEW x \in Cooldowns(rule, n)
      PROVE  /\ x >= B /\ x <= M
             /\ n > 1 => \A b \in Cooldowns(rule, n - 1) : b < x
             /\ x = M <=> n = N
  BY DEF Scaled
<1> DEFINE c == Doubled(rule)[n]
           e == Doubled(rule)[n - 1]
<1>3. n \in Nat /\ (n > 1 => n - 1 \in 1..N /\ n - 1 < N)
  BY <1>1
<1>4. n > 1 => /\ e \in Nat \ {0} /\ e + e \div 4 < M
               /\ Cooldowns(rule, n - 1) = e .. (e + e \div 4)
  BY <1>3, CooldownsAre
<1>5. CASE n < N
  <2>1. /\ c \in Nat \ {0} /\ c >= B /\ c + c \div 4 < M
        /\ Cooldowns(rule, n) = c .. (c + c \div 4)
        /\ n > 1 => c = 2 * e
    BY <1>5, CooldownsAre
  <2>2. x \in Nat /\ x >= c /\ x < M
    BY <2>1, <1>1
  <2>3. ASSUME n > 1, NEW b \in Cooldowns(rule, n - 1) PROVE b < x
    <3>1. b \in e .. (e + e \div 4) /\ c = 2 * e /\ e \in Nat \ {0}
      BY <1>4, <2>1, <2>3
    <3> HIDE DEF c, e
    <3>2. e + e \div 4 < 2 * e
      BY <3>1
    <3>3. QED
      BY <3>1, <3>2, <2>2
  <2> HIDE DEF c, e, N
  <2>4. QED
    BY <1>1, <1>5, <2>1, <2>2, <2>3
<1>6. CASE ~(n < N)
  <2>1. x = M /\ n = N
    <3>1. Cooldowns(rule, n) = {M}
      BY <1>6, CooldownsAre
    <3>2. QED
      BY <1>1, <1>6, <3>1
  <2>2. ASSUME n > 1, NEW b \in Cooldowns(rule, n - 1) PROVE b < x
    BY <1>1, <1>4, <2>1, <2>2
  <2>3. QED
    BY <1>1, <2>1, <2>2
<1>7. QED
  BY <1>5, <1>6

(* The rules of NewGuard are graded (guard.go:61). *)
LEMMA CodeRules ==
    \A m \in DOMAIN NewGuardRules : NewGuardRules[m] \in Rule /\ Graded(NewGuardRules[m])
<1>1. ASSUME NEW b, NEW x, NEW f \in Nat \ {0},
             <<b, x>> \in {<<5, 900>>, <<15, 900>>, <<30, 900>>, <<60, 1800>>}
      PROVE  LET r == [maxFailures |-> f, baseCooldown |-> b, maximumCooldown |-> x]
             IN  r \in Rule /\ Graded(r)
  BY <1>1 DEF Rule, Graded
<1>2. QED
  BY <1>1 DEF NewGuardRules

THEOREM CodeRulesScaled == RulesScaled
<1>1. SUFFICES ASSUME NEW m \in DOMAIN NewGuardRules
      PROVE  /\ NewGuardRules[m] \in Rule
             /\ \A n \in 1..MaxPenaltyLevel(NewGuardRules[m]) : Scaled(NewGuardRules[m], n)
  BY DEF RulesScaled
<1>2. QED
  BY CodeRules, GradedScaled

(* Thresholds and caps are positive. *)
LEMMA RulesTyped == MaxFailures \in [Keys -> Nat \ {0}] /\ MaxPenalty \in [Keys -> Nat \ {0}]
<1>1. \A k \in Keys : RuleOf[k] \in Rule /\ Graded(RuleOf[k])
  BY RulesAssumption
<1>2. \A k \in Keys : MaxPenaltyLevel(RuleOf[k]) \in Nat \ {0}
  BY <1>1, Climbing
<1>3. QED
  BY <1>1, <1>2 DEF MaxFailures, MaxPenalty, Rule
----------------------------------------------------------------------------

(* Both outcomes of Record and an admission keep an entry well typed and   *)
(* coherent with the rule of its key.                                      *)
EntryOK(k, s) ==
    /\ s \in GuardState
    /\ s.blockedUntil # "zero" => s.penalty > 0
    /\ s.penalty > 0 => s.failures = 0
    /\ s.failures < MaxFailures[k]
    /\ s.penalty <= MaxPenalty[k]
    /\ s.probe = TRUE => s.blockedUntil = "over"

(* Record, Release and Allow map a coherent entry to a coherent entry      *)
(* (guard.go:99-193).                                                      *)
LEMMA EntryStep ==
    ASSUME NEW k \in Keys, NEW s \in GuardState, EntryOK(k, s)
    PROVE  /\ EntryOK(k, NoState)
           /\ EntryOK(k, RecordSuccess(k, s))
           /\ EntryOK(k, RecordFailure(k, s))
           /\ EntryOK(k, Released(s))
           /\ s.blockedUntil # "cooling" => EntryOK(k, Admitted(s))
           /\ s.blockedUntil = "cooling" => EntryOK(k, [s EXCEPT !.blockedUntil = "over"])
<1> USE RulesTyped DEF EntryOK, GuardState
<1>1. EntryOK(k, NoState)
  BY DEF NoState
<1>2. EntryOK(k, RecordSuccess(k, s))
  BY DEF RecordSuccess
<1>3. EntryOK(k, RecordFailure(k, s))
  <2>1. CASE s.penalty = 0 /\ s.failures + 1 < MaxFailures[k]
    BY <2>1 DEF RecordFailure
  <2>2. CASE ~(s.penalty = 0 /\ s.failures + 1 < MaxFailures[k])
    BY <2>2 DEF RecordFailure
  <2>3. QED
    BY <2>1, <2>2
<1>4. EntryOK(k, Released(s))
  BY DEF Released
<1>5. s.blockedUntil # "cooling" => EntryOK(k, Admitted(s))
  BY DEF Admitted
<1>6. s.blockedUntil = "cooling" => EntryOK(k, [s EXCEPT !.blockedUntil = "over"])
  OBVIOUS
<1>7. QED
  BY <1>1, <1>2, <1>3, <1>4, <1>5, <1>6

(* Every operator on an entry keeps its type, and says what becomes of the mark. *)
LEMMA EntryTyped ==
    ASSUME NEW k \in Keys, NEW s \in GuardState
    PROVE  /\ Admitted(s) \in GuardState
           /\ RecordSuccess(k, s) \in GuardState
           /\ RecordFailure(k, s) \in GuardState
           /\ Released(s) \in GuardState /\ Released(s).probe # TRUE
           /\ [s EXCEPT !.blockedUntil = "over"] \in GuardState
           /\ [s EXCEPT !.blockedUntil = "over"].probe = s.probe
<1> USE DEF GuardState
<1>1. Admitted(s) \in GuardState
  BY DEF Admitted
<1>2. RecordSuccess(k, s) \in GuardState
  BY DEF RecordSuccess
<1>3. RecordFailure(k, s) \in GuardState
  BY DEF RecordFailure
<1>4. Released(s) \in GuardState /\ Released(s).probe # TRUE
  BY DEF Released
<1>5. /\ [s EXCEPT !.blockedUntil = "over"] \in GuardState
      /\ [s EXCEPT !.blockedUntil = "over"].probe = s.probe
  OBVIOUS
<1>6. QED
  BY <1>1, <1>2, <1>3, <1>4, <1>5

(* Every step of the guard keeps its variables in their types. *)
LEMMA TypeStep == TypeOK /\ [Next]_vars => TypeOK'
<1> SUFFICES ASSUME TypeOK, [Next]_vars PROVE TypeOK'
  OBVIOUS
<1> USE DEF TypeOK, Call
<1>1. /\ NoCall \in Call
      /\ NoState \in GuardState
  BY DEF NoCall, NoState, GuardState
<1>2. ASSUME NEW c \in Calls, NEW k \in Keys, NEW next \in {"persist", "sent"}, Admit(c, k, next)
      PROVE  TypeOK'
  <2>1. Admitted(state[k]) \in GuardState
    BY EntryTyped
  <2>2. [pc |-> next, key |-> k, probe |-> IsProbe(k)] \in Call
    BY DEF IsProbe
  <2>3. QED
    BY <1>2, <2>1, <2>2 DEF Admit
<1>3. ASSUME NEW c \in Calls, NEW k \in Keys, Allow(c, k)
      PROVE  TypeOK'
  BY <1>2, <1>3 DEF Allow
<1>4. ASSUME NEW c \in Calls, Persisted(c)
      PROVE  TypeOK'
  BY <1>4 DEF Persisted
<1>5. ASSUME NEW c \in Calls, PersistFails(c)
      PROVE  TypeOK'
  BY <1>5, <1>1 DEF PersistFails, NoCall
<1>6. ASSUME NEW c \in Calls, Succeeds(c)
      PROVE  TypeOK'
  <2>1. call[c].key \in Keys
    BY <1>6 DEF Succeeds
  <2>2. RecordSuccess(call[c].key, state[call[c].key]) \in GuardState
    BY <2>1, EntryTyped
  <2>3. ASSUME FollowUp[call[c].key] # NoKey
        PROVE  /\ FollowUp[call[c].key] \in Keys
               /\ [pc |-> "follow", key |-> FollowUp[call[c].key], probe |-> FALSE] \in Call
    BY <2>1, <2>3, FollowAssumption
  <2>4. QED
    BY <1>6, <1>1, <2>1, <2>2, <2>3 DEF Succeeds, NoCall
<1>7. ASSUME NEW c \in Calls, Fails(c)
      PROVE  TypeOK'
  <2>1. call[c].key \in Keys
    BY <1>7 DEF Fails
  <2>2. RecordFailure(call[c].key, state[call[c].key]) \in GuardState
    BY <2>1, EntryTyped
  <2>3. QED
    BY <1>7, <1>1, <2>1, <2>2 DEF Fails, NoCall
<1>8. ASSUME NEW c \in Calls, Abandons(c)
      PROVE  TypeOK'
  <2>1. call[c].key \in Keys
    BY <1>8 DEF Abandons
  <2>2. Released(state[call[c].key]) \in GuardState
    BY <2>1, EntryTyped
  <2>3. QED
    BY <1>8, <1>1, <2>1, <2>2 DEF Abandons, NoCall
<1>9. ASSUME NEW c \in Calls, FollowUpAllow(c)
      PROVE  TypeOK'
  <2>1. call[c].key \in Keys
    BY <1>9 DEF FollowUpAllow
  <2>2. CASE Admits(call[c].key)
    BY <1>9, <1>2, <2>1, <2>2 DEF FollowUpAllow
  <2>3. CASE ~Admits(call[c].key)
    BY <1>9, <1>1, <2>3 DEF FollowUpAllow, NoCall
  <2>4. QED
    BY <2>2, <2>3
<1>10. ASSUME NEW k \in Keys, CooldownEnds(k)
       PROVE  TypeOK'
  BY <1>10, EntryTyped DEF CooldownEnds
<1>11. CASE Recover
  BY <1>11 DEF Recover
<1>12. CASE UNCHANGED vars
  BY <1>12 DEF vars
<1>idle. QED
  BY <1>3, <1>4, <1>5, <1>6, <1>7, <1>8, <1>9, <1>10, <1>11, <1>12 DEF Next

(* The initial state is well typed. *)
LEMMA TypeInit == Init => TypeOK
<1>1. NoState \in GuardState
  BY DEF NoState, GuardState
<1>2. NoCall \in Call
  BY DEF NoCall, Call
<1>3. NoCall.pc = "idle"
  BY DEF NoCall
<1>4. SUFFICES ASSUME Init PROVE TypeOK
  OBVIOUS
<1>5. state \in [Keys -> GuardState] /\ burst \in [Keys -> Nat] /\ healthy \in BOOLEAN
  BY <1>1, <1>4 DEF Init
<1>6. call \in [Calls -> Call] /\ \A c \in Calls : call[c].pc = "idle"
  BY <1>2, <1>3, <1>4 DEF Init
<1>7. QED
  BY <1>5, <1>6 DEF TypeOK

(* The guard's variables keep their types in every behaviour. *)
THEOREM GuardTyped == Spec => []TypeOK
BY TypeInit, TypeStep, PTL DEF Spec
----------------------------------------------------------------------------
(* StateCoherent says of every key that its entry is coherent. *)
LEMMA CoherentEntries == TypeOK => (StateCoherent <=> \A k \in Keys : EntryOK(k, state[k]))
BY DEF TypeOK, StateCoherent, EntryOK

(* A step replaces the entry of at most one key, by one of the operators of EntryStep. *)
LEMMA CoherentStep == TypeOK /\ StateCoherent /\ [Next]_vars => StateCoherent'
<1> SUFFICES ASSUME TypeOK, StateCoherent, [Next]_vars PROVE StateCoherent'
  OBVIOUS
<1>1. \A k \in Keys : state[k] \in GuardState /\ EntryOK(k, state[k])
  BY CoherentEntries DEF TypeOK
<1>2. ASSUME NEW k \in Keys, NEW s, EntryOK(k, s), state' = [state EXCEPT ![k] = s]
      PROVE  \A j \in Keys : EntryOK(j, state'[j])
  BY <1>1, <1>2 DEF TypeOK
<1>3. \A j \in Keys : EntryOK(j, state'[j])
  <2>1. ASSUME NEW c \in Calls, NEW k \in Keys, NEW next, Admit(c, k, next)
        PROVE  \A j \in Keys : EntryOK(j, state'[j])
    <3>1. state[k].blockedUntil # "cooling"
      BY <2>1 DEF Admit, Admits
    <3>2. EntryOK(k, Admitted(state[k]))
      BY <1>1, <3>1, EntryStep
    <3>3. QED
      BY <1>2, <2>1, <3>2 DEF Admit
  <2>2. ASSUME NEW c \in Calls, NEW k \in Keys, Allow(c, k)
        PROVE  \A j \in Keys : EntryOK(j, state'[j])
    BY <2>1, <2>2 DEF Allow
  <2>3. ASSUME NEW c \in Calls, Persisted(c) \/ PersistFails(c)
        PROVE  \A j \in Keys : EntryOK(j, state'[j])
    BY <1>1, <2>3 DEF Persisted, PersistFails
  <2>4. ASSUME NEW c \in Calls, Succeeds(c)
        PROVE  \A j \in Keys : EntryOK(j, state'[j])
    <3>1. call[c].key \in Keys
      BY <2>4 DEF Succeeds, TypeOK
    <3>2. EntryOK(call[c].key, RecordSuccess(call[c].key, state[call[c].key]))
      BY <1>1, <3>1, EntryStep
    <3>3. QED
      BY <1>2, <2>4, <3>1, <3>2 DEF Succeeds
  <2>5. ASSUME NEW c \in Calls, Fails(c)
        PROVE  \A j \in Keys : EntryOK(j, state'[j])
    <3>1. call[c].key \in Keys
      BY <2>5 DEF Fails, TypeOK
    <3>2. EntryOK(call[c].key, RecordFailure(call[c].key, state[call[c].key]))
      BY <1>1, <3>1, EntryStep
    <3>3. QED
      BY <1>2, <2>5, <3>1, <3>2 DEF Fails
  <2>6. ASSUME NEW c \in Calls, Abandons(c)
        PROVE  \A j \in Keys : EntryOK(j, state'[j])
    <3>1. call[c].key \in Keys
      BY <2>6 DEF Abandons, TypeOK
    <3>2. EntryOK(call[c].key, Released(state[call[c].key]))
      BY <1>1, <3>1, EntryStep
    <3>3. QED
      BY <1>2, <2>6, <3>1, <3>2 DEF Abandons
  <2>7. ASSUME NEW c \in Calls, FollowUpAllow(c)
        PROVE  \A j \in Keys : EntryOK(j, state'[j])
    <3>1. call[c].key \in Keys
      BY <2>7 DEF FollowUpAllow, TypeOK
    <3>2. QED
      BY <1>1, <2>1, <2>7, <3>1 DEF FollowUpAllow
  <2>8. ASSUME NEW k \in Keys, CooldownEnds(k)
        PROVE  \A j \in Keys : EntryOK(j, state'[j])
    <3>1. EntryOK(k, [state[k] EXCEPT !.blockedUntil = "over"])
      BY <1>1, <2>8, EntryStep DEF CooldownEnds
    <3>2. QED
      BY <1>2, <2>8, <3>1 DEF CooldownEnds
  <2>9. CASE Recover \/ UNCHANGED vars
    BY <1>1, <2>9 DEF Recover, vars
  <2>10. QED
    BY <2>2, <2>3, <2>4, <2>5, <2>6, <2>7, <2>8, <2>9 DEF Next
<1>4. QED
  BY <1>3 DEF StateCoherent, EntryOK

(* Every entry the guard keeps stays coherent with the rule of its key. *)
THEOREM GuardCoherent == Spec => []StateCoherent
<1>1. Init => StateCoherent
  BY RulesTyped DEF Init, StateCoherent, NoState
<1>2. QED
  BY <1>1, TypeInit, TypeStep, CoherentStep, PTL DEF Spec
(* Whatever the rules, a blocked key is blocked for the cooldown of its      *)
(* penalty level, which is longer than those of the levels below, and only   *)
(* the last level waits for the maximum (guard.go:177-180, 202-237).         *)
THEOREM GuardCooldownScaled == Spec => []CooldownScaled
<1>1. TypeOK /\ StateCoherent => CooldownScaled
  <2>1. SUFFICES ASSUME TypeOK, StateCoherent, NEW k \in Keys, state[k].blockedUntil # "zero"
                 PROVE  Scaled(RuleOf[k], state[k].penalty)
    BY CodeRulesScaled DEF CooldownScaled
  <2>2. RuleOf[k] \in Rule /\ Graded(RuleOf[k])
    BY RulesAssumption
  <2>3. state[k].penalty > 0 /\ state[k].penalty <= MaxPenalty[k]
    BY <2>1 DEF StateCoherent
  <2>4. state[k].penalty \in Nat /\ MaxPenalty[k] = MaxPenaltyLevel(RuleOf[k]) /\ MaxPenalty[k] \in Nat
    BY <2>1, RulesTyped DEF TypeOK, GuardState, MaxPenalty
  <2>5. state[k].penalty \in 1..MaxPenaltyLevel(RuleOf[k])
    BY <2>3, <2>4
  <2>6. QED
    BY <2>2, <2>5, GradedScaled
<1>2. QED
  BY <1>1, GuardTyped, GuardCoherent, PTL
----------------------------------------------------------------------------
(* What NoBurst says of one key. *)
KeyBurst(b, s) == b <= 1 /\ (b = 1 => s.probe = TRUE)

LEMMA BurstEntries == TypeOK => (NoBurst <=> \A k \in Keys : KeyBurst(burst[k], state[k]))
BY DEF TypeOK, NoBurst, KeyBurst, GuardState

(* An admission of a blocked key marks the probe it counts, and is refused  *)
(* while a probe is marked; every outcome resets the count.                 *)
LEMMA BurstStep ==
    TypeOK /\ StateCoherent /\ NoBurst /\ [Next]_vars => \A k \in Keys : KeyBurst(burst'[k], state'[k])
<1> SUFFICES ASSUME TypeOK, StateCoherent, NoBurst, [Next]_vars
             PROVE  \A j \in Keys : KeyBurst(burst'[j], state'[j])
  OBVIOUS
<1> DEFINE Goal == \A j \in Keys : KeyBurst(burst'[j], state'[j])
<1>1. /\ \A k \in Keys : KeyBurst(burst[k], state[k]) /\ burst[k] \in Nat /\ state[k] \in GuardState
      /\ state \in [Keys -> GuardState] /\ burst \in [Keys -> Nat]
  BY BurstEntries DEF TypeOK
<1>2. ASSUME NEW k \in Keys, NEW b, NEW s, KeyBurst(b, s),
             state' = [state EXCEPT ![k] = s], burst' = [burst EXCEPT ![k] = b]
      PROVE  Goal
  BY <1>1, <1>2
<1>3. ASSUME NEW k \in Keys PROVE KeyBurst(0, state[k])
  BY DEF KeyBurst
<1>4. ASSUME NEW s PROVE KeyBurst(0, s)
  BY DEF KeyBurst
<1>idle. ASSUME NEW k \in Keys, state[k].probe # TRUE PROVE burst[k] = 0
  <2>1. burst[k] \in Nat
    BY <1>1
  <2>2. burst[k] <= 1 /\ burst[k] # 1
    BY <1>1, <1>idle DEF KeyBurst
  <2>3. QED
    BY <2>1, <2>2
<1>5. ASSUME NEW c \in Calls, NEW k \in Keys, NEW next, Admit(c, k, next)
      PROVE  Goal
  <2>1. CASE state[k].blockedUntil = "zero"
    <3>1. state' = state /\ burst' = burst
      BY <1>1, <1>5, <2>1 DEF Admit, Admitted, IsProbe
    <3>2. QED
      BY <1>1, <3>1
  <2>2. CASE state[k].blockedUntil # "zero"
    <3>1. state[k].probe # TRUE
      BY <1>1, <1>5, <2>2 DEF Admit, Admits
    <3>2. burst[k] = 0
      BY <1>idle, <3>1
    <3>3. state' = [state EXCEPT ![k] = Admitted(state[k])] /\ burst' = [burst EXCEPT ![k] = 1]
      BY <1>5, <2>2, <3>2 DEF Admit, IsProbe
    <3>4. Admitted(state[k]).probe = TRUE
      BY <1>1, <2>2 DEF Admitted, GuardState
    <3>5. KeyBurst(1, Admitted(state[k]))
      BY <3>4 DEF KeyBurst
    <3>6. QED
      BY <1>2, <3>3, <3>5
  <2>3. QED
    BY <2>1, <2>2
<1>6. ASSUME NEW c \in Calls, NEW k \in Keys, Allow(c, k)
      PROVE  Goal
  BY <1>5, <1>6 DEF Allow
<1>7. ASSUME NEW c \in Calls, Persisted(c) \/ PersistFails(c)
      PROVE  Goal
  BY <1>1, <1>7 DEF Persisted, PersistFails
<1>8. ASSUME NEW c \in Calls, Succeeds(c) \/ Fails(c) \/ Abandons(c)
      PROVE  Goal
  <2>1. call[c].key \in Keys
    BY <1>8 DEF Succeeds, Fails, Abandons, TypeOK
  <2>2. PICK s : /\ state' = [state EXCEPT ![call[c].key] = s]
                 /\ burst' = [burst EXCEPT ![call[c].key] = 0]
    BY <1>8 DEF Succeeds, Fails, Abandons
  <2>3. QED
    BY <1>2, <1>4, <2>1, <2>2
<1>9. ASSUME NEW c \in Calls, FollowUpAllow(c)
      PROVE  Goal
  <2>1. call[c].key \in Keys
    BY <1>9 DEF FollowUpAllow, TypeOK
  <2>2. QED
    BY <1>1, <1>5, <1>9, <2>1 DEF FollowUpAllow
<1>10. ASSUME NEW k \in Keys, CooldownEnds(k)
       PROVE  Goal
  <2>1. state[k].probe # TRUE
    BY <1>1, <1>10 DEF CooldownEnds, StateCoherent, GuardState
  <2>2. burst[k] = 0
    BY <1>idle, <2>1
  <2>3. \A j \in Keys \ {k} : state'[j] = state[j] /\ burst'[j] = burst[j]
    BY <1>1, <1>10 DEF CooldownEnds
  <2>4. burst'[k] = 0
    BY <1>10, <2>2 DEF CooldownEnds
  <2>5. QED
    BY <1>1, <1>4, <2>3, <2>4
<1>11. CASE Recover \/ UNCHANGED vars
  BY <1>1, <1>11 DEF Recover, vars
<1>12. QED
  BY <1>6, <1>7, <1>8, <1>9, <1>10, <1>11 DEF Next

(* At most one request passes between two outcomes of a blocked key, however *)
(* many callers race for it and whatever the rules of the keys are.          *)
THEOREM GuardNoBurst == Spec => []NoBurst
<1>1. Init => NoBurst
  BY DEF Init, NoBurst
<1>2. TypeOK /\ StateCoherent /\ NoBurst /\ [Next]_vars => NoBurst'
  <2>1. TypeOK' => (NoBurst' <=> \A k \in Keys : KeyBurst(burst'[k], state'[k]))
    BY DEF TypeOK, NoBurst, KeyBurst, GuardState
  <2>2. QED
    BY <2>1, TypeStep, BurstStep
<1>3. QED
  BY <1>1, <1>2, GuardTyped, GuardCoherent, PTL DEF Spec
----------------------------------------------------------------------------
(* Request c answers for the probe mark of key k. *)
Owner(r, k) == r.pc \in {"persist", "sent"} /\ r.key = k /\ r.probe = TRUE

(* The strengthening of ProbeHasOwner: only CreateOrder keys are ever in the  *)
(* step that can be left without an outcome.                                 *)
PersistsKnown == \A c \in Calls : call[c].pc = "persist" => call[c].key \in PersistFirst

LEMMA OwnerEntries ==
    TypeOK => (ProbeHasOwner <=> \A k \in Keys \ PersistFirst :
                  state[k].probe = TRUE => \E c \in Calls : Owner(call[c], k))
<1> SUFFICES ASSUME TypeOK
             PROVE  ProbeHasOwner <=> \A k \in Keys \ PersistFirst :
                        state[k].probe = TRUE => \E c \in Calls : Owner(call[c], k)
  OBVIOUS
<1>1. \A k \in Keys : state[k].probe \in BOOLEAN
  BY DEF TypeOK, GuardState
<1>2. \A c \in Calls : call[c].probe \in BOOLEAN
  BY DEF TypeOK, Call
<1>3. QED
  BY <1>1, <1>2, Zenon DEF ProbeHasOwner, ProbeOwned, Owner

LEMMA PersistsStep == TypeOK /\ PersistsKnown /\ [Next]_vars => PersistsKnown'
<1> SUFFICES ASSUME TypeOK, PersistsKnown, [Next]_vars PROVE PersistsKnown'
  OBVIOUS
<1> DEFINE Good(r) == r.pc = "persist" => r.key \in PersistFirst
<1>1. /\ \A c \in Calls : Good(call[c]) /\ call[c] \in Call
      /\ call \in [Calls -> Call]
  BY DEF TypeOK, PersistsKnown
<1>2. ASSUME NEW c \in Calls, NEW r, Good(r), call' = [call EXCEPT ![c] = r]
      PROVE  \A d \in Calls : Good(call'[d])
  BY <1>1, <1>2
<1> HIDE DEF Good
<1>3. /\ Good(NoCall)
      /\ \A k, p : /\ Good([pc |-> "sent", key |-> k, probe |-> p])
                  /\ Good([pc |-> "follow", key |-> k, probe |-> p])
  BY DEF NoCall, Good
<1>4. ASSUME NEW c \in Calls, NEW k \in Keys, Allow(c, k)
      PROVE  \A d \in Calls : Good(call'[d])
  <2>1. \E r : Good(r) /\ call' = [call EXCEPT ![c] = r]
    BY <1>4, <1>3 DEF Allow, Admit, Good
  <2>2. QED
    BY <1>2, <2>1
<1>5. ASSUME NEW c \in Calls, Persisted(c)
      PROVE  \A d \in Calls : Good(call'[d])
  <2>1. \A d \in Calls : call'[d] = IF d = c THEN [call[c] EXCEPT !.pc = "sent"] ELSE call[d]
    BY <1>1, <1>5 DEF Persisted
  <2>2. Good([call[c] EXCEPT !.pc = "sent"])
    BY <1>1 DEF Good, Call
  <2>3. QED
    BY <1>1, <2>1, <2>2
<1>6. ASSUME NEW c \in Calls, PersistFails(c) \/ Succeeds(c) \/ Fails(c) \/ Abandons(c)
      PROVE  \A d \in Calls : Good(call'[d])
  <2>1. \E r : Good(r) /\ call' = [call EXCEPT ![c] = r]
    BY <1>6, <1>3 DEF PersistFails, Succeeds, Fails, Abandons
  <2>2. QED
    BY <1>2, <2>1
<1>7. ASSUME NEW c \in Calls, FollowUpAllow(c)
      PROVE  \A d \in Calls : Good(call'[d])
  <2>1. \E r : Good(r) /\ call' = [call EXCEPT ![c] = r]
    BY <1>7, <1>3 DEF FollowUpAllow, Admit
  <2>2. QED
    BY <1>2, <2>1
<1>8. ASSUME UNCHANGED call
      PROVE  \A d \in Calls : Good(call'[d])
  BY <1>1, <1>8
<1>9. \A d \in Calls : Good(call'[d])
  BY <1>4, <1>5, <1>6, <1>7, <1>8 DEF Next, CooldownEnds, Recover, vars
<1>10. QED
  BY <1>9 DEF PersistsKnown, Good

(* An owner leaves its step only with an outcome that clears the mark, but for *)
(* the failed insert, which concerns CreateOrder keys alone.                   *)
LEMMA OwnerStep ==
    TypeOK /\ PersistsKnown /\ ProbeHasOwner /\ [Next]_vars =>
        \A k \in Keys \ PersistFirst : state'[k].probe = TRUE => \E c \in Calls : Owner(call'[c], k)
<1> SUFFICES ASSUME TypeOK, PersistsKnown, ProbeHasOwner, [Next]_vars,
                    NEW k \in Keys \ PersistFirst, state'[k].probe = TRUE
             PROVE  \E c \in Calls : Owner(call'[c], k)
  OBVIOUS
<1> DEFINE Goal == \E c \in Calls : Owner(call'[c], k)
<1>1. /\ state \in [Keys -> GuardState] /\ call \in [Calls -> Call]
      /\ \A j \in Keys : state[j] \in GuardState
      /\ \A c \in Calls : call[c].pc # "idle" => call[c].key \in Keys
  BY DEF TypeOK
<1>2. state[k].probe = TRUE => \E c \in Calls : Owner(call[c], k)
  BY OwnerEntries
<1>keep. ASSUME NEW c \in Calls, NEW r, call' = [call EXCEPT ![c] = r], ~Owner(call[c], k),
                state[k].probe = TRUE
         PROVE  Goal
  <2>1. PICK d \in Calls : Owner(call[d], k)
    BY <1>2, <1>keep
  <2>2. d # c
    BY <1>keep, <2>1
  <2>3. call'[d] = call[d]
    BY <1>1, <1>keep, <2>2
  <2>4. QED
    BY <2>1, <2>3
<1>still. ASSUME UNCHANGED call, state[k].probe = TRUE PROVE Goal
  BY <1>2, <1>still
<1>3. ASSUME NEW c \in Calls, NEW j \in Keys, NEW next \in {"persist", "sent"},
             Admit(c, j, next), call[c].pc \in {"idle", "follow"}
      PROVE  Goal
  <2>1. CASE j = k /\ state[k].blockedUntil # "zero"
    <3>1. call'[c] = [pc |-> next, key |-> k, probe |-> TRUE]
      BY <1>1, <1>3, <2>1 DEF Admit, IsProbe
    <3>2. QED
      BY <1>3, <3>1 DEF Owner
  <2>2. CASE j # k \/ state[k].blockedUntil = "zero"
    <3>1. state'[k] = state[k]
      BY <1>1, <1>3, <2>2 DEF Admit, Admitted
    <3>2. ~Owner(call[c], k)
      BY <1>3 DEF Owner
    <3>3. QED
      BY <1>3, <1>keep, <3>1, <3>2 DEF Admit
  <2>3. QED
    BY <2>1, <2>2
<1>4. ASSUME NEW c \in Calls, NEW j \in Keys, Allow(c, j) PROVE Goal
  BY <1>3, <1>4 DEF Allow
<1>5. ASSUME NEW c \in Calls, Persisted(c) PROVE Goal
  <2>1. PICK d \in Calls : Owner(call[d], k)
    BY <1>2, <1>5 DEF Persisted
  <2>2. call'[c] = [call[c] EXCEPT !.pc = "sent"] /\ \A e \in Calls \ {c} : call'[e] = call[e]
    BY <1>1, <1>5 DEF Persisted
  <2>3. CASE d = c
    <3>1. call[c] \in Call
      BY <1>1
    <3>2. call'[c].pc = "sent" /\ call'[c].key = call[c].key /\ call'[c].probe = call[c].probe
      BY <2>2, <3>1 DEF Call
    <3>3. QED
      BY <2>1, <2>3, <3>2 DEF Owner
  <2>4. CASE d # c
    BY <2>1, <2>2, <2>4
  <2>5. QED
    BY <2>3, <2>4
<1>6. ASSUME NEW c \in Calls, PersistFails(c) PROVE Goal
  <2>1. call[c].key # k
    BY <1>6 DEF PersistFails, PersistsKnown
  <2>2. ~Owner(call[c], k)
    BY <2>1 DEF Owner
  <2>3. QED
    BY <1>6, <1>keep, <2>2 DEF PersistFails
<1>7. ASSUME NEW c \in Calls, Succeeds(c) \/ Fails(c) \/ Abandons(c) PROVE Goal
  <2>1. call[c].key \in Keys
    BY <1>1, <1>7 DEF Succeeds, Fails, Abandons
  <2>2. PICK s, r : /\ state' = [state EXCEPT ![call[c].key] = s] /\ s.probe # TRUE
                    /\ call' = [call EXCEPT ![c] = r]
    <3>1. \A s : RecordSuccess(call[c].key, s).probe # TRUE /\ RecordFailure(call[c].key, s).probe # TRUE
      <4>1. ASSUME NEW s PROVE RecordSuccess(call[c].key, s).probe = FALSE
        BY DEF RecordSuccess
      <4>2. ASSUME NEW s PROVE RecordFailure(call[c].key, s).probe = FALSE
        BY DEF RecordFailure
      <4>3. QED
        BY <4>1, <4>2
    <3>2. Released(state[call[c].key]).probe # TRUE
      BY <1>1, <2>1, EntryTyped
    <3>3. \E r : call' = [call EXCEPT ![c] = r]
      BY <1>7 DEF Succeeds, Fails, Abandons
    <3>4. CASE Succeeds(c)
      BY <3>1, <3>3, <3>4 DEF Succeeds
    <3>5. CASE Fails(c)
      BY <3>1, <3>3, <3>5 DEF Fails
    <3>6. CASE Abandons(c)
      BY <3>2, <3>3, <3>6 DEF Abandons
    <3>7. QED
      BY <1>7, <3>4, <3>5, <3>6
  <2>3. call[c].key # k /\ state'[k] = state[k]
    BY <1>1, <2>1, <2>2
  <2>4. ~Owner(call[c], k)
    BY <2>3 DEF Owner
  <2>5. QED
    BY <1>keep, <2>2, <2>3, <2>4
<1>8. ASSUME NEW c \in Calls, FollowUpAllow(c) PROVE Goal
  <2>1. call[c].key \in Keys /\ call[c].pc = "follow"
    BY <1>1, <1>8 DEF FollowUpAllow
  <2>2. CASE Admits(call[c].key)
    BY <1>3, <1>8, <2>1, <2>2 DEF FollowUpAllow
  <2>3. CASE ~Admits(call[c].key)
    <3>1. call' = [call EXCEPT ![c] = NoCall] /\ state' = state
      BY <1>8, <2>3 DEF FollowUpAllow
    <3>2. ~Owner(call[c], k)
      BY <2>1 DEF Owner
    <3>3. QED
      BY <1>keep, <3>1, <3>2
  <2>4. QED
    BY <2>2, <2>3
<1>9. ASSUME NEW j \in Keys, CooldownEnds(j) PROVE Goal
  <2>1. state'[k].probe = state[k].probe
    BY <1>1, <1>9, EntryTyped DEF CooldownEnds
  <2>2. QED
    BY <1>9, <1>still, <2>1 DEF CooldownEnds
<1>10. ASSUME Recover \/ UNCHANGED vars PROVE Goal
  BY <1>10, <1>still DEF Recover, vars
<1>11. QED
  BY <1>4, <1>5, <1>6, <1>7, <1>8, <1>9, <1>10 DEF Next

(* No probe is ever forgotten on a key whose request has no database write    *)
(* between Allow and the gateway call: some request in flight answers for it. *)
THEOREM GuardProbeHasOwner == Spec => []ProbeHasOwner
<1>1. Init => ProbeHasOwner /\ PersistsKnown
  BY DEF Init, ProbeHasOwner, ProbeOwned, PersistsKnown, NoState, NoCall
<1>2. TypeOK /\ PersistsKnown /\ ProbeHasOwner /\ [Next]_vars => ProbeHasOwner'
  <2>1. TypeOK' => (ProbeHasOwner' <=> \A k \in Keys \ PersistFirst :
                       state'[k].probe = TRUE => \E c \in Calls : Owner(call'[c], k))
    <3>1. SUFFICES ASSUME TypeOK'
                   PROVE  ProbeHasOwner' <=> \A k \in Keys \ PersistFirst :
                              state'[k].probe = TRUE => \E c \in Calls : Owner(call'[c], k)
      OBVIOUS
    <3>2. \A k \in Keys : state'[k].probe \in BOOLEAN
      BY <3>1 DEF TypeOK, GuardState
    <3>3. \A c \in Calls : call'[c].probe \in BOOLEAN
      BY <3>1 DEF TypeOK, Call
    <3>4. QED
      BY <3>2, <3>3, Zenon DEF ProbeHasOwner, ProbeOwned, Owner
  <2>2. QED
    BY <2>1, TypeStep, OwnerStep
<1>3. QED
  BY <1>1, <1>2, PersistsStep, GuardTyped, PTL DEF Spec
=============================================================================
