------------------------------- MODULE Backoff -------------------------------
(***************************************************************************)
(* How long the guard blocks a key: the two loops of guard.go that must    *)
(* agree with each other, cooldown, which doubles the rule's base per      *)
(* level, and maxPenaltyLevel, which counts the levels that differ.        *)
(* Durations are natural numbers; Go's are int64 nanoseconds, of which the *)
(* largest rule uses 42 bits.                                              *)
(***************************************************************************)
EXTENDS Integers

(* guardRule. *)
Rule == [maxFailures : Nat \ {0}, baseCooldown : Nat \ {0}, maximumCooldown : Nat \ {0}]

(* The rules of NewGuard, in seconds. *)
NewGuardRules ==
    [GetTicker  |-> [maxFailures |-> 5, baseCooldown |->  5, maximumCooldown |->  900],
     GetBalance |-> [maxFailures |-> 5, baseCooldown |-> 15, maximumCooldown |->  900],
     GetOrder   |-> [maxFailures |-> 3, baseCooldown |-> 30, maximumCooldown |->  900],
     default    |-> [maxFailures |-> 2, baseCooldown |-> 60, maximumCooldown |-> 1800]]

(* mutant: one doubling too many *)
DoubledEarly(rule) ==
    LET d[n \in Nat] == IF n = 0 THEN rule.baseCooldown
                        ELSE IF d[n - 1] >= rule.maximumCooldown \div 2 THEN rule.maximumCooldown
                        ELSE 2 * d[n - 1]
    IN  d

(* The loop of cooldown: level n is the base doubled n - 1 times, and jumps  *)
(* to the maximum from half of it.                                          *)
Doubled(rule) ==
    LET d[n \in Nat] == IF n <= 1 THEN rule.baseCooldown
                        ELSE IF d[n - 1] >= rule.maximumCooldown \div 2 THEN rule.maximumCooldown
                        ELSE 2 * d[n - 1]
    IN  d

(* What cooldown may return: below the maximum, up to a quarter is added.   *)
Cooldowns(rule, penalty) ==
    LET c == Doubled(rule)[penalty]
        top == c + c \div 4
    IN  IF c >= rule.maximumCooldown THEN {rule.maximumCooldown}
        ELSE c .. (IF top < rule.maximumCooldown THEN top ELSE rule.maximumCooldown)

(* maxPenaltyLevel. *)
MaxPenaltyLevel(rule) ==
    LET level[c \in Nat \ {0}] == IF c < rule.maximumCooldown THEN 1 + level[2 * c] ELSE 1
    IN  level[rule.baseCooldown]
----------------------------------------------------------------------------
(* A penalty level means something: its cooldowns lie between the rule's    *)
(* base and its maximum, are longer than any of the level below, whatever   *)
(* the jitter, and the last level, and no other, waits for the maximum.     *)
Scaled(rule, penalty) ==
    \A c \in Cooldowns(rule, penalty) :
        /\ c >= rule.baseCooldown /\ c <= rule.maximumCooldown
        /\ penalty > 1 => \A b \in Cooldowns(rule, penalty - 1) : b < c
        /\ c = rule.maximumCooldown <=> penalty = MaxPenaltyLevel(rule)

(* The levels of a rule can be told apart by their cooldowns: the base is   *)
(* doubled ten times at most, and every doubling below the maximum stays    *)
(* below it with its jitter, by more than what rounding can take.           *)
Graded(rule) ==
    /\ rule.maximumCooldown \in rule.baseCooldown .. 1024 * rule.baseCooldown
    /\ \A p \in {1, 2, 4, 8, 16, 32, 64, 128, 256, 512} :
           LET c == p * rule.baseCooldown
           IN  c < rule.maximumCooldown => c + c \div 4 < rule.maximumCooldown - 1

(* All levels of the rules of the code are scaled. *)
RulesScaled ==
    \A m \in DOMAIN NewGuardRules : LET rule == NewGuardRules[m] IN
        rule \in Rule /\ \A n \in 1..MaxPenaltyLevel(rule) : Scaled(rule, n)
=============================================================================
