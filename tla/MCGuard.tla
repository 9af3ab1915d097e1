------------------------------ MODULE MCGuard ------------------------------
(* Small instances of Guard: the rules of NewGuard (guard.go:61-95) cut down  *)
(* to a threshold of two and at most three penalty levels, with their         *)
(* cooldowns.                                                                 *)
EXTENDS Guard

MCRule == [k \in Keys |-> [maxFailures     |-> 2,
                           baseCooldown    |-> 30,
                           maximumCooldown |-> IF k = "GetOrder" THEN 90 ELSE 50]]

(* The assumption on the rules holds of those of the code. *)
ASSUME CodeRulesGraded == \A m \in DOMAIN NewGuardRules : Graded(NewGuardRules[m])

\* CancelOrder reads the order back under the GetOrder key.
MCFollowUp == [k \in Keys |-> IF k = "CancelOrder" THEN "GetOrder" ELSE NoKey]
=============================================================================
