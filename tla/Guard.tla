------------------------------- MODULE Guard -------------------------------
(***************************************************************************)
(* The execution guard: a circuit breaker per request key                  *)
(* "method:exchange:symbol" that stands between the execution service and  *)
(* the gateway (components/execution/guard.go), together with the way      *)
(* service.go drives it: Allow, then the gateway call, then Record or      *)
(* Release.  Calls are made concurrently by the pair workers, the three    *)
(* reconciliation tasks and the health check.                              *)
(*                                                                         *)
(* Time is abstracted to what Allow can see of blockedUntil: it is zero,   *)
(* it lies in the future ("cooling") or it has passed ("over").  A key     *)
(* with no entry in the map is the record NoState: Allow, Record and       *)
(* Release treat an absent entry exactly as an entry of zero values, and   *)
(* Record deletes an entry exactly when all of its fields are zero.        *)
(***************************************************************************)
EXTENDS Backoff, FiniteSets

CONSTANTS
    Calls,        \* the goroutines that may have one request each under way
    Keys,         \* request keys
    NoKey,        \* "no key"
    RuleOf,       \* per key: the guardRule of its method
    PersistFirst, \* CreateOrder keys: a database row is written before the call
    FollowUp      \* key of a CancelOrder call -> key of its GetOrder, or NoKey

ASSUME KeysAssumption   == NoKey \notin Keys /\ PersistFirst \subseteq Keys
ASSUME RulesAssumption  == RuleOf \in [Keys -> Rule] /\ \A k \in Keys : Graded(RuleOf[k])
ASSUME FollowAssumption == FollowUp \in [Keys -> (Keys \ PersistFirst) \cup {NoKey}]

MaxFailures == [k \in Keys |-> RuleOf[k].maxFailures]
MaxPenalty  == [k \in Keys |-> MaxPenaltyLevel(RuleOf[k])]

VARIABLES
    state,   \* Guard.states: the guardState of every key
    call,    \* the request every goroutine has under way
    burst,   \* history: admissions of a blocked key since its last outcome
    healthy  \* environment: the gateway and the database have recovered for good

vars == <<state, call, burst, healthy>>

NoState == [failures |-> 0, penalty |-> 0, blockedUntil |-> "zero", probe |-> FALSE]
NoCall  == [pc |-> "idle", key |-> NoKey, probe |-> FALSE]

GuardState == [failures : Nat, penalty : Nat,
               blockedUntil : {"zero", "cooling", "over"}, probe : BOOLEAN]
Call == [pc : {"idle", "persist", "sent", "follow"}, key : Keys \cup {NoKey}, probe : BOOLEAN]

(* Allow returns nil: never blocked, or the first request after a cooldown. *)
Admits(k) ==
    \/ state[k].blockedUntil = "zero"
    \/ state[k].blockedUntil = "over" /\ ~state[k].probe

(* Only the request that finds an expired cooldown is marked as the probe.  *)
IsProbe(k) == state[k].blockedUntil # "zero"

AdmittedUnmarked(s) == s     (* mutant: the probe mark is forgotten *)

Admitted(s) == IF s.blockedUntil = "zero" THEN s ELSE [s EXCEPT !.probe = TRUE]

(* mutant: the floor at zero is forgotten *)
RecordSuccessUnfloored(k, s) ==
    [failures |-> 0, penalty |-> s.penalty - 2, blockedUntil |-> "zero", probe |-> FALSE]

(* Record of a success: the streak ends and the penalty drops by two levels. *)
RecordSuccess(k, s) ==
    [failures |-> 0, penalty |-> IF s.penalty > 2 THEN s.penalty - 2 ELSE 0,
     blockedUntil |-> "zero", probe |-> FALSE]

(* mutant: the penalty level is not capped *)
RecordFailureUncapped(k, s) ==
    IF s.penalty = 0 /\ s.failures + 1 < MaxFailures[k]
    THEN [failures |-> s.failures + 1, penalty |-> 0,
          blockedUntil |-> s.blockedUntil, probe |-> FALSE]
    ELSE [failures |-> 0, penalty |-> s.penalty + 1, blockedUntil |-> "cooling", probe |-> FALSE]

(* mutant: a probe that fails keeps its mark *)
RecordFailureMarked(k, s) == [RecordFailureUncapped(k, s) EXCEPT !.probe = s.probe]

(* Record of a failure: tolerated below the threshold while no penalty      *)
(* remains, otherwise one level more and a new cooldown.                    *)
RecordFailure(k, s) ==
    IF s.penalty = 0 /\ s.failures + 1 < MaxFailures[k]
    THEN [failures |-> s.failures + 1, penalty |-> 0,
          blockedUntil |-> s.blockedUntil, probe |-> FALSE]
    ELSE [failures |-> 0,
          penalty |-> IF s.penalty < MaxPenalty[k] THEN s.penalty + 1 ELSE s.penalty,
          blockedUntil |-> "cooling", probe |-> FALSE]

ReleasedMarked(s) == s       (* mutant: the mark is not taken back *)

(* Release: the caller gave up locally, no outcome was received.            *)
Released(s) == [s EXCEPT !.probe = FALSE]

Init ==
    /\ state = [k \in Keys |-> NoState]
    /\ call = [c \in Calls |-> NoCall]
    /\ burst = [k \in Keys |-> 0]
    /\ healthy = FALSE

(* What an admission of call c on key k does, common to the two callers of Allow. *)
Admit(c, k, next) ==
    /\ Admits(k)
    /\ state' = [state EXCEPT ![k] = Admitted(@)]
    /\ burst' = [burst EXCEPT ![k] = IF IsProbe(k) THEN @ + 1 ELSE @]
    /\ call' = [call EXCEPT ![c] = [pc |-> next, key |-> k, probe |-> IsProbe(k)]]
    /\ UNCHANGED healthy

(* A request passes the guard.  A denied request returns an error and        *)
(* changes nothing.  CreateOrder persists its row before it calls the gateway. *)
Allow(c, k) ==
    /\ call[c].pc = "idle"
    /\ Admit(c, k, IF k \in PersistFirst THEN "persist" ELSE "sent")

(* CreateOrder: the row is written.                                         *)
Persisted(c) ==
    /\ call[c].pc = "persist"
    /\ call' = [call EXCEPT ![c].pc = "sent"]
    /\ UNCHANGED <<state, burst, healthy>>

(* CreateOrder: the insert fails; the error return passes neither Record nor Release. *)
PersistFails(c) ==
    /\ call[c].pc = "persist"
    /\ ~healthy
    /\ call' = [call EXCEPT ![c] = NoCall]
    /\ UNCHANGED <<state, burst, healthy>>

(* The gateway accepts; Record clears the key; CancelOrder goes on to GetOrder. *)
Succeeds(c) ==
    /\ call[c].pc = "sent"
    /\ LET k == call[c].key IN
        /\ state' = [state EXCEPT ![k] = RecordSuccess(k, @)]
        /\ burst' = [burst EXCEPT ![k] = 0]
        /\ call' = [call EXCEPT ![c] = IF FollowUp[k] = NoKey THEN NoCall
                       ELSE [pc |-> "follow", key |-> FollowUp[k], probe |-> FALSE]]
    /\ UNCHANGED healthy

(* The gateway answers with an error.                                       *)
Fails(c) ==
    /\ call[c].pc = "sent"
    /\ ~healthy
    /\ LET k == call[c].key IN
        /\ state' = [state EXCEPT ![k] = RecordFailure(k, @)]
        /\ burst' = [burst EXCEPT ![k] = 0]
    /\ call' = [call EXCEPT ![c] = NoCall]
    /\ UNCHANGED healthy

(* recordGuard sees context.Canceled or context.DeadlineExceeded.           *)
Abandons(c) ==
    /\ call[c].pc = "sent"
    /\ ~healthy
    /\ LET k == call[c].key IN
        /\ state' = [state EXCEPT ![k] = Released(@)]
        /\ burst' = [burst EXCEPT ![k] = 0]
    /\ call' = [call EXCEPT ![c] = NoCall]
    /\ UNCHANGED healthy

(* CancelOrder asks the guard again before it reads the order back.         *)
FollowUpAllow(c) ==
    /\ call[c].pc = "follow"
    /\ IF Admits(call[c].key)
       THEN Admit(c, call[c].key, "sent")
       ELSE /\ call' = [call EXCEPT ![c] = NoCall]
            /\ UNCHANGED <<state, burst, healthy>>

(* The clock passes blockedUntil.                                           *)
CooldownEnds(k) ==
    /\ state[k].blockedUntil = "cooling"
    /\ state' = [state EXCEPT ![k].blockedUntil = "over"]
    /\ UNCHANGED <<call, burst, healthy>>

(* From here on no request fails.                                           *)
Recover ==
    /\ ~healthy
    /\ healthy' = TRUE
    /\ UNCHANGED <<state, call, burst>>

Next ==
    \/ \E c \in Calls :
        \/ \E k \in Keys : Allow(c, k)
        \/ Persisted(c)
        \/ PersistFails(c)
        \/ Succeeds(c)
        \/ Fails(c)
        \/ Abandons(c)
        \/ FollowUpAllow(c)
    \/ \E k \in Keys : CooldownEnds(k)
    \/ Recover

Spec == Init /\ [][Next]_vars

(* Every request in flight is answered, the clock runs, and the periodic     *)
(* callers of a key keep coming back for it.                                *)
Fairness ==
    /\ \A c \in Calls :
        /\ WF_vars(Persisted(c))
        /\ WF_vars(Succeeds(c))
        /\ WF_vars(FollowUpAllow(c))
        /\ \A k \in Keys : SF_vars(Allow(c, k))
    /\ \A k \in Keys : WF_vars(CooldownEnds(k))

FairSpec == Spec /\ Fairness
----------------------------------------------------------------------------
(* Type invariant, with the bounds of the counters.                          *)
TypeOK ==
    /\ state \in [Keys -> GuardState]
    /\ call \in [Calls -> Call]
    /\ burst \in [Keys -> Nat]
    /\ healthy \in BOOLEAN
    /\ \A c \in Calls : call[c].pc # "idle" => call[c].key \in Keys

(* Every entry the guard keeps is meaningful: a key that is blocked carries a *)
(* penalty and no failure streak, a key without penalty is below its rule's   *)
(* threshold, the penalty stays within the rule, and a probe exists only once *)
(* the cooldown has passed (guard.go Allow and Record).                       *)
StateCoherent ==
    \A k \in Keys : LET s == state[k] IN
        /\ s.blockedUntil # "zero" => s.penalty > 0
        /\ s.penalty > 0 => s.failures = 0
        /\ s.failures < MaxFailures[k]
        /\ s.penalty <= MaxPenalty[k]
        /\ s.probe => s.blockedUntil = "over"

(* Whatever penalty a blocked key has collected, the cooldown it is blocked   *)
(* for is the one of that level: cooldown and maxPenaltyLevel, two loops over *)
(* the same doubling, agree at every level Record can reach, up to the        *)
(* jitter near the maximum (guard.go:177-180, 202-237).                       *)
CooldownScaled ==
    /\ RulesScaled
    /\ \A k \in Keys : state[k].blockedUntil # "zero" => Scaled(RuleOf[k], state[k].penalty)

(* "probeActive prevents a burst of concurrent callers from bypassing the     *)
(* cooldown together": between two outcomes of a blocked key at most one      *)
(* request passes, however many callers race for it.                          *)
NoBurst == \A k \in Keys : burst[k] <= 1 /\ (burst[k] = 1 => state[k].probe)

(* A probe mark always belongs to a request that is still under way, so that  *)
(* its outcome will clear it, on every key whose request is not preceded by a *)
(* database write.                                                            *)
ProbeOwned(K) ==
    \A k \in K : state[k].probe =>
        \E c \in Calls : /\ call[c].pc \in {"persist", "sent"}
                         /\ call[c].key = k
                         /\ call[c].probe
ProbeHasOwner == ProbeOwned(Keys \ PersistFirst)

(* Once the gateway has recovered for good every such key is cleared in the   *)
(* end, whatever penalty it had collected (guard.go Record, lines 148-165).   *)
KeyRecovers ==
    \A k \in Keys \ PersistFirst : healthy ~> (state[k] = NoState)

(* What the comments of Release and recordGuard promise of every key: a probe *)
(* is released when the request ends locally without a gateway outcome.       *)
ProbeAlwaysReleased == ProbeOwned(Keys)
=============================================================================
