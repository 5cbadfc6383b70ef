-------------------------- MODULE Supervisor_proofs --------------------------
(***************************************************************************)
(* Proofs about the recovery policy, for every backoff, interval, clock    *)
(* bound and counter bound.                                                *)
(***************************************************************************)
EXTENDS Supervisor, TLAPS

(* What the ladder answers, rung by rung.                                  *)
LEMMA LadderRungs ==
  /\ Len(LADDER) = 4
  /\ ActionFor(1) = RECONNECT /\ ActionFor(2) = MODEM_DISABLE_ENABLE
  /\ ActionFor(3) = AT_RESET /\ ActionFor(4) = USB_POWER_CYCLE
  /\ \A f \in Nat : f > 4 => ActionFor(f) = RECONNECT
  /\ \A f \in Nat \ {0} : ActionFor(f) \in RecoveryAction
<1>1. Len(LADDER) = 4 BY DEF LADDER
<1>2. /\ ActionFor(1) = RECONNECT /\ ActionFor(2) = MODEM_DISABLE_ENABLE
      /\ ActionFor(3) = AT_RESET /\ ActionFor(4) = USB_POWER_CYCLE
  BY <1>1 DEF ActionFor, Parked, LADDER
<1>3. \A f \in Nat : f > 4 => ActionFor(f) = RECONNECT
  BY <1>1 DEF ActionFor, Parked
<1>4. ASSUME NEW f \in Nat \ {0} PROVE ActionFor(f) \in RecoveryAction
  <2>1. f = 1 \/ f = 2 \/ f = 3 \/ f = 4 \/ f > 4 OBVIOUS
  <2>2. QED BY <2>1, <1>2, <1>3 DEF RecoveryAction
<1>5. QED BY <1>1, <1>2, <1>3, <1>4

(* Every failure has a finite, non-negative wait.                          *)
LEMMA WaitIsNat == ASSUME NEW f \in Nat \ {0} PROVE Wait(f) \in Nat
<1>1. CASE f > 4 BY <1>1, LadderRungs, SupervisorConstants DEF Wait, Parked
<1>2. CASE f <= 4
  <2>1. f = 1 \/ f = 2 \/ f = 3 \/ f = 4 BY <1>2
  <2>2. Doubling[f] \in Nat BY <2>1 DEF Doubling
  <2>3. BackoffBase * Doubling[f] \in Nat BY <2>2, SupervisorConstants
  <2>4. QED BY <2>3, <1>2, LadderRungs, SupervisorConstants DEF Wait, Parked
<1>3. QED BY <1>1, <1>2

-----------------------------------------------------------------------------
(* The stretch of connectivity being measured began after the latest       *)
(* failure, and no recorded time lies in the future.                       *)
StretchFollowsFailure ==
  /\ lastFailure <= now
  /\ connectedSince <= now
  /\ connectedSince # Never => lastFailure <= connectedSince

(* The plan waits for exactly the backoff of the latest failure.           *)
PlanWaits ==
  \A p \in planned :
    /\ failures > 0
    /\ p.notBefore = lastFailure + Wait(failures)

(* A disruptive action already executed belongs to a lower rung, or to the *)
(* current one if its plan has been consumed.                              *)
Passed(rung) == failures >= rung /\ (failures = rung => planned = {})

ClimbedIsPassed ==
  /\ MODEM_DISABLE_ENABLE \in climbed => Passed(2)
  /\ AT_RESET \in climbed => Passed(3)
  /\ USB_POWER_CYCLE \in climbed => Passed(4)

Inv == SupTypeOK /\ PlanIsCurrent /\ StretchFollowsFailure /\ PlanWaits /\ ClimbedIsPassed

LEMMA InitInv == SupInit => Inv
BY SupervisorConstants, LadderRungs
   DEF SupInit, Inv, SupTypeOK, PlanIsCurrent, StretchFollowsFailure, PlanWaits,
       ClimbedIsPassed, Passed, Time, Never, RecoveryAction,
       MODEM_DISABLE_ENABLE, AT_RESET, USB_POWER_CYCLE

(* What on_failure establishes, whoever calls it.                          *)
LEMMA OnFailureFacts ==
  ASSUME SupTypeOK, failures < MaxFailures, OnFailure(failures)
  PROVE  /\ failures' \in 1 .. MaxFailures /\ failures' = failures + 1
         /\ connectedSince' = Never
         /\ planned' \in SUBSET PlannedRecovery /\ planned' # {}
         /\ \A p \in planned' : /\ p.attempt = failures'
                                /\ p.action = ActionFor(failures')
                                /\ p.notBefore = now + Wait(failures')
<1> DEFINE f == failures + 1
<1>1. f \in Nat \ {0} /\ now \in Nat
  BY SupervisorConstants DEF SupTypeOK, Time
<1>2. PlanFor(f) \in PlannedRecovery
  BY <1>1, WaitIsNat, LadderRungs DEF PlanFor, PlannedRecovery
<1>3. /\ failures' = f /\ connectedSince' = Never /\ planned' = {PlanFor(f)}
  BY DEF OnFailure, ClearStretch
<1>4. f \in 1 .. MaxFailures BY SupervisorConstants DEF SupTypeOK
<1>5. QED BY <1>2, <1>3, <1>4 DEF PlanFor

LEMMA NextInv == Inv /\ [SupNext]_supVars => Inv'
<1> SUFFICES ASSUME Inv, [SupNext]_supVars PROVE Inv' OBVIOUS
<1> USE SupervisorConstants DEF Time, Never
<1>0. /\ SupTypeOK /\ PlanIsCurrent /\ StretchFollowsFailure /\ PlanWaits /\ ClimbedIsPassed
      /\ now \in Nat /\ failures \in Nat
  BY DEF Inv, SupTypeOK
<1>1. CASE Fail
  <2>1. /\ OnFailure(failures) /\ failures < MaxFailures
        /\ mode' = "waiting" /\ lastFailure' = now
        /\ now' = now /\ climbed' = climbed
    BY <1>1 DEF Fail
  <2>2. SupTypeOK' BY <1>0, <2>1, OnFailureFacts DEF SupTypeOK
  <2>3. PlanIsCurrent' BY <1>0, <2>1, OnFailureFacts DEF PlanIsCurrent
  <2>4. StretchFollowsFailure' BY <1>0, <2>1, OnFailureFacts DEF StretchFollowsFailure
  <2>5. PlanWaits' BY <1>0, <2>1, OnFailureFacts DEF PlanWaits, Wait
  <2>6. ClimbedIsPassed' BY <1>0, <2>1, OnFailureFacts DEF ClimbedIsPassed, Passed
  <2>7. QED BY <2>2, <2>3, <2>4, <2>5, <2>6 DEF Inv
<1>2. CASE Connect
  BY <1>0, <1>2 DEF Connect, Inv, SupTypeOK, PlanIsCurrent, StretchFollowsFailure,
                    PlanWaits, ClimbedIsPassed, Passed, Wait
<1>3. CASE StretchStarts
  BY <1>0, <1>3 DEF StretchStarts, Inv, SupTypeOK, PlanIsCurrent, StretchFollowsFailure,
                    PlanWaits, ClimbedIsPassed, Passed, Wait
<1>4. CASE StretchResets
  BY <1>0, <1>4 DEF StretchResets, Reset, Inv, SupTypeOK, PlanIsCurrent,
                    StretchFollowsFailure, PlanWaits, ClimbedIsPassed
<1>5. CASE LeaveSilently
  BY <1>0, <1>5 DEF LeaveSilently, Inv, SupTypeOK, PlanIsCurrent, StretchFollowsFailure,
                    PlanWaits, ClimbedIsPassed, Passed, Wait
<1>6. CASE LeaveWaiting
  BY <1>0, <1>6 DEF LeaveWaiting, Inv, SupTypeOK, PlanIsCurrent, StretchFollowsFailure,
                    PlanWaits, ClimbedIsPassed, Passed, Wait
<1>7. CASE Execute
  <2>1. PICK p \in Due :
          /\ climbed' = climbed \union {p.action}
          /\ \/ /\ planned' = {} /\ mode' = "trying"
                /\ UNCHANGED <<failures, connectedSince, lastFailure>>
             \/ /\ failures < MaxFailures /\ OnFailure(failures)
                /\ lastFailure' = now /\ mode' = mode
    BY <1>7 DEF Execute
  <2>2. /\ mode = "waiting" /\ now' = now
        /\ p \in planned /\ p.action = ActionFor(failures)
        /\ failures \in Nat \ {0} /\ p.action \in RecoveryAction
    BY <1>7, <1>0, <2>1, LadderRungs
       DEF Execute, Due, PlanIsCurrent, PlanWaits, SupTypeOK
  <2>3. /\ p.action = MODEM_DISABLE_ENABLE => failures = 2
        /\ p.action = AT_RESET => failures = 3
        /\ p.action = USB_POWER_CYCLE => failures = 4
    <3>1. failures = 1 \/ failures = 2 \/ failures = 3 \/ failures = 4 \/ failures > 4
      BY <2>2
    <3>2. QED BY <3>1, <2>2, LadderRungs
         DEF RECONNECT, MODEM_DISABLE_ENABLE, AT_RESET, USB_POWER_CYCLE
  <2>4. CASE /\ planned' = {} /\ mode' = "trying"
             /\ UNCHANGED <<failures, connectedSince, lastFailure>>
    BY <1>0, <2>1, <2>2, <2>3, <2>4
       DEF Inv, SupTypeOK, PlanIsCurrent, StretchFollowsFailure, PlanWaits,
           ClimbedIsPassed, Passed
  <2>5. CASE /\ failures < MaxFailures /\ OnFailure(failures)
             /\ lastFailure' = now /\ mode' = mode
    <3>1. SupTypeOK' BY <1>0, <2>1, <2>2, <2>5, OnFailureFacts DEF SupTypeOK
    <3>2. PlanIsCurrent' BY <1>0, <2>5, OnFailureFacts DEF PlanIsCurrent
    <3>3. StretchFollowsFailure'
      BY <1>0, <2>2, <2>5, OnFailureFacts DEF StretchFollowsFailure
    <3>4. PlanWaits' BY <1>0, <2>5, OnFailureFacts DEF PlanWaits, Wait
    <3>5. ClimbedIsPassed'
      BY <1>0, <2>1, <2>3, <2>5, OnFailureFacts DEF ClimbedIsPassed, Passed
    <3>6. QED BY <3>1, <3>2, <3>3, <3>4, <3>5 DEF Inv
  <2>6. QED BY <2>1, <2>4, <2>5
<1>8. CASE SwitchProfile
  BY <1>0, <1>8 DEF SwitchProfile, Reset, Inv, SupTypeOK, PlanIsCurrent,
                    StretchFollowsFailure, PlanWaits, ClimbedIsPassed
<1>9. CASE Pass
  BY <1>0, <1>9 DEF Pass, Inv, SupTypeOK, PlanIsCurrent, StretchFollowsFailure,
                    PlanWaits, ClimbedIsPassed, Passed, Wait
<1>10. CASE UNCHANGED supVars
  BY <1>0, <1>10 DEF supVars, Inv, SupTypeOK, PlanIsCurrent, StretchFollowsFailure,
                     PlanWaits, ClimbedIsPassed, Passed, Wait
<1>11. QED
  BY <1>1, <1>2, <1>3, <1>4, <1>5, <1>6, <1>7, <1>8, <1>9, <1>10 DEF SupNext

LEMMA SpecInv == SupSpec => []Inv
BY InitInv, NextInv, PTL DEF SupSpec

-----------------------------------------------------------------------------
(* Every attribute keeps its type.                                         *)
THEOREM SupervisorTypeOK == SupSpec => []SupTypeOK
<1>1. Inv => SupTypeOK BY DEF Inv
<1>2. QED BY <1>1, SpecInv, PTL

(* A waiting caller always has a plan and every plan is the one of the     *)
(* latest failure (Supervisor.on_failure, consume and reset together).     *)
THEOREM SupervisorPlanIsCurrent == SupSpec => []PlanIsCurrent
<1>1. Inv => PlanIsCurrent BY DEF Inv
<1>2. QED BY <1>1, SpecInv, PTL

(* No recovery action runs before its backoff has passed.                  *)
THEOREM SupervisorBackoffRespected == SupSpec => BackoffRespected
<1>1. Inv /\ [SupNext]_supVars => [Execute => now - lastFailure >= Wait(failures)]_supVars
  <2> SUFFICES ASSUME Inv, Execute PROVE now - lastFailure >= Wait(failures)
    OBVIOUS
  <2>1. PICK p \in planned : now >= p.notBefore BY DEF Execute, Due
  <2>2. p.notBefore = lastFailure + Wait(failures) /\ failures > 0
    BY <2>1 DEF Inv, PlanWaits
  <2>3. Wait(failures) \in Nat /\ now \in Int /\ lastFailure \in Int
    BY <2>2, WaitIsNat, SupervisorConstants DEF Inv, SupTypeOK, Time, Never
  <2>4. QED BY <2>1, <2>2, <2>3
<1>2. QED BY <1>1, SpecInv, PTL DEF SupSpec, BackoffRespected

(* on_connected never clears the ladder within StableSeconds of a failure. *)
THEOREM SupervisorResetNeedsQuiet == SupSpec => ResetNeedsQuiet
<1>1. Inv /\ [SupNext]_supVars => [StretchResets => now - lastFailure >= StableSeconds]_supVars
  BY SupervisorConstants
     DEF Inv, SupTypeOK, StretchFollowsFailure, StretchResets, StretchIsStable, Time, Never
<1>2. QED BY <1>1, SpecInv, PTL DEF SupSpec, ResetNeedsQuiet

(* Each disruptive action runs at most once between two resets.            *)
THEOREM SupervisorDisruptiveOnce == SupSpec => DisruptiveOnce
<1> DEFINE Once == \A a \in RecoveryAction \ {RECONNECT} :
                     (Execute /\ \E p \in planned : p.action = a) => a \notin climbed
<1>1. Inv /\ [SupNext]_supVars => [Once]_supVars
  <2> SUFFICES ASSUME Inv, Execute, NEW a \in RecoveryAction \ {RECONNECT},
                      NEW p \in planned, p.action = a
               PROVE  a \notin climbed
    OBVIOUS
  <2>1. /\ a = ActionFor(failures) /\ failures > 0 /\ failures \in Nat
        /\ planned # {} /\ ClimbedIsPassed
    BY DEF Inv, SupTypeOK, PlanIsCurrent, PlanWaits
  <2>2. failures = 1 \/ failures = 2 \/ failures = 3 \/ failures = 4 \/ failures > 4
    BY <2>1
  <2>3. QED BY <2>1, <2>2, LadderRungs DEF ClimbedIsPassed, Passed
<1>2. QED BY <1>1, SpecInv, PTL DEF SupSpec, DisruptiveOnce
=============================================================================
