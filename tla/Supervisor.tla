----------------------------- MODULE Supervisor -----------------------------
(***************************************************************************)
(* The failure-recovery policy of core/supervisor.py with its clock, driven *)
(* by the calls the daemon makes of it.                                    *)
(*                                                                         *)
(* failures, planned and connectedSince are the three attributes of the    *)
(* Supervisor object.  The caller is reduced to its mode: "trying" to come *)
(* up, "connected" (on_connected is called every tick) or "waiting" for    *)
(* the planned action (DEGRADED).  The remaining variables only remember   *)
(* what happened, for the properties.                                      *)
(***************************************************************************)
EXTENDS RecoveryLadder, Integers

CONSTANTS
  BackoffBase, BackoffMax,   \* seconds: first wait, and the cap of the doubling
  ParkedInterval,            \* seconds between retries once parked
  StableSeconds,             \* an unbroken stretch that clears the ladder
  SilentLeave,               \* may the caller leave "connected" without a failure?
  Horizon,                   \* bound on the clock
  MaxFailures                \* bound on the failure counter

ASSUME SupervisorConstants ==
  /\ BackoffBase \in Nat /\ BackoffMax \in Nat
  /\ ParkedInterval \in Nat /\ StableSeconds \in Nat
  /\ SilentLeave \in BOOLEAN
  /\ Horizon \in Nat /\ MaxFailures \in Nat

VARIABLES
  now,              \* the monotonic clock
  failures,         \* consecutive failures since the last reset
  planned,          \* the set holding the PlannedRecovery, empty for None
  connectedSince,   \* _connected_since, Never for None
  mode,             \* what the caller is doing
  lastFailure,      \* history: when on_failure was last called
  climbed           \* history: actions executed since the last reset

supVars == <<now, failures, planned, connectedSince, mode, lastFailure, climbed>>

Never == -1
Time == 0 .. Horizon

PlannedRecovery == [action : RecoveryAction, attempt : Nat, notBefore : Nat]

(* 2 ** (failures - 1), on the rungs the exponent is used for.             *)
Doubling == <<1, 2, 4, 8>>

ASSUME DoublingIsPowers ==
  /\ Len(Doubling) = Len(LADDER)
  /\ \A f \in 1 .. Len(LADDER) : Doubling[f] = 2 ^ (f - 1)

Wait(f) ==
  IF Parked(f) THEN ParkedInterval
  ELSE IF BackoffBase * Doubling[f] <= BackoffMax
       THEN BackoffBase * Doubling[f] ELSE BackoffMax

PlanFor(f) == [action |-> ActionFor(f), attempt |-> f, notBefore |-> now + Wait(f)]

SupInit ==
  /\ now = 0
  /\ failures = 0 /\ planned = {} /\ connectedSince = Never
  /\ mode = "trying"
  /\ lastFailure = Never /\ climbed = {}

-----------------------------------------------------------------------------
(* The methods, on the supervisor's own attributes.                        *)

MutKeepsStretch == connectedSince' = connectedSince
ClearStretch == connectedSince' = Never

OnFailure(f) ==
  /\ failures' = f + 1
  /\ planned' = {PlanFor(f + 1)}
  /\ ClearStretch

MutDueEarly == planned
Due == {p \in planned : now >= p.notBefore}

MutResetKeepsPlan ==
  /\ failures' = 0 /\ connectedSince' = Never /\ UNCHANGED planned
Reset ==
  /\ failures' = 0 /\ planned' = {} /\ connectedSince' = Never

StretchIsStable == failures > 0 /\ now - connectedSince >= StableSeconds

-----------------------------------------------------------------------------
(* The caller.                                                             *)

(* A configure or connect attempt failed, the modem went mute or the link  *)
(* dropped: Daemon._fail.                                                  *)
Fail ==
  /\ mode \in {"trying", "connected"}
  /\ failures < MaxFailures
  /\ OnFailure(failures)
  /\ mode' = "waiting" /\ lastFailure' = now
  /\ UNCHANGED <<now, climbed>>

Connect ==
  /\ mode = "trying"
  /\ mode' = "connected"
  /\ UNCHANGED <<now, failures, planned, connectedSince, lastFailure, climbed>>

(* One tick of the connected state: on_connected starts, or measures, the  *)
(* stretch; long enough, it resets the ladder.                             *)
StretchStarts ==
  /\ mode = "connected" /\ connectedSince = Never
  /\ connectedSince' = now
  /\ UNCHANGED <<now, failures, planned, mode, lastFailure, climbed>>

StretchResets ==
  /\ mode = "connected" /\ connectedSince # Never
  /\ StretchIsStable
  /\ Reset
  /\ climbed' = {}
  /\ UNCHANGED <<now, mode, lastFailure>>

(* The caller leaves "connected" without reporting a failure: an operator's *)
(* reconnect, a SIM swap, a fallback test.  No supervisor method runs.     *)
LeaveSilently ==
  /\ SilentLeave /\ mode = "connected"
  /\ mode' = "trying"
  /\ UNCHANGED <<now, failures, planned, connectedSince, lastFailure, climbed>>

(* An operator's reconnect while waiting: the plan is simply left behind.  *)
LeaveWaiting ==
  /\ SilentLeave /\ mode = "waiting"
  /\ mode' = "trying"
  /\ UNCHANGED <<now, failures, planned, connectedSince, lastFailure, climbed>>

(* The planned action is due: it is consumed first and then executed.      *)
(* Either it succeeds and the caller tries again, or it is itself a        *)
(* failure, which plans the next rung.                                     *)
Execute ==
  /\ mode = "waiting"
  /\ \E p \in Due :
       /\ climbed' = climbed \union {p.action}
       /\ \/ /\ planned' = {} /\ mode' = "trying"
             /\ UNCHANGED <<failures, connectedSince, lastFailure>>
          \/ /\ failures < MaxFailures
             /\ OnFailure(failures)
             /\ lastFailure' = now /\ mode' = mode
  /\ UNCHANGED <<now>>

(* Parked, the daemon may switch to its built-in default profile and give  *)
(* it a fresh ladder: Supervisor.reset called from outside.                *)
SwitchProfile ==
  /\ mode = "waiting" /\ Parked(failures)
  /\ Reset
  /\ mode' = "trying" /\ climbed' = {}
  /\ UNCHANGED <<now, lastFailure>>

Pass ==
  /\ now < Horizon
  /\ now' = now + 1
  /\ UNCHANGED <<failures, planned, connectedSince, mode, lastFailure, climbed>>

SupNext ==
  \/ Fail \/ Connect \/ StretchStarts \/ StretchResets
  \/ LeaveSilently \/ LeaveWaiting \/ Execute \/ SwitchProfile \/ Pass

SupSpec == SupInit /\ [][SupNext]_supVars

-----------------------------------------------------------------------------
(* Every attribute has its type.                                           *)
SupTypeOK ==
  /\ now \in Time
  /\ failures \in 0 .. MaxFailures
  /\ planned \in SUBSET PlannedRecovery
  /\ connectedSince \in Time \union {Never}
  /\ mode \in {"trying", "connected", "waiting"}
  /\ lastFailure \in Time \union {Never}
  /\ climbed \in SUBSET RecoveryAction

(* A waiting caller always has a plan, and a plan always belongs to the    *)
(* latest failure: its attempt number is the current counter and its       *)
(* action that counter's rung.  A plan that outlived a reset or a newer    *)
(* failure would run the wrong rung; a waiting caller without one would    *)
(* wait forever (Daemon._state_degraded does nothing when none is due).    *)
PlanIsCurrent ==
  /\ mode = "waiting" => planned # {}
  /\ \A p \in planned : p.attempt = failures /\ p.action = ActionFor(failures)

(* A recovery action never runs before the backoff of the failure that     *)
(* asked for it has passed, whatever happened in between.                  *)
BackoffRespected ==
  [][Execute => now - lastFailure >= Wait(failures)]_supVars

(* However often the link flaps, the ladder is only ever cleared by        *)
(* on_connected when no failure happened for StableSeconds.                *)
ResetNeedsQuiet ==
  [][StretchResets => now - lastFailure >= StableSeconds]_supVars

(* Between two resets each of the disruptive actions runs at most once:    *)
(* "each consecutive failure escalates one rung", and past the last rung   *)
(* only the gentlest action is retried.                                    *)
DisruptiveOnce ==
  [][\A a \in RecoveryAction \ {RECONNECT} :
       (Execute /\ \E p \in planned : p.action = a) => a \notin climbed]_supVars
=============================================================================
