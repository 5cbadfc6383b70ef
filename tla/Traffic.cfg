\* Auditor: two flows, one of them local; failing writes, dying streams, crashes
\* and reconfigurations at any moment until the environment settles.
\* Policy: waits 1, 2, 3, 3 and 3 seconds, a stretch of 3 seconds; the clock
\* and the counter reach past the last rung and through two resets.
SPECIFICATION MCSpec
CONSTANTS
  Flows = {f, g}
  LocalFlows = {g}
  Faults = TRUE
  MaxRows = 4
  BackoffBase = 1
  BackoffMax = 3
  ParkedInterval = 3
  StableSeconds = 3
  SilentLeave = TRUE
  Horizon = 13
  MaxFailures = 6
INVARIANT PlanIsCurrent
PROPERTY BackoffRespected
PROPERTY ResetNeedsQuiet
PROPERTY DisruptiveOnce
INVARIANT TrackedIsLive
INVARIANT LiveIsTracked
PROPERTY ClosedIsHistory
PROPERTY EveryFlowRecorded
PROPERTY EndedFlowsClose
