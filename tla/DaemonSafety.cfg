\* Faults, restarts and every command at any moment, for ever.
SPECIFICATION Spec
CONSTANTS
  Builtin = builtin
  None = none
  Names <- MCBothNames
  Sims = {"s", "t"}
  Loads <- MCAnyLoad
  MatchProfile <- MCMatch
  VariantCount <- MCVariants
  Works <- MCPicky
  Ifaces = {"native"}
  FallbackToDefault = TRUE
  ResetOnPpp = TRUE
  PppCap = 1
  DbOutcomes = {TRUE}
  Commands <- MCSimCommands
  MaySettle = FALSE
INVARIANT Attached
INVARIANT SimKnown
INVARIANT NothingLeftWaiting
INVARIANT ActiveIsSelected
INVARIANT SnapshotTruth
INVARIANT ArmDurable
PROPERTY TestEndsWithRadioOn
PROPERTY ImplementsUplink
