\* One profile, one SIM, fallback tests at any moment.
SPECIFICATION Spec
CONSTANTS
  Builtin = builtin
  None = none
  Names <- MCOneName
  Sims = {"s"}
  Loads <- MCOneLoad
  MatchProfile <- MCMatch
  VariantCount <- MCVariants
  Works <- MCPicky
  Ifaces = {"native"}
  FallbackToDefault = TRUE
  ResetOnPpp = TRUE
  PppCap = 1
  DbOutcomes = {TRUE}
  Commands = {"StartFallbackTest", "AbortFallbackTest"}
  MaySettle = FALSE
INVARIANT ConfiguringHasProfile
