\* One profile with two variants, two SIMs: for one only the first variant is
\* granted, for the other only the built-in profile. Faults of the modem, of the
\* SIM slot and of the process at any moment until the environment settles.
SPECIFICATION FairSpec
CONSTANTS
  Builtin = builtin
  None = none
  Names <- MCOneName
  Sims = {"s", "t"}
  Loads <- MCOneLoad
  MatchProfile <- MCMatch
  VariantCount <- MCVariants
  Works <- MCPicky
  Ifaces <- MCIfaces
  FallbackToDefault = TRUE
  ResetOnPpp = TRUE
  PppCap = 1
  DbOutcomes = {TRUE, FALSE}
  Commands = {"StartFallbackTest", "AbortFallbackTest"}
  MaySettle = TRUE
PROPERTY Recovers
CHECK_DEADLOCK FALSE
