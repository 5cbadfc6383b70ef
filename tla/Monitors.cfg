SPECIFICATION Spec
CONSTANTS
  Ports = {1, 2, 70000}
  Validity <- MCValidity
  Requests <- MCRequests
  Egresses = {"cellular"}
  Rules <- MCRules
  NetDev = "wwan0"
  None = "none"
  Peers = {"h:1", "h:2"}
  MaxConns = 1
  MaxLine = 1
  MaxReplies = 1
  Window = 0
  MaxRepeats = 1
  MaxSent = 2
  MaxNewlines = 2
  MaxTime = 1
  Hour = 2
  Day = 4
  RawDays = 2
  RollupDays = 2
  RawSpan = 2
  HourSpan = 5
  MaxGap = 4
  MaxClock = 10
  MaxRows = 3
  MaxSeconds = 4
INVARIANT KeyIsBound
INVARIANT TextAccountedFor
INVARIANT RepliesCapped
PROPERTY Converges
INVARIANT WindowsExact
INVARIANT UptimeTruthful
