SPECIFICATION ProbeSpec
CONSTANTS
  Hour = 2
  Day = 4
  RawDays = 1
  RollupDays = 2
  RawSpan = 2
  HourSpan = 5
  MaxGap = 4
  MaxClock = 10
PROPERTY RefoldIdempotent
