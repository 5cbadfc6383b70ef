SPECIFICATION UpSpec
CONSTANTS
  MaxRows = 3
  MaxSeconds = 4
INVARIANT GapCountsAsDown
