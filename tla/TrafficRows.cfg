\* One flow, nothing fails.
SPECIFICATION Spec
CONSTANTS
  Flows = {f}
  LocalFlows = {}
  Faults = FALSE
  MaxRows = 3
INVARIANT OneRowPerFlow
