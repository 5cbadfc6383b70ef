\* The message of two pieces alone, and nothing fails.
SPECIFICATION Spec
CONSTANTS
  Messages = {"d"}
  Pieces <- MCPieces
  PeerOf <- MCPeerOf
  Wants <- MCWants
  Sims = {"s"}
  Slots = {1, 2}
  None = none
  MaxPerPeer = 5
  Faults = FALSE
INVARIANT MessageAnsweredOnce
