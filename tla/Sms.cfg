\* Inbox: a message of one piece and one of two, two SIMs with two slots each;
\* every fault and every command until the environment settles.  A text may
\* fill three parts.  The texts part stops when its texts are delivered.
SPECIFICATION ModemSpec
CONSTANTS
  Messages = {"m", "d"}
  Pieces <- MCPieces
  PeerOf <- MCPeerOf
  Wants <- MCWants
  Sims = {"s", "t"}
  Slots = {1, 2}
  None = none
  MaxPerPeer = 1
  Faults = TRUE
  Basic = {"a", "b"}
  Ext = {"{"}
  Bmp = {"w"}
  Astral = {"s"}
  SingleSeptets = 3
  PartSeptets = 2
  SingleUnits = 3
  PartUnits = 2
  Texts <- MCTexts
  MaxTexts = 2
  Operations <- MCOperations
  DrainGuard = 2
  MaxLines = 1
  MaxUrcs = 1
  MaxWritten = 3
  Cids = {1, 2, 3}
  Apns = {"net", "NET", "ims"}
  Lower <- MCLower
  Logins = {"l1", "l2"}
  Iccids <- MCIccids
  Libraries <- MCLibraries
  FirmwareContexts <- MCFirmware
INVARIANT TypeOK
INVARIANT RowAnsweredOnce
PROPERTY ReadStaysRead
PROPERTY InboxConverges
INVARIANT Survives
INVARIANT LinesInPlace
INVARIANT ExactlyTheProfile
CHECK_DEADLOCK FALSE
