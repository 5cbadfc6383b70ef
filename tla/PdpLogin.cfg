\* The logins of a profile are edited, commands fail.
SPECIFICATION PdpSpec
CONSTANTS
  Cids = {1, 2, 3}
  Apns = {"net", "NET", "ims"}
  Lower <- MCLower
  Logins = {"l1", "l2"}
  Iccids <- MCIccids
  Libraries <- MCLibraries
  FirmwareContexts <- MCFirmware
INVARIANT LoginInForce
