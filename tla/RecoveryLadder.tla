--------------------------- MODULE RecoveryLadder ---------------------------
(***************************************************************************)
(* The recovery ladder of core/supervisor.py: the actions, gentlest first, *)
(* and which of them the n-th consecutive failure asks for.  Shared by     *)
(* Supervisor (the policy with its clock) and Daemon (the state machine    *)
(* that executes the actions).                                             *)
(***************************************************************************)
EXTENDS Naturals, Sequences

RECONNECT            == "reconnect"
MODEM_DISABLE_ENABLE == "modem_disable_enable"
AT_RESET             == "at_reset"
USB_POWER_CYCLE      == "usb_power_cycle"

LADDER == <<RECONNECT, MODEM_DISABLE_ENABLE, AT_RESET, USB_POWER_CYCLE>>

RecoveryAction == {RECONNECT, MODEM_DISABLE_ENABLE, AT_RESET, USB_POWER_CYCLE}

(* Past the last rung the supervisor is parked: it only ever retries the   *)
(* gentlest action.                                                        *)
Parked(failures) == failures > Len(LADDER)

MutActionFor(failures) ==
  IF Parked(failures) THEN LADDER[Len(LADDER)] ELSE LADDER[failures]
ActionFor(failures) == IF Parked(failures) THEN RECONNECT ELSE LADDER[failures]
=============================================================================
