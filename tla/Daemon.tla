------------------------------- MODULE Daemon -------------------------------
(***************************************************************************)
(* The connection state machine of core/daemon.py with the modem, the SIM, *)
(* NetworkManager and the operator around it.                              *)
(*                                                                         *)
(* One tick of the daemon drains the command queue and then runs the       *)
(* handler of the current state, all on one thread: a command or a handler *)
(* is one atomic action here, and the environment moves between them.      *)
(* Clocks are reduced to "elapsed": the timer the current state waits for  *)
(* (connect deadline, recovery backoff, airplane window) has run out; the  *)
(* policy's clock is modelled in Supervisor.                               *)
(***************************************************************************)
EXTENDS RecoveryLadder, FiniteSets

CONSTANTS
  Names,              \* names of the profiles that may be on the disk
  Builtin,            \* BUILTIN_DEFAULT, the last-ditch profile
  None,               \* no profile, no SIM
  Sims,               \* SIM identities (ICCID and IMSI)
  Loads,              \* sets of profiles a (re)load may find
  MatchProfile,       \* match_profile: SIM and loaded profiles to a profile or None
  VariantCount,       \* number of PDP-context sets of each profile
  Works,              \* for each SIM the bearers the network would grant
  Ifaces,             \* what an activation may come up as: "native", "ppp", "noip"
  FallbackToDefault,  \* daemon.fallback_to_default_profile
  ResetOnPpp, PppCap, \* daemon.reset_on_ppp_interface, ppp_reset_max_attempts
  DbOutcomes,         \* outcomes of a settings write: {TRUE}, or BOOLEAN
  Commands,           \* commands the operator uses
  MaySettle           \* does the environment ever become calm?

Profiles == Names \union {Builtin}
Variants == UNION {0 .. (VariantCount[p] - 1) : p \in Profiles}
Bearers  == Profiles \X Variants

ASSUME DaemonConstants ==
  /\ Builtin \notin Names /\ None \notin Profiles /\ None \notin Sims
  /\ Loads \subseteq SUBSET Names /\ Loads # {}
  /\ MatchProfile \in [Sims -> [SUBSET Names -> Names \union {None}]]
  /\ \A s \in Sims, l \in SUBSET Names : MatchProfile[s][l] \in l \union {None}
  /\ VariantCount \in [Profiles -> Nat \ {0}]
  /\ Works \in [Sims -> SUBSET Bearers]
  /\ Ifaces \subseteq {"native", "ppp", "noip"}
  /\ {FallbackToDefault, ResetOnPpp, MaySettle} \subseteq BOOLEAN
  /\ PppCap \in Nat
  /\ DbOutcomes \subseteq BOOLEAN /\ DbOutcomes # {}

State == {"NO_MODEM", "MODEM_FOUND", "SIM_READY", "CONFIGURING",
          "CONNECTING", "CONNECTED", "DEGRADED", "FALLBACK_TEST"}

VARIABLES
  state, driver,      \* the state; is a modem driver held?
  profile, variant,   \* active_profile and the PDP variant being tried
  fallbackActive,     \* on the built-in last-ditch default
  forced, loaded,     \* forced profile; profiles loaded from the disk
  refresh,            \* a SIM refresh URC was seen
  pppAttempts,        \* resets spent escaping a PPP link
  armed, savedArm,    \* one-shot test on the next SIM attach; its database copy
  window,             \* _fallback_until is set
  failures, plan,     \* the supervisor: counter, and is an action planned?
  elapsed,            \* the current state's timer has run out
  snapSim, snapProfile, \* SIM identity and profile name in the StateStore
  sim, radio,         \* environment: the SIM in the slot, the modem's radio
  link,               \* environment: NetworkManager's connection
  calm,               \* environment: no fault and no operator from here on
  gaveUp              \* history: a radio re-enable gave up on this attachment

choiceVars == <<profile, variant, fallbackActive, snapProfile>>
armVars    == <<armed, savedArm>>
policyVars == <<failures, plan>>
operatorVars == <<forced, loaded>>
worldVars  == <<sim, calm>>
vars == <<state, driver, choiceVars, operatorVars, refresh, pppAttempts, armVars,
          window, policyVars, elapsed, snapSim, radio, link, worldVars, gaveUp>>

Down == [st |-> "down", bearer |-> None]
Activating(b) == [st |-> "activating", bearer |-> b]
Links == {Down} \union [st : {"activating", "native", "ppp", "noip"}, bearer : Bearers]

Active   == link.st \in {"native", "ppp", "noip"}
HasIp    == link.st \in {"native", "ppp"}
Faulty   == ~calm
MaxFailures == Len(LADDER) + 1      \* bound: past the last rung nothing changes

Init ==
  /\ state = "NO_MODEM" /\ driver = FALSE
  /\ profile = None /\ variant = 0 /\ fallbackActive = FALSE
  /\ forced = None /\ loaded \in Loads
  /\ refresh = FALSE /\ pppAttempts = 0
  /\ savedArm \in BOOLEAN /\ armed = savedArm
  /\ window = FALSE /\ failures = 0 /\ plan = FALSE /\ elapsed = FALSE
  /\ snapSim = None /\ snapProfile = None
  /\ sim \in Sims \union {None} /\ radio \in BOOLEAN /\ link = Down
  /\ calm = FALSE /\ gaveUp = FALSE

-----------------------------------------------------------------------------
(* Helpers of the handlers.                                                *)

Go(s) == state' = s /\ elapsed' = FALSE

(* _fail: report to the supervisor, which plans the next rung.             *)
Fail ==
  /\ failures' = IF failures < MaxFailures THEN failures + 1 ELSE failures
  /\ plan' = TRUE
  /\ Go("DEGRADED")

(* _safe_disconnect swallows a failing nmcli.                              *)
DisconnectFrom(l) == link' = Down \/ (Faulty /\ link' = l)
Disconnect == DisconnectFrom(link)

MutForgetModem ==
  /\ profile' = None /\ snapProfile' = None /\ snapSim' = None
  /\ variant' = 0 /\ fallbackActive' = FALSE
  /\ refresh' = FALSE /\ gaveUp' = FALSE
  /\ UNCHANGED driver
ForgetModem ==
  /\ driver' = FALSE
  /\ profile' = None /\ snapProfile' = None /\ snapSim' = None
  /\ variant' = 0 /\ fallbackActive' = FALSE
  /\ refresh' = FALSE /\ gaveUp' = FALSE

DropModem == ForgetModem /\ Go("NO_MODEM")

(* full_reset: the modem reboots with its radio on and takes the bearer    *)
(* down; its errors are swallowed, so a reset that never happened looks    *)
(* the same to the daemon.                                                 *)
ModemReboots == radio' = TRUE /\ link' = Down
ResetIsLost  == Faulty /\ UNCHANGED <<radio, link>>

(* _full_reset_modem: the driver's reset when there is one, a disconnect   *)
(* in any case, and detection from scratch.                                *)
FullResetModem ==
  /\ \/ driver /\ ModemReboots
     \/ (driver => Faulty) /\ Disconnect /\ UNCHANGED radio
  /\ DropModem

(* _select_profile, for the force, the loaded profiles and the SIM given:  *)
(* a force is never replaced by a match, not even when its profile is gone. *)
SelectFor(force, load, s) ==
  IF force = None THEN MatchProfile[s][load]
  ELSE IF force \in load THEN force ELSE None

SelectProfile(s) == SelectFor(forced, loaded, s)

HasNextVariant == variant + 1 < VariantCount[profile]

(* _advance_variant_or_fail, with the connection as l: the next variant    *)
(* after a disconnect, or a failure that leaves the connection alone.      *)
AdvanceVariantOrFail(l) ==
  \/ /\ HasNextVariant
     /\ variant' = variant + 1
     /\ DisconnectFrom(l) /\ Go("CONFIGURING")
     /\ UNCHANGED policyVars
  \/ /\ ~HasNextVariant
     /\ variant' = 0
     /\ link' = l /\ Fail

-----------------------------------------------------------------------------
(* The handlers before the connection.                                     *)

DetectModem ==
  /\ state = "NO_MODEM"
  /\ driver' = TRUE /\ Go("MODEM_FOUND")
  /\ UNCHANGED <<choiceVars, operatorVars, refresh, pppAttempts, armVars, window,
                 policyVars, snapSim, radio, link, worldVars, gaveUp>>

ModemMute ==
  /\ state = "MODEM_FOUND" /\ Faulty
  /\ DropModem
  /\ UNCHANGED <<operatorVars, pppAttempts, armVars, window, policyVars,
                 radio, link, worldVars>>

(* No SIM: it is re-probed now and then by a CFUN cycle, which also turns  *)
(* the radio on, or off when the cycle breaks half-way.                    *)
SimAbsent ==
  /\ state = "MODEM_FOUND" /\ sim = None
  /\ snapSim' = None /\ refresh' = FALSE
  /\ radio' \in {radio, TRUE} \union (IF Faulty THEN {FALSE} ELSE {})
  /\ UNCHANGED <<state, driver, choiceVars, operatorVars, pppAttempts, armVars,
                 window, policyVars, elapsed, link, worldVars, gaveUp>>

SimFound ==
  /\ state = "MODEM_FOUND" /\ sim # None
  /\ snapSim' = sim /\ Go("SIM_READY")
  /\ UNCHANGED <<driver, choiceVars, operatorVars, refresh, pppAttempts, armVars,
                 window, policyVars, radio, link, worldVars, gaveUp>>

MutConsumeArm == armed' = FALSE /\ UNCHANGED savedArm
ConsumeArm ==
  /\ armed' = FALSE
  /\ \E ok \in DbOutcomes : savedArm' = IF ok THEN FALSE ELSE savedArm

TestFrom == {"SIM_READY", "CONFIGURING", "CONNECTING", "CONNECTED", "DEGRADED"}

(* _start_fallback_test: airplane mode first; when the modem reports an    *)
(* error (the radio may be off all the same) the state is kept.            *)
StartTest ==
  /\ driver /\ state \in TestFrom
  /\ \/ /\ radio' = FALSE
        /\ Disconnect
        /\ window' = TRUE /\ Go("FALLBACK_TEST")
     \/ /\ Faulty /\ radio' \in {radio, FALSE}
        /\ UNCHANGED <<state, elapsed, window, link>>
  /\ UNCHANGED <<driver, choiceVars, operatorVars, refresh, pppAttempts, policyVars,
                 snapSim, worldVars, gaveUp>>

ArmedAttach ==
  /\ state = "SIM_READY" /\ armed
  /\ ConsumeArm /\ StartTest

NoProfile ==
  /\ state = "SIM_READY" /\ ~armed
  /\ SelectProfile(snapSim) = None
  /\ snapProfile' = None
  /\ UNCHANGED <<state, driver, profile, variant, fallbackActive, operatorVars,
                 refresh, pppAttempts, armVars, window, policyVars, elapsed, snapSim,
                 radio, link, worldVars, gaveUp>>

ProfileSelected ==
  /\ state = "SIM_READY" /\ ~armed
  /\ LET p == SelectProfile(snapSim) IN
       /\ p # None
       /\ profile' = p /\ snapProfile' = p
       /\ variant' = IF profile = p THEN variant ELSE 0
       /\ fallbackActive' = IF profile = p THEN fallbackActive ELSE FALSE
  /\ gaveUp' = FALSE
  /\ Go("CONFIGURING")
  /\ UNCHANGED <<driver, operatorVars, refresh, pppAttempts, armVars, window,
                 policyVars, snapSim, radio, link, worldVars>>

(* Without an active profile the handler's assertion fails on every tick   *)
(* and nothing changes, so the guard is the assertion.                     *)
Configure ==
  /\ state = "CONFIGURING" /\ driver /\ profile # None
  /\ variant' = IF variant >= VariantCount[profile] THEN 0 ELSE variant
  /\ \/ Go("CONNECTING") /\ UNCHANGED policyVars
     \/ Faulty /\ Fail
  /\ UNCHANGED <<driver, profile, fallbackActive, snapProfile, operatorVars, refresh,
                 pppAttempts, armVars, window, snapSim, radio, link, worldVars, gaveUp>>

-----------------------------------------------------------------------------
(* Connecting.                                                             *)

ConnectingFrame ==
  UNCHANGED <<driver, operatorVars, armVars, window, worldVars>>

(* NetworkManager is idle, or nmcli fails, which reads the same: activate   *)
(* the connection configured last, the active profile's current variant.   *)
Kick ==
  /\ state = "CONNECTING" /\ (link.st \in {"down", "noip"} \/ Faulty)
  /\ LET kicked == Activating(<<profile, variant>>) IN
       \/ /\ ~elapsed
          /\ link' = kicked
          /\ UNCHANGED <<state, variant, policyVars, elapsed>>
       \/ elapsed /\ AdvanceVariantOrFail(kicked)
       \/ Faulty /\ AdvanceVariantOrFail(link)
  /\ UNCHANGED <<profile, fallbackActive, snapProfile, refresh, pppAttempts, snapSim,
                 radio, gaveUp>>
  /\ ConnectingFrame

ConnectTimeout ==
  /\ state = "CONNECTING" /\ link.st = "activating" /\ elapsed
  /\ AdvanceVariantOrFail(link)
  /\ UNCHANGED <<profile, fallbackActive, snapProfile, refresh, pppAttempts, snapSim,
                 radio, gaveUp>>
  /\ ConnectingFrame

EscapePpp == link.st = "ppp" /\ ResetOnPpp /\ pppAttempts < PppCap

LinkUp ==
  /\ state = "CONNECTING" /\ HasIp /\ ~EscapePpp
  /\ pppAttempts' = IF link.st = "native" THEN 0 ELSE pppAttempts
  /\ Go("CONNECTED")
  /\ UNCHANGED <<choiceVars, refresh, policyVars, snapSim, radio, link, gaveUp>>
  /\ ConnectingFrame

MutCountPppReset == pppAttempts' = 0
CountPppReset == pppAttempts' = pppAttempts + 1

PppReset ==
  /\ state = "CONNECTING" /\ EscapePpp
  /\ CountPppReset
  /\ FullResetModem
  /\ UNCHANGED <<operatorVars, armVars, window, policyVars, worldVars>>

-----------------------------------------------------------------------------
(* Connected.                                                              *)

ConnectedFrame ==
  UNCHANGED <<driver, variant, fallbackActive, operatorVars, pppAttempts, armVars,
              window, radio, worldVars, gaveUp>>

(* The SIM is gone, or another, or refreshed: let go of the profile.       *)
LetGo == profile' = None /\ snapProfile' = None /\ refresh' = FALSE /\ Disconnect

SimRemoved ==
  /\ state = "CONNECTED" /\ sim = None
  /\ LetGo /\ snapSim' = None
  /\ Go("MODEM_FOUND")
  /\ UNCHANGED policyVars
  /\ ConnectedFrame

MutSimSwapped ==
  /\ state = "CONNECTED" /\ sim # None
  /\ sim # snapSim \/ refresh
  /\ refresh' = FALSE /\ Disconnect /\ snapSim' = sim
  /\ Go("CONFIGURING")
  /\ UNCHANGED <<policyVars, profile, snapProfile>>
  /\ ConnectedFrame
SimSwapped ==
  /\ state = "CONNECTED" /\ sim # None
  /\ sim # snapSim \/ refresh
  /\ LetGo /\ snapSim' = sim
  /\ Go("SIM_READY")
  /\ UNCHANGED policyVars
  /\ ConnectedFrame

SimUnchanged == sim # None /\ sim = snapSim /\ ~refresh

(* The modem is mute, or NetworkManager no longer holds the connection.    *)
ConnectionLost ==
  /\ state = "CONNECTED"
  /\ Faulty \/ (SimUnchanged /\ ~Active)
  /\ Fail
  /\ UNCHANGED <<profile, snapProfile, refresh, snapSim, link>>
  /\ ConnectedFrame

(* on_connected after a long enough stretch.                               *)
StretchResetsLadder ==
  /\ state = "CONNECTED" /\ SimUnchanged /\ Active
  /\ failures > 0
  /\ failures' = 0 /\ plan' = FALSE
  /\ UNCHANGED <<state, elapsed, profile, snapProfile, refresh, snapSim, link>>
  /\ ConnectedFrame

-----------------------------------------------------------------------------
(* Degraded: the recovery ladder.                                          *)

LastDitch ==
  /\ FallbackToDefault /\ Parked(failures) /\ ~fallbackActive
  /\ profile \notin {None, Builtin}

MutAdoptBuiltin ==
  /\ profile' = Builtin /\ variant' = 0 /\ fallbackActive' = TRUE
  /\ UNCHANGED snapProfile
AdoptBuiltin ==
  /\ profile' = Builtin /\ variant' = 0 /\ fallbackActive' = TRUE
  /\ snapProfile' = Builtin

(* The connection of the exhausted profile is left as it is.               *)
SwitchToBuiltin ==
  /\ state = "DEGRADED" /\ LastDitch
  /\ AdoptBuiltin
  /\ failures' = 0 /\ plan' = FALSE
  /\ Go("CONFIGURING")
  /\ UNCHANGED <<driver, operatorVars, refresh, pppAttempts, armVars, window, snapSim,
                 radio, link, worldVars, gaveUp>>

Due(a) ==
  /\ state = "DEGRADED" /\ ~LastDitch
  /\ plan /\ elapsed /\ a = ActionFor(failures)

RecoverFrame == UNCHANGED <<operatorVars, pppAttempts, armVars, window, worldVars>>
StayAttached == UNCHANGED <<driver, choiceVars, refresh, snapSim, gaveUp>>

(* The plan is consumed before the action runs, so a failing action plans  *)
(* the next one.                                                           *)
Consume == plan' = FALSE /\ UNCHANGED failures
MutActionFails ==
  /\ Faulty
  /\ failures' = IF failures < MaxFailures THEN failures + 1 ELSE failures
  /\ plan' = FALSE
  /\ Go("DEGRADED")
ActionFails == Faulty /\ Fail

RecoverReconnect ==
  /\ Due(RECONNECT)
  /\ Consume /\ Go("CONFIGURING")
  /\ StayAttached /\ RecoverFrame /\ UNCHANGED <<radio, link>>

RecoverDisableEnable ==
  /\ Due(MODEM_DISABLE_ENABLE)
  /\ \/ /\ Consume /\ Go("CONFIGURING")
        /\ link' = Down /\ radio' \in {radio, TRUE}
     \/ /\ ActionFails
        /\ link' \in {link, Down} /\ radio' \in BOOLEAN
  /\ StayAttached /\ RecoverFrame

RecoverAtReset ==
  /\ Due(AT_RESET)
  /\ Consume /\ (ModemReboots \/ ResetIsLost)
  /\ DropModem
  /\ RecoverFrame

RecoverPowerCycle ==
  /\ Due(USB_POWER_CYCLE)
  /\ \/ /\ Consume /\ ModemReboots /\ DropModem
     \/ /\ ActionFails /\ link' \in {link, Down}
        /\ UNCHANGED radio
        /\ StayAttached
  /\ RecoverFrame

-----------------------------------------------------------------------------
(* The end of a fallback test.                                             *)

MutAfterTest(seen) == "SIM_READY"
AfterTest(seen) == IF seen = None THEN "MODEM_FOUND" ELSE "SIM_READY"

(* Radio back on, then the SIM is read; a slow SIM may read as absent.     *)
(* After three refusals the test ends as a failure, the radio in whatever  *)
(* state it is.                                                            *)
EndTest ==
  /\ window' = FALSE
  /\ \/ /\ radio' = TRUE
        /\ \E seen \in {sim} \union (IF Faulty THEN {None} ELSE {}) :
             snapSim' = seen /\ Go(AfterTest(seen))
        /\ profile' = None /\ snapProfile' = None
        /\ UNCHANGED <<policyVars, gaveUp>>
     \/ /\ Faulty /\ Fail
        /\ radio' \in {radio, TRUE} /\ gaveUp' = TRUE
        /\ UNCHANGED <<profile, snapProfile, snapSim>>
  /\ UNCHANGED <<driver, variant, fallbackActive, operatorVars, refresh, pppAttempts,
                 armVars, link, worldVars>>

WindowElapsed == state = "FALLBACK_TEST" /\ window /\ elapsed /\ EndTest

-----------------------------------------------------------------------------
(* Commands.                                                               *)

MutBlocked == {}
Blocked == {"ResetModem", "SetRat", "SetAtPort"}

Accepts(c) ==
  /\ c \in Commands /\ Faulty
  /\ ~(state = "FALLBACK_TEST" /\ c \in Blocked)

Reattachable == state \in {"CONNECTED", "CONNECTING", "DEGRADED"} /\ profile # None

Reconnect ==
  /\ Accepts("Reconnect") /\ Reattachable
  /\ Disconnect /\ Go("CONFIGURING")
  /\ UNCHANGED <<driver, choiceVars, operatorVars, refresh, pppAttempts, armVars,
                 window, policyVars, snapSim, radio, worldVars, gaveUp>>

ResetModem ==
  /\ Accepts("ResetModem")
  /\ FullResetModem
  /\ UNCHANGED <<operatorVars, pppAttempts, armVars, window, policyVars, worldVars>>

SetAtPort ==
  /\ Accepts("SetAtPort")
  /\ Disconnect /\ DropModem
  /\ UNCHANGED <<operatorVars, pppAttempts, armVars, window, policyVars, radio,
                 worldVars>>

SetRat ==
  /\ Accepts("SetRat") /\ driver /\ Reattachable
  /\ variant' = 0
  /\ Disconnect /\ Go("CONFIGURING")
  /\ UNCHANGED <<driver, profile, fallbackActive, snapProfile, operatorVars, refresh,
                 pppAttempts, armVars, window, policyVars, snapSim, radio, worldVars,
                 gaveUp>>

MutReselectFrom == TestFrom \ {"DEGRADED"}
ReselectFrom == TestFrom

(* _reevaluate_profile: back to profile selection.                         *)
Reevaluate ==
  IF state \in ReselectFrom
  THEN Disconnect /\ Go("SIM_READY")
  ELSE UNCHANGED <<state, elapsed, link>>

OperatorFrame ==
  UNCHANGED <<driver, choiceVars, refresh, pppAttempts, armVars, window, policyVars,
              snapSim, radio, worldVars, gaveUp>>

ForceProfile ==
  /\ Accepts("ForceProfile")
  /\ \E name \in loaded : forced' = name
  /\ Reevaluate
  /\ UNCHANGED loaded /\ OperatorFrame

ReleaseForce ==
  /\ Accepts("ReleaseForce")
  /\ forced' = None
  /\ Reevaluate
  /\ UNCHANGED loaded /\ OperatorFrame

(* Re-selection only when the selection for the known SIM has changed.     *)
ReloadProfiles ==
  /\ Accepts("ReloadProfiles")
  /\ \E l \in Loads :
       /\ loaded' = l
       /\ IF snapSim # None /\ SelectFor(forced, l, snapSim) \notin {profile} \ {None}
          THEN Reevaluate ELSE UNCHANGED <<state, elapsed, link>>
  /\ UNCHANGED forced
  /\ OperatorFrame

StartFallbackTest ==
  /\ Accepts("StartFallbackTest")
  /\ StartTest
  /\ UNCHANGED armVars

AbortFallbackTest ==
  /\ Accepts("AbortFallbackTest")
  /\ state = "FALLBACK_TEST" /\ EndTest

ArmFallbackTest ==
  /\ Accepts("ArmFallbackTest")
  /\ armed' \in BOOLEAN
  /\ \E ok \in DbOutcomes : savedArm' = IF ok THEN armed' ELSE savedArm
  /\ UNCHANGED <<state, driver, choiceVars, operatorVars, refresh, pppAttempts, window,
                 policyVars, elapsed, snapSim, radio, link, worldVars, gaveUp>>

-----------------------------------------------------------------------------
(* The environment.                                                        *)

daemonVars == <<state, driver, choiceVars, operatorVars, pppAttempts, armVars, window,
                policyVars, snapSim, gaveUp>>

SimChanges ==
  /\ Faulty
  /\ sim' \in (Sims \union {None}) \ {sim}
  /\ UNCHANGED <<daemonVars, refresh, elapsed, radio, link, calm>>

SimRefreshUrc ==
  /\ Faulty /\ driver
  /\ refresh' = TRUE
  /\ UNCHANGED <<daemonVars, elapsed, radio, link, worldVars>>

(* The network grants the bearer being activated.                          *)
Promising == link.st = "activating" /\ radio /\ sim # None /\ link.bearer \in Works[sim]

Registered ==
  /\ Promising
  /\ \E i \in Ifaces : link' = [link EXCEPT !.st = i]
  /\ UNCHANGED <<daemonVars, refresh, elapsed, radio, worldVars>>

LinkDrops ==
  /\ link # Down
  /\ Faulty \/ (link.st = "activating" /\ ~Promising) \/ ~radio \/ sim = None
  /\ link' = Down
  /\ UNCHANGED <<daemonVars, refresh, elapsed, radio, worldVars>>

(* The bearer the connecting state is waiting for.                         *)
Pursued == IF link.st = "activating" THEN link.bearer ELSE <<profile, variant>>

(* Time passes.  In a calm environment an activation that the network      *)
(* grants completes before the registration deadline.                      *)
Elapse ==
  /\ state \in {"CONNECTING", "DEGRADED", "FALLBACK_TEST"} /\ ~elapsed
  /\ (calm /\ state = "CONNECTING") => ~(radio /\ Pursued \in Works[sim])
  /\ elapsed' = TRUE
  /\ UNCHANGED <<daemonVars, refresh, radio, link, worldVars>>

(* The process dies and starts again: what it kept in memory is lost; the  *)
(* database, the modem and NetworkManager's connection are as they were.   *)
Restart ==
  /\ Faulty
  /\ DropModem
  /\ forced' = None /\ loaded' \in Loads
  /\ pppAttempts' = 0 /\ window' = FALSE
  /\ failures' = 0 /\ plan' = FALSE
  /\ armed' = savedArm
  /\ UNCHANGED <<savedArm, radio, link, worldVars>>

(* From here on no fault, no operator, and a SIM in the slot.              *)
Settle ==
  /\ MaySettle /\ ~calm /\ sim # None
  /\ calm' = TRUE
  /\ UNCHANGED <<daemonVars, refresh, elapsed, radio, link, sim>>

-----------------------------------------------------------------------------
Handler ==
  \/ DetectModem \/ ModemMute \/ SimAbsent \/ SimFound
  \/ ArmedAttach \/ NoProfile \/ ProfileSelected \/ Configure
  \/ Kick \/ ConnectTimeout \/ LinkUp \/ PppReset
  \/ SimRemoved \/ SimSwapped \/ ConnectionLost \/ StretchResetsLadder
  \/ SwitchToBuiltin \/ RecoverReconnect \/ RecoverDisableEnable
  \/ RecoverAtReset \/ RecoverPowerCycle \/ WindowElapsed

Command ==
  \/ Reconnect \/ ResetModem \/ SetAtPort \/ SetRat
  \/ ForceProfile \/ ReleaseForce \/ ReloadProfiles
  \/ StartFallbackTest \/ AbortFallbackTest \/ ArmFallbackTest

Environment ==
  \/ SimChanges \/ SimRefreshUrc \/ Registered \/ LinkDrops \/ Elapse
  \/ Restart \/ Settle

Next == Handler \/ Command \/ Environment

Spec == Init /\ [][Next]_vars

(* The loop ticks for ever, so a handler that can do something does; time  *)
(* passes; and the network answers an activation it grants.                *)
FairSpec == Spec /\ WF_vars(Handler) /\ WF_vars(Elapse) /\ WF_vars(Registered)

-----------------------------------------------------------------------------
(* Every variable has its type; the PPP counter stays within its cap and   *)
(* the variant within the sets some profile has.                           *)
TypeOK ==
  /\ state \in State /\ driver \in BOOLEAN
  /\ profile \in Profiles \union {None} /\ variant \in Variants
  /\ fallbackActive \in BOOLEAN
  /\ forced \in Names \union {None} /\ loaded \in Loads
  /\ refresh \in BOOLEAN /\ pppAttempts \in 0 .. PppCap
  /\ armed \in BOOLEAN /\ savedArm \in BOOLEAN
  /\ window \in BOOLEAN
  /\ failures \in 0 .. MaxFailures /\ plan \in BOOLEAN /\ elapsed \in BOOLEAN
  /\ snapSim \in Sims \union {None} /\ snapProfile \in Profiles \union {None}
  /\ sim \in Sims \union {None} /\ radio \in BOOLEAN
  /\ link \in Links
  /\ calm \in BOOLEAN /\ gaveUp \in BOOLEAN

(* A driver is held in every state but NO_MODEM: the assertions at the     *)
(* head of the handlers and of _end_fallback_test never fail on it.        *)
Attached == driver <=> state # "NO_MODEM"

(* Past MODEM_FOUND the store always holds the SIM's identity: profile     *)
(* selection and _reload_profiles rely on it, and the branch of            *)
(* _state_sim_ready that goes back to MODEM_FOUND is never needed.         *)
SimKnown == state \notin {"NO_MODEM", "MODEM_FOUND"} => snapSim # None

(* A state left only when a timer fires always has the timer: a degraded   *)
(* daemon has a planned action, and the airplane window exists exactly     *)
(* during the test.                                                        *)
NothingLeftWaiting ==
  /\ state = "DEGRADED" => plan
  /\ state = "FALLBACK_TEST" <=> window

ProfileStates == {"CONFIGURING", "CONNECTING", "CONNECTED", "DEGRADED"}

(* The daemon works with the profile that selection would choose now for   *)
(* the SIM it knows, the operator's force and the files it has loaded, or  *)
(* with the built-in one as its last resort, whatever forces, releases,    *)
(* reloads, swaps, tests and resets came in between.  A fallback test that *)
(* could not turn the radio back on suspends this until the next selection. *)
ActiveIsSelected ==
  (state \in ProfileStates /\ ~gaveUp) =>
    /\ profile # None
    /\ profile = IF fallbackActive THEN Builtin ELSE SelectProfile(snapSim)

(* What the web UI shows as the active profile is the one in use.          *)
SnapshotTruth == (state \in ProfileStates /\ ~gaveUp) => snapProfile = profile

(* The one-shot arm means the same after a restart: it neither gets lost   *)
(* nor fires a second time (as long as the database accepts writes).       *)
ArmDurable == FALSE \notin DbOutcomes => armed = savedArm

(* Nothing but the end of the airplane window ends a fallback test: the    *)
(* radio is on again, or the failure is handed to the recovery ladder, or  *)
(* the process itself was restarted.                                       *)
TestEndsWithRadioOn ==
  [][(state = "FALLBACK_TEST" /\ state' # "FALLBACK_TEST" /\ ~Restart)
       => radio' \/ state' = "DEGRADED"]_vars

(* How the daemon's state is seen through the StateStore: see Uplink.      *)
UplinkPhase ==
  IF state = "NO_MODEM" THEN "detached"
  ELSE IF state \in {"MODEM_FOUND", "SIM_READY"} THEN "choosing"
  ELSE IF state = "FALLBACK_TEST" THEN "testing"
  ELSE IF gaveUp THEN "recovering" ELSE "serving"

UplinkUsing == IF UplinkPhase = "serving" THEN snapProfile ELSE None

U == INSTANCE Uplink WITH
       phase <- UplinkPhase, known <- snapSim, using <- UplinkUsing,
       online <- (state = "CONNECTED")

(* What is shown through the StateStore is a run of Uplink: a service has  *)
(* one SIM and one profile from its start to its end, is replaced only by  *)
(* choosing again, and falls back to the built-in profile at most once and *)
(* only while it is not connected, whatever commands, faults, SIM swaps,   *)
(* tests and restarts come in between.                                     *)
ImplementsUplink == U!Spec

(* The assertion of _state_configuring: a profile is active.               *)
ConfiguringHasProfile == state = "CONFIGURING" => profile # None

(* Once faults and operator have stopped ("calm"), a SIM whose profile is  *)
(* selected, and for which that profile or the built-in one is granted a   *)
(* bearer, ends up connected for good, whatever state faults and commands  *)
(* left the daemon in; only an attachment whose radio re-enable gave up    *)
(* (gaveUp) is excepted.                                                   *)
Recovers ==
  (calm /\ ~gaveUp /\ SelectProfile(sim) # None) ~> [](state = "CONNECTED")
=============================================================================
