-------------------------------- MODULE Pdp --------------------------------
(***************************************************************************)
(* Which profile is chosen for a SIM and how its PDP contexts get onto the *)
(* modem: match_profile, the daemon's CONFIGURING state, reconcile and the *)
(* commands the driver sends.  Each command fails or succeeds, and one     *)
(* whose answer is lost took effect although it failed.  The firmware      *)
(* makes and changes contexts of its own.                                  *)
(***************************************************************************)
EXTENDS Integers, SequencesExt

CONSTANTS
  Cids, Apns, Logins,       \* of contexts
  Lower,        \* str.lower over the names of access points
  Iccids,       \* of SIMs: sequences of digits
  Libraries,    \* contents the profiles directory may have
  FirmwareContexts \* [type, apn] the firmware may make

(* PdpContext and Profile: a context set is a set of [cid, type, apn,      *)
(* auth], a profile has several of them to try.  Its name is a number: the *)
(* place of the name in their order.                                       *)
Types == {"IPv4", "IPv6", "IPv4v6"}
PdpContext == [cid : Cids, type : Types, apn : Apns, auth : Logins \union {"none"}]
ContextSet == {s \in SUBSET PdpContext :
                 s # {} /\ \A c, d \in s : c.cid = d.cid => c = d}

ASSUME PdpConstants ==
  /\ Cids \subseteq Nat /\ Lower \in [Apns -> Apns] /\ Iccids \subseteq Seq(0 .. 9)
  /\ "none" \notin Logins
  /\ \A library \in Libraries : \A p, q \in library :
       /\ p.name = q.name => p = q
       /\ p.name \in Nat /\ p.priority \in Nat
       /\ p.sets \in Seq(ContextSet) /\ p.sets # <<>>
       /\ \A m \in p.patterns : m.digits \in Seq(0 .. 9) /\ m.star \in BOOLEAN

VARIABLES
  contexts,     \* the modem: what AT+CGDCONT? lists, by cid
  auth,         \* the modem: the login of each cid
  stage,        \* "no_sim", "sim_ready", "configuring", "executing",
                \* "configured" or "degraded"
  iccid,        \* of the SIM that was read
  profiles,     \* the profiles loaded
  active, variant, \* the active profile, and its context set to use, from 1
  todo,         \* commands still to send, First before the others
  listed,       \* history: the contexts could be listed
  spared,       \* history: contexts the comparison left as they are
  disturbed     \* history: the firmware acted since the listing

pdpModem == <<contexts, auth>>
pdpVars  == <<pdpModem, stage, iccid, profiles, active, variant, todo, listed, spared, disturbed>>

NoContext == [type |-> "", apn |-> ""]
NoProfile == [name |-> 0, sets |-> <<{}>>]

-----------------------------------------------------------------------------
(* match_profile: an exact pattern, then the longest prefix, the lowest    *)
(* priority number and the name.                                           *)

PatternMatch(sim, m) == IF m.star THEN IsPrefix(m.digits, sim) ELSE m.digits = sim
Rank(c) ==
  <<IF c.pattern.star THEN 1 ELSE 0, -Len(c.pattern.digits), c.profile.priority, c.profile.name>>
Before(a, b) == \E i \in DOMAIN a : a[i] < b[i] /\ \A j \in 1 .. i - 1 : a[j] = b[j]
Candidates(sim, library) ==
  UNION {{[profile |-> p, pattern |-> m] : m \in {n \in p.patterns : PatternMatch(sim, n)}}
         : p \in library}
MatchProfile(sim, library) ==
  IF Candidates(sim, library) = {} THEN NoProfile
  ELSE (CHOOSE c \in Candidates(sim, library) :
          \A d \in Candidates(sim, library) \ {c} : ~Before(Rank(d), Rank(c))).profile

-----------------------------------------------------------------------------
(* reconcile.                                                              *)

(* pdp_type_to_at and the way back through parse_cgdcont.                  *)
ToAt == [t \in Types |-> CASE t = "IPv4" -> "IP" [] t = "IPv6" -> "IPV6" [] OTHER -> "IPV4V6"]
FromAt(t) == IF \E s \in Types : ToAt[s] = t THEN CHOOSE s \in Types : ToAt[s] = t ELSE t

(* The context set to use: a reloaded profile may have fewer than before.  *)
Use == IF variant > Len(active.sets) THEN 1 ELSE variant
Wanted == active.sets[Use]
WantedCids == {c.cid : c \in Wanted}
Matches(actual, c) == FromAt(actual.type) = c.type /\ Lower[actual.apn] = Lower[c.apn]

(* A listing the modem answers with an error counts as empty.              *)
Actual(ok) == IF ok THEN {cid \in Cids : contexts[cid] # NoContext} ELSE {}
AsWanted(ok) == {cid \in Actual(ok) : \E c \in Wanted : c.cid = cid /\ Matches(contexts[cid], c)}

(* One delete per stray, in the order of the cids; then per context that   *)
(* is missing or differs its definition, followed by its login.            *)
Command(what, context) == [what |-> what, context |-> context]
MutStray(ok) == {}
Stray(ok) == Actual(ok) \ WantedCids
Deletes(ok) == {Command("delete", [cid |-> cid]) : cid \in Stray(ok)}
Define(c) == {Command(w, c) : w \in IF c.auth = "none" THEN {"define"} ELSE {"define", "auth"}}
Defines(ok) == UNION {Define(c) : c \in {d \in Wanted : d.cid \notin AsWanted(ok)}}
Reconcile(ok) == Deletes(ok) \union Defines(ok)
Place(command) ==
  <<IF command.what = "delete" THEN 0 ELSE 1, command.context.cid,
    IF command.what = "auth" THEN 1 ELSE 0>>
First(command) == \A other \in todo \ {command} : Before(Place(command), Place(other))

-----------------------------------------------------------------------------
(* The daemon.                                                             *)

PdpInit ==
  /\ contexts = [cid \in Cids |-> NoContext] /\ auth = [cid \in Cids |-> "none"]
  /\ stage = "no_sim" /\ iccid = <<>> /\ profiles \in Libraries
  /\ active = NoProfile /\ variant = 1 /\ todo = {}
  /\ listed = TRUE /\ spared = {} /\ disturbed = FALSE

ReadSim ==
  /\ stage \in {"no_sim", "configured", "degraded"}
  /\ iccid' \in Iccids /\ stage' = "sim_ready"
  /\ UNCHANGED <<pdpModem, profiles, active, variant, todo, listed, spared, disturbed>>

SimReady ==
  /\ stage = "sim_ready"
  /\ LET p == MatchProfile(iccid, profiles) IN
       /\ p # NoProfile
       /\ active' = p
       /\ variant' = IF p.name = active.name THEN variant ELSE 1
  /\ stage' = "configuring"
  /\ UNCHANGED <<pdpModem, iccid, profiles, todo, listed, spared, disturbed>>

(* The start of _state_configuring; a failing at_init command ends it.     *)
Configure ==
  /\ stage = "configuring"
  /\ variant' = Use
  /\ \/ stage' = "degraded" /\ UNCHANGED <<todo, listed, spared, disturbed>>
     \/ /\ listed' \in BOOLEAN /\ disturbed' = FALSE
        /\ spared' = AsWanted(listed') /\ todo' = Reconcile(listed')
        /\ stage' = "executing"
  /\ UNCHANGED <<pdpModem, iccid, profiles, active>>

(* What a command does to the modem, which may keep the name of the access *)
(* point in its own case.                                                  *)
Takes(command) ==
  LET c == command.context IN
    \/ /\ command.what = "delete"
       /\ contexts' = [contexts EXCEPT ![c.cid] = NoContext] /\ UNCHANGED auth
    \/ /\ command.what = "define"
       /\ \E apn \in Apns : Lower[apn] = Lower[c.apn]
            /\ contexts' = [contexts EXCEPT ![c.cid] = [type |-> ToAt[c.type], apn |-> apn]]
       /\ UNCHANGED auth
    \/ /\ command.what = "auth"
       /\ auth' = [auth EXCEPT ![c.cid] = c.auth] /\ UNCHANGED contexts

SendCommand ==
  /\ stage = "executing"
  /\ \E command \in todo :
       /\ First(command)
       /\ \/ Takes(command) /\ todo' = todo \ {command} /\ UNCHANGED stage
          \/ Takes(command) /\ todo' = {} /\ stage' = "degraded"
          \/ UNCHANGED pdpModem /\ todo' = {} /\ stage' = "degraded"
  /\ UNCHANGED <<iccid, profiles, active, variant, listed, spared, disturbed>>

(* configure_connection of the backend is the last step.                   *)
Configured ==
  /\ stage = "executing" /\ todo = {}
  /\ stage' \in {"configured", "degraded"}
  /\ UNCHANGED <<pdpModem, iccid, profiles, active, variant, todo, listed, spared, disturbed>>

(* A connection that does not come up or is lost: the next variant, or the *)
(* supervisor's turn.                                                      *)
ConnectFails ==
  /\ stage = "configured"
  /\ \/ variant < Len(active.sets) /\ variant' = variant + 1 /\ stage' = "configuring"
     \/ variant' \in {1, variant} /\ stage' = "degraded"
  /\ UNCHANGED <<pdpModem, iccid, profiles, active, todo, listed, spared, disturbed>>

Recover ==
  /\ stage = "degraded" /\ stage' \in {"configuring", "no_sim"}
  /\ UNCHANGED <<pdpModem, iccid, profiles, active, variant, todo, listed, spared, disturbed>>

(* _reload_profiles and _reevaluate_profile.                               *)
MutSelectsAnother(selected) == selected = NoProfile
SelectsAnother(selected) == selected = NoProfile \/ selected.name # active.name
ReloadProfiles ==
  /\ stage \in {"no_sim", "sim_ready", "configuring", "configured", "degraded"}
  /\ profiles' \in Libraries
  /\ stage' = IF stage # "no_sim" /\ SelectsAnother(MatchProfile(iccid, profiles'))
              THEN "sim_ready" ELSE stage
  /\ UNCHANGED <<pdpModem, iccid, active, variant, todo, listed, spared, disturbed>>

-----------------------------------------------------------------------------
(* The firmware.                                                           *)
FirmwareActs ==
  /\ \E cid \in Cids, c \in FirmwareContexts :
       contexts' = [contexts EXCEPT ![cid] = c] /\ contexts' # contexts
  /\ disturbed' = TRUE
  /\ UNCHANGED <<auth, stage, iccid, profiles, active, variant, todo, listed, spared>>

PdpNext ==
  \/ ReadSim \/ SimReady \/ Configure \/ SendCommand \/ Configured
  \/ ConnectFails \/ Recover \/ ReloadProfiles \/ FirmwareActs

PdpSpec == PdpInit /\ [][PdpNext]_pdpVars

-----------------------------------------------------------------------------
(* "The modem must end up with EXACTLY the profile's contexts".  Whatever  *)
(* earlier attempts left half done, a configuration that went through      *)
(* leaves on the modem the contexts of the profile that fits the SIM,      *)
(* those wanted with their login, and no others, except that a listing     *)
(* refused leaves strays and what matched before keeps the login it had.   *)
ExactlyTheProfile ==
  stage = "configured" =>
    /\ active.name = MatchProfile(iccid, profiles).name
    /\ ~disturbed =>
         /\ \A c \in Wanted :
              /\ Matches(contexts[c.cid], c)
              /\ c.auth \in {"none", auth[c.cid]} \/ c.cid \in spared
         /\ listed => \A cid \in Cids \ WantedCids : contexts[cid] = NoContext

(* The login of the profile is in force after a configuration that went    *)
(* through.                                                                *)
LoginInForce ==
  stage = "configured" /\ ~disturbed => \A c \in Wanted : c.auth \in {"none", auth[c.cid]}
=============================================================================
