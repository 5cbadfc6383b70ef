------------------------------- MODULE Uplink -------------------------------
(***************************************************************************)
(* What the connection daemon promises to whoever watches it through the   *)
(* StateStore, without retries, links, commands or recovery actions: the   *)
(* uplink is served for one SIM under one profile at a time.  Both are     *)
(* chosen while nothing is served and stay what they are until the service *)
(* ends, except that a service that is not online may fall back, once, to  *)
(* the built-in profile.                                                   *)
(***************************************************************************)
CONSTANTS Names, Builtin, None, Sims

VARIABLES
  phase,   \* "detached", "choosing", "serving", "testing" or "recovering"
  known,   \* the SIM shown to the watcher, or None
  using,   \* the profile shown while serving, or None
  online   \* the uplink is connected

uplinkVars == <<phase, known, using, online>>

Init == phase = "detached" /\ known = None /\ using = None /\ online = FALSE

Attach ==
  /\ phase = "detached" /\ phase' = "choosing"
  /\ UNCHANGED <<known, using, online>>

Identify ==
  /\ phase = "choosing"
  /\ known' \in Sims \union {None}
  /\ UNCHANGED <<phase, using, online>>

(* Service starts for a SIM that is known, under one of the profiles.      *)
Serve ==
  /\ phase = "choosing" /\ known # None
  /\ phase' = "serving" /\ using' \in Names
  /\ UNCHANGED <<known, online>>

(* Within a service only the link comes and goes; the same holds while the *)
(* recovery ladder works on a modem left behind by a failed test.          *)
ComeAndGo ==
  /\ phase \in {"serving", "recovering"}
  /\ online' = ~online
  /\ UNCHANGED <<phase, known, using>>

LastResort ==
  /\ phase = "serving" /\ ~online /\ using # Builtin
  /\ using' = Builtin
  /\ UNCHANGED <<phase, known, online>>

Stop(next) ==
  /\ phase' = next /\ using' = None /\ online' = FALSE

(* The SIM changed, or the choice is to be made again.                     *)
Release ==
  /\ phase \in {"serving", "recovering"}
  /\ Stop("choosing") /\ known' \in Sims \union {None}

BeginTest ==
  /\ phase \in {"choosing", "serving", "recovering"} /\ known # None
  /\ Stop("testing") /\ UNCHANGED known

(* After a test the SIM is identified anew, or the radio did not come back. *)
EndTest ==
  /\ phase = "testing"
  /\ \/ Stop("choosing") /\ known' \in Sims \union {None}
     \/ Stop("recovering") /\ UNCHANGED known

Detach == Stop("detached") /\ known' = None

Next ==
  \/ Attach \/ Identify \/ Serve \/ ComeAndGo \/ LastResort
  \/ Release \/ BeginTest \/ EndTest \/ Detach

Spec == Init /\ [][Next]_uplinkVars
=============================================================================
