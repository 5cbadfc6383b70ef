------------------------------ MODULE MCDaemon ------------------------------
(***************************************************************************)
(* Instances of Daemon for TLC: profile "a" with two variants, profile "b" *)
(* with one, the built-in profile, and SIMs "s" and "t" they are for.      *)
(***************************************************************************)
EXTENDS Daemon

MCBothNames == {"a", "b"}
MCOneName   == {"a"}

(* match_profile: "a" fits both SIMs, "b" fits "t" better.                 *)
MCMatch ==
  [s \in Sims |-> [l \in SUBSET Names |->
     IF s = "t" /\ "b" \in l THEN "b" ELSE IF "a" \in l THEN "a" ELSE None]]

MCVariants == [p \in Names \union {Builtin} |-> IF p = "a" THEN 2 ELSE 1]

MCAnyLoad == {{"a", "b"}, {"a"}}
MCOneLoad == {{"a"}}
MCNoLoad  == {{}}

(* Only the first variant of "a" is granted to "s", and only the built-in  *)
(* profile to "t"; none at all.                                            *)
MCPicky    == [s \in Sims |-> IF s = "s" THEN {<<"a", 0>>} ELSE {<<Builtin, 0>>}]
MCNoneWork == [s \in Sims |-> {}]

MCIfaces == {"native", "ppp"}

MCSimCommands == {"ForceProfile", "ReleaseForce", "ReloadProfiles", "Reconnect",
                  "ResetModem", "SetAtPort", "SetRat", "StartFallbackTest",
                  "AbortFallbackTest", "ArmFallbackTest"}
=============================================================================
