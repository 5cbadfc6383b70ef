------------------------------ MODULE MCTraffic ------------------------------
(* The traffic auditor and the recovery policy, which share no state:      *)
(* "part", chosen in the initial state, says which of them a behaviour is  *)
(* about.                                                                  *)
EXTENDS TrafficCollector, Supervisor

VARIABLE part

MCInit == Init /\ SupInit /\ part \in {"auditor", "policy"}
MCNext ==
  \/ part = "auditor" /\ Next /\ UNCHANGED <<part, supVars>>
  \/ part = "policy" /\ SupNext /\ UNCHANGED <<part, vars>>

MCSpec ==
  /\ MCInit /\ [][MCNext]_<<part, vars, supVars>>
  /\ WF_vars(part = "auditor" /\ Collector)
  /\ SF_vars(part = "auditor" /\ Snapshot)
=============================================================================
