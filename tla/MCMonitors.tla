----------------------------- MODULE MCMonitors -----------------------------
(* A listener thread, a probing thread and the connectivity log, which     *)
(* share no state: "part", chosen in the initial state, says which of them *)
(* a behaviour is about.  The listener has two parts, to bound its states: *)
(* in "binding" the clients connect and send newlines only; in "text" they *)
(* send text, while the device stays as it is and faults go on.            *)
EXTENDS Listener, Probes, Uptime

VARIABLE part

MCValidity == [p \in Ports |-> p # 70000]
MCRequests == {<<2, 1, 2>>, <<1, 70000>>}
MCRules == <<[enabled |-> FALSE, hits |-> {1, 2}], [enabled |-> TRUE, hits |-> {1}]>>

Listens == part \in {"binding", "text"}
Init ==
  /\ ListenInit /\ ProbeInit /\ UpInit
  /\ part \in {"binding", "text", "probes", "uptime"}
  /\ ~Listens => transport = "tcp" /\ iface = None
Next ==
  \/ part = "binding" /\ ListenNext /\ UNCHANGED <<received, now, part, probeVars, upVars>>
  \/ part = "text" /\ ListenNext /\ UNCHANGED <<iface, calm, part, probeVars, upVars>>
  \/ part = "probes" /\ ProbeNext /\ UNCHANGED <<part, listenVars, upVars>>
  \/ part = "uptime" /\ UpNext /\ UNCHANGED <<part, listenVars, probeVars>>

Spec ==
  /\ Init /\ [][Next]_<<part, listenVars, probeVars, upVars>>
  /\ WF_listenVars(Listens /\ Reading)
  /\ SF_listenVars(Listens /\ Iterate)
=============================================================================
