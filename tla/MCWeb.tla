------------------------------- MODULE MCWeb -------------------------------
(* Four parts the web requests act on that share no state: "part", chosen  *)
(* in the initial state, says which of them a behaviour is about.          *)
EXTENDS MessageLog, ScanManager, ProfileStore, Heartbeat

VARIABLE part

MCNameFile == [n \in Names |-> IF n = "a" THEN "a.yaml" ELSE "b.yaml"]
MCFileOrder == <<"00-a.yaml", "a.yaml", "b.yaml">>
A1 == [name |-> "a", body |-> 1]
B1 == [name |-> "b", body |-> 1]
MCStartFiles ==
  {[f \in Files |-> CASE f = "00-a.yaml" -> Holding(A1) [] OTHER -> Absent],
   [f \in Files |-> CASE f = "a.yaml" -> Holding(A1) [] f = "b.yaml" -> Holding(B1)
                      [] OTHER -> Broken]}
MCBundles == {<<[name |-> "a", body |-> 2], [name |-> "b", body |-> 2]>>}

(* The heartbeat: two destinations may have one key; one window wraps.     *)
Always == [override |-> "auto", enabled |-> FALSE, known |-> TRUE,
           days |-> {}, start |-> 0, end |-> 0]
Night == [override |-> "auto", enabled |-> TRUE, known |-> TRUE,
          days |-> {0}, start |-> 1, end |-> 0]
Dest(key, on, interval, schedule) ==
  [key |-> key, on |-> on, interval |-> interval, schedule |-> schedule]
MCConfigs ==
  {[enabled |-> TRUE, degraded |-> TRUE,
    dests |-> <<Dest("k", TRUE, 1, Always), Dest("l", TRUE, 2, Night),
                Dest("k", TRUE, 2, Always)>>],
   [enabled |-> TRUE, degraded |-> FALSE,
    dests |-> <<Dest("k", FALSE, 1, Always), Dest("l", TRUE, 2, Always)>>],
   [enabled |-> FALSE, degraded |-> TRUE, dests |-> <<>>]}
MCProfiled == {c \in MCConfigs : ~c.degraded}

Init ==
  /\ MsgInit /\ ScanInit /\ ProfInit /\ BeatInit
  /\ part \in {"messages", "scans", "profiles", "heartbeat"}
  /\ part # "profiles" => files = CHOOSE f \in StartFiles : TRUE
  /\ part # "heartbeat" => global = CHOOSE c \in Configs : TRUE
Next ==
  \/ part = "messages" /\ MsgNext /\ UNCHANGED <<part, scanVars, profVars, beatVars>>
  \/ part = "scans" /\ ScanNext /\ UNCHANGED <<part, msgVars, profVars, beatVars>>
  \/ part = "profiles" /\ ProfNext /\ UNCHANGED <<part, msgVars, scanVars, beatVars>>
  \/ part = "heartbeat" /\ BeatNext /\ UNCHANGED <<part, msgVars, scanVars, profVars>>

Spec ==
  /\ Init /\ [][Next]_<<part, msgVars, scanVars, profVars, beatVars>>
  /\ ScanFairness
  /\ WF_beatVars(part = "heartbeat" /\ Thread)
  /\ WF_beatVars(part = "heartbeat" /\ SecondsPass)
=============================================================================
