-------------------------- MODULE TrafficCollector --------------------------
(***************************************************************************)
(* The traffic auditor: the collector thread of traffic/collector.py, the  *)
(* event source of traffic/sources.py and the rows of traffic_flows.       *)
(*                                                                         *)
(* The kernel opens and closes flows at any moment, also between the steps *)
(* of one tick of the collector: draining the DESTROY events, handling     *)
(* them one by one, dumping the live table, pruning.  A row is reduced to  *)
(* what its columns say of the flow's life: "live" (active=1), "closed"    *)
(* (active=0 with the last checkpoint's totals), "final" (active=0 with    *)
(* the totals of the DESTROY event) or "gone" (deleted by the retention).  *)
(***************************************************************************)
EXTENDS Naturals, Sequences, FiniteSets

CONSTANTS
  Flows,        \* kernel flow ids, one per connection
  LocalFlows,   \* the flows between the device's own addresses
  Faults,       \* do writes fail, streams die, processes crash, operators reconfigure?
  MaxRows       \* bound: rows of one flow

ASSUME TrafficConstants ==
  /\ LocalFlows \subseteq Flows
  /\ Faults \in BOOLEAN /\ MaxRows \in Nat

VARIABLES
  kernel,                 \* each flow: "fresh", "open" or "ended"
  enabled, includeLocal,  \* the configuration in effect
  started, running,       \* _started; is the event stream alive?
  queue, batch,           \* DESTROY events: queued, and drained by this tick
  tracked,                \* _active: flow to the number of its row, 0 for none
  rows,                   \* each flow's rows, in the order of insertion
  pc,                     \* where the collector's tick is
  calm,                   \* no fault and no operator from here on
  unwritten               \* history: a database write has failed

configVars == <<enabled, includeLocal, calm>>
sourceVars == <<started, running>>
vars == <<kernel, configVars, sourceVars, queue, batch, tracked, rows, pc,
          unwritten>>

RowStatus == {"live", "closed", "final", "gone"}
Untracked == [f \in Flows |-> 0]
Open      == {f \in Flows : kernel[f] = "open"}
Faulty    == Faults /\ ~calm
Audited   == IF includeLocal THEN Flows ELSE Flows \ LocalFlows

Init ==
  /\ kernel = [f \in Flows |-> "fresh"]
  /\ enabled = TRUE /\ includeLocal = FALSE /\ calm = FALSE
  /\ started = FALSE /\ running = FALSE
  /\ queue = {} /\ batch = {}
  /\ tracked = Untracked /\ rows = [f \in Flows |-> <<>>]
  /\ pc = "idle" /\ unwritten = FALSE

-----------------------------------------------------------------------------
(* The rows.                                                               *)

(* A write is all or nothing: it succeeds, or raises.                      *)
Write(ok) == (ok \/ Faulty) /\ unwritten' = (unwritten \/ ~ok)

(* close_traffic_flows on the rows the collector tracks for these flows.   *)
CloseTracked(fs) ==
  [f \in Flows |-> [i \in DOMAIN rows[f] |->
     IF f \in fs /\ i = tracked[f] THEN "closed" ELSE rows[f][i]]]

(* Close every row still flagged active: its kernel id is not known any    *)
(* more.                                                                   *)
MutCloseStale == rows
CloseStale ==
  [f \in Flows |-> [i \in DOMAIN rows[f] |->
     IF rows[f][i] = "live" THEN "closed" ELSE rows[f][i]]]

(* A checkpoint inserts a live row for each flow not tracked yet, and only *)
(* refreshes the counters of the others.                                   *)
Checkpointed(fs) ==
  [f \in Flows |-> IF f \in fs /\ tracked[f] = 0 THEN Append(rows[f], "live")
                                                ELSE rows[f]]
TrackedAfter(fs) ==
  [f \in Flows |-> IF f \in fs /\ tracked[f] = 0 THEN Len(rows[f]) + 1
                                                ELSE tracked[f]]

(* Live checkpoints are never pruned.                                      *)
MutPrunable(f, i) == TRUE
Prunable(f, i) == rows[f][i] \in {"closed", "final"}

-----------------------------------------------------------------------------
(* The collector's tick.                                                   *)

(* _stop_source: the queue of the reader thread is not emptied.            *)
StopSource ==
  /\ pc = "idle" /\ ~enabled /\ started
  /\ started' = FALSE /\ running' = FALSE
  /\ \E ok \in BOOLEAN :
       /\ Write(ok)
       /\ IF ok THEN rows' = CloseTracked(Flows) /\ tracked' = Untracked
                ELSE UNCHANGED <<rows, tracked>>
  /\ UNCHANGED <<kernel, configVars, queue, batch, pc>>

(* _maybe_start, whose backoff only delays it.                             *)
StartSource ==
  /\ pc = "idle" /\ enabled /\ ~(started /\ running)
  /\ started' = TRUE /\ running' = TRUE
  /\ \E ok \in BOOLEAN :
       /\ Write(ok)
       /\ IF ok THEN rows' = CloseStale /\ tracked' = Untracked /\ pc' = "drain"
                ELSE UNCHANGED <<rows, tracked, pc>>
  /\ UNCHANGED <<kernel, configVars, queue, batch>>

StartFails ==
  /\ pc = "idle" /\ enabled /\ ~(started /\ running) /\ Faulty
  /\ started' = FALSE /\ running' = FALSE
  /\ UNCHANGED <<kernel, configVars, queue, batch, tracked, rows, pc, unwritten>>

Drain ==
  /\ pc = "drain" \/ (pc = "idle" /\ enabled /\ started /\ running)
  /\ batch' = queue /\ queue' = {}
  /\ pc' = "events"
  /\ UNCHANGED <<kernel, configVars, sourceVars, tracked, rows, unwritten>>

(* One DESTROY event finalises the row tracked for the flow, or inserts a  *)
(* final row.  The flow is untracked first, so a failing write leaves its  *)
(* row behind and, like any exception, ends the tick: the events drained   *)
(* with it are lost.                                                       *)
MutFinalRows(f) ==
  IF f \in Audited /\ tracked[f] # 0 THEN [rows[f] EXCEPT ![tracked[f]] = "final"]
  ELSE CloseTracked({f})[f]
FinalRows(f) ==
  IF f \notin Audited THEN CloseTracked({f})[f]
  ELSE IF tracked[f] # 0 THEN [rows[f] EXCEPT ![tracked[f]] = "final"]
       ELSE Append(rows[f], "final")

MutUntrack(f) == UNCHANGED tracked
Untrack(f) == tracked' = [tracked EXCEPT ![f] = 0]

OnDestroy ==
  /\ pc = "events"
  /\ \E f \in batch, ok \in BOOLEAN :
       /\ Write(ok)
       /\ Untrack(f)
       /\ IF ok THEN /\ rows' = [rows EXCEPT ![f] = FinalRows(f)]
                     /\ batch' = batch \ {f} /\ UNCHANGED pc
                ELSE /\ batch' = {} /\ pc' = "idle" /\ UNCHANGED rows
  /\ UNCHANGED <<kernel, configVars, sourceVars, queue>>

MutStale(seen) == {}
Stale(seen) == {f \in Flows \ seen : tracked[f] # 0}

(* _do_snapshot: checkpoint the live table, then close the tracked flows   *)
(* it no longer holds, whose DESTROY event is taken for missed.  A write   *)
(* may fail at any row, or at the closing of the rows just untracked.      *)
Snapshot ==
  /\ pc = "events" /\ batch = {}
  /\ LET seen  == Open \intersect Audited
         stale == Stale(seen)
         kept  == [f \in Flows |-> IF f \in stale THEN 0 ELSE TrackedAfter(seen)[f]]
     IN \/ /\ Write(TRUE)
           /\ rows' = [f \in Flows |-> IF f \in stale THEN CloseTracked(stale)[f]
                                                      ELSE Checkpointed(seen)[f]]
           /\ tracked' = kept
           /\ pc' = "prune"
        \/ /\ Write(FALSE)
           /\ \E written \in SUBSET seen :
                /\ rows' = Checkpointed(written)
                /\ tracked' = TrackedAfter(written)
           /\ pc' = "idle"
        \/ /\ Write(FALSE) /\ stale # {}
           /\ rows' = Checkpointed(seen)
           /\ tracked' = kept
           /\ pc' = "idle"
  /\ UNCHANGED <<kernel, configVars, sourceVars, queue, batch>>

(* The snapshot interval has not passed, or the dump failed.               *)
NoSnapshot ==
  /\ pc = "events" /\ batch = {}
  /\ pc' = "prune"
  /\ UNCHANGED <<kernel, configVars, sourceVars, queue, batch, tracked, rows, unwritten>>

Prune ==
  /\ pc = "prune"
  /\ \E old \in SUBSET {r \in Flows \X (1 .. MaxRows) :
                          r[2] \in DOMAIN rows[r[1]] /\ Prunable(r[1], r[2])} :
       rows' = [f \in Flows |-> [i \in DOMAIN rows[f] |->
                  IF <<f, i>> \in old THEN "gone" ELSE rows[f][i]]]
  /\ pc' = "idle"
  /\ UNCHANGED <<kernel, configVars, sourceVars, queue, batch, tracked, unwritten>>

-----------------------------------------------------------------------------
(* The kernel, the event stream, the operator and crashes.                 *)

FlowOpens ==
  /\ \E f \in Flows : kernel[f] = "fresh" /\ kernel' = [kernel EXCEPT ![f] = "open"]
  /\ UNCHANGED <<configVars, sourceVars, queue, batch, tracked, rows, pc, unwritten>>

(* A closing flow is reported if the stream is alive; the kernel drops     *)
(* events when the reader is slow.                                         *)
FlowCloses ==
  /\ \E f \in Open :
       /\ kernel' = [kernel EXCEPT ![f] = "ended"]
       /\ \/ running /\ queue' = queue \union {f}
          \/ (~running \/ Faulty) /\ UNCHANGED queue
  /\ UNCHANGED <<configVars, sourceVars, batch, tracked, rows, pc, unwritten>>

(* A disturbance can cost a flow one more row: they stop below the bound.  *)
Disturbed == Faulty /\ \A f \in Flows : Len(rows[f]) + 3 <= MaxRows

StreamDies ==
  /\ Disturbed /\ running
  /\ running' = FALSE
  /\ UNCHANGED <<kernel, configVars, started, queue, batch, tracked, rows, pc,
                 unwritten>>

(* A tick reads the configuration once, at its start.                      *)
Reconfigure ==
  /\ Disturbed /\ pc = "idle"
  /\ enabled' \in BOOLEAN /\ includeLocal' \in BOOLEAN
  /\ UNCHANGED <<kernel, calm, sourceVars, queue, batch, tracked, rows, pc,
                 unwritten>>

Crash ==
  /\ Disturbed
  /\ started' = FALSE /\ running' = FALSE
  /\ queue' = {} /\ batch' = {} /\ tracked' = Untracked /\ pc' = "idle"
  /\ UNCHANGED <<kernel, configVars, rows, unwritten>>

Settle ==
  /\ ~calm /\ enabled
  /\ calm' = TRUE
  /\ UNCHANGED <<kernel, enabled, includeLocal, sourceVars, queue, batch, tracked, rows, pc,
                 unwritten>>

Collector ==
  \/ StopSource \/ StartSource \/ StartFails \/ Drain \/ OnDestroy
  \/ Snapshot \/ NoSnapshot \/ Prune

Next ==
  \/ Collector
  \/ FlowOpens \/ FlowCloses \/ StreamDies \/ Reconfigure \/ Crash \/ Settle

Spec == Init /\ [][Next]_vars

(* The thread ticks for ever, and its snapshot interval keeps passing.     *)
FairSpec == Spec /\ WF_vars(Collector) /\ SF_vars(Snapshot)

-----------------------------------------------------------------------------
(* Every variable has its type.                                            *)
TypeOK ==
  /\ kernel \in [Flows -> {"fresh", "open", "ended"}]
  /\ enabled \in BOOLEAN /\ includeLocal \in BOOLEAN /\ calm \in BOOLEAN
  /\ started \in BOOLEAN /\ running \in BOOLEAN
  /\ queue \subseteq Flows /\ batch \subseteq Flows
  /\ tracked \in [Flows -> Nat]
  /\ rows \in [Flows -> Seq(RowStatus)]
  /\ pc \in {"idle", "drain", "events", "prune"}
  /\ unwritten \in BOOLEAN

(* A row the collector will still write to exists and is live, whatever    *)
(* write failed before: neither the retention nor the closing of stale     *)
(* rows ever takes it away under the collector.                            *)
TrackedIsLive ==
  \A f \in Flows : tracked[f] # 0 =>
    tracked[f] \in DOMAIN rows[f] /\ rows[f][tracked[f]] = "live"

(* "so the live view starts truthful": once started, and as long as every  *)
(* write succeeded, the rows shown as live are exactly those the collector *)
(* tracks, at most one per flow.                                           *)
LiveIsTracked ==
  (started /\ ~unwritten) =>
    \A f \in Flows : \A i \in DOMAIN rows[f] : rows[f][i] = "live" => tracked[f] = i

(* A closed row is history: no snapshot, event, restart or reconfiguration *)
(* reopens it or replaces the totals of its DESTROY event.                 *)
ClosedIsHistory ==
  [][\A f \in Flows : \A i \in DOMAIN rows[f] : rows[f][i] \in {"closed", "final"} =>
       i \in DOMAIN rows'[f] /\ rows'[f][i] \in {rows[f][i], "gone"}]_vars

(* Once nothing disturbs the collector, a flow that is open gets a row,    *)
(* however short it lives.                                                 *)
EveryFlowRecorded ==
  \A f \in Flows : (calm /\ running /\ f \in Open /\ f \in Audited) ~> (rows[f] # <<>>)

(* And a flow that has ended is not shown as live for ever, even when its  *)
(* DESTROY event was lost (as long as every write succeeded).              *)
EndedFlowsClose ==
  \A f \in Flows : (calm /\ ~unwritten /\ kernel[f] = "ended") ~>
    [](\A i \in DOMAIN rows[f] : rows[f][i] # "live")

(* "its DESTROY event finalises the same row": a flow is one row.          *)
OneRowPerFlow ==
  \A f \in Flows : Cardinality({i \in DOMAIN rows[f] : rows[f][i] # "gone"}) <= 1
=============================================================================
