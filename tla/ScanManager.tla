---------------------------- MODULE ScanManager ----------------------------
(***************************************************************************)
(* scan/manager.py: network scans, one at a time, each in a thread of its  *)
(* own.  Web threads launch and stop scans and poll the shared state; the  *)
(* worker adds to it under the lock.  One cancel flag serves all scans; a  *)
(* stop sets it without the lock, so it may fall between any two steps.    *)
(* Not modelled: --simulate, whose scans return made-up data.              *)
(***************************************************************************)
EXTENDS Integers, FiniteSets

CONSTANTS
  Kinds,        \* subset of {"pool", "hops", "checks"}
  Items,        \* probes of a scan
  MaxScans      \* bound: scans launched

ASSUME ScanConstants ==
  /\ Kinds \subseteq {"pool", "hops", "checks"} /\ Kinds # {}
  /\ IsFiniteSet(Items) /\ MaxScans \in Nat

Scans == 1 .. MaxScans

VARIABLES
  shown,        \* _state: the scan on display
  cancel,       \* _cancel
  worker,       \* by scan: where its thread is
  left,         \* by scan: probes whose outcome the worker has not taken
  stopped,      \* history: scans somebody stopped while they ran or were launched
  orphaned      \* history: scans whose thread could not be started

scanVars == <<shown, cancel, worker, left, stopped, orphaned>>

NoScan == 0
IdleState == [running |-> FALSE, scan |-> NoScan, kind |-> "none", progress |-> 0,
              total |-> 0, results |-> {}, summary |-> NoScan, error |-> NoScan]

ScanInit ==
  /\ shown = IdleState /\ cancel = FALSE
  /\ worker = [s \in Scans |-> "none"] /\ left = [s \in Scans |-> Items]
  /\ stopped = {} /\ orphaned = {}

-----------------------------------------------------------------------------
(* The web threads.                                                        *)

MutFree == TRUE
Free == ~shown.running

MutResetCancel == UNCHANGED cancel
ResetCancel == cancel' = FALSE

(* _launch holds the lock from its test to the new state, and is refused   *)
(* while a scan runs; the flag is cleared first.                           *)
Launch(s) ==
  /\ Free /\ worker[s] = "none" /\ \A r \in Scans : worker[r] # "cleared"
  /\ \A r \in Scans : r < s => worker[r] # "none"
  /\ ResetCancel
  /\ worker' = [worker EXCEPT ![s] = "cleared"]
  /\ UNCHANGED <<shown, left, stopped, orphaned>>

Display(s) ==
  /\ worker[s] = "cleared"
  /\ \E kind \in Kinds :
       shown' = [IdleState EXCEPT !.running = TRUE, !.scan = s, !.kind = kind,
                                  !.total = Cardinality(Items)]
  /\ worker' = [worker EXCEPT ![s] = "launched"]
  /\ UNCHANGED <<cancel, left, stopped, orphaned>>

(* The thread starts, or cannot be started: then the web thread gets the   *)
(* exception and the state is left as it is.                               *)
StartThread(s) ==
  /\ worker[s] = "launched"
  /\ \/ worker' = [worker EXCEPT ![s] = "working"] /\ UNCHANGED orphaned
     \/ /\ worker' = [worker EXCEPT ![s] = "gone"]
        /\ orphaned' = orphaned \union {s}
  /\ UNCHANGED <<shown, cancel, left, stopped>>

(* stop takes no lock: it is meant for the scan on display, or for the one *)
(* whose launch has cleared the flag and not yet shown it.                 *)
Stop ==
  /\ cancel' = TRUE
  /\ stopped' = stopped \union {s \in Scans : worker[s] = "cleared"}
                        \union (IF shown.running THEN {shown.scan} ELSE {})
  /\ UNCHANGED <<shown, worker, left, orphaned>>

-----------------------------------------------------------------------------
(* The worker.                                                             *)

Cancellable == shown.kind # "checks"

(* What may be found: a pool lists the probes that answered, a trace every *)
(* hop, a reachability check only its summary.                             *)
Found == [pool |-> BOOLEAN, hops |-> {TRUE}, checks |-> {FALSE}]

(* _run_discovery, _run_ports, _run_traceroute, _run_reachability: the     *)
(* outcomes come in any order from a pool.  The flag is looked at before   *)
(* each outcome is taken; a reachability check never looks.                *)
Ready(s) == worker[s] = "working" /\ left[s] # {} /\ (cancel => ~Cancellable)

(* An outcome is counted and collected under two holds of the lock: a pool *)
(* counts it first, a trace adds the hop (a check does its work) first.    *)
Turn(s, first) ==
  IF first THEN Ready(s) /\ worker' = [worker EXCEPT ![s] = "midway"]
  ELSE worker[s] = "midway" /\ worker' = [worker EXCEPT ![s] = "working"]

Count(s) ==
  /\ Turn(s, shown.kind = "pool")
  /\ shown' = [shown EXCEPT !.progress = @ + 1]
  /\ UNCHANGED <<cancel, left, stopped, orphaned>>

Collect(s) ==
  /\ Turn(s, shown.kind # "pool")
  /\ \E i \in left[s], found \in Found[shown.kind] :
       /\ left' = [left EXCEPT ![s] = @ \ {i}]
       /\ shown' = [shown EXCEPT
            !.results = IF found THEN @ \union {[scan |-> s, item |-> i]} ELSE @]
  /\ UNCHANGED <<cancel, stopped, orphaned>>

(* The trace reached its target before the last hop it may take.           *)
HopsEnd == shown.kind = "hops" /\ shown.progress > 0

(* The worker has no more outcomes, or sees the flag: it sums up.          *)
Summarise(s) ==
  /\ worker[s] = "working"
  /\ left[s] = {} \/ HopsEnd \/ (cancel /\ Cancellable)
  /\ shown' = [shown EXCEPT !.summary = s]
  /\ worker' = [worker EXCEPT ![s] = "closing"]
  /\ UNCHANGED <<cancel, left, stopped, orphaned>>

(* A probe raises: in a pool only after it was counted.                    *)
ScanFails(s) ==
  /\ worker[s] = "working" \/ (worker[s] = "midway" /\ shown.kind = "pool")
  /\ shown' = [shown EXCEPT !.error = s]
  /\ worker' = [worker EXCEPT ![s] = "closing"]
  /\ UNCHANGED <<cancel, left, stopped, orphaned>>

(* The finally clause of _run.                                             *)
MutRunning == shown.error # NoScan
Running == FALSE
Close(s) ==
  /\ worker[s] = "closing"
  /\ shown' = [shown EXCEPT !.running = Running]
  /\ worker' = [worker EXCEPT ![s] = "gone"]
  /\ UNCHANGED <<cancel, left, stopped, orphaned>>

Work(s) ==
  \/ Display(s) \/ StartThread(s) \/ Count(s) \/ Collect(s)
  \/ Summarise(s) \/ ScanFails(s) \/ Close(s)

ScanNext ==
  \/ Stop
  \/ \E s \in Scans :
       \/ Launch(s) \/ Display(s) \/ StartThread(s) \/ Count(s) \/ Collect(s)
       \/ Summarise(s) \/ ScanFails(s) \/ Close(s)

ScanSpec == ScanInit /\ [][ScanNext]_scanVars

(* Every probe has a timeout, and a thread that runs goes on, the web      *)
(* thread inside _launch too.                                              *)
ScanFairness == \A s \in Scans : WF_scanVars(Work(s))

-----------------------------------------------------------------------------
(* Only the scan on display is under way, and the results, the count, the  *)
(* summary and the error on display are its own: no thread of an earlier   *)
(* scan is left that could still write into them.  A poll never sees more  *)
(* counted than the total, nor more results than counted, but for the one  *)
(* hop a trace has added and not counted yet.                              *)
ResultsBelong ==
  /\ \A s \in Scans :
       worker[s] \in {"launched", "working", "midway", "closing"} =>
         shown.scan = s /\ shown.running
  /\ \A r \in shown.results : r.scan = shown.scan
  /\ {shown.summary, shown.error} \subseteq {NoScan, shown.scan}
  /\ shown.progress <= shown.total
  /\ \/ Cardinality(shown.results) <= shown.progress
     \/ /\ shown.kind = "hops" /\ worker[shown.scan] = "midway"
        /\ Cardinality(shown.results) = shown.progress + 1

(* A pool scan that ended short of its total without an error was stopped  *)
(* while it was on display, or while it was being launched, after the flag *)
(* was cleared: a stop that came before that, for an earlier scan, does    *)
(* not cut this one.                                                       *)
OnlyStopsCut ==
  shown.summary # NoScan /\ shown.kind = "pool" /\ shown.progress < shown.total
    => shown.scan \in stopped

(* A scan ends, whatever fails in it, so that the next one can start; only *)
(* a thread that could not be started leaves it running for ever.          *)
ScanEnds ==
  (shown.running /\ shown.scan \notin orphaned)
    ~> (~shown.running \/ shown.scan \in orphaned)
=============================================================================
