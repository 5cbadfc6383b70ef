------------------------------- MODULE Uptime -------------------------------
(***************************************************************************)
(* The connectivity log: the daemon writes a row at each change between    *)
(* connected and down, core/uptime.py turns the rows of a window into      *)
(* seconds and outages for /connectivity.json.  Writes fail, the row cap   *)
(* drops old rows and the service stops and starts at any time.            *)
(***************************************************************************)
EXTENDS Integers, SequencesExt

CONSTANTS
  MaxRows,      \* MAX_ROWS: cap of the table
  MaxSeconds    \* bound: seconds that pass

ASSUME UptimeConstants == MaxRows \in Nat \ {0} /\ MaxSeconds \in Nat

VARIABLES
  running,      \* the service runs
  connUp,       \* _conn_up; stays as it was when the service stops
  rows,         \* the table connectivity
  second,       \* time.time()
  wasUp,        \* history: was the service there and connected, second by second
  gaps,         \* history: seconds without the service
  untold        \* history: seconds in which the newest row said otherwise

histVars == <<wasUp, gaps, untold>>
upVars == <<running, connUp, rows, second, histVars>>

-----------------------------------------------------------------------------
(* The daemon.                                                             *)

Row(up) == [ts |-> second, up |-> up]
LastSays(up) == rows # <<>> /\ Last(rows).up = up

(* add_connectivity, with the cap.                                         *)
AddConnectivity(up) ==
  LET all == Append(rows, Row(up)) IN
    rows' = IF Len(all) > MaxRows THEN Tail(all) ELSE all

(* _record_connectivity: what is known changes even when the write fails.  *)
RecordConnectivity(known, connected) ==
  /\ connUp' = connected
  /\ \/ ~known /\ AddConnectivity(connected)
     \/ UNCHANGED rows

UpInit ==
  /\ running = FALSE /\ connUp = FALSE /\ rows = <<>>
  /\ second = 0 /\ wasUp = <<>> /\ gaps = {} /\ untold = {}

(* The last row tells what was known; the start itself is a down edge.     *)
Start ==
  /\ ~running /\ running' = TRUE
  /\ RecordConnectivity(LastSays(FALSE), FALSE)
  /\ UNCHANGED <<second, histVars>>

(* _go: any state may follow, connected or not.                            *)
Go ==
  /\ running
  /\ \E connected \in BOOLEAN : RecordConnectivity(connUp = connected, connected)
  /\ UNCHANGED <<running, second, histVars>>

(* A stop or a crash: nobody writes a row.                                 *)
ServiceStops ==
  /\ running /\ running' = FALSE
  /\ UNCHANGED <<connUp, rows, second, histVars>>

Up == running /\ connUp
SecondPasses ==
  /\ second < MaxSeconds /\ second' = second + 1
  /\ wasUp' = Append(wasUp, Up)
  /\ gaps' = IF running THEN gaps ELSE gaps \union {second}
  /\ untold' = IF LastSays(Up) THEN untold ELSE untold \union {second}
  /\ UNCHANGED <<running, connUp, rows>>

UpNext == Start \/ Go \/ ServiceStops \/ SecondPasses
UpSpec == UpInit /\ [][UpNext]_upVars

-----------------------------------------------------------------------------
(* The route and summarize, over the window from t0 to t1.                 *)

MutWindowStart(frm, to) == frm
WindowStart(frm, to) ==
  IF rows = <<>> \/ frm >= Head(rows).ts THEN frm
  ELSE IF Head(rows).ts < to THEN Head(rows).ts ELSE to

(* The table is read in the order of its time stamps, which is its own.    *)
StateAt(t) ==
  LET before == {i \in DOMAIN rows : rows[i].ts <= t} IN
    before # {} /\ rows[Max(before)].up
Between(row, t0, t1) == t0 <= row.ts /\ row.ts <= t1

(* The time since the last edge goes to the state before it.               *)
Elapse(sum, ts) ==
  [sum EXCEPT !.connected = @ + (IF sum.up THEN ts - sum.cursor ELSE 0),
              !.down = @ + (IF sum.up THEN 0 ELSE ts - sum.cursor),
              !.cursor = ts]
CloseOutage(sum, ts) == [sum EXCEPT !.episodes = Append(@, [start |-> sum.since, end |-> ts])]
Edge(sum, row) ==
  LET then == Elapse(sum, row.ts) IN
    CASE row.up /\ ~sum.up -> [CloseOutage(then, row.ts) EXCEPT !.up = TRUE]
      [] ~row.up /\ sum.up -> [then EXCEPT !.up = FALSE, !.since = row.ts]
      [] OTHER -> then
SumsAfter(t0, t1) ==
  LET sums[n \in 0 .. Len(rows)] ==
        IF n = 0
        THEN [up |-> StateAt(t0), cursor |-> t0, since |-> t0,
              connected |-> 0, down |-> 0, episodes |-> <<>>]
        ELSE IF Between(rows[n], t0, t1) THEN Edge(sums[n - 1], rows[n]) ELSE sums[n - 1]
  IN  sums
Summarize(t0, t1) ==
  LET sum == Elapse(SumsAfter(t0, t1)[Len(rows)], t1)
  IN  IF sum.up THEN sum ELSE CloseOutage(sum, t1)

-----------------------------------------------------------------------------
(* Whatever was pruned or written twice: over every window in which the    *)
(* rows had been told of each second, the summary counts the seconds that  *)
(* were up and down, the outages are one after the other and cover exactly *)
(* the seconds that were down.  The rows were not told of a second if the  *)
(* write of its edge failed or was never made, as when the service stops   *)
(* while it is connected (GapCountsAsDown).                                *)
UptimeTruthful ==
  \A frm \in 0 .. second : \A to \in frm .. second :
    LET t0 == WindowStart(frm, to)
        seconds == t0 .. (to - 1)
        down == {s \in seconds : ~wasUp[s + 1]}
        sum == Summarize(t0, to)
    IN  seconds \intersect untold = {} =>
          /\ sum.down = Cardinality(down)
          /\ sum.connected = Cardinality(seconds \ down)
          /\ UNION {e.start .. (e.end - 1) : e \in ToSet(sum.episodes)} = down
          /\ \A i \in 1 .. Len(sum.episodes) - 1 :
               sum.episodes[i].end <= sum.episodes[i + 1].start

(* What the comment at daemon.py:173 says of the down edge it writes when  *)
(* the service starts: "any service-down gap counts as downtime".          *)
GapCountsAsDown ==
  running /\ LastSays(connUp) => \A s \in gaps : Summarize(s, s + 1).connected = 0
=============================================================================
