------------------------------- MODULE Probes -------------------------------
(***************************************************************************)
(* The samples and the rollups of a latency or website monitor:            *)
(* monitor/ping_monitor.py and monitor/http_check_monitor.py are the same  *)
(* code over two pairs of tables, core/latency.py folds for both.  A cycle *)
(* inserts a sample, folds it and its predecessors into hourly and then    *)
(* daily buckets, and prunes; a failing database call or a crash ends it   *)
(* after any of these steps.                                               *)
(*                                                                         *)
(* A sample is its timestamp, and a rollup row the set of samples it was   *)
(* aggregated from.  The pages and their exports read the samples or one   *)
(* of the two kinds of rollups, by the length of the window they show.     *)
(***************************************************************************)
EXTENDS Integers, FiniteSetsExt

CONSTANTS
  Hour, Day,    \* lengths of the buckets
  RawDays, RollupDays, \* raw_retention_days, rollup_retention_days
  RawSpan, HourSpan, \* longest windows shown from samples, from hourly rollups
  MaxGap,       \* bound: time without a sample
  MaxClock       \* bound: the wall clock

ASSUME ProbesConstants ==
  /\ {Hour, Day, RawDays, RollupDays, MaxGap} \subseteq Nat \ {0}
  /\ Hour <= Day /\ Day % Hour = 0
  /\ {RawSpan, HourSpan, MaxClock} \subseteq Nat /\ RawSpan <= HourSpan

Periods == {"hour", "day"}
Times == 0 .. MaxClock

VARIABLES
  clock,        \* the wall clock
  cycle,        \* the step the cycle is at, "idle" between cycles
  samples,      \* the raw table
  rollups,      \* the rollup table: by period and bucket, {} for no row
  taken,        \* history: every sample ever inserted
  whole         \* history: the latest cycle came to its end

probeVars == <<clock, cycle, samples, rollups, taken, whole>>

PeriodSeconds(period) == IF period = "hour" THEN Hour ELSE Day
BucketStart(t, period) == t - (t % PeriodSeconds(period))
InBucket(S, b, period) == {t \in S : BucketStart(t, period) = b}
NoRows == [b \in Times |-> {}]

ProbeInit ==
  /\ clock = 0 /\ cycle = "idle"
  /\ samples = {} /\ rollups = [p \in Periods |-> NoRows]
  /\ taken = {} /\ whole = FALSE

-----------------------------------------------------------------------------
(* One cycle.  It keeps the time of its samples to its end.                *)

(* _iteration: switched off, not due, or there is no interface to probe.   *)
NotDue == cycle = "idle" /\ UNCHANGED probeVars

Insert ==
  /\ cycle = "idle" /\ clock \notin taken
  /\ samples' = samples \union {clock} /\ taken' = taken \union {clock}
  /\ cycle' = "hour" /\ whole' = FALSE
  /\ UNCHANGED <<clock, rollups>>

(* The newest bucket there is a row of, for all interfaces and targets.    *)
LastRollupBucket(period) ==
  LET rows == {b \in Times : rollups[period][b] # {}}
  IN  IF rows = {} THEN 0 ELSE Max(rows)

(* Everything since the newest bucket, that one included, is folded again. *)
MutToFold(period) ==
  LET cur == BucketStart(clock, period)
  IN  {t \in samples : cur - PeriodSeconds(period) <= t /\ t <= cur}
ToFold(period) ==
  {t \in samples : LastRollupBucket(period) <= t /\ t <= BucketStart(clock, period)}

(* Only buckets that are over are written; a row there is replaced.        *)
FoldRollups(period) ==
  rollups' = [rollups EXCEPT ![period] = [b \in Times |->
    LET group == InBucket(ToFold(period), b, period) IN
      IF group # {} /\ b + PeriodSeconds(period) <= clock
      THEN group ELSE rollups[period][b]]]

FoldHour ==
  /\ cycle = "hour" /\ cycle' = "day"
  /\ FoldRollups("hour")
  /\ UNCHANGED <<clock, samples, taken, whole>>

FoldDay ==
  /\ cycle = "day" /\ cycle' = "prune raw"
  /\ FoldRollups("day")
  /\ UNCHANGED <<clock, samples, taken, whole>>

PruneRaw ==
  /\ cycle = "prune raw" /\ cycle' = "prune rollups"
  /\ samples' = {t \in samples : t >= clock - RawDays * Day}
  /\ UNCHANGED <<clock, rollups, taken, whole>>

PruneRollups ==
  /\ cycle = "prune rollups" /\ cycle' = "idle"
  /\ rollups' = [p \in Periods |-> [b \in Times |->
       IF b >= clock - RollupDays * Day THEN rollups[p][b] ELSE {}]]
  /\ whole' = TRUE
  /\ UNCHANGED <<clock, samples, taken>>

(* A call of the database fails, and run logs it; or the process restarts. *)
Abort ==
  /\ cycle # "idle" /\ cycle' = "idle"
  /\ UNCHANGED <<clock, samples, rollups, taken, whole>>

(* Cycles that do not happen or fail before their insertion leave a gap.   *)
LastTaken == IF taken = {} THEN clock ELSE Max(taken)
ClockTicks ==
  /\ cycle = "idle" /\ clock < MaxClock
  /\ clock - LastTaken < MaxGap
  /\ clock' = clock + 1
  /\ whole' = FALSE
  /\ UNCHANGED <<cycle, samples, rollups, taken>>

ProbeNext ==
  \/ NotDue \/ Insert \/ FoldHour \/ FoldDay \/ PruneRaw \/ PruneRollups
  \/ Abort \/ ClockTicks

ProbeSpec == ProbeInit /\ [][ProbeNext]_probeVars

-----------------------------------------------------------------------------
(* What a page shows of the time from frm to to.                           *)

Source(frm, to) ==
  CASE to - frm <= RawSpan -> "raw"
    [] RawSpan < to - frm /\ to - frm <= HourSpan -> "hour"
    [] OTHER -> "day"

(* Rollups are selected by the start of their bucket, ends included.       *)
SampleRows(frm, to) == {{t} : t \in {t \in samples : frm <= t /\ t <= to}}
RollupRows(period, frm, to) == {rollups[period][b] : b \in frm .. to} \ {{}}
RowsShown(frm, to) ==
  IF Source(frm, to) = "raw" THEN SampleRows(frm, to)
  ELSE RollupRows(Source(frm, to), frm, to)

(* The samples that stand behind the series and the headline.              *)
Shown(frm, to) == UNION RowsShown(frm, to)

-----------------------------------------------------------------------------
Width(source) == IF source = "raw" THEN 0 ELSE PeriodSeconds(source)
Underway(t, source) == source # "raw" /\ BucketStart(t, source) + Width(source) > clock
Kept(frm, source) ==
  frm >= clock - (IF source = "raw" THEN RawDays ELSE RollupDays) * Day

(* After a cycle that came to its end, however many before it were missed  *)
(* or cut short, a window within the retention of its source shows every   *)
(* sample taken in it, but for the bucket it begins in and the bucket      *)
(* under way; nothing from outside but for the bucket it ends in; and no   *)
(* sample in two rows, which the headline would count twice.               *)
WindowsExact ==
  whole => \A to \in 0 .. clock : \A frm \in 0 .. to :
    LET source == Source(frm, to) IN Kept(frm, source) =>
      /\ \A t \in taken :
           frm + Width(source) <= t /\ t <= to /\ ~Underway(t, source)
           => t \in Shown(frm, to)
      /\ \A t \in Shown(frm, to) :
           /\ frm <= t /\ t <= to + Width(source) /\ t \in taken
           /\ \A r1, r2 \in RowsShown(frm, to) : t \in r1 /\ t \in r2 => r1 = r2

(* As upsert_icmp_rollups and upsert_http_rollups say, folding again is    *)
(* idempotent: an aggregate may gain samples or be pruned as a whole, it   *)
(* never loses some of them.                                               *)
RefoldIdempotent ==
  [][\A p \in Periods, b \in Times :
       rollups'[p][b] # {} => rollups[p][b] \subseteq rollups'[p][b]]_probeVars
=============================================================================
