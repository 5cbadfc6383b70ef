----------------------- MODULE TrafficCollector_proofs -----------------------
(***************************************************************************)
(* The collector's bookkeeping, for any set of flows: the row of a tracked *)
(* flow is live, the live rows are the tracked ones while every write      *)
(* succeeds, and closed rows are history.  What a step does to a flow is   *)
(* one of a few edits of its rows; each has a lemma of its own.            *)
(***************************************************************************)
EXTENDS TrafficCollector, SequenceTheorems, TLAPS

(* The rows s of a flow tracked at row k, k = 0 for not tracked.           *)
Sound(s, k) ==
  /\ s \in Seq(RowStatus) /\ k \in Nat
  /\ k # 0 => k \in DOMAIN s /\ s[k] = "live"
OnlyTracked(s, k) == \A i \in DOMAIN s : s[i] = "live" => k = i
History(s, t) ==
  \A i \in DOMAIN s : s[i] \in {"closed", "final"} => i \in DOMAIN t /\ t[i] \in {s[i], "gone"}

(* An edit keeps a flow sound, its closed rows, and its live rows tracked. *)
Edit(s, k, t, l) ==
  /\ Sound(t, l) /\ History(s, t)
  /\ OnlyTracked(s, k) => OnlyTracked(t, l)

(* Rewriting some rows in place gives rows.                                *)
LEMMA Rewritten ==
  ASSUME NEW s \in Seq(RowStatus), NEW t, DOMAIN t = DOMAIN s,
         t = [i \in DOMAIN t |-> t[i]], \A i \in DOMAIN s : t[i] \in RowStatus
  PROVE  t \in Seq(RowStatus)
<1>1. Len(s) \in Nat /\ DOMAIN s = 1 .. Len(s) OBVIOUS
<1>2. t \in [1 .. Len(s) -> RowStatus] BY <1>1
<1>3. QED BY <1>1, <1>2, SeqDef

LEMMA EditNothing ==
  ASSUME NEW s, NEW k, Sound(s, k) PROVE Edit(s, k, s, k)
BY DEF Edit, History

LEMMA EditClose ==
  ASSUME NEW s, NEW k, Sound(s, k),
         NEW t, t = [i \in DOMAIN s |-> IF i = k THEN "closed" ELSE s[i]]
  PROVE  Edit(s, k, t, 0)
<1>1. t \in Seq(RowStatus)
  <2>1. \A i \in DOMAIN s : t[i] \in RowStatus BY DEF Sound, RowStatus
  <2>2. QED BY <2>1, Rewritten DEF Sound
<1>2. History(s, t) BY DEF Sound, History
<1>3. OnlyTracked(s, k) => OnlyTracked(t, 0) BY DEF OnlyTracked
<1>4. QED BY <1>1, <1>2, <1>3 DEF Edit, Sound

LEMMA EditCloseAll ==
  ASSUME NEW s, NEW k, Sound(s, k),
         NEW t, t = [i \in DOMAIN s |-> IF s[i] = "live" THEN "closed" ELSE s[i]]
  PROVE  Edit(s, k, t, 0) /\ OnlyTracked(t, 0)
<1>1. t \in Seq(RowStatus)
  <2>1. \A i \in DOMAIN s : t[i] \in RowStatus BY DEF Sound, RowStatus
  <2>2. QED BY <2>1, Rewritten DEF Sound
<1>2. History(s, t) BY DEF History
<1>3. OnlyTracked(t, 0) BY DEF OnlyTracked
<1>4. QED BY <1>1, <1>2, <1>3 DEF Edit, Sound

LEMMA EditPrune ==
  ASSUME NEW s, NEW k, Sound(s, k), NEW t, DOMAIN t = DOMAIN s,
         t = [i \in DOMAIN t |-> t[i]],
         \A i \in DOMAIN s : t[i] = s[i] \/ (t[i] = "gone" /\ s[i] # "live")
  PROVE  Edit(s, k, t, k)
<1>1. t \in Seq(RowStatus)
  <2>1. \A i \in DOMAIN s : t[i] \in RowStatus BY DEF Sound, RowStatus
  <2>2. QED BY <2>1, Rewritten DEF Sound
<1>2. History(s, t) BY DEF History
<1>3. OnlyTracked(s, k) => OnlyTracked(t, k) BY DEF OnlyTracked
<1>4. QED BY <1>1, <1>2, <1>3 DEF Edit, Sound

LEMMA EditCheckpoint ==
  ASSUME NEW s, Sound(s, 0), NEW t, t = Append(s, "live")
  PROVE  Edit(s, 0, t, Len(s) + 1)
<1>1. t \in Seq(RowStatus) /\ DOMAIN t = 1 .. Len(s) + 1 /\ DOMAIN s = 1 .. Len(s)
  BY DEF Sound, RowStatus
<1>2. Len(s) \in Nat BY DEF Sound
<1>3. t[Len(s) + 1] = "live" /\ \A i \in 1 .. Len(s) : t[i] = s[i] BY <1>2 DEF Sound
<1>4. QED BY <1>1, <1>2, <1>3 DEF Edit, Sound, History, OnlyTracked

LEMMA EditFinalRow ==
  ASSUME NEW s, Sound(s, 0), NEW t, t = Append(s, "final")
  PROVE  Edit(s, 0, t, 0)
<1>1. t \in Seq(RowStatus) /\ DOMAIN t = 1 .. Len(s) + 1 /\ DOMAIN s = 1 .. Len(s)
  BY DEF Sound, RowStatus
<1>2. Len(s) \in Nat BY DEF Sound
<1>3. t[Len(s) + 1] = "final" /\ \A i \in 1 .. Len(s) : t[i] = s[i] BY <1>2 DEF Sound
<1>4. QED BY <1>1, <1>2, <1>3 DEF Edit, Sound, History, OnlyTracked

LEMMA EditFinalise ==
  ASSUME NEW s, NEW k, Sound(s, k), k # 0, NEW t, t = [s EXCEPT ![k] = "final"]
  PROVE  Edit(s, k, t, 0)
<1>1. DOMAIN t = DOMAIN s /\ \A i \in DOMAIN s : t[i] = IF i = k THEN "final" ELSE s[i]
  BY DEF Sound
<1>2. t \in Seq(RowStatus)
  <2>1. \A i \in DOMAIN s : t[i] \in RowStatus BY <1>1 DEF Sound, RowStatus
  <2>2. QED BY <2>1, <1>1, Rewritten DEF Sound
<1>3. History(s, t) BY <1>1 DEF Sound, History
<1>4. OnlyTracked(s, k) => OnlyTracked(t, 0) BY <1>1 DEF OnlyTracked
<1>5. QED BY <1>2, <1>3, <1>4 DEF Edit, Sound

-----------------------------------------------------------------------------
Inv == TypeOK /\ TrackedIsLive /\ LiveIsTracked

(* Everything but the rows and what is tracked.                            *)
RestType ==
  /\ kernel \in [Flows -> {"fresh", "open", "ended"}]
  /\ enabled \in BOOLEAN /\ includeLocal \in BOOLEAN /\ calm \in BOOLEAN
  /\ started \in BOOLEAN /\ running \in BOOLEAN
  /\ queue \subseteq Flows /\ batch \subseteq Flows
  /\ pc \in {"idle", "drain", "events", "prune"}
  /\ unwritten \in BOOLEAN
BookType == tracked \in [Flows -> Nat] /\ rows \in [Flows -> Seq(RowStatus)]

LEMMA InvSound ==
  Inv => RestType /\ BookType /\ \A f \in Flows : Sound(rows[f], tracked[f])
BY DEF Inv, TypeOK, TrackedIsLive, RestType, BookType, Sound

(* A failing write or a crash may leave a flow's rows behind, no longer    *)
(* tracked.                                                                *)
Abandoned(f) ==
  (unwritten' \/ ~started') /\ rows'[f] = rows[f] /\ tracked'[f] = 0

(* The books of all flows are edited or left behind, and whoever is        *)
(* started with every write successful was before, or starts with nothing  *)
(* live.                                                                   *)
BooksEdited ==
  /\ rows' = [f \in Flows |-> rows'[f]] /\ tracked' = [f \in Flows |-> tracked'[f]]
  /\ \A f \in Flows : Edit(rows[f], tracked[f], rows'[f], tracked'[f]) \/ Abandoned(f)
Truthful ==
  started' /\ ~unwritten' =>
    \/ started /\ ~unwritten
    \/ \A f \in Flows : OnlyTracked(rows'[f], tracked'[f])

LEMMA BooksSound ==
  ASSUME Inv, BooksEdited
  PROVE  \A f \in Flows : Sound(rows'[f], tracked'[f]) /\ History(rows[f], rows'[f])
<1> SUFFICES ASSUME NEW f \in Flows
             PROVE  Sound(rows'[f], tracked'[f]) /\ History(rows[f], rows'[f])
  OBVIOUS
<1>1. CASE Edit(rows[f], tracked[f], rows'[f], tracked'[f]) BY <1>1 DEF Edit
<1>2. CASE Abandoned(f) BY <1>2, InvSound DEF Abandoned, Sound, History
<1>3. QED BY <1>1, <1>2 DEF BooksEdited

LEMMA InvFromEdits == Inv /\ RestType' /\ BooksEdited /\ Truthful => Inv'
<1> SUFFICES ASSUME Inv, RestType', BooksEdited, Truthful PROVE Inv' OBVIOUS
<1>1. TypeOK'
  <2>1. \A f \in Flows : rows'[f] \in Seq(RowStatus) /\ tracked'[f] \in Nat
    BY BooksSound DEF Sound
  <2>2. rows' \in [Flows -> Seq(RowStatus)] /\ tracked' \in [Flows -> Nat]
    BY <2>1 DEF BooksEdited
  <2>3. QED BY <2>2 DEF TypeOK, RestType
<1>2. TrackedIsLive' BY BooksSound DEF Sound, TrackedIsLive
<1>3. LiveIsTracked'
  <2> SUFFICES ASSUME started', ~unwritten' PROVE \A f \in Flows : OnlyTracked(rows'[f], tracked'[f])
    BY DEF LiveIsTracked, OnlyTracked
  <2>1. CASE started /\ ~unwritten
    <3>1. \A f \in Flows : OnlyTracked(rows[f], tracked[f])
      BY <2>1 DEF Inv, LiveIsTracked, OnlyTracked
    <3>2. QED BY <3>1 DEF BooksEdited, Edit, Abandoned
  <2>2. QED BY <2>1 DEF Truthful
<1>4. QED BY <1>1, <1>2, <1>3 DEF Inv

LEMMA UntouchedBooks ==
  ASSUME Inv, UNCHANGED <<rows, tracked>> PROVE BooksEdited
<1>1. rows' = [f \in Flows |-> rows'[f]] /\ tracked' = [f \in Flows |-> tracked'[f]]
  BY InvSound DEF BookType
<1>2. QED BY <1>1, InvSound, EditNothing DEF BooksEdited

-----------------------------------------------------------------------------
(* The actions one by one.                                                 *)
Booked == RestType' /\ BooksEdited /\ Truthful

(* The books are untouched, and nobody is started who was not.             *)
LEMMA Elsewhere ==
  ASSUME Inv, RestType', UNCHANGED <<rows, tracked, unwritten>>, started' => started
  PROVE  Booked
BY UntouchedBooks DEF Booked, Truthful

LEMMA StopSourceBooked == ASSUME Inv, StopSource PROVE Booked
<1>1. RestType' BY InvSound DEF StopSource, Write, RestType, configVars
<1>2. PICK ok \in BOOLEAN :
        IF ok THEN rows' = CloseTracked(Flows) /\ tracked' = Untracked
              ELSE UNCHANGED <<rows, tracked>>
  BY DEF StopSource
<1>3. ASSUME ok PROVE BooksEdited
  <2>1. ASSUME NEW f \in Flows PROVE Edit(rows[f], tracked[f], rows'[f], tracked'[f])
    <3>1. rows'[f] = [i \in DOMAIN rows[f] |-> IF i = tracked[f] THEN "closed" ELSE rows[f][i]]
      BY <1>2, <1>3 DEF CloseTracked
    <3>2. tracked'[f] = 0 BY <1>2, <1>3 DEF Untracked
    <3>3. QED BY <3>1, <3>2, InvSound, EditClose
  <2>2. QED BY <2>1, <1>2, <1>3 DEF BooksEdited, CloseTracked, Untracked
<1>4. ASSUME ~ok PROVE BooksEdited BY <1>4, <1>2, UntouchedBooks
<1>5. BooksEdited BY <1>3, <1>4
<1>6. QED BY <1>1, <1>5 DEF Booked, Truthful, StopSource

LEMMA StartSourceBooked == ASSUME Inv, StartSource PROVE Booked
<1>1. RestType' BY InvSound DEF StartSource, Write, RestType, configVars
<1>2. PICK ok \in BOOLEAN :
        /\ unwritten' = (unwritten \/ ~ok)
        /\ IF ok THEN rows' = CloseStale /\ tracked' = Untracked /\ pc' = "drain"
                 ELSE UNCHANGED <<rows, tracked, pc>>
  BY DEF StartSource, Write
<1>3. CASE ok
  <2>1. ASSUME NEW f \in Flows
        PROVE  /\ Edit(rows[f], tracked[f], rows'[f], tracked'[f])
               /\ OnlyTracked(rows'[f], tracked'[f])
    <3>1. rows'[f] = [i \in DOMAIN rows[f] |-> IF rows[f][i] = "live" THEN "closed" ELSE rows[f][i]]
      BY <1>2, <1>3 DEF CloseStale
    <3>2. tracked'[f] = 0 BY <1>2, <1>3 DEF Untracked
    <3>3. QED BY <3>1, <3>2, InvSound, EditCloseAll
  <2>2. BooksEdited BY <2>1, <1>2, <1>3 DEF BooksEdited, CloseStale, Untracked
  <2>3. QED BY <2>1, <2>2, <1>1 DEF Booked, Truthful
<1>4. CASE ~ok
  <2>1. unwritten' BY <1>2, <1>4
  <2>2. QED BY <2>1, <1>1, <1>2, <1>4, UntouchedBooks DEF Booked, Truthful
<1>5. QED BY <1>3, <1>4

LEMMA OnDestroyBooked == ASSUME Inv, OnDestroy PROVE Booked
<1>1. PICK f \in batch, ok \in BOOLEAN :
        /\ Write(ok) /\ Untrack(f)
        /\ IF ok THEN /\ rows' = [rows EXCEPT ![f] = FinalRows(f)]
                      /\ batch' = batch \ {f} /\ UNCHANGED pc
                 ELSE /\ batch' = {} /\ pc' = "idle" /\ UNCHANGED rows
  BY DEF OnDestroy
<1>2. f \in Flows BY InvSound DEF RestType
<1>3. RestType' BY <1>1, InvSound DEF OnDestroy, Write, RestType, configVars, sourceVars
<1>4. tracked' = [tracked EXCEPT ![f] = 0] BY <1>1 DEF Untrack
<1>5. Truthful BY <1>1 DEF Truthful, OnDestroy, Write, sourceVars
<1>6. ASSUME NEW g \in Flows
      PROVE  Edit(rows[g], tracked[g], rows'[g], tracked'[g]) \/ Abandoned(g)
  <2>1. CASE g # f
    <3>1. rows'[g] = rows[g] /\ tracked'[g] = tracked[g]
      BY <2>1, <1>1, <1>4, InvSound DEF BookType
    <3>2. QED BY <3>1, InvSound, EditNothing
  <2>2. CASE g = f /\ ~ok
    <3>1. rows'[g] = rows[g] /\ tracked'[g] = 0 BY <2>2, <1>1, <1>4, InvSound DEF BookType
    <3>2. QED BY <3>1, <2>2, <1>1 DEF Abandoned, Write
  <2>3. CASE g = f /\ ok
    <3>1. rows'[g] = FinalRows(f) /\ tracked'[g] = 0 BY <2>3, <1>1, <1>4, InvSound DEF BookType
    <3>2. Sound(rows[f], tracked[f]) BY <1>2, InvSound
    <3>3. CASE f \in Audited /\ tracked[f] # 0
      BY <3>1, <3>2, <3>3, <2>3, EditFinalise DEF FinalRows
    <3>4. CASE f \in Audited /\ tracked[f] = 0
      BY <3>1, <3>2, <3>4, <2>3, EditFinalRow DEF FinalRows
    <3>5. CASE f \notin Audited
      <4>1. rows'[g] = [i \in DOMAIN rows[f] |-> IF i = tracked[f] THEN "closed" ELSE rows[f][i]]
        BY <3>1, <3>5, <1>2 DEF FinalRows, CloseTracked
      <4>2. QED BY <4>1, <3>1, <3>2, <2>3, EditClose
    <3>6. QED BY <3>3, <3>4, <3>5
  <2>4. QED BY <2>1, <2>2, <2>3
<1>7. BooksEdited BY <1>1, <1>4, <1>6, InvSound DEF BooksEdited, BookType
<1>8. QED BY <1>3, <1>5, <1>7 DEF Booked

LEMMA DrainBooked == ASSUME Inv, Drain PROVE Booked
<1>1. RestType' BY InvSound DEF Drain, RestType, configVars, sourceVars
<1>2. QED BY <1>1, Elsewhere DEF Drain, sourceVars

(* Checkpointing some flows only inserts rows for the untracked ones.      *)
LEMMA CheckpointEdits ==
  ASSUME Inv, NEW fs \in SUBSET Flows, NEW f \in Flows
  PROVE  Edit(rows[f], tracked[f], Checkpointed(fs)[f], TrackedAfter(fs)[f])
<1>1. Sound(rows[f], tracked[f]) BY InvSound
<1>2. CASE f \in fs /\ tracked[f] = 0
  <2>1. Checkpointed(fs)[f] = Append(rows[f], "live") BY <1>2 DEF Checkpointed
  <2>2. TrackedAfter(fs)[f] = Len(rows[f]) + 1 BY <1>2 DEF TrackedAfter
  <2>3. QED BY <2>1, <2>2, <1>1, <1>2, EditCheckpoint
<1>3. CASE ~(f \in fs /\ tracked[f] = 0)
  <2>1. Checkpointed(fs)[f] = rows[f] /\ TrackedAfter(fs)[f] = tracked[f]
    BY <1>3 DEF Checkpointed, TrackedAfter
  <2>2. QED BY <2>1, <1>1, EditNothing
<1>4. QED BY <1>2, <1>3

LEMMA SnapshotBooked == ASSUME Inv, Snapshot PROVE Booked
<1> DEFINE seen  == Open \intersect Audited
           stale == Stale(seen)
           kept  == [f \in Flows |-> IF f \in stale THEN 0 ELSE TrackedAfter(seen)[f]]
<1>1. RestType' BY InvSound DEF Snapshot, Write, RestType, configVars, sourceVars
<1>2. seen \in SUBSET Flows BY DEF Open
<1>3. \A f \in stale : f \in Flows /\ f \notin seen /\ tracked[f] # 0 BY DEF Stale
<1>4. Truthful BY DEF Truthful, Snapshot, Write, sourceVars
<1>5. CASE /\ rows' = [f \in Flows |-> IF f \in stale THEN CloseTracked(stale)[f]
                                                      ELSE Checkpointed(seen)[f]]
           /\ tracked' = kept
  <2>1. ASSUME NEW f \in Flows PROVE Edit(rows[f], tracked[f], rows'[f], tracked'[f])
    <3>1. CASE f \in stale
      <4>1. rows'[f] = [i \in DOMAIN rows[f] |-> IF i = tracked[f] THEN "closed" ELSE rows[f][i]]
        BY <1>5, <3>1 DEF CloseTracked
      <4>2. tracked'[f] = 0 BY <1>5, <3>1
      <4>3. QED BY <4>1, <4>2, InvSound, EditClose
    <3>2. CASE f \notin stale
      <4>1. rows'[f] = Checkpointed(seen)[f] /\ tracked'[f] = TrackedAfter(seen)[f]
        BY <1>5, <3>2
      <4>2. QED BY <4>1, <1>2, CheckpointEdits
    <3>3. QED BY <3>1, <3>2
  <2>2. BooksEdited BY <2>1, <1>5 DEF BooksEdited
  <2>3. QED BY <2>2, <1>1, <1>4 DEF Booked
<1>6. ASSUME NEW written \in SUBSET seen,
             rows' = Checkpointed(written), tracked' = TrackedAfter(written)
      PROVE  Booked
  <2>1. \A f \in Flows : Edit(rows[f], tracked[f], rows'[f], tracked'[f])
    BY <1>2, <1>6, CheckpointEdits
  <2>2. BooksEdited BY <2>1, <1>6 DEF BooksEdited, Checkpointed, TrackedAfter
  <2>3. QED BY <2>2, <1>1, <1>4 DEF Booked
<1>7. CASE unwritten' /\ rows' = Checkpointed(seen) /\ tracked' = kept
  <2>1. ASSUME NEW f \in Flows
        PROVE  Edit(rows[f], tracked[f], rows'[f], tracked'[f]) \/ Abandoned(f)
    <3>1. CASE f \in stale
      <4>1. rows'[f] = rows[f] /\ tracked'[f] = 0
        BY <1>7, <1>3, <3>1 DEF Checkpointed
      <4>2. QED BY <4>1, <1>7 DEF Abandoned
    <3>2. CASE f \notin stale
      <4>1. rows'[f] = Checkpointed(seen)[f] /\ tracked'[f] = TrackedAfter(seen)[f]
        BY <1>7, <3>2
      <4>2. QED BY <4>1, <1>2, CheckpointEdits
    <3>3. QED BY <3>1, <3>2
  <2>2. BooksEdited BY <2>1, <1>7 DEF BooksEdited, Checkpointed
  <2>3. QED BY <2>2, <1>1, <1>4 DEF Booked
<1>8. QED BY <1>5, <1>6, <1>7 DEF Snapshot, Write

(* The retention never takes a live row.                                   *)
LEMMA PruneBooked == ASSUME Inv, Prune PROVE Booked
<1>1. RestType' BY InvSound DEF Prune, RestType, configVars, sourceVars
<1>2. PICK old \in SUBSET {r \in Flows \X (1 .. MaxRows) :
                             r[2] \in DOMAIN rows[r[1]] /\ Prunable(r[1], r[2])} :
        rows' = [f \in Flows |-> [i \in DOMAIN rows[f] |->
                   IF <<f, i>> \in old THEN "gone" ELSE rows[f][i]]]
  BY DEF Prune
<1>3. \A f \in Flows : \A i : <<f, i>> \in old => rows[f][i] # "live"
  BY DEF Prunable
<1>4. tracked' = tracked BY DEF Prune
<1>5. ASSUME NEW f \in Flows PROVE Edit(rows[f], tracked[f], rows'[f], tracked'[f])
  <2>1. rows'[f] = [i \in DOMAIN rows[f] |-> IF <<f, i>> \in old THEN "gone" ELSE rows[f][i]]
    BY <1>2
  <2>2. Sound(rows[f], tracked[f]) BY InvSound
  <2>3. DOMAIN rows'[f] = DOMAIN rows[f] /\ rows'[f] = [i \in DOMAIN rows'[f] |-> rows'[f][i]]
    BY <2>1
  <2>4. \A i \in DOMAIN rows[f] :
          rows'[f][i] = rows[f][i] \/ (rows'[f][i] = "gone" /\ rows[f][i] # "live")
    BY <2>1, <1>3
  <2>5. QED BY <2>2, <2>3, <2>4, <1>4, EditPrune
<1>6. BooksEdited BY <1>5, <1>2, <1>4, InvSound DEF BooksEdited, BookType
<1>7. QED BY <1>1, <1>6 DEF Booked, Truthful, Prune, sourceVars

(* A crash forgets what was tracked; nobody is started until the stale     *)
(* rows are closed.                                                        *)
LEMMA CrashBooked == ASSUME Inv, Crash PROVE Booked
<1>1. RestType' BY InvSound DEF Crash, RestType, configVars
<1>2. rows' = rows /\ tracked' = Untracked /\ ~started' BY DEF Crash
<1>3. \A f \in Flows : Abandoned(f) BY <1>2 DEF Abandoned, Untracked
<1>4. BooksEdited BY <1>2, <1>3, InvSound DEF BooksEdited, Untracked, BookType
<1>5. QED BY <1>1, <1>2, <1>4 DEF Booked, Truthful

LEMMA OthersBooked ==
  ASSUME Inv,
         \/ StartFails \/ NoSnapshot \/ FlowOpens \/ FlowCloses \/ StreamDies
         \/ Reconfigure \/ Settle \/ UNCHANGED vars
  PROVE  Booked
<1>1. CASE StartFails
  <2>1. RestType' BY <1>1, InvSound DEF StartFails, RestType, configVars
  <2>2. QED BY <1>1, <2>1, Elsewhere DEF StartFails
<1>2. CASE NoSnapshot
  <2>1. RestType' BY <1>2, InvSound DEF NoSnapshot, RestType, configVars, sourceVars
  <2>2. QED BY <1>2, <2>1, Elsewhere DEF NoSnapshot, sourceVars
<1>3. CASE FlowOpens
  <2>1. RestType' BY <1>3, InvSound DEF FlowOpens, RestType, configVars, sourceVars
  <2>2. QED BY <1>3, <2>1, Elsewhere DEF FlowOpens, sourceVars
<1>4. CASE FlowCloses
  <2>1. RestType' BY <1>4, InvSound DEF FlowCloses, Open, RestType, configVars, sourceVars
  <2>2. QED BY <1>4, <2>1, Elsewhere DEF FlowCloses, sourceVars
<1>5. CASE StreamDies
  <2>1. RestType' BY <1>5, InvSound DEF StreamDies, RestType, configVars
  <2>2. QED BY <1>5, <2>1, Elsewhere DEF StreamDies
<1>6. CASE Reconfigure
  <2>1. RestType' BY <1>6, InvSound DEF Reconfigure, RestType, sourceVars
  <2>2. QED BY <1>6, <2>1, Elsewhere DEF Reconfigure, sourceVars
<1>7. CASE Settle
  <2>1. RestType' BY <1>7, InvSound DEF Settle, RestType, sourceVars
  <2>2. QED BY <1>7, <2>1, Elsewhere DEF Settle, sourceVars
<1>8. CASE UNCHANGED vars
  <2>1. RestType' BY <1>8, InvSound DEF vars, RestType, configVars, sourceVars
  <2>2. QED BY <1>8, <2>1, Elsewhere DEF vars, sourceVars
<1>9. QED BY <1>1, <1>2, <1>3, <1>4, <1>5, <1>6, <1>7, <1>8

LEMMA StepBooked == Inv /\ [Next]_vars => Booked
BY StopSourceBooked, StartSourceBooked, DrainBooked, OnDestroyBooked, SnapshotBooked,
   PruneBooked, CrashBooked, OthersBooked DEF Next, Collector

LEMMA InvInit == Init => Inv
<1> SUFFICES ASSUME Init PROVE Inv OBVIOUS
<1>1. <<>> \in Seq(RowStatus) /\ DOMAIN <<>> = {} OBVIOUS
<1>2. rows \in [Flows -> Seq(RowStatus)] BY <1>1 DEF Init
<1>3. QED BY <1>2 DEF Init, Untracked, Inv, TypeOK, TrackedIsLive, LiveIsTracked

THEOREM TrafficInvariant == Spec => []Inv
<1>1. Init => Inv BY InvInit
<1>2. Inv /\ [Next]_vars => Inv' BY StepBooked, InvFromEdits DEF Booked
<1>3. QED BY <1>1, <1>2, PTL DEF Spec

-----------------------------------------------------------------------------
(* Every variable of the collector keeps its type.                         *)
THEOREM TrafficTypeOK == Spec => []TypeOK
BY TrafficInvariant, PTL DEF Inv

(* The row the collector keeps updating for a flow is never pruned, closed *)
(* or missing, whatever write failed before.                               *)
THEOREM TrafficTrackedIsLive == Spec => []TrackedIsLive
BY TrafficInvariant, PTL DEF Inv

(* As long as writes succeed, what the live view shows is what is tracked, *)
(* across restarts of the stream, crashes and reconfigurations.            *)
THEOREM TrafficLiveIsTracked == Spec => []LiveIsTracked
BY TrafficInvariant, PTL DEF Inv

(* No step reopens or rewrites a closed row.                               *)
THEOREM TrafficClosedIsHistory == Spec => ClosedIsHistory
<1>1. Inv /\ [Next]_vars =>
        [\A f \in Flows : \A i \in DOMAIN rows[f] : rows[f][i] \in {"closed", "final"} =>
           i \in DOMAIN rows'[f] /\ rows'[f][i] \in {rows[f][i], "gone"}]_vars
  BY StepBooked, BooksSound DEF Booked, History
<1>2. QED BY <1>1, TrafficInvariant, PTL DEF Spec, ClosedIsHistory
=============================================================================
