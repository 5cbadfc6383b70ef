----------------------------- MODULE Web_proofs -----------------------------
(***************************************************************************)
(* What the web interface shows of messages and scans, for any number of   *)
(* web threads, scans and probes and any cap of messages.                  *)
(***************************************************************************)
EXTENDS MessageLog, ScanManager, FiniteSetTheorems, TLAPS

(* A message the user has not been shown counts as unread.  The invariant  *)
(* adds what a slow mark-read may still write: all it will cover was in    *)
(* the table when it looked.                                               *)
MarkedIsSeen ==
  \A w \in Readers : \A r \in Inbox : r <= marking[w] => r \in seen
MsgInv == MsgTypeOK /\ NewIsUnread /\ MarkedIsSeen

(* Adding a message gives it an id above the watermark and above whatever  *)
(* is being marked.                                                        *)
LEMMA AddKeeps == ASSUME MsgInv, AddMessage PROVE MsgInv'
<1>1. MsgTypeOK /\ lastId \in Nat /\ lastId' = lastId + 1
  BY DEF MsgInv, MsgTypeOK, AddMessage, NextId
<1>2. rows' \subseteq rows \union {lastId'} BY <1>1 DEF AddMessage, Pruned, NextId
<1>3. inbound' \subseteq inbound \union {lastId'} BY <1>1 DEF AddMessage, NextId
<1>4. UNCHANGED <<watermark, marking>> /\ seen' = seen \ {lastId'}
  BY <1>1 DEF AddMessage, NextId
<1>5. \A r \in Inbox' : r = lastId' \/ (r \in Inbox /\ r <= lastId)
  BY <1>1, <1>2, <1>3 DEF Inbox, MsgTypeOK
<1>6. MsgTypeOK' BY <1>1, <1>2, <1>3, <1>4 DEF MsgTypeOK, Idle
<1>7. NewIsUnread' BY <1>1, <1>4, <1>5 DEF MsgInv, NewIsUnread, Unread, MsgTypeOK
<1>8. MarkedIsSeen' BY <1>1, <1>4, <1>5 DEF MsgInv, MarkedIsSeen, MsgTypeOK, Idle
<1>9. QED BY <1>6, <1>7, <1>8 DEF MsgInv

LEMMA DropKeeps ==
  ASSUME MsgInv, ClearMessages \/ \E r \in rows : DeleteMessage(r) PROVE MsgInv'
<1>1. rows' \subseteq rows /\ UNCHANGED <<inbound, lastId, watermark, marking, seen>>
  BY DEF ClearMessages, DeleteMessage
<1>2. Inbox' \subseteq Inbox BY <1>1 DEF Inbox
<1>3. MsgTypeOK' BY <1>1 DEF MsgInv, MsgTypeOK
<1>4. NewIsUnread' BY <1>1, <1>2 DEF MsgInv, NewIsUnread, Unread
<1>5. MarkedIsSeen' BY <1>1, <1>2 DEF MsgInv, MarkedIsSeen
<1>6. QED BY <1>3, <1>4, <1>5 DEF MsgInv

LEMMA SelectKeeps == ASSUME MsgInv, NEW w \in Readers, SelectNewest(w) PROVE MsgInv'
<1>1. PICK m \in 0 .. lastId :
        /\ marking' = [marking EXCEPT ![w] = m]
        /\ seen' = seen \union {r \in Inbox : r <= m}
  BY DEF SelectNewest
<1>2. UNCHANGED <<rows, inbound, lastId, watermark>> BY DEF SelectNewest
<1>3. Inbox' = Inbox BY <1>2 DEF Inbox
<1>4. MsgTypeOK' BY <1>1, <1>2 DEF MsgInv, MsgTypeOK, Inbox
<1>5. NewIsUnread' BY <1>1, <1>2, <1>3 DEF MsgInv, NewIsUnread, Unread
<1>6. MarkedIsSeen' BY <1>1, <1>3 DEF MsgInv, MarkedIsSeen, MsgTypeOK
<1>7. QED BY <1>4, <1>5, <1>6 DEF MsgInv

LEMMA WriteKeeps == ASSUME MsgInv, NEW w \in Readers, WriteWatermark(w) PROVE MsgInv'
<1>1. watermark' = marking[w] /\ marking[w] \in 0 .. lastId
  BY DEF WriteWatermark, MsgInv, MsgTypeOK, Idle
<1>2. marking' = [marking EXCEPT ![w] = Idle] /\ UNCHANGED <<rows, inbound, lastId, seen>>
  BY DEF WriteWatermark
<1>3. Inbox' = Inbox BY <1>2 DEF Inbox
<1>4. MsgTypeOK' BY <1>1, <1>2 DEF MsgInv, MsgTypeOK
<1>5. NewIsUnread'
  BY <1>1, <1>2, <1>3 DEF MsgInv, NewIsUnread, MarkedIsSeen, Unread, MsgTypeOK, Inbox
<1>6. MarkedIsSeen'
  BY <1>1, <1>2, <1>3 DEF MsgInv, MarkedIsSeen, MsgTypeOK, Inbox, Idle
<1>7. QED BY <1>4, <1>5, <1>6 DEF MsgInv

(* The badge never hides a message that came in after the user looked.     *)
THEOREM MessageNewIsUnread == MsgSpec => []NewIsUnread
<1>1. MsgInit => MsgInv
  BY DEF MsgInit, MsgInv, MsgTypeOK, NewIsUnread, MarkedIsSeen, Inbox
<1>2. MsgInv /\ [MsgNext]_msgVars => MsgInv'
  <2> SUFFICES ASSUME MsgInv, [MsgNext]_msgVars PROVE MsgInv' OBVIOUS
  <2>1. CASE UNCHANGED msgVars
    BY <2>1 DEF msgVars, MsgInv, MsgTypeOK, NewIsUnread, MarkedIsSeen, Unread, Inbox
  <2>2. QED BY <2>1, AddKeeps, DropKeeps, SelectKeeps, WriteKeeps DEF MsgNext
<1>3. QED BY <1>1, <1>2, PTL DEF MsgSpec, MsgInv

-----------------------------------------------------------------------------
(* What the page shows of a scan belongs to that scan, and only a stop     *)
(* meant for it cuts it short.  The one cancel flag is safe because it is  *)
(* cleared first thing in a launch: once it is cleared, a set flag means   *)
(* that the scan launched was stopped.                                     *)
Active == {"launched", "working", "midway", "closing"}
Shown == [running : BOOLEAN, scan : {NoScan} \union Scans, kind : Kinds \union {"none"},
          progress : Nat, total : Nat, results : SUBSET [scan : Scans, item : Items],
          summary : {NoScan} \union Scans, error : {NoScan} \union Scans]
ScanType ==
  /\ shown \in Shown /\ cancel \in BOOLEAN
  /\ worker \in [Scans -> {"none", "cleared", "gone"} \union Active]
  /\ left \in [Scans -> SUBSET Items]

(* Probes counted and probes left are the probes of the scan, but for the  *)
(* one a pool has counted and not collected, or another scan the reverse.  *)
Ahead(s) == shown.progress + Cardinality(left[s]) - shown.total
Balanced(s) ==
  \/ worker[s] # "midway" /\ Ahead(s) = 0
  \/ /\ worker[s] = "midway" \/ shown.error # NoScan
     /\ shown.kind = "pool" /\ Ahead(s) = 1 /\ left[s] # {}
  \/ worker[s] = "midway" /\ shown.kind # "pool" /\ Ahead(s) = -1
Counted ==
  /\ IsFiniteSet(shown.results)
  /\ shown.kind # "none" \/ shown.scan = NoScan
  /\ shown.kind = "checks" => shown.results = {}
  /\ shown.scan = NoScan =>
       shown.progress = 0 /\ shown.total = 0 /\ shown.results = {} /\ shown.error = NoScan
  /\ shown.scan # NoScan =>
       /\ Balanced(shown.scan)
       /\ Cardinality(shown.results) + Cardinality(left[shown.scan]) <= shown.total
       /\ worker[shown.scan] \in {"launched", "working", "midway"} => shown.error = NoScan
  /\ \A s \in Scans : worker[s] \in {"none", "cleared"} => left[s] = Items
OwnWorker ==
  /\ \A s \in Scans : worker[s] \in Active => shown.scan = s /\ shown.running
  /\ \A s \in Scans : worker[s] = "cleared" => ~shown.running
  /\ \A r, s \in Scans : worker[r] = "cleared" /\ worker[s] = "cleared" => r = s
OwnResults ==
  /\ \A r \in shown.results : r.scan = shown.scan
  /\ {shown.summary, shown.error} \subseteq {NoScan, shown.scan}
CancelIsMeant ==
  cancel => /\ shown.running => shown.scan \in stopped
            /\ \A s \in Scans : worker[s] = "cleared" => s \in stopped
ScanInv == ScanType /\ Counted /\ OwnWorker /\ OwnResults /\ CancelIsMeant /\ OnlyStopsCut

LEMMA LeftIsFinite ==
  ASSUME ScanType, NEW s \in Scans
  PROVE  IsFiniteSet(left[s]) /\ Cardinality(left[s]) \in Nat
<1>1. left[s] \subseteq Items BY DEF ScanType
<1>2. QED BY <1>1, FS_Subset, FS_CardinalityType, ScanConstants

LEMMA NoScanIsNone == NoScan \notin Scans /\ Scans \subseteq Nat
BY ScanConstants DEF NoScan, Scans

(* The counts of a scan on display are natural numbers.                    *)
LEMMA CountsAreNat ==
  ASSUME ScanType, Counted
  PROVE  /\ shown.progress \in Nat /\ shown.total \in Nat
         /\ IsFiniteSet(shown.results) /\ Cardinality(shown.results) \in Nat
BY FS_CardinalityType DEF ScanType, Counted, Shown

LEMMA ScanInvInit == ScanInit => ScanInv
<1> SUFFICES ASSUME ScanInit PROVE ScanInv OBVIOUS
<1>1. ScanType BY DEF ScanInit, ScanType, Shown, IdleState
<1>2. Counted BY FS_EmptySet DEF ScanInit, Counted, IdleState
<1>3. OwnWorker BY DEF ScanInit, OwnWorker, Active
<1>4. OwnResults /\ CancelIsMeant /\ OnlyStopsCut
  BY DEF ScanInit, OwnResults, CancelIsMeant, OnlyStopsCut, IdleState
<1>5. QED BY <1>1, <1>2, <1>3, <1>4 DEF ScanInv

(* A worker's step that leaves the display and what is left as they are.   *)
LEMMA BalanceKept ==
  ASSUME ScanInv, UNCHANGED left,
         shown'.scan = shown.scan, shown'.kind = shown.kind,
         shown'.progress = shown.progress, shown'.total = shown.total,
         shown'.results = shown.results,
         shown.error = NoScan \/ shown'.error = shown.error,
         shown'.scan # NoScan =>
           /\ Balanced(shown.scan)'
           /\ worker'[shown.scan] \in {"launched", "working", "midway"} => shown'.error = NoScan,
         shown'.scan = NoScan => shown'.error = shown.error,
         \A s \in Scans : worker'[s] \in {"none", "cleared"} =>
                            worker[s] \in {"none", "cleared"}
  PROVE  Counted'
BY DEF ScanInv, Counted

(* A launch takes the lock and clears the flag; nobody else is active.     *)
LEMMA LaunchKeeps == ASSUME ScanInv, NEW s \in Scans, Launch(s) PROVE ScanInv'
<1>1. /\ cancel' = FALSE /\ worker' = [worker EXCEPT ![s] = "cleared"]
      /\ UNCHANGED <<shown, left, stopped>>
      /\ ~shown.running /\ worker[s] = "none" /\ \A r \in Scans : worker[r] # "cleared"
  BY DEF Launch, ResetCancel, Free
<1>2. ScanType' BY <1>1 DEF ScanInv, ScanType, Active
<1>3. \A r \in Scans : worker[r] \notin Active BY <1>1 DEF ScanInv, OwnWorker
<1>4. \A r \in Scans : worker'[r] = (IF r = s THEN "cleared" ELSE worker[r])
  BY <1>1 DEF ScanInv, ScanType
<1>5. Counted'
  <2>1. shown.scan \in {NoScan} \union Scans BY DEF ScanInv, ScanType, Shown
  <2>2. shown.scan # NoScan => Balanced(shown.scan)'
    BY <1>1, <1>3, <1>4, <2>1 DEF ScanInv, Counted, Balanced, Ahead, Active
  <2>3. shown.scan # NoScan => worker'[shown.scan] \notin {"launched", "working", "midway"}
    BY <1>3, <1>4, <2>1 DEF Active
  <2>4. QED BY <1>1, <1>4, <2>2, <2>3, BalanceKept
<1>6. OwnWorker' BY <1>1, <1>3, <1>4 DEF ScanInv, OwnWorker, Active
<1>7. OwnResults' /\ CancelIsMeant' /\ OnlyStopsCut'
  BY <1>1 DEF ScanInv, OwnResults, CancelIsMeant, OnlyStopsCut
<1>8. QED BY <1>2, <1>5, <1>6, <1>7 DEF ScanInv

(* The new state is put on display: a flag set since was set for it.       *)
LEMMA DisplayKeeps == ASSUME ScanInv, NEW s \in Scans, Display(s) PROVE ScanInv'
<1>1. PICK kind \in Kinds :
        shown' = [IdleState EXCEPT !.running = TRUE, !.scan = s, !.kind = kind,
                                   !.total = Cardinality(Items)]
  BY DEF Display
<1>2. /\ shown'.running /\ shown'.scan = s /\ shown'.kind = kind
      /\ shown'.progress = 0 /\ shown'.total = Cardinality(Items)
      /\ shown'.results = {} /\ shown'.summary = NoScan /\ shown'.error = NoScan
  BY <1>1 DEF IdleState
<1>3. /\ worker[s] = "cleared" /\ worker' = [worker EXCEPT ![s] = "launched"]
      /\ UNCHANGED <<cancel, left, stopped>>
  BY DEF Display
<1>4. left[s] = Items BY <1>3 DEF ScanInv, Counted
<1>5. Cardinality(Items) \in Nat BY FS_CardinalityType, ScanConstants
<1>6. \A r \in Scans : worker'[r] = (IF r = s THEN "launched" ELSE worker[r])
  BY <1>3 DEF ScanInv, ScanType
<1>7. ScanType'
  <2>1. shown' = [running |-> TRUE, scan |-> s, kind |-> kind, progress |-> 0,
                  total |-> Cardinality(Items), results |-> {}, summary |-> NoScan,
                  error |-> NoScan]
    BY <1>1 DEF IdleState
  <2>2. shown' \in Shown BY <2>1, <1>5 DEF Shown
  <2>3. QED BY <2>2, <1>3 DEF ScanInv, ScanType, Active
<1>8. Counted'
  <2>1. IsFiniteSet(shown'.results) /\ Cardinality(shown'.results) = 0 BY <1>2, FS_EmptySet
  <2>2. left'[s] = Items /\ worker'[s] = "launched" BY <1>3, <1>4, <1>6
  <2>3. Ahead(s)' = 0 BY <1>2, <1>5, <2>2 DEF Ahead
  <2>4. \A r \in Scans : worker'[r] \in {"none", "cleared"} => left'[r] = Items
    BY <1>3, <1>6 DEF ScanInv, Counted
  <2>5. Balanced(s)' BY <2>2, <2>3 DEF Balanced
  <2>6. Cardinality(shown'.results) + Cardinality(left'[s]) <= shown'.total
    BY <1>2, <1>5, <2>1, <2>2
  <2>7. kind # "none" BY ScanConstants
  <2>8. QED BY <2>1, <2>4, <2>5, <2>6, <2>7, <1>2, NoScanIsNone DEF Counted
<1>9. OwnWorker' BY <1>2, <1>3, <1>6 DEF ScanInv, OwnWorker
<1>10. OwnResults' /\ OnlyStopsCut' BY <1>2 DEF OwnResults, OnlyStopsCut
<1>11. CancelIsMeant' BY <1>2, <1>3, <1>6 DEF ScanInv, CancelIsMeant
<1>12. QED BY <1>7, <1>8, <1>9, <1>10, <1>11 DEF ScanInv

LEMMA StartKeeps == ASSUME ScanInv, NEW s \in Scans, StartThread(s) PROVE ScanInv'
<1>1. worker[s] = "launched" /\ UNCHANGED <<shown, cancel, left, stopped>> BY DEF StartThread
<1>2. worker' = [worker EXCEPT ![s] = "working"] \/ worker' = [worker EXCEPT ![s] = "gone"]
  BY DEF StartThread
<1>3. ScanType' BY <1>1, <1>2 DEF ScanInv, ScanType, Active
<1>4. \A r \in Scans : \/ worker'[r] = worker[r]
                       \/ r = s /\ worker'[s] \in {"working", "gone"}
  BY <1>2 DEF ScanInv, ScanType
<1>5. Counted'
  <2>1. shown.scan = s /\ s # NoScan /\ shown.error = NoScan
    BY <1>1, NoScanIsNone DEF ScanInv, OwnWorker, Counted, Active
  <2>2. Balanced(s) BY <2>1 DEF ScanInv, Counted
  <2>3. Balanced(s)' BY <1>1, <1>4, <2>1, <2>2 DEF Balanced, Ahead
  <2>4. QED BY <1>1, <1>4, <2>1, <2>3, BalanceKept
<1>6. OwnWorker' BY <1>1, <1>4 DEF ScanInv, OwnWorker, Active
<1>7. OwnResults' /\ CancelIsMeant' /\ OnlyStopsCut'
  BY <1>1, <1>4 DEF ScanInv, OwnResults, CancelIsMeant, OnlyStopsCut
<1>8. QED BY <1>3, <1>5, <1>6, <1>7 DEF ScanInv

LEMMA StopKeeps == ASSUME ScanInv, Stop PROVE ScanInv'
<1>1. UNCHANGED <<shown, worker, left>> /\ cancel' = TRUE BY DEF Stop
<1>2. /\ stopped \subseteq stopped' /\ (shown.running => shown.scan \in stopped')
      /\ \A s \in Scans : worker[s] = "cleared" => s \in stopped'
  BY DEF Stop
<1>3. ScanType' /\ Counted' /\ OwnWorker' /\ OwnResults'
  BY <1>1 DEF ScanInv, ScanType, Counted, Balanced, Ahead, OwnWorker, OwnResults
<1>4. CancelIsMeant' /\ OnlyStopsCut'
  BY <1>1, <1>2 DEF ScanInv, CancelIsMeant, OnlyStopsCut
<1>5. QED BY <1>3, <1>4 DEF ScanInv

(* Where an active worker stands: its scan is the one on display.          *)
LEMMA WorkerShown ==
  ASSUME ScanInv, NEW s \in Scans, worker[s] \in Active
  PROVE  /\ shown.scan = s /\ shown.running /\ s # NoScan /\ shown \in Shown
         /\ shown.kind \in {"pool", "hops", "checks", "none"}
BY NoScanIsNone, ScanConstants DEF ScanInv, OwnWorker, ScanType, Shown

(* What a turn does to the worker, and what it needs of it.                *)
LEMMA TurnMoves ==
  ASSUME ScanInv, NEW s \in Scans, NEW first \in BOOLEAN, Turn(s, first)
  PROVE  /\ worker[s] = (IF first THEN "working" ELSE "midway")
         /\ worker'[s] = (IF first THEN "midway" ELSE "working")
         /\ \A r \in Scans : r # s => worker'[r] = worker[r]
         /\ worker' \in [Scans -> {"none", "cleared", "gone"} \union Active]
         /\ first => left[s] # {}
BY DEF Turn, Ready, ScanInv, ScanType, Active

(* The conjuncts a turn does not disturb.                                  *)
LEMMA TurnFrame ==
  ASSUME ScanInv, NEW s \in Scans, NEW first \in BOOLEAN, Turn(s, first),
         UNCHANGED <<cancel, stopped>>,
         shown'.running = shown.running, shown'.scan = shown.scan
  PROVE  OwnWorker' /\ CancelIsMeant'
<1>1. worker[s] \in Active BY TurnMoves DEF Active
<1>2. shown.scan = s /\ shown.running BY <1>1, WorkerShown
<1>3. \A r \in Scans : worker'[r] \in Active => worker[r] \in Active
  BY <1>1, TurnMoves
<1>4. \A r \in Scans : worker'[r] # "cleared"
  <2>1. \A r \in Scans : worker[r] # "cleared" BY <1>2 DEF ScanInv, OwnWorker
  <2>2. QED BY <2>1, TurnMoves
<1>5. OwnWorker' BY <1>2, <1>3, <1>4 DEF ScanInv, OwnWorker
<1>6. CancelIsMeant' BY <1>2, <1>4 DEF ScanInv, CancelIsMeant
<1>7. QED BY <1>5, <1>6

(* Counting puts a pool one ahead, and another scan level again.           *)
LEMMA CountKeeps == ASSUME ScanInv, NEW s \in Scans, Count(s) PROVE ScanInv'
<1> DEFINE first == shown.kind = "pool"
<1>1. /\ Turn(s, first) /\ UNCHANGED <<cancel, left, stopped>>
      /\ shown' = [shown EXCEPT !.progress = @ + 1]
  BY DEF Count
<1>2. /\ worker[s] = (IF first THEN "working" ELSE "midway")
      /\ worker'[s] = (IF first THEN "midway" ELSE "working")
      /\ \A r \in Scans : r # s => worker'[r] = worker[r]
      /\ worker' \in [Scans -> {"none", "cleared", "gone"} \union Active]
      /\ first => left[s] # {}
  <2>1. first \in BOOLEAN OBVIOUS
  <2>2. QED BY <1>1, <2>1, TurnMoves
<1>3. worker[s] \in Active BY <1>2 DEF Active
<1>4. shown.scan = s /\ s # NoScan /\ shown \in Shown BY <1>3, WorkerShown
<1>5. /\ shown'.progress = shown.progress + 1
      /\ shown'.running = shown.running /\ shown'.scan = s /\ shown'.kind = shown.kind
      /\ shown'.total = shown.total /\ shown'.summary = shown.summary
      /\ shown'.error = shown.error /\ shown'.results = shown.results
  BY <1>1, <1>4 DEF Shown
<1>6. ScanType'
  <2>1. shown.progress + 1 \in Nat BY <1>4 DEF Shown
  <2>2. shown' \in Shown BY <1>1, <1>4, <2>1 DEF Shown
  <2>3. QED BY <1>1, <1>2, <2>2 DEF ScanInv, ScanType
<1>7. Counted'
  <2>1. /\ shown.progress \in Nat /\ shown.total \in Nat
        /\ IsFiniteSet(shown.results) /\ Cardinality(shown.results) \in Nat
    BY CountsAreNat DEF ScanInv
  <2>2. Cardinality(left[s]) \in Nat BY LeftIsFinite DEF ScanInv
  <2>3. shown.error = NoScan /\ Balanced(s) BY <1>2, <1>4 DEF ScanInv, Counted
  <2>4. Ahead(s) = (IF first THEN 0 ELSE -1)
    BY <1>2, <2>3 DEF Balanced
  <2>5. Ahead(s)' = Ahead(s) + 1 BY <1>1, <1>5, <2>1, <2>2 DEF Ahead
  <2>6. Balanced(s)' BY <1>1, <1>2, <1>5, <2>4, <2>5 DEF Balanced
  <2>7. Cardinality(shown'.results) + Cardinality(left'[s]) <= shown'.total
    BY <1>1, <1>4, <1>5 DEF ScanInv, Counted
  <2>8. \A r \in Scans : worker'[r] \in {"none", "cleared"} => left'[r] = Items
    BY <1>1, <1>2 DEF ScanInv, Counted
  <2>9. QED BY <1>4, <1>5, <2>1, <2>3, <2>6, <2>7, <2>8 DEF ScanInv, Counted
<1>8. OwnWorker' /\ CancelIsMeant'
  <2>1. first \in BOOLEAN OBVIOUS
  <2>2. QED BY <1>1, <1>4, <1>5, <2>1, TurnFrame
<1>9. OwnResults' BY <1>4, <1>5 DEF ScanInv, OwnResults
<1>10. OnlyStopsCut' BY <1>1, <1>4, <1>5 DEF ScanInv, OnlyStopsCut, Shown
<1>11. QED BY <1>6, <1>7, <1>8, <1>9, <1>10 DEF ScanInv

(* Collecting moves a probe from those left to the results, or to none.    *)
LEMMA CollectKeeps == ASSUME ScanInv, NEW s \in Scans, Collect(s) PROVE ScanInv'
<1> DEFINE first == shown.kind # "pool"
<1>1. Turn(s, first) /\ UNCHANGED <<cancel, stopped>> BY DEF Collect
<1>2. /\ worker[s] = (IF first THEN "working" ELSE "midway")
      /\ worker'[s] = (IF first THEN "midway" ELSE "working")
      /\ \A r \in Scans : r # s => worker'[r] = worker[r]
      /\ worker' \in [Scans -> {"none", "cleared", "gone"} \union Active]
  <2>1. first \in BOOLEAN OBVIOUS
  <2>2. QED BY <1>1, <2>1, TurnMoves
<1>3. worker[s] \in Active BY <1>2 DEF Active
<1>4. /\ shown.scan = s /\ s # NoScan /\ shown \in Shown
      /\ shown.kind \in {"pool", "hops", "checks", "none"}
  BY <1>3, WorkerShown
<1>5. PICK i \in left[s], found \in Found[shown.kind] :
        /\ left' = [left EXCEPT ![s] = @ \ {i}]
        /\ shown' = [shown EXCEPT
             !.results = IF found THEN @ \union {[scan |-> s, item |-> i]} ELSE @]
  BY DEF Collect
<1>6. /\ shown'.results = IF found THEN shown.results \union {[scan |-> s, item |-> i]}
                                   ELSE shown.results
      /\ shown'.running = shown.running /\ shown'.scan = s /\ shown'.kind = shown.kind
      /\ shown'.total = shown.total /\ shown'.summary = shown.summary
      /\ shown'.error = shown.error /\ shown'.progress = shown.progress
  BY <1>4, <1>5 DEF Shown
<1>7. i \in Items BY <1>5 DEF ScanInv, ScanType
<1>8. ScanType'
  <2>1. shown'.results \in SUBSET [scan : Scans, item : Items]
    BY <1>4, <1>6, <1>7 DEF Shown
  <2>2. shown' = [shown EXCEPT !.results = shown'.results] BY <1>5, <1>4, <1>6 DEF Shown
  <2>3. shown' \in Shown BY <2>1, <2>2, <1>4 DEF Shown
  <2>4. left' \in [Scans -> SUBSET Items] BY <1>5 DEF ScanInv, ScanType
  <2>5. QED BY <1>1, <1>2, <2>3, <2>4 DEF ScanInv, ScanType
<1>9. Counted'
  <2>1. /\ shown.progress \in Nat /\ shown.total \in Nat
        /\ IsFiniteSet(shown.results) /\ Cardinality(shown.results) \in Nat
    BY CountsAreNat DEF ScanInv
  <2>2. IsFiniteSet(left[s]) /\ Cardinality(left[s]) \in Nat BY LeftIsFinite DEF ScanInv
  <2>3. shown.error = NoScan /\ Balanced(s) BY <1>2, <1>4 DEF ScanInv, Counted
  <2>4. Ahead(s) = (IF first THEN 0 ELSE 1)
    BY <1>2, <2>3 DEF Balanced
  <2>5. left'[s] = left[s] \ {i} BY <1>5 DEF ScanInv, ScanType
  <2>6. Cardinality(left'[s]) = Cardinality(left[s]) - 1
    BY <1>5, <2>2, <2>5, FS_RemoveElement
  <2>7. Ahead(s)' = Ahead(s) - 1 BY <1>6, <2>1, <2>2, <2>6 DEF Ahead
  <2>8. Balanced(s)' BY <1>2, <1>6, <2>4, <2>7 DEF Balanced
  <2>9. IsFiniteSet(shown'.results) /\ Cardinality(shown'.results) \in Nat
        /\ Cardinality(shown'.results) <= Cardinality(shown.results) + 1
    <3>1. CASE found
      <4>1. /\ IsFiniteSet(shown.results \union {[scan |-> s, item |-> i]})
            /\ Cardinality(shown.results \union {[scan |-> s, item |-> i]})
                 \in {Cardinality(shown.results), Cardinality(shown.results) + 1}
        BY <2>1, FS_AddElement
      <4>2. QED BY <3>1, <4>1, <1>6, <2>1
    <3>2. CASE ~found BY <3>2, <1>6, <2>1
    <3>3. QED BY <3>1, <3>2
  <2>10. Cardinality(shown'.results) + Cardinality(left'[s]) <= shown'.total
    <3>1. Cardinality(shown.results) + Cardinality(left[s]) <= shown.total
      BY <1>4 DEF ScanInv, Counted
    <3>2. QED BY <3>1, <2>1, <2>2, <2>6, <2>9, <1>6
  <2>11. \A r \in Scans : worker'[r] \in {"none", "cleared"} => left'[r] = Items
    <3> SUFFICES ASSUME NEW r \in Scans, worker'[r] \in {"none", "cleared"}
                 PROVE  left'[r] = Items
      OBVIOUS
    <3>1. r # s /\ worker[r] \in {"none", "cleared"} BY <1>2
    <3>2. left'[r] = left[r] BY <3>1, <1>5 DEF ScanInv, ScanType
    <3>3. QED BY <3>1, <3>2 DEF ScanInv, Counted
  <2>12. shown'.kind = "checks" => shown'.results = {}
    <3>1. shown.kind = "checks" => ~found BY <1>5 DEF Found
    <3>2. QED BY <3>1, <1>6 DEF ScanInv, Counted
  <2>13. shown'.kind # "none" BY <1>4, <1>6 DEF ScanInv, Counted
  <2>14. QED BY <1>4, <1>6, <2>3, <2>8, <2>9, <2>10, <2>11, <2>12, <2>13 DEF Counted
<1>10. OwnWorker' /\ CancelIsMeant'
  <2>1. first \in BOOLEAN OBVIOUS
  <2>2. QED BY <1>1, <1>4, <1>6, <2>1, TurnFrame
<1>11. OwnResults' BY <1>4, <1>6 DEF ScanInv, OwnResults
<1>12. OnlyStopsCut' BY <1>1, <1>4, <1>6 DEF ScanInv, OnlyStopsCut
<1>13. QED BY <1>8, <1>9, <1>10, <1>11, <1>12 DEF ScanInv

(* A pool sums up with nothing left, or because of a stop.                 *)
LEMMA SummariseKeeps == ASSUME ScanInv, NEW s \in Scans, Summarise(s) PROVE ScanInv'
<1>1. /\ worker[s] = "working" /\ UNCHANGED <<cancel, left, stopped>>
      /\ shown' = [shown EXCEPT !.summary = s]
      /\ worker' = [worker EXCEPT ![s] = "closing"]
  BY DEF Summarise
<1>2. shown.scan = s /\ shown.running /\ s # NoScan /\ shown \in Shown
  BY <1>1, WorkerShown DEF Active
<1>3. /\ shown'.summary = s /\ shown'.error = shown.error /\ shown'.running = shown.running
      /\ shown'.scan = shown.scan /\ shown'.kind = shown.kind
      /\ shown'.progress = shown.progress /\ shown'.total = shown.total
      /\ shown'.results = shown.results
  BY <1>1, <1>2 DEF Shown
<1>4. ScanType' BY <1>1, <1>2 DEF ScanInv, ScanType, Shown, Active
<1>5. \A r \in Scans : worker'[r] = (IF r = s THEN "closing" ELSE worker[r])
  BY <1>1 DEF ScanInv, ScanType
<1>6. shown.error = NoScan /\ Balanced(s) BY <1>1, <1>2 DEF ScanInv, Counted
<1>7. Ahead(s) = 0 BY <1>1, <1>6 DEF Balanced
<1>8. Counted'
  <2>1. Ahead(s)' = Ahead(s) BY <1>1, <1>3 DEF Ahead
  <2>2. Balanced(s)' BY <2>1, <1>5, <1>7 DEF Balanced
  <2>3. QED BY <2>2, <1>1, <1>2, <1>3, <1>5, <1>6, BalanceKept
<1>9. OwnWorker' BY <1>1, <1>2, <1>3, <1>5 DEF ScanInv, OwnWorker, Active
<1>10. OwnResults' BY <1>2, <1>3 DEF ScanInv, OwnResults
<1>11. CancelIsMeant' BY <1>1, <1>3, <1>5 DEF ScanInv, CancelIsMeant
<1>12. OnlyStopsCut'
  <2>1. CASE left[s] = {}
    <3>1. /\ Cardinality(left[s]) = 0 /\ shown.progress \in Nat /\ shown.total \in Nat
      BY <1>2, <2>1, FS_EmptySet DEF Shown
    <3>2. shown.progress = shown.total BY <3>1, <1>7 DEF Ahead
    <3>3. QED BY <3>1, <3>2, <1>3 DEF OnlyStopsCut
  <2>2. CASE HopsEnd BY <2>2, <1>3 DEF HopsEnd, OnlyStopsCut
  <2>3. CASE cancel BY <2>3, <1>1, <1>2, <1>3 DEF ScanInv, CancelIsMeant, OnlyStopsCut
  <2>4. QED BY <2>1, <2>2, <2>3 DEF Summarise
<1>13. QED BY <1>4, <1>8, <1>9, <1>10, <1>11, <1>12 DEF ScanInv

(* The error is noted, the count stays where it is.                        *)
LEMMA FailKeeps == ASSUME ScanInv, NEW s \in Scans, ScanFails(s) PROVE ScanInv'
<1>1. /\ worker[s] = "working" \/ (worker[s] = "midway" /\ shown.kind = "pool")
      /\ UNCHANGED <<cancel, left, stopped>>
      /\ shown' = [shown EXCEPT !.error = s]
      /\ worker' = [worker EXCEPT ![s] = "closing"]
  BY DEF ScanFails
<1>2. shown.scan = s /\ shown.running /\ s # NoScan /\ shown \in Shown
  BY <1>1, WorkerShown DEF Active
<1>3. /\ shown'.error = s /\ shown'.running = shown.running
      /\ shown'.scan = shown.scan /\ shown'.kind = shown.kind
      /\ shown'.progress = shown.progress /\ shown'.total = shown.total
      /\ shown'.results = shown.results /\ shown'.summary = shown.summary
  BY <1>1, <1>2 DEF Shown
<1>4. ScanType' BY <1>1, <1>2 DEF ScanInv, ScanType, Shown, Active
<1>5. \A r \in Scans : worker'[r] = (IF r = s THEN "closing" ELSE worker[r])
  BY <1>1 DEF ScanInv, ScanType
<1>6. shown.error = NoScan /\ Balanced(s) BY <1>1, <1>2 DEF ScanInv, Counted
<1>7. Counted'
  <2>1. Ahead(s)' = Ahead(s) BY <1>1, <1>3 DEF Ahead
  <2>2. worker'[s] = "closing" BY <1>5
  <2>3. Balanced(s)'
    BY <2>1, <2>2, <1>1, <1>2, <1>3, <1>6 DEF Balanced
  <2>4. QED BY <2>2, <2>3, <1>1, <1>2, <1>3, <1>5, <1>6, BalanceKept
<1>8. OwnWorker' BY <1>1, <1>2, <1>3, <1>5 DEF ScanInv, OwnWorker, Active
<1>9. OwnResults' BY <1>2, <1>3 DEF ScanInv, OwnResults
<1>10. CancelIsMeant' /\ OnlyStopsCut'
  BY <1>1, <1>3, <1>5 DEF ScanInv, CancelIsMeant, OnlyStopsCut
<1>11. QED BY <1>4, <1>7, <1>8, <1>9, <1>10 DEF ScanInv

LEMMA CloseKeeps == ASSUME ScanInv, NEW s \in Scans, Close(s) PROVE ScanInv'
<1>1. /\ worker[s] = "closing" /\ UNCHANGED <<cancel, left, stopped>>
      /\ shown' = [shown EXCEPT !.running = FALSE]
      /\ worker' = [worker EXCEPT ![s] = "gone"]
  BY DEF Close, Running
<1>2. shown.scan = s /\ shown.running /\ s # NoScan /\ shown \in Shown
  BY <1>1, WorkerShown DEF Active
<1>3. /\ shown'.error = shown.error /\ ~shown'.running
      /\ shown'.scan = shown.scan /\ shown'.kind = shown.kind
      /\ shown'.progress = shown.progress /\ shown'.total = shown.total
      /\ shown'.results = shown.results /\ shown'.summary = shown.summary
  BY <1>1, <1>2 DEF Shown
<1>4. ScanType' BY <1>1, <1>2 DEF ScanInv, ScanType, Shown, Active
<1>5. \A r \in Scans : worker'[r] = (IF r = s THEN "gone" ELSE worker[r])
  BY <1>1 DEF ScanInv, ScanType
<1>6. Balanced(s) BY <1>2 DEF ScanInv, Counted
<1>7. Counted'
  <2>1. Ahead(s)' = Ahead(s) BY <1>1, <1>3 DEF Ahead
  <2>2. worker'[s] = "gone" BY <1>5
  <2>3. Balanced(s)' BY <2>1, <2>2, <1>1, <1>3, <1>6 DEF Balanced
  <2>4. QED BY <2>2, <2>3, <1>1, <1>2, <1>3, <1>5, BalanceKept
<1>8. OwnWorker' BY <1>1, <1>2, <1>3, <1>5 DEF ScanInv, OwnWorker, Active
<1>9. OwnResults' BY <1>2, <1>3 DEF ScanInv, OwnResults
<1>10. CancelIsMeant' /\ OnlyStopsCut'
  BY <1>1, <1>3, <1>5 DEF ScanInv, CancelIsMeant, OnlyStopsCut
<1>11. QED BY <1>4, <1>7, <1>8, <1>9, <1>10 DEF ScanInv

THEOREM ScanInvariant == ScanSpec => []ScanInv
<1>1. ScanInv /\ [ScanNext]_scanVars => ScanInv'
  <2> SUFFICES ASSUME ScanInv, [ScanNext]_scanVars PROVE ScanInv' OBVIOUS
  <2>1. CASE UNCHANGED scanVars
    BY <2>1 DEF scanVars, ScanInv, ScanType, Counted, Balanced, Ahead, OwnWorker, OwnResults,
                CancelIsMeant, OnlyStopsCut
  <2>2. QED
    BY <2>1, LaunchKeeps, DisplayKeeps, StartKeeps, StopKeeps, CountKeeps, CollectKeeps,
       SummariseKeeps, FailKeeps, CloseKeeps
    DEF ScanNext
<1>2. QED BY <1>1, ScanInvInit, PTL DEF ScanSpec

-----------------------------------------------------------------------------
(* No thread of an earlier scan is left to write into the one on display,  *)
(* its count never passes its total, and the results never pass the count  *)
(* but by the hop that a trace has added and not counted yet.              *)
THEOREM ScanResultsBelong == ScanSpec => []ResultsBelong
<1>1. ScanInv => ResultsBelong
  <2> SUFFICES ASSUME ScanInv PROVE ResultsBelong OBVIOUS
  <2> DEFINE s == shown.scan
  <2>1. shown \in Shown /\ shown.kind \in {"pool", "hops", "checks", "none"}
    BY ScanConstants DEF ScanInv, ScanType, Shown
  <2>2. /\ shown.progress \in Nat /\ shown.total \in Nat
        /\ Cardinality(shown.results) \in Nat
    BY CountsAreNat DEF ScanInv
  <2>3. /\ shown.progress <= shown.total
        /\ \/ Cardinality(shown.results) <= shown.progress
           \/ /\ shown.kind = "hops" /\ worker[s] = "midway"
              /\ Cardinality(shown.results) = shown.progress + 1
    <3>1. CASE s = NoScan
      <4>1. shown.progress = 0 /\ shown.total = 0 /\ shown.results = {}
        BY <3>1 DEF ScanInv, Counted
      <4>2. QED BY <4>1, FS_EmptySet
    <3>2. CASE s \in Scans
      <4>1. IsFiniteSet(left[s]) /\ Cardinality(left[s]) \in Nat
        BY <3>2, LeftIsFinite DEF ScanInv
      <4>2. /\ Balanced(s)
            /\ Cardinality(shown.results) + Cardinality(left[s]) <= shown.total
        BY <3>2, NoScanIsNone DEF ScanInv, Counted
      <4>3. CASE Ahead(s) = 0 BY <4>1, <4>2, <4>3, <2>2 DEF Ahead
      <4>4. CASE Ahead(s) = 1 /\ left[s] # {}
        <5>1. Cardinality(left[s]) # 0 BY <4>1, <4>4, FS_EmptySet
        <5>2. QED BY <4>1, <4>2, <4>4, <5>1, <2>2 DEF Ahead
      <4>5. CASE worker[s] = "midway" /\ shown.kind # "pool" /\ Ahead(s) = -1
        <5>1. shown.progress <= shown.total
              /\ Cardinality(shown.results) <= shown.progress + 1
          BY <4>1, <4>2, <4>5, <2>2 DEF Ahead
        <5>2. shown.kind = "checks" => Cardinality(shown.results) = 0
          BY FS_EmptySet DEF ScanInv, Counted
        <5>3. shown.kind # "none" BY <3>2, NoScanIsNone DEF ScanInv, Counted
        <5>4. QED BY <5>1, <5>2, <5>3, <4>5, <2>1, <2>2
      <4>6. QED BY <4>2, <4>3, <4>4, <4>5 DEF Balanced
    <3>3. QED BY <3>1, <3>2, <2>1 DEF Shown
  <2>4. QED BY <2>3 DEF ScanInv, OwnWorker, OwnResults, ResultsBelong, Active
<1>2. QED BY <1>1, ScanInvariant, PTL

(* A stop pressed before a scan's launch cleared the flag does not cut it. *)
THEOREM ScanOnlyStopsCut == ScanSpec => []OnlyStopsCut
BY ScanInvariant, PTL DEF ScanInv
=============================================================================
