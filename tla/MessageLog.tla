---------------------------- MODULE MessageLog ----------------------------
(***************************************************************************)
(* The capture log of one listener (udp_messages or tcp_messages in        *)
(* storage/db.py) and its unread badge: the settings row keeps the highest *)
(* message id the user has seen, and whatever inbound row is newer counts  *)
(* as unread.  The listener thread adds rows; web threads delete, clear    *)
(* and mark as read.  Each database call holds the lock, but marking as    *)
(* read is two of them.                                                    *)
(***************************************************************************)
EXTENDS Integers, FiniteSets

CONSTANTS
  Readers,      \* web threads that mark as read
  MaxRows,      \* MAX_ROWS, the cap _prune applies
  MaxId         \* bound: rows ever added

ASSUME MessageLogConstants == MaxRows \in Nat \ {0} /\ MaxId \in Nat

VARIABLES
  rows,         \* ids in the table
  inbound,      \* those of the rows ever added that are inbound
  lastId,       \* the table's AUTOINCREMENT sequence
  watermark,    \* the last_read_id setting
  marking,      \* by web thread: the maximum it has selected, or Idle
  seen          \* history: rows there when a mark-read selected its maximum

msgVars == <<rows, inbound, lastId, watermark, marking, seen>>

Idle == -1

MsgTypeOK ==
  /\ rows \subseteq 1 .. lastId /\ inbound \subseteq 1 .. lastId
  /\ lastId \in Nat /\ watermark \in 0 .. lastId
  /\ marking \in [Readers -> {Idle} \union (0 .. lastId)]
  /\ seen \subseteq 1 .. lastId

MsgInit ==
  /\ rows = {} /\ inbound = {} /\ lastId = 0 /\ watermark = 0
  /\ marking = [w \in Readers |-> Idle] /\ seen = {}

(* SQLite never gives an id of an AUTOINCREMENT table twice.               *)
MutNextId == IF rows = {} THEN 1 ELSE 1 + CHOOSE m \in rows : \A r \in rows : r <= m
NextId == lastId + 1

(* The rows in the table once "added" is and the cap is applied.           *)
Pruned(added) == {r \in added : \A m \in added : r > m - MaxRows}

(* add_udp_message, add_tcp_message: the row and the pruning are committed *)
(* together.                                                               *)
AddMessage ==
  /\ NextId <= MaxId
  /\ lastId' = NextId
  /\ rows' = Pruned(rows \union {NextId})
  /\ inbound' \in {inbound \ {NextId}, inbound \union {NextId}}
  /\ seen' = seen \ {NextId}
  /\ UNCHANGED <<watermark, marking>>

DeleteMessage(r) ==
  /\ r \in rows
  /\ rows' = rows \ {r}
  /\ UNCHANGED <<inbound, lastId, watermark, marking, seen>>

ClearMessages ==
  /\ rows # {}
  /\ rows' = {}
  /\ UNCHANGED <<inbound, lastId, watermark, marking, seen>>

(* _mark_read: the maximum over the inbound rows, 0 if there is none, is   *)
(* read under the lock and written under the lock taken again.             *)
Inbox == rows \intersect inbound
NewestInbound(m) ==
  \/ Inbox = {} /\ m = 0
  \/ m \in Inbox /\ \A r \in Inbox : r <= m

SelectNewest(w) ==
  /\ marking[w] = Idle
  /\ \E m \in 0 .. lastId :
       /\ NewestInbound(m)
       /\ marking' = [marking EXCEPT ![w] = m]
       /\ seen' = seen \union {r \in Inbox : r <= m}
  /\ UNCHANGED <<rows, inbound, lastId, watermark>>

WriteWatermark(w) ==
  /\ marking[w] # Idle
  /\ watermark' = marking[w]
  /\ marking' = [marking EXCEPT ![w] = Idle]
  /\ UNCHANGED <<rows, inbound, lastId, seen>>

MsgNext ==
  \/ AddMessage \/ ClearMessages
  \/ \E r \in rows : DeleteMessage(r)
  \/ \E w \in Readers : SelectNewest(w) \/ WriteWatermark(w)

MsgSpec == MsgInit /\ [][MsgNext]_msgVars

(* _count_unread.                                                          *)
Unread == {r \in Inbox : r > watermark}

(* A message that was never in the table when the user marked it as read   *)
(* counts as unread, whatever is deleted, cleared or pruned meanwhile and  *)
(* however slow the marking is.                                            *)
NewIsUnread == Inbox \subseteq Unread \union seen
=============================================================================
