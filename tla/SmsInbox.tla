------------------------------ MODULE SmsInbox ------------------------------
(***************************************************************************)
(* The SMS inbox: the modem's storage, its mirror in the sms table, and    *)
(* the auto-responder (the SMS part of core/daemon.py, modem/sms.py and    *)
(* the sms methods of storage/db.py).                                      *)
(*                                                                         *)
(* A message is a number of pieces, each stored by the modem in a slot of  *)
(* its own as it arrives.  What the daemon identifies a message by, sender, *)
(* time and text of the pieces read so far, is the body below: a message   *)
(* of which only one piece has arrived has another body than the whole.    *)
(* Commands and the periodic fetch run on one thread, so a command comes   *)
(* before a fetch or after its last reply; messages arrive at any moment.  *)
(***************************************************************************)
EXTENDS Naturals

CONSTANTS
  Messages, Pieces,    \* messages, and the number of pieces of each
  PeerOf,              \* the sender of each message
  Wants,               \* the bodies an enabled reply rule matches
  Sims, Slots,         \* SIM cards, each with its own message slots (numbers)
  None,                \* an empty slot
  MaxPerPeer,          \* AUTO_REPLY_MAX_PER_PEER
  Faults               \* failing modem and database, restarts, SIM swaps, an operator

Piece == UNION {{m} \X (1 .. Pieces[m]) : m \in Messages}
Body  == UNION {{m} \X {ns \in SUBSET (1 .. Pieces[m]) : ns # {}} : m \in Messages}
Peers == {PeerOf[m] : m \in Messages}

ASSUME SmsConstants ==
  /\ Pieces \in [Messages -> Nat \ {0}]
  /\ Wants \subseteq Body
  /\ None \notin Piece
  /\ Slots \subseteq Nat
  /\ MaxPerPeer \in Nat /\ Faults \in BOOLEAN

VARIABLES
  storage,    \* the modem: each SIM's slots
  sim,        \* the SIM in use
  waiting,    \* pieces the network still has to deliver
  daemon,     \* "detached" (no driver), "busy" (a state without fetching) or "safe"
  pending,    \* _sms_pending
  inbox,      \* the inbound rows: body, modem_indices, read
  outbox,     \* the new rows of this fetch still to be considered for a reply
  recent,     \* replies counted for each peer in the rolling window
  calm,       \* no fault and no operator from here on
  answered,   \* history: replies to a row since it was inserted
  replies     \* history: replies to a message

historyVars == <<answered, replies>>
modemVars == <<storage, sim, waiting>>
vars == <<modemVars, daemon, pending, inbox, outbox, recent, calm, historyVars>>

Row == [body : Body, at : SUBSET Slots, read : BOOLEAN]
Faulty == Faults /\ ~calm
Empty == [s \in Slots |-> None]
Enough == 2     \* bound: more replies to a message are not told apart
NoReplies == [b \in Body |-> 0]

Init ==
  /\ storage = [s \in Sims |-> Empty] /\ sim \in Sims
  /\ waiting = Piece
  /\ daemon = "detached" /\ pending = FALSE
  /\ inbox = {} /\ outbox = {}
  /\ recent = [p \in Peers |-> 0]
  /\ calm = FALSE
  /\ answered = NoReplies /\ replies = [m \in Messages |-> 0]

-----------------------------------------------------------------------------
(* reassemble_inbound: the pieces of a message present, with their slots.  *)
(* Copies of a single-piece message are rows of the same identity; the     *)
(* last one's slot is what stays in the table.                             *)
Held(m) == {s \in Slots : storage[sim][s] # None /\ storage[sim][s][1] = m}
BodyOf(m) == <<m, {storage[sim][s][2] : s \in Held(m)}>>
Listed == {BodyOf(m) : m \in {n \in Messages : Held(n) # {}}}

SlotsOf(b) ==
  IF Pieces[b[1]] = 1 THEN {s \in Held(b[1]) : \A t \in Held(b[1]) : t <= s}
  ELSE Held(b[1])

RowsOf(b) == {r \in inbox : r.body = b}

(* upsert_inbound_sms: rows the modem no longer lists go, rows it still    *)
(* lists keep their read state, the others are new and unread.             *)
MutKept(b) == FALSE
Kept(b) == \E r \in RowsOf(b) : r.read
MutSynced ==
  {[body |-> b, at |-> SlotsOf(b), read |-> Kept(b)] : b \in Listed}
    \union {r \in inbox : r.body \notin Listed}
Synced == {[body |-> b, at |-> SlotsOf(b), read |-> Kept(b)] : b \in Listed}
MutNewRows == Listed
NewRows == {b \in Listed : RowsOf(b) = {}}

(* What was answered of a row is forgotten with the row.                   *)
Forget(rs) == answered' = [b \in Body |->
                             IF \E r \in rs : r.body = b THEN answered[b] ELSE 0]

-----------------------------------------------------------------------------
(* The daemon.                                                             *)

Idle == outbox = {}

(* The backstop poll, and the operator's refresh.                          *)
Poll ==
  /\ Idle /\ daemon = "safe"
  /\ pending' = TRUE
  /\ UNCHANGED <<modemVars, daemon, inbox, outbox, recent, calm, historyVars>>

(* The listing, the write of the rows, or the report of the new ones may   *)
(* fail; the last leaves new rows that nobody will answer.                 *)
Fetch ==
  /\ Idle /\ daemon = "safe" /\ pending
  /\ pending' = FALSE
  /\ \/ inbox' = Synced /\ outbox' = NewRows /\ Forget(Synced)
     \/ Faulty /\ inbox' = Synced /\ Forget(Synced) /\ UNCHANGED outbox
     \/ Faulty /\ UNCHANGED <<inbox, outbox, answered>>
  /\ UNCHANGED <<modemVars, daemon, recent, calm, replies>>

MutAllowed(peer) == recent[peer] <= MaxPerPeer
Allowed(peer) == recent[peer] < MaxPerPeer

Answer(b) ==
  /\ answered' = [answered EXCEPT ![b] = @ + 1]
  /\ replies' = [replies EXCEPT ![b[1]] = IF @ < Enough THEN @ + 1 ELSE @]

(* One new row of _auto_reply: no rule, the loop guard, or a reply, which  *)
(* the guard counts before it is sent.  A failing modem costs this reply;  *)
(* any other exception, encoding the reply or recording the one just sent, *)
(* ends the tick and forgets the other new rows.                           *)
ConsiderReply ==
  /\ \E b \in outbox :
       LET peer == PeerOf[b[1]] IN
       \/ /\ b \notin Wants \/ ~Allowed(peer)
          /\ outbox' = outbox \ {b}
          /\ UNCHANGED <<recent, historyVars>>
       \/ /\ b \in Wants /\ Allowed(peer)
          /\ recent' = [recent EXCEPT ![peer] = @ + 1]
          /\ \/ outbox' = outbox \ {b} /\ Answer(b)
             \/ Faulty /\ outbox' \in {outbox \ {b}, {}} /\ UNCHANGED historyVars
             \/ Faulty /\ outbox' = {} /\ Answer(b)
  /\ UNCHANGED <<modemVars, daemon, pending, inbox, calm>>

WindowPasses ==
  /\ \E p \in Peers : recent[p] > 0 /\ recent' = [recent EXCEPT ![p] = @ - 1]
  /\ UNCHANGED <<modemVars, daemon, pending, inbox, outbox, calm, historyVars>>

(* _delete_sms: the slots the row remembers are deleted one by one, each   *)
(* of which may fail; the row goes in any case.                            *)
DeleteSms ==
  /\ Idle /\ Faulty
  /\ \E r \in inbox :
       /\ inbox' = inbox \ {r} /\ Forget(inbox \ {r})
       /\ IF daemon = "detached" THEN UNCHANGED <<storage, pending>>
          ELSE /\ \E failed \in SUBSET r.at :
                    storage' = [storage EXCEPT ![sim] =
                      [s \in Slots |-> IF s \in r.at \ failed THEN None ELSE @[s]]]
               /\ pending' = TRUE
  /\ UNCHANGED <<sim, waiting, daemon, outbox, recent, calm, replies>>

(* _clear_sms: the rows are left to the next fetch.                        *)
ClearSms ==
  /\ Idle /\ Faulty
  /\ IF daemon = "detached" THEN UNCHANGED storage
     ELSE \/ storage' = [storage EXCEPT ![sim] = Empty]
          \/ UNCHANGED storage
  /\ pending' = TRUE
  /\ UNCHANGED <<sim, waiting, daemon, inbox, outbox, recent, calm, historyVars>>

MarkSmsRead ==
  /\ Idle /\ Faulty
  /\ inbox' = {[r EXCEPT !.read = TRUE] : r \in inbox}
  /\ UNCHANGED <<modemVars, daemon, pending, outbox, recent, calm, historyVars>>

(* The connection state machine moves; some of its ways to a safe state    *)
(* read the SIM, which asks for a fetch.                                   *)
StateChanges ==
  /\ Idle /\ ~calm
  /\ daemon' \in {"detached", "busy", "safe"} \ {daemon}
  /\ pending' = pending \/ (daemon' = "safe" /\ pending' = TRUE)
  /\ UNCHANGED <<modemVars, inbox, outbox, recent, calm, historyVars>>

Restart ==
  /\ Faulty
  /\ daemon' = "detached" /\ pending' = FALSE /\ outbox' = {}
  /\ recent' = [p \in Peers |-> 0]
  /\ UNCHANGED <<modemVars, inbox, calm, historyVars>>

-----------------------------------------------------------------------------
(* The network and the SIM slot.                                           *)

(* A piece is stored in a free slot.  Its indication may go to a port the  *)
(* daemon does not own.                                                    *)
Arrive ==
  /\ \E p \in waiting, s \in Slots :
       /\ storage[sim][s] = None
       /\ storage' = [storage EXCEPT ![sim][s] = p]
       /\ waiting' = waiting \ {p}
  /\ pending' \in {pending, TRUE}
  /\ UNCHANGED <<sim, daemon, inbox, outbox, recent, calm, historyVars>>

(* The network delivers a single-piece message again.                      *)
Redeliver ==
  /\ Faulty
  /\ \E t \in Slots, s \in Slots :
       /\ storage[sim][t] # None /\ Pieces[storage[sim][t][1]] = 1
       /\ storage[sim][s] = None
       /\ storage' = [storage EXCEPT ![sim][s] = storage[sim][t]]
  /\ pending' \in {pending, TRUE}
  /\ UNCHANGED <<sim, waiting, daemon, inbox, outbox, recent, calm, historyVars>>

SwapSim ==
  /\ Faulty
  /\ sim' \in Sims \ {sim}
  /\ UNCHANGED <<storage, waiting, daemon, pending, inbox, outbox, recent, calm,
                 historyVars>>

Settle ==
  /\ ~calm /\ daemon = "safe"
  /\ calm' = TRUE
  /\ UNCHANGED <<modemVars, daemon, pending, inbox, outbox, recent, historyVars>>

Next ==
  \/ Poll \/ Fetch \/ ConsiderReply \/ WindowPasses
  \/ DeleteSms \/ ClearSms \/ MarkSmsRead \/ StateChanges \/ Restart
  \/ Arrive \/ Redeliver \/ SwapSim \/ Settle

Spec == Init /\ [][Next]_vars

(* The loop ticks for ever, its poll timer comes round.                    *)
FairSpec == Spec /\ WF_vars(Poll) /\ WF_vars(Fetch) /\ WF_vars(ConsiderReply)

-----------------------------------------------------------------------------
(* Every variable has its type, and the table has one row per body.        *)
TypeOK ==
  /\ storage \in [Sims -> [Slots -> Piece \union {None}]] /\ sim \in Sims
  /\ waiting \subseteq Piece
  /\ daemon \in {"detached", "busy", "safe"}
  /\ pending \in BOOLEAN /\ calm \in BOOLEAN
  /\ inbox \subseteq Row
  /\ \A r1, r2 \in inbox : r1.body = r2.body => r1 = r2
  /\ outbox \subseteq Body
  /\ recent \in [Peers -> 0 .. MaxPerPeer]
  /\ answered \in [Body -> Nat] /\ replies \in [Messages -> 0 .. Enough]

(* A row is answered at most once while it stays in the inbox, whatever    *)
(* fetch, write or reply fails in between and however often it is listed.  *)
RowAnsweredOnce == \A b \in Body : answered[b] <= 1

(* "preserving our app-managed read state across refreshes": a row the     *)
(* user has read does not become unread.                                   *)
ReadStaysRead ==
  [][\A r \in inbox : r.read => \A n \in inbox' : n.body = r.body => n.read]_vars

(* Once nothing disturbs it the inbox shows for good exactly what the      *)
(* modem holds, even when the indication of the last message was lost.     *)
InboxConverges == calm ~> []({r.body : r \in inbox} = Listed)

(* "For each genuinely-new inbound message, send the first matching        *)
(* auto-reply rule's response": one message, one reply.                    *)
MessageAnsweredOnce == \A m \in Messages : replies[m] <= 1
=============================================================================
