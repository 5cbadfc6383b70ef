------------------------------ MODULE Listener ------------------------------
(***************************************************************************)
(* One of the two listener threads, monitor/tcp_listener.py or             *)
(* monitor/udp_listener.py: "transport" says which.  The thread reads its  *)
(* configuration from the database at the head of every iteration, binds   *)
(* its ports anew when the configuration or the interface has changed,     *)
(* captures what arrives and answers by rule, at most MaxReplies times per *)
(* peer and window.                                                        *)
(*                                                                         *)
(* An iteration is Iterate followed by any number of the socket actions.   *)
(* Text is measured in fragments: what was received, what was captured in  *)
(* the database and what was lost is counted per peer.                     *)
(***************************************************************************)
EXTENDS Integers, SequencesExt

CONSTANTS
  Ports,        \* port numbers a request may name; those in 1..65535 are valid
  Validity,     \* for each of them, is it in range?
  Requests,     \* port lists the web UI submits
  Egresses,     \* subset of {"auto", "cellular"}
  Rules,        \* reply rules: [enabled, hits] with the line sizes they match
  NetDev,       \* the modem's network device
  None,
  Peers,        \* "ip:port" of the clients
  MaxConns,     \* _MAX_CONNECTIONS
  MaxLine,      \* _MAX_LINE_BYTES
  MaxReplies, Window, \* REPLY_MAX_PER_PEER, REPLY_WINDOW_SECONDS
  MaxSent,      \* bound: fragments sent by all peers
  MaxNewlines,  \* bound: newlines in a connection's buffer
  MaxRepeats,   \* bound: retries of a line whose reply could not be logged
  MaxTime       \* bound: the clock

ASSUME ListenerConstants ==
  /\ Ports \subseteq Nat \ {0}
  /\ Validity \in [Ports -> BOOLEAN] /\ Requests \subseteq Seq(Ports)
  /\ Egresses \subseteq {"auto", "cellular"} /\ Egresses # {}
  /\ NetDev # None /\ None \notin Peers
  /\ {MaxConns, MaxLine, MaxReplies} \subseteq Nat \ {0}
  /\ {Window, MaxSent, MaxNewlines, MaxRepeats, MaxTime} \subseteq Nat

VARIABLES
  transport,    \* "tcp" or "udp": which of the two threads this is
  stored, iface, \* environment: the setting in the database; the device that is up
  calm,         \* environment: no more faults and edits
  cfg,          \* the configuration read by the current iteration
  boundKey, sockets, \* _bound_key; ports with an open socket
  status,       \* the udp_status or tcp_status setting
  conns,        \* accepted connections by peer: what their buffer holds
  reading,      \* the peer whose lines _read is splitting off, if any
  replyTimes, now, \* _reply_times; the monotonic clock
  received, captured, \* history: fragments by peer
  dropped,      \* history: fragments given up with their connection
  unwritten,    \* history: fragments of lines whose row could not be written
  again,        \* history: fragments captured again, by peer
  unrecorded,   \* history: the status of the last rebinding could not be written
  replied       \* history: times at which a reply was sent, by peer

bindVars  == <<boundKey, sockets, status, unrecorded>>
worldVars == <<stored, iface, calm>>
guardVars == <<replyTimes, now, replied>>
connVars == <<conns, reading>>
textVars == <<received, captured, dropped, unwritten, again>>
listenVars == <<transport, worldVars, cfg, bindVars, connVars, guardVars, textVars>>

Disabled == [enabled |-> FALSE, ports |-> <<>>, egress |-> "auto", rules |-> <<>>]
Closed == [open |-> FALSE, buf |-> 0, newlines |-> 0]
Opened == [open |-> TRUE, buf |-> 0, newlines |-> 0]
Unbound == [enabled |-> FALSE, ports |-> {}, errors |-> {}, interface |-> None]
NoKey == <<>>       \* nothing was bound yet
NoSetting == [valid |-> FALSE, config |-> Disabled]
Faulty == ~calm

ListenInit ==
  /\ transport \in {"tcp", "udp"}
  /\ stored = NoSetting /\ iface \in {None, NetDev} /\ calm = FALSE
  /\ cfg = Disabled /\ boundKey = NoKey /\ sockets = {} /\ status = Unbound
  /\ unrecorded = FALSE
  /\ conns = [p \in Peers |-> Closed] /\ reading = None
  /\ replyTimes = [p \in Peers |-> <<>>] /\ now = 0
  /\ replied = [p \in Peers |-> <<>>]
  /\ received = [p \in Peers |-> 0] /\ captured = [p \in Peers |-> 0]
  /\ dropped = [p \in Peers |-> 0] /\ unwritten = [p \in Peers |-> 0]
  /\ again = [p \in Peers |-> 0]

-----------------------------------------------------------------------------
(* The configuration.                                                      *)

(* _valid_ports: duplicates go, the order stays; a port out of range makes *)
(* the whole configuration invalid.                                        *)
ValidPorts(req) == \A i \in DOMAIN req : Validity[req[i]]
Deduplicated(req) ==
  FoldLeft(LAMBDA seen, p : IF Contains(seen, p) THEN seen ELSE Append(seen, p),
           <<>>, req)

(* PUT /udp-config or /tcp-config: an invalid request changes nothing.     *)
ConfigPut ==
  /\ Faulty
  /\ \E req \in Requests, on \in BOOLEAN, egress \in Egresses :
       /\ ValidPorts(req)
       /\ stored' = [valid |-> TRUE,
                     config |-> [enabled |-> on, ports |-> Deduplicated(req),
                                 egress |-> egress, rules |-> Rules]]
  /\ UNCHANGED <<transport, iface, calm, cfg, bindVars, connVars, guardVars, textVars>>

(* effective_udp_config, effective_tcp_config: without a setting, or with  *)
(* one that no longer validates, the listener is off.                      *)
Effective(raw) == IF raw.valid THEN raw.config ELSE Disabled

(* resolve_egress: the modem's device while there is one, or any route.    *)
ResolveEgress(c) == IF c.egress = "cellular" THEN iface ELSE None

(* The first enabled rule that matches, 0 for none.                        *)
FindReply(c, line) ==
  IF c.enabled
  THEN SelectInSeq(c.rules, LAMBDA r : r.enabled /\ line \in r.hits)
  ELSE 0

-----------------------------------------------------------------------------
(* The sockets.                                                            *)

MutKey(c) == <<c.enabled, c.ports, c.egress>>
Key(c) == <<c.enabled, c.ports, c.egress, ResolveEgress(c)>>
ResolvedIn(key) == key[4]

DropConns ==
  /\ conns' = [p \in Peers |-> Closed]
  /\ dropped' = [p \in Peers |-> dropped[p] + conns[p].buf]

(* Every port of the configuration is opened, or recorded as an error.     *)
MutBindPorts(c, failed) == sockets' = sockets \union (ToSet(c.ports) \ failed)
BindPorts(c, failed) ==
  sockets' = IF c.enabled THEN ToSet(c.ports) \ failed ELSE {}

(* _sync.  The write of the status may fail: then the exception ends the   *)
(* iteration before _bound_key is assigned.                                *)
Sync(c) ==
  IF Key(c) = boundKey
  THEN UNCHANGED <<bindVars, conns, dropped>>
  ELSE /\ DropConns
       /\ \E failed \in SUBSET ToSet(c.ports) :
            /\ failed # {} => Faulty /\ c.enabled
            /\ BindPorts(c, failed)
            /\ \/ /\ status' = [enabled |-> c.enabled, ports |-> sockets',
                                errors |-> failed, interface |-> ResolveEgress(c)]
                  /\ boundKey' = Key(c) /\ unrecorded' = FALSE
               \/ Faulty /\ unrecorded' = TRUE /\ UNCHANGED <<status, boundKey>>

(* The head of an iteration, after the sockets of the one before.          *)
Iterate ==
  /\ reading = None
  /\ cfg' = Effective(stored)
  /\ Sync(cfg')
  /\ UNCHANGED <<transport, worldVars, reading, guardVars, received, captured, unwritten,
                 again>>

-----------------------------------------------------------------------------
(* The reply guard and the rules.                                          *)

(* _reply_allowed forgets what is older than the window and counts the     *)
(* rest; an allowed reply is counted before it is sent.  The times are in  *)
(* order, so what is left is the end of the list, from the first time that *)
(* is in the window.                                                       *)
From(times, first) ==
  IF first = 0 THEN <<>> ELSE SubSeq(times, first, Len(times))
MutRecent(p) ==
  From(replyTimes[p], SelectInSeq(replyTimes[p], LAMBDA t : t > now - Window))
Recent(p) ==
  From(replyTimes[p], SelectInSeq(replyTimes[p], LAMBDA t : t >= now - Window))
ReplyAllowed(p) == Len(Recent(p)) < MaxReplies

CountReply(p) ==
  /\ ReplyAllowed(p)
  /\ replyTimes' = [replyTimes EXCEPT ![p] = Append(Recent(p), now)]
ReplySent(p) == CountReply(p) /\ replied' = [replied EXCEPT ![p] = Append(@, now)]
Reply(p) ==
  \/ ReplySent(p)
  \/ CountReply(p) /\ Faulty /\ UNCHANGED replied
  \/ /\ ~ReplyAllowed(p)
     /\ replyTimes' = [replyTimes EXCEPT ![p] = Recent(p)] /\ UNCHANGED replied

(* One line or datagram: captured whatever it is, then answered by rule.   *)
Matches(line) == FindReply(cfg, line) # 0
Captured(p, line) == captured' = [captured EXCEPT ![p] = @ + line]
Answer(p, line) ==
  /\ IF Matches(line) THEN Reply(p) ELSE UNCHANGED <<replyTimes, replied>>
  /\ UNCHANGED now

(* The reply goes out, but the row that records it cannot be written.      *)
AnswerUnlogged(p, line) == Faulty /\ Matches(line) /\ ReplySent(p) /\ UNCHANGED now

(* The row of the line cannot be written: the line is gone, unanswered.    *)
Unwritten(p, line) ==
  /\ Faulty
  /\ unwritten' = [unwritten EXCEPT ![p] = @ + line]
  /\ UNCHANGED <<guardVars, captured>>

-----------------------------------------------------------------------------
(* TCP connections.                                                        *)

Unsent == MaxSent - SumFunction(received)
OpenConns == {p \in Peers : conns[p].open}

(* Past the connection cap the client is closed at once.                   *)
Accept(p) ==
  /\ transport = "tcp" /\ reading = None /\ conns[p] = Closed /\ sockets # {}
  /\ conns' = IF Cardinality(OpenConns) >= MaxConns THEN conns
              ELSE [conns EXCEPT ![p] = Opened]
  /\ UNCHANGED <<transport, worldVars, cfg, bindVars, reading, guardVars, textVars>>

(* A socket that is ready, between two others of the same select.          *)
MayRead(p) == transport = "tcp" /\ reading = None /\ p \in OpenConns

(* recv: some fragments with newlines among them.                          *)
Read(p) ==
  /\ MayRead(p)
  /\ \E n \in 0 .. Unsent, k \in 0 .. MaxNewlines - conns[p].newlines :
       /\ n + k > 0
       /\ received' = [received EXCEPT ![p] = @ + n]
       /\ conns' = [conns EXCEPT ![p].buf = @ + n, ![p].newlines = @ + k]
  /\ reading' = p
  /\ UNCHANGED <<transport, worldVars, cfg, bindVars, guardVars, captured, dropped,
                 unwritten, again>>

(* _handle_line, after which the read goes on with "next".  An empty line  *)
(* is skipped.  A failing write raises, and that ends the iteration: what  *)
(* was not split off yet stays in the buffer, newlines and all.            *)
HandleLine(p, line, next) ==
  \/ /\ line = 0 /\ reading' = next
     /\ UNCHANGED <<guardVars, captured, unwritten>>
  \/ /\ line > 0 /\ reading' = next
     /\ Captured(p, line) /\ Answer(p, line) /\ UNCHANGED unwritten
  \/ /\ line > 0 /\ reading' = None
     /\ Captured(p, line) /\ AnswerUnlogged(p, line) /\ UNCHANGED unwritten
  \/ line > 0 /\ reading' = None /\ Unwritten(p, line)

SplitLine(p) ==
  /\ reading = p /\ conns[p].newlines > 0
  /\ \E line \in 0 .. conns[p].buf :
       /\ conns' = [conns EXCEPT ![p].buf = @ - line, ![p].newlines = @ - 1]
       /\ HandleLine(p, line, p)
  /\ UNCHANGED <<transport, worldVars, cfg, bindVars, received, dropped, again>>

(* No newline is left; too long a rest is taken for one line.              *)
EndRead(p) ==
  /\ reading = p /\ conns[p].newlines = 0
  /\ LET line == IF conns[p].buf > MaxLine THEN conns[p].buf ELSE 0 IN
       /\ conns' = [conns EXCEPT ![p].buf = @ - line]
       /\ HandleLine(p, line, None)
  /\ UNCHANGED <<transport, worldVars, cfg, bindVars, received, dropped, again>>

(* The peer closes: what is left without a newline is a line too, and what *)
(* an exception left unsplit is one line with its newlines.  The buffer is *)
(* emptied after the row is written, so a write that fails is tried again  *)
(* by the next iteration.                                                  *)
MutPeerCloses(p) ==
  /\ MayRead(p)
  /\ conns' = [conns EXCEPT ![p] = Closed]
  /\ UNCHANGED <<transport, worldVars, cfg, bindVars, reading, guardVars, textVars>>
PeerCloses(p) ==
  /\ MayRead(p)
  /\ LET rest == conns[p].buf IN
       /\ IF rest = 0 /\ conns[p].newlines = 0 THEN UNCHANGED <<guardVars, captured>>
          ELSE Captured(p, rest) /\ Answer(p, rest)
       /\ conns' = [conns EXCEPT ![p] = Closed]
  /\ UNCHANGED <<transport, worldVars, cfg, bindVars, reading, received, dropped, unwritten,
                 again>>

(* The reply goes out but its own row cannot be written: the buffer is     *)
(* still there, and the next iteration captures and answers it again.      *)
CloseAgain(p) ==
  /\ MayRead(p) /\ again[p] < MaxRepeats
  /\ LET rest == conns[p].buf IN
       /\ rest > 0 \/ conns[p].newlines > 0
       /\ Captured(p, rest) /\ AnswerUnlogged(p, rest)
       /\ again' = [again EXCEPT ![p] = @ + rest]
  /\ UNCHANGED <<transport, worldVars, cfg, bindVars, connVars, received, dropped, unwritten>>

(* recv fails: the buffer goes with the connection.                        *)
ConnectionReset(p) ==
  /\ MayRead(p) /\ Faulty
  /\ dropped' = [dropped EXCEPT ![p] = @ + conns[p].buf]
  /\ conns' = [conns EXCEPT ![p] = Closed]
  /\ UNCHANGED <<transport, worldVars, cfg, bindVars, reading, guardVars, received, captured,
                 unwritten, again>>

-----------------------------------------------------------------------------
(* UDP datagrams, the empty one included.                                  *)

Datagram(p) ==
  /\ transport = "udp" /\ sockets # {}
  /\ \E n \in 0 .. Unsent :
       /\ received' = [received EXCEPT ![p] = @ + n]
       /\ \/ /\ Captured(p, n) /\ UNCHANGED unwritten
             /\ Answer(p, n) \/ AnswerUnlogged(p, n)
          \/ Unwritten(p, n)
  /\ UNCHANGED <<transport, worldVars, cfg, bindVars, connVars, dropped, again>>

-----------------------------------------------------------------------------
(* The environment.                                                        *)

threadVars == <<transport, cfg, bindVars, connVars, textVars>>

InterfaceChanges ==
  /\ Faulty
  /\ iface' \in {None, NetDev} \ {iface}
  /\ UNCHANGED <<threadVars, guardVars, stored, calm>>

ClockAdvances ==
  /\ now < MaxTime
  /\ now' = now + 1
  /\ UNCHANGED <<threadVars, worldVars, replyTimes, replied>>

(* From here on no edit, no interface change and no failing call.          *)
ListenSettles ==
  /\ Faulty
  /\ calm' = TRUE
  /\ UNCHANGED <<threadVars, guardVars, stored, iface>>

ListenNext ==
  \/ ConfigPut \/ Iterate \/ InterfaceChanges \/ ClockAdvances \/ ListenSettles
  \/ \E p \in Peers :
       \/ Accept(p) \/ Read(p) \/ SplitLine(p) \/ EndRead(p)
       \/ PeerCloses(p) \/ CloseAgain(p) \/ ConnectionReset(p) \/ Datagram(p)

ListenSpec == ListenInit /\ [][ListenNext]_listenVars

(* The thread's loop never ends: a read comes to an end, since it splits a *)
(* buffer that does not grow meanwhile, and then the next iteration comes, *)
(* however many clients send, since select names each socket once.         *)
Reading == \E p \in Peers : SplitLine(p) \/ EndRead(p)
FairListenSpec == ListenSpec /\ WF_listenVars(Reading) /\ SF_listenVars(Iterate)

-----------------------------------------------------------------------------
(* The key of the sockets that are open now is the recorded one: as the    *)
(* comment at _bound_key says, it is that "of the currently-bound          *)
(* listeners", so that comparing with it tells whether to bind anew.  What *)
(* the web UI shows as listening and failed is what listens and what does  *)
(* not.  The exception is a rebinding whose status could not be written:   *)
(* then both are still about the sockets closed before.                    *)
KeyIsBound ==
  \/ unrecorded
  \/ boundKey = NoKey /\ sockets = {}
  \/ LET wanted == IF boundKey[1] THEN ToSet(boundKey[2]) ELSE {} IN
       /\ sockets \subseteq wanted
       /\ status.ports = sockets /\ status.errors = wanted \ sockets
       /\ status.interface = ResolvedIn(boundKey)

(* Whatever the stream is cut into, a peer's text is in the database, in   *)
(* the buffer of its open connection, was given up with a connection that  *)
(* was reset or dropped by a rebinding, or was the one line or datagram    *)
(* whose own row could not be written: a failing write loses nothing that  *)
(* was read with that line or after it.  Text is captured twice only when  *)
(* the peer has closed and the row of the reply could not be written.      *)
TextAccountedFor ==
  \A p \in Peers :
    received[p] = captured[p] - again[p] + conns[p].buf + dropped[p] + unwritten[p]

(* In no window does a peer get more than MaxReplies automatic replies, so *)
(* that two responders cannot answer each other for ever.                  *)
RepliesCapped ==
  \A p \in Peers, t \in 0 .. now :
    Cardinality({i \in DOMAIN replied[p] :
                   t <= replied[p][i] /\ replied[p][i] <= t + Window}) <= MaxReplies

(* Once edits, interfaces and faults settle, the thread listens for good   *)
(* on the ports of the stored configuration over the interface that is up, *)
(* except those it reported it could not bind.  It stays deaf only when    *)
(* the status of a rebinding was not written and the configuration has     *)
(* been put back since to the one recorded before it.                      *)
InService(c) ==
  /\ status.interface = ResolveEgress(c)
  /\ sockets = IF c.enabled THEN ToSet(c.ports) \ status.errors ELSE {}
Converges ==
  calm ~> [](LET c == Effective(stored)
             IN  boundKey = Key(c) /\ (unrecorded \/ InService(c)))
=============================================================================
