-------------------------- MODULE Monitors_proofs --------------------------
(***************************************************************************)
(* The listeners: what one reports is what it is bound to, no byte of a    *)
(* stream is unaccounted for and no peer is answered without end, whatever *)
(* the ports, rules, line length, reply limit and number of clients.  The  *)
(* probes: a window shows what was measured in it, whatever the lengths of *)
(* buckets, windows and retentions.                                        *)
(***************************************************************************)
EXTENDS Listener, Probes, Uptime, FiniteSetTheorems, TLAPS

(* A set of numbers has a least one: among its initial segments, which are *)
(* finite, there is a smallest.                                            *)
LEMMA LeastOfSet ==
  ASSUME NEW I \in SUBSET Nat, I # {}
  PROVE  Min(I) \in I /\ \A i \in I : Min(I) <= i
<1> DEFINE Upto(k) == I \intersect (0 .. k)
           T == {Upto(k) : k \in I}
           R == StrictSubsetOrdering(I)
<1>1. T \subseteq FiniteSubsetsOf(I)
  <2>1. \A k \in I : Upto(k) \in SUBSET (0 .. k) /\ IsFiniteSet(0 .. k)
    BY FS_Interval
  <2>2. \A k \in I : IsFiniteSet(Upto(k)) BY <2>1, FS_Subset
  <2>3. QED BY <2>2 DEF FiniteSubsetsOf
<1>2. \E x \in T : \A y \in T : <<y, x>> \notin R
  <2>1. IsWellFoundedOn(R, FiniteSubsetsOf(I)) BY FS_StrictSubsetOrderingWellFounded
  <2>2. T # {} OBVIOUS
  <2> HIDE DEF T, R
  <2>3. QED BY <1>1, <2>1, <2>2, WFMin
<1>3. PICK k \in I : \A j \in I : <<Upto(j), Upto(k)>> \notin R BY <1>2
<1>4. ASSUME NEW j \in I, j < k PROVE FALSE
  <2>1. Upto(j) \subseteq Upto(k) /\ k \in Upto(k) /\ k \notin Upto(j) BY <1>4
  <2>2. <<Upto(j), Upto(k)>> \in R BY <2>1 DEF StrictSubsetOrdering
  <2>3. QED BY <1>3, <2>2
<1>5. \A j \in I : k <= j BY <1>4
<1>6. QED BY <1>5 DEF Min

LEMMA GreatestOfSet ==
  ASSUME NEW S \in SUBSET Nat, NEW n \in Nat, S # {}, \A i \in S : i <= n
  PROVE  Max(S) \in S /\ \A i \in S : i <= Max(S)
<1> DEFINE U == {u \in Nat : \A i \in S : i <= u}
           m == Min(U)
<1>1. m \in U /\ \A u \in U : m <= u
  <2>1. U \in SUBSET Nat /\ U # {} OBVIOUS
  <2> HIDE DEF U
  <2>2. QED BY <2>1, LeastOfSet
<1>2. m \in Nat /\ \A i \in S : i <= m BY <1>1
<1> HIDE DEF m
<1>3. m \in S
  <2>1. ASSUME m \notin S PROVE FALSE
    <3>1. \A i \in S : i \in Nat /\ i < m BY <1>2, <2>1
    <3>2. ASSUME NEW i \in S PROVE i <= m - 1 BY <1>2, <3>1
    <3>3. m - 1 \in Nat
      <4>1. PICK i \in S : TRUE OBVIOUS
      <4>2. i \in Nat /\ i < m BY <3>1
      <4>3. QED BY <1>2, <4>2
    <3>4. m - 1 \in U BY <3>2, <3>3
    <3>5. m <= m - 1 BY <1>1, <3>4
    <3>6. QED BY <1>2, <3>5
  <2>2. QED BY <2>1
<1> HIDE DEF U
<1>4. QED BY <1>2, <1>3 DEF Max

-----------------------------------------------------------------------------
(* The listeners.                                                          *)
Conn == [open : BOOLEAN, buf : Int, newlines : Int]
CountersType ==
  /\ conns \in [Peers -> Conn]
  /\ received \in [Peers -> Int] /\ captured \in [Peers -> Int]
  /\ dropped \in [Peers -> Int] /\ unwritten \in [Peers -> Int]
  /\ again \in [Peers -> Int]
Books == CountersType /\ TextAccountedFor

(* Binding anew closes all connections; the sockets, the key and the       *)
(* status are then about the same configuration.                           *)
LEMMA SyncKeepsKey == ASSUME KeyIsBound, NEW c, Sync(c) PROVE KeyIsBound'
<1>1. CASE Key(c) = boundKey
  BY <1>1 DEF Sync, bindVars, KeyIsBound
<1>2. CASE Key(c) # boundKey
  <2>1. PICK failed \in SUBSET ToSet(c.ports) :
          /\ failed # {} => c.enabled
          /\ BindPorts(c, failed)
          /\ \/ /\ status' = [enabled |-> c.enabled, ports |-> sockets',
                              errors |-> failed, interface |-> ResolveEgress(c)]
                /\ boundKey' = Key(c) /\ unrecorded' = FALSE
             \/ unrecorded' = TRUE
    BY <1>2 DEF Sync
  <2>2. CASE unrecorded' = TRUE BY <2>2 DEF KeyIsBound
  <2>3. CASE /\ status' = [enabled |-> c.enabled, ports |-> sockets',
                           errors |-> failed, interface |-> ResolveEgress(c)]
             /\ boundKey' = Key(c)
    <3> DEFINE wanted == IF c.enabled THEN ToSet(c.ports) ELSE {}
    <3>1. failed \subseteq wanted /\ sockets' = wanted \ failed
      BY <2>1 DEF BindPorts
    <3>2. /\ boundKey'[1] = c.enabled /\ boundKey'[2] = c.ports
          /\ boundKey'[4] = ResolveEgress(c)
      BY <2>3 DEF Key
    <3>3. /\ status'.ports = sockets' /\ status'.errors = failed
          /\ status'.interface = ResolveEgress(c)
      BY <2>3
    <3>4. QED BY <3>1, <3>2, <3>3 DEF KeyIsBound, ResolvedIn
  <2>4. QED BY <2>1, <2>2, <2>3
<1>3. QED BY <1>1, <1>2

LEMMA SyncKeepsBooks ==
  ASSUME Books, NEW c, Sync(c), UNCHANGED <<received, captured, unwritten, again>>
  PROVE  Books'
<1>1. CASE UNCHANGED <<conns, dropped>> BY <1>1 DEF Books, CountersType, TextAccountedFor
<1>2. CASE DropConns BY <1>2
  DEF DropConns, Closed, Books, CountersType, TextAccountedFor, Conn
<1>3. QED BY <1>1, <1>2 DEF Sync

-----------------------------------------------------------------------------
(* One peer's step: the other peers' counters stay, and its own add up.    *)
OthersSame(p) ==
  \A q \in Peers \ {p} :
    /\ received'[q] = received[q] /\ captured'[q] = captured[q]
    /\ dropped'[q] = dropped[q] /\ unwritten'[q] = unwritten[q]
    /\ again'[q] = again[q] /\ conns'[q] = conns[q]
Balanced(p) ==
  received[p] = captured[p] - again[p] + conns[p].buf + dropped[p] + unwritten[p]

LEMMA PeerKeepsBooks ==
  ASSUME Books, NEW p \in Peers, CountersType', OthersSame(p), Balanced(p)'
  PROVE  Books'
BY DEF Books, CountersType, TextAccountedFor, CountersType, OthersSame, Balanced

LEMMA PeerBalance ==
  ASSUME Books, NEW p \in Peers
  PROVE  /\ Balanced(p)
         /\ conns[p] \in Conn /\ conns[p].buf \in Int /\ conns[p].newlines \in Int
         /\ received[p] \in Int /\ captured[p] \in Int
         /\ dropped[p] \in Int /\ unwritten[p] \in Int /\ again[p] \in Int
BY DEF Books, CountersType, TextAccountedFor, Conn, Balanced

LEMMA ClosedConn == Closed \in Conn /\ Closed.buf = 0
BY DEF Conn, Closed

(* A connection whose buffer has changed.                                  *)
LEMMA BufferOf ==
  ASSUME NEW conn \in Conn, NEW n \in Int, NEW k \in Int
  PROVE  /\ [conn EXCEPT !.buf = n, !.newlines = k] \in Conn
         /\ [conn EXCEPT !.buf = n, !.newlines = k].buf = n
         /\ [conn EXCEPT !.buf = n] \in Conn
         /\ [conn EXCEPT !.buf = n].buf = n
BY DEF Conn

LEMMA AcceptKeeps == ASSUME Books, NEW p \in Peers, Accept(p) PROVE Books'
<1>1. UNCHANGED <<received, captured, again, dropped, unwritten>> /\ conns[p].buf = 0
  BY ClosedConn DEF Accept, textVars
<1>2. Opened \in Conn /\ Opened.buf = 0 BY DEF Conn, Opened
<1>3. \/ conns' = conns
      \/ conns' = [conns EXCEPT ![p] = Opened]
  BY DEF Accept
<1>4. CountersType' BY <1>1, <1>2, <1>3 DEF CountersType, Books
<1>5. OthersSame(p) BY <1>1, <1>3 DEF OthersSame, Books, CountersType
<1>6. conns'[p].buf = 0 BY <1>1, <1>2, <1>3 DEF Books, CountersType
<1>7. Balanced(p)' BY <1>1, <1>6, PeerBalance DEF Balanced
<1>8. QED BY <1>4, <1>5, <1>7, PeerKeepsBooks

(* What recv returns is received and in the buffer.                        *)
LEMMA ReadKeeps == ASSUME Books, NEW p \in Peers, Read(p) PROVE Books'
<1>1. PICK n \in 0 .. Unsent, k \in 0 .. MaxNewlines - conns[p].newlines :
        /\ received' = [received EXCEPT ![p] = @ + n]
        /\ conns' = [conns EXCEPT ![p].buf = @ + n, ![p].newlines = @ + k]
  BY DEF Read
<1>2. UNCHANGED <<captured, again, dropped, unwritten>> BY DEF Read
<1>3. /\ n \in Int /\ k \in Int
      /\ conns[p] \in Conn /\ conns[p].buf \in Int /\ conns[p].newlines \in Int
      /\ received[p] \in Int
  BY PeerBalance
<1> DEFINE conn == [conns[p] EXCEPT !.buf = conns[p].buf + n,
                                    !.newlines = conns[p].newlines + k]
<1>4. conn \in Conn /\ conn.buf = conns[p].buf + n
  <2>1. conns[p].buf + n \in Int /\ conns[p].newlines + k \in Int BY <1>3
  <2>2. QED BY <1>3, <2>1, BufferOf
<1>5. conns' = [conns EXCEPT ![p] = conn] BY <1>1
<1> HIDE DEF conn
<1>6. CountersType'
  <2>1. conns' \in [Peers -> Conn] BY <1>4, <1>5 DEF CountersType, Books
  <2>2. received' \in [Peers -> Int]
    <3>1. received' = [received EXCEPT ![p] = received[p] + n] BY <1>1
    <3>2. received[p] + n \in Int BY <1>3
    <3>3. QED BY <3>1, <3>2 DEF CountersType, Books
  <2>3. QED BY <1>2, <2>1, <2>2 DEF CountersType, Books
<1>7. OthersSame(p) BY <1>1, <1>2, <1>5 DEF OthersSame, Books, CountersType
<1>8. Balanced(p)'
  <2>1. /\ received'[p] = received[p] + n /\ conns'[p] = conn
        /\ captured'[p] = captured[p] /\ again'[p] = again[p]
        /\ dropped'[p] = dropped[p] /\ unwritten'[p] = unwritten[p]
    BY <1>1, <1>2, <1>5 DEF Books, CountersType
  <2>2. QED BY <1>3, <1>4, <2>1, PeerBalance DEF Balanced
<1>9. QED BY <1>6, <1>7, <1>8, PeerKeepsBooks

(* A line leaves the buffer for the database, or is the one not written.   *)
LEMMA LineKeeps ==
  ASSUME Books, NEW p \in Peers, NEW line \in Int, NEW conn \in Conn,
         conn.buf = conns[p].buf - line,
         conns' = [conns EXCEPT ![p] = conn],
         UNCHANGED <<received, dropped, again>>,
         \/ line = 0 /\ UNCHANGED <<captured, unwritten>>
         \/ captured' = [captured EXCEPT ![p] = @ + line] /\ UNCHANGED unwritten
         \/ unwritten' = [unwritten EXCEPT ![p] = @ + line] /\ UNCHANGED captured
  PROVE  Books'
<1>1. CountersType' BY DEF CountersType, Books
<1>2. OthersSame(p) BY DEF OthersSame, Books, CountersType
<1>3. Balanced(p)'
  <2>1. /\ received'[p] = received[p] /\ again'[p] = again[p] /\ dropped'[p] = dropped[p]
        /\ conns'[p] = conn
        /\ \/ line = 0 /\ captured'[p] = captured[p] /\ unwritten'[p] = unwritten[p]
           \/ captured'[p] = captured[p] + line /\ unwritten'[p] = unwritten[p]
           \/ unwritten'[p] = unwritten[p] + line /\ captured'[p] = captured[p]
    BY DEF Books, CountersType
  <2>2. QED BY <2>1, PeerBalance DEF Balanced
<1>4. QED BY <1>1, <1>2, <1>3, PeerKeepsBooks

LEMMA HandleMoves ==
  ASSUME NEW p, NEW line, NEW next, HandleLine(p, line, next)
  PROVE  \/ line = 0 /\ UNCHANGED <<captured, unwritten>>
         \/ captured' = [captured EXCEPT ![p] = @ + line] /\ UNCHANGED unwritten
         \/ unwritten' = [unwritten EXCEPT ![p] = @ + line] /\ UNCHANGED captured
BY DEF HandleLine, Captured, Unwritten

LEMMA SplitKeeps == ASSUME Books, NEW p \in Peers, SplitLine(p) PROVE Books'
<1>1. PICK line \in 0 .. conns[p].buf :
        /\ conns' = [conns EXCEPT ![p].buf = @ - line, ![p].newlines = @ - 1]
        /\ HandleLine(p, line, p)
  BY DEF SplitLine
<1> DEFINE conn == [conns[p] EXCEPT !.buf = conns[p].buf - line,
                                    !.newlines = conns[p].newlines - 1]
<1>2. /\ line \in Int
      /\ conns[p] \in Conn /\ conns[p].buf \in Int /\ conns[p].newlines \in Int
  BY PeerBalance
<1>3. conn \in Conn /\ conn.buf = conns[p].buf - line
  <2>1. conns[p].buf - line \in Int /\ conns[p].newlines - 1 \in Int BY <1>2
  <2>2. QED BY <1>2, <2>1, BufferOf
<1>4. conns' = [conns EXCEPT ![p] = conn] BY <1>1
<1>5. UNCHANGED <<received, dropped, again>> BY DEF SplitLine
<1> HIDE DEF conn
<1>6. \/ line = 0 /\ UNCHANGED <<captured, unwritten>>
      \/ captured' = [captured EXCEPT ![p] = @ + line] /\ UNCHANGED unwritten
      \/ unwritten' = [unwritten EXCEPT ![p] = @ + line] /\ UNCHANGED captured
  BY <1>1, HandleMoves
<1>7. QED BY <1>2, <1>3, <1>4, <1>5, <1>6, LineKeeps

LEMMA EndReadKeeps == ASSUME Books, NEW p \in Peers, EndRead(p) PROVE Books'
<1> DEFINE line == IF conns[p].buf > MaxLine THEN conns[p].buf ELSE 0
           conn == [conns[p] EXCEPT !.buf = conns[p].buf - line]
<1>1. conns' = [conns EXCEPT ![p].buf = @ - line] /\ HandleLine(p, line, None)
  BY DEF EndRead
<1>2. line \in Int BY PeerBalance
<1>3. UNCHANGED <<received, dropped, again>> BY DEF EndRead
<1> HIDE DEF line
<1>4. conn \in Conn /\ conn.buf = conns[p].buf - line
  <2>1. conns[p].buf - line \in Int BY <1>2, PeerBalance
  <2>2. QED BY <2>1, PeerBalance, BufferOf
<1>5. conns' = [conns EXCEPT ![p] = conn] BY <1>1
<1> HIDE DEF conn
<1>6. \/ line = 0 /\ UNCHANGED <<captured, unwritten>>
      \/ captured' = [captured EXCEPT ![p] = @ + line] /\ UNCHANGED unwritten
      \/ unwritten' = [unwritten EXCEPT ![p] = @ + line] /\ UNCHANGED captured
  BY <1>1, HandleMoves
<1>7. QED BY <1>2, <1>3, <1>4, <1>5, <1>6, LineKeeps

LEMMA ClosingKeeps ==
  ASSUME Books, NEW p \in Peers, PeerCloses(p) \/ CloseAgain(p) \/ ConnectionReset(p)
  PROVE  Books'
<1> DEFINE rest == conns[p].buf
<1>1. rest \in Int BY PeerBalance
<1>2. /\ received' = received /\ unwritten' = unwritten
      /\ \/ /\ conns' = [conns EXCEPT ![p] = Closed] /\ again' = again
            /\ \/ rest = 0 /\ captured' = captured /\ dropped' = dropped
               \/ captured' = [captured EXCEPT ![p] = @ + rest] /\ dropped' = dropped
               \/ dropped' = [dropped EXCEPT ![p] = @ + rest] /\ captured' = captured
         \/ /\ conns' = conns /\ dropped' = dropped
            /\ captured' = [captured EXCEPT ![p] = @ + rest]
            /\ again' = [again EXCEPT ![p] = @ + rest]
  BY DEF PeerCloses, CloseAgain, ConnectionReset, connVars, Captured
<1>3. rest = conns[p].buf OBVIOUS
<1> HIDE DEF rest
<1>4. CountersType' BY <1>1, <1>2, ClosedConn DEF CountersType, Books
<1>5. OthersSame(p) BY <1>2 DEF OthersSame, Books, CountersType
<1>6. Balanced(p)'
  <2>1. /\ received'[p] = received[p] /\ unwritten'[p] = unwritten[p]
        /\ \/ /\ conns'[p] = Closed /\ again'[p] = again[p]
              /\ \/ rest = 0 /\ captured'[p] = captured[p] /\ dropped'[p] = dropped[p]
                 \/ captured'[p] = captured[p] + rest /\ dropped'[p] = dropped[p]
                 \/ dropped'[p] = dropped[p] + rest /\ captured'[p] = captured[p]
           \/ /\ conns'[p] = conns[p] /\ dropped'[p] = dropped[p]
              /\ captured'[p] = captured[p] + rest /\ again'[p] = again[p] + rest
    BY <1>2 DEF Books, CountersType
  <2>2. QED BY <1>1, <1>3, <2>1, ClosedConn, PeerBalance DEF Balanced
<1>7. QED BY <1>4, <1>5, <1>6, PeerKeepsBooks

LEMMA DatagramKeeps == ASSUME Books, NEW p \in Peers, Datagram(p) PROVE Books'
<1>1. PICK n \in 0 .. Unsent :
        /\ received' = [received EXCEPT ![p] = @ + n]
        /\ \/ captured' = [captured EXCEPT ![p] = @ + n] /\ UNCHANGED unwritten
           \/ unwritten' = [unwritten EXCEPT ![p] = @ + n] /\ UNCHANGED captured
  BY DEF Datagram, Captured, Unwritten
<1>2. UNCHANGED <<conns, again, dropped>> /\ n \in Int BY DEF Datagram, connVars
<1>3. CountersType' BY <1>1, <1>2 DEF CountersType, Books
<1>4. OthersSame(p) BY <1>1, <1>2 DEF OthersSame, Books, CountersType
<1>5. Balanced(p)'
  <2>1. /\ received'[p] = received[p] + n
        /\ \/ captured'[p] = captured[p] + n /\ unwritten'[p] = unwritten[p]
           \/ unwritten'[p] = unwritten[p] + n /\ captured'[p] = captured[p]
    BY <1>1 DEF Books, CountersType
  <2>2. QED BY <1>2, <2>1, PeerBalance DEF Balanced
<1>6. QED BY <1>3, <1>4, <1>5, PeerKeepsBooks

-----------------------------------------------------------------------------
(* The reply guard.                                                        *)
LEMMA GuardNumbers == MaxReplies \in Nat /\ MaxReplies >= 1 /\ Window \in Nat
BY ListenerConstants

(* What the two lists say of a peer at time t: the times counted, and the  *)
(* times of the replies sent.  A reply that is still in the window is      *)
(* counted, as far from the end as it was sent, or nearer: a reply that    *)
(* was counted may have failed, never the other way round.                 *)
InOrder(s, t) ==
  /\ \A i \in DOMAIN s : s[i] <= t
  /\ \A i, j \in DOMAIN s : i <= j => s[i] <= s[j]
CountedAt(times, sent, i) == Len(times) - Len(sent) + i
Counted(times, sent, t) ==
  \A i \in DOMAIN sent :
    sent[i] >= t - Window =>
      /\ CountedAt(times, sent, i) \in DOMAIN times
      /\ times[CountedAt(times, sent, i)] >= sent[i]
Spaced(sent) ==
  \A i \in DOMAIN sent :
    i + MaxReplies \in DOMAIN sent => sent[i + MaxReplies] > sent[i] + Window
Guarded(times, sent, t) ==
  /\ times \in Seq(Nat) /\ sent \in Seq(Nat) /\ t \in Nat
  /\ InOrder(times, t) /\ InOrder(sent, t)
  /\ Counted(times, sent, t) /\ Spaced(sent)

(* What _reply_allowed forgets is older than the window: the rest is the   *)
(* list without its first d times.                                         *)
Forgotten(times, rest, t, d) ==
  /\ d \in 0 .. Len(times) /\ rest \in Seq(Nat) /\ Len(rest) = Len(times) - d
  /\ \A i \in 1 .. Len(rest) : rest[i] = times[i + d]
  /\ \A i \in 1 .. d : times[i] < t - Window

LEMMA RecentForgets ==
  ASSUME NEW p \in Peers, replyTimes[p] \in Seq(Nat), now \in Nat
  PROVE  \E d \in 0 .. Len(replyTimes[p]) : Forgotten(replyTimes[p], Recent(p), now, d)
<1> DEFINE times == replyTimes[p]
           I == {i \in 1 .. Len(times) : times[i] >= now - Window}
<1>1. Len(times) \in Nat /\ \A i \in 1 .. Len(times) : times[i] \in Nat OBVIOUS
<1>2. CASE I = {}
  <2>1. Recent(p) = <<>> BY <1>2 DEF Recent, From, SelectInSeq
  <2>2. \A i \in 1 .. Len(times) : times[i] < now - Window BY <1>1, <1>2, GuardNumbers
  <2>3. QED BY <1>1, <2>1, <2>2 DEF Forgotten
<1>3. CASE I # {}
  <2> DEFINE first == Min(I)
  <2>1. first \in I /\ \A i \in I : first <= i
    <3>1. I \in SUBSET Nat BY <1>1
    <3> HIDE DEF I
    <3>2. QED BY <1>3, <3>1, LeastOfSet
  <2>2. /\ first \in 1 .. Len(times) /\ first # 0
        /\ \A i \in 1 .. Len(times) : times[i] >= now - Window => first <= i
    BY <1>1, <2>1
  <2>3. Recent(p) = SubSeq(times, first, Len(times))
    <3>1. Recent(p) = From(times, first) BY <1>3 DEF Recent, SelectInSeq
    <3> HIDE DEF first
    <3>2. QED BY <2>2, <3>1 DEF From
  <2> HIDE DEF first, I
  <2>4. ASSUME NEW i \in 1 .. first - 1 PROVE times[i] < now - Window
    <3>1. i \in 1 .. Len(times) /\ ~ (first <= i) BY <1>1, <2>2
    <3>2. times[i] \in Nat /\ ~ (times[i] >= now - Window) BY <1>1, <2>2, <3>1
    <3>3. QED BY <3>2, GuardNumbers
  <2>5. /\ Recent(p) \in Seq(Nat) /\ Len(Recent(p)) = Len(times) - (first - 1)
        /\ \A i \in 1 .. Len(Recent(p)) : Recent(p)[i] = times[i + (first - 1)]
    <3> HIDE DEF times
    <3>1. times \in Seq(Nat) BY DEF times
    <3>2. Len(SubSeq(times, first, Len(times))) = Len(times) - first + 1
      BY <1>1, <2>2, <3>1
    <3>3. \A i \in 1 .. Len(times) - first + 1 :
            SubSeq(times, first, Len(times))[i] = times[i + (first - 1)]
      BY <1>1, <2>2, <3>1
    <3>4. SubSeq(times, first, Len(times)) \in Seq(Nat) BY <1>1, <2>2, <3>1
    <3>5. QED BY <1>1, <2>2, <2>3, <3>2, <3>3, <3>4
  <2>6. first - 1 \in 0 .. Len(times) BY <1>1, <2>2
  <2>7. Forgotten(times, Recent(p), now, first - 1) BY <2>4, <2>5, <2>6 DEF Forgotten
  <2>8. QED BY <2>6, <2>7
<1>4. QED BY <1>2, <1>3

LEMMA ForgettingKeeps ==
  ASSUME NEW times, NEW sent, NEW t, Guarded(times, sent, t),
         NEW rest, NEW d \in 0 .. Len(times), Forgotten(times, rest, t, d)
  PROVE  Guarded(rest, sent, t)
<1>1. /\ times \in Seq(Nat) /\ sent \in Seq(Nat) /\ t \in Nat /\ rest \in Seq(Nat)
      /\ Len(times) \in Nat /\ Len(sent) \in Nat /\ Len(rest) \in Nat /\ d \in Nat
      /\ DOMAIN times = 1 .. Len(times) /\ DOMAIN sent = 1 .. Len(sent)
      /\ DOMAIN rest = 1 .. Len(rest) /\ Len(rest) = Len(times) - d
  BY DEF Guarded, Forgotten
<1>2. /\ \A i \in 1 .. Len(rest) : i + d \in 1 .. Len(times) /\ rest[i] = times[i + d]
      /\ \A i \in 1 .. d : times[i] < t - Window
  <2>1. \A i \in 1 .. Len(rest) : i + d \in 1 .. Len(times) BY <1>1
  <2>2. QED BY <2>1 DEF Forgotten
<1>3. InOrder(rest, t)
  <2>1. /\ \A i \in 1 .. Len(times) : times[i] <= t
        /\ \A i, j \in 1 .. Len(times) : i <= j => times[i] <= times[j]
    BY <1>1 DEF Guarded, InOrder
  <2>2. \A i \in 1 .. Len(rest) : rest[i] <= t BY <1>2, <2>1
  <2>3. ASSUME NEW i \in 1 .. Len(rest), NEW j \in 1 .. Len(rest), i <= j
        PROVE  rest[i] <= rest[j]
    <3>1. i + d <= j + d BY <1>1, <2>3
    <3>2. QED BY <1>2, <2>1, <3>1
  <2>4. QED BY <1>1, <2>2, <2>3 DEF InOrder
<1>4. Counted(rest, sent, t)
  <2> SUFFICES ASSUME NEW i \in 1 .. Len(sent), sent[i] >= t - Window
               PROVE  /\ CountedAt(rest, sent, i) \in 1 .. Len(rest)
                      /\ rest[CountedAt(rest, sent, i)] >= sent[i]
    BY <1>1 DEF Counted
  <2> DEFINE k == CountedAt(times, sent, i)
  <2>1. k \in 1 .. Len(times) /\ times[k] >= sent[i]
    BY <1>1 DEF Guarded, Counted
  <2>2. CountedAt(rest, sent, i) = k - d /\ k \in Int BY <1>1 DEF CountedAt
  <2> HIDE DEF k
  <2>3. times[k] \in Nat /\ sent[i] \in Nat
    <3>1. times[k] \in Nat BY <1>1, <2>1
    <3>2. sent[i] \in Nat BY <1>1
    <3>3. QED BY <3>1, <3>2
  <2>4. ~ (k <= d)
    <3>1. CASE k <= d
      <4>1. k \in 1 .. d BY <1>1, <2>1, <3>1
      <4>2. times[k] < t - Window BY <1>2, <4>1
      <4>3. QED BY <1>1, <2>1, <2>3, <4>2, GuardNumbers
    <3>2. QED BY <3>1
  <2>5. k - d \in 1 .. Len(rest) /\ (k - d) + d = k BY <1>1, <2>1, <2>4
  <2>6. rest[k - d] = times[k] BY <1>2, <2>5
  <2>7. QED BY <2>1, <2>2, <2>5, <2>6
<1>5. QED BY <1>1, <1>3, <1>4 DEF Guarded

LEMMA CountingKeeps ==
  ASSUME NEW times, NEW sent, NEW t, Guarded(times, sent, t)
  PROVE  Guarded(Append(times, t), sent, t)
<1> DEFINE new == Append(times, t)
<1>1. /\ times \in Seq(Nat) /\ sent \in Seq(Nat) /\ t \in Nat
      /\ Len(times) \in Nat /\ Len(sent) \in Nat
      /\ DOMAIN times = 1 .. Len(times) /\ DOMAIN sent = 1 .. Len(sent)
  BY DEF Guarded
<1>2. /\ new \in Seq(Nat) /\ Len(new) = Len(times) + 1 /\ DOMAIN new = 1 .. Len(times) + 1
      /\ \A i \in 1 .. Len(times) : new[i] = times[i]
      /\ new[Len(times) + 1] = t
  BY <1>1
<1>3. /\ \A i \in 1 .. Len(times) : times[i] \in Nat /\ times[i] <= t
      /\ \A i, j \in 1 .. Len(times) : i <= j => times[i] <= times[j]
  <2>1. InOrder(times, t) BY DEF Guarded
  <2>2. \A i \in 1 .. Len(times) : times[i] \in Nat BY <1>1
  <2>3. QED BY <1>1, <2>1, <2>2 DEF InOrder
<1> HIDE DEF new
<1>4. InOrder(new, t)
  <2>1. \A i \in 1 .. Len(times) + 1 : i \in 1 .. Len(times) \/ i = Len(times) + 1
    BY <1>1
  <2>2. ASSUME NEW i \in 1 .. Len(times) + 1 PROVE new[i] <= t
    <3>1. CASE i \in 1 .. Len(times) BY <1>2, <1>3, <3>1
    <3>2. CASE i = Len(times) + 1 BY <1>1, <1>2, <3>2
    <3>3. QED BY <2>1, <3>1, <3>2
  <2>3. ASSUME NEW i \in 1 .. Len(times) + 1, NEW j \in 1 .. Len(times) + 1, i <= j
        PROVE  new[i] <= new[j]
    <3>1. CASE j = Len(times) + 1 BY <1>2, <2>2, <3>1
    <3>2. CASE j \in 1 .. Len(times)
      <4>1. i \in 1 .. Len(times) BY <1>1, <2>3, <3>2
      <4>2. QED BY <1>2, <1>3, <2>3, <3>2, <4>1
    <3>3. QED BY <2>1, <3>1, <3>2
  <2>4. QED BY <1>2, <2>2, <2>3 DEF InOrder
<1>5. Counted(new, sent, t)
  <2> SUFFICES ASSUME NEW i \in 1 .. Len(sent), sent[i] >= t - Window
               PROVE  /\ CountedAt(new, sent, i) \in 1 .. Len(times) + 1
                      /\ new[CountedAt(new, sent, i)] >= sent[i]
    BY <1>1, <1>2 DEF Counted
  <2> DEFINE k == CountedAt(times, sent, i)
  <2>1. k \in 1 .. Len(times) /\ times[k] >= sent[i] BY <1>1 DEF Guarded, Counted
  <2>2. CountedAt(new, sent, i) = k + 1 BY <1>1, <1>2 DEF CountedAt
  <2>3. sent[i] \in Nat /\ sent[i] <= t BY <1>1 DEF Guarded, InOrder
  <2> HIDE DEF k
  <2>4. k + 1 \in 1 .. Len(times) + 1 BY <1>1, <2>1
  <2>5. new[k + 1] >= sent[i]
    <3>1. CASE k = Len(times) BY <1>1, <1>2, <2>3, <3>1
    <3>2. CASE k # Len(times)
      <4>1. k \in Int /\ k + 1 \in 1 .. Len(times) /\ k <= k + 1
        <5>1. k \in Int /\ 1 <= k /\ k <= Len(times) BY <1>1, <2>1
        <5>2. Len(times) \in Nat BY <1>1
        <5> HIDE DEF k
        <5>3. QED BY <3>2, <5>1, <5>2
      <4>2. new[k + 1] = times[k + 1] /\ times[k] <= times[k + 1]
        BY <1>2, <1>3, <2>1, <4>1
      <4>3. times[k] \in Nat /\ times[k + 1] \in Nat BY <1>3, <2>1, <4>1
      <4>4. QED BY <2>1, <2>3, <4>2, <4>3
    <3>3. QED BY <3>1, <3>2
  <2>6. QED BY <2>2, <2>4, <2>5
<1>6. QED BY <1>1, <1>2, <1>4, <1>5 DEF Guarded, new

(* Among fewer than MaxReplies counted times there is no room for the      *)
(* MaxReplies-th last reply: it has left the window.                       *)
LEMMA SendingKeeps ==
  ASSUME NEW times, NEW sent, NEW t, Guarded(times, sent, t), Len(times) < MaxReplies
  PROVE  Guarded(Append(times, t), Append(sent, t), t)
<1> DEFINE new == Append(times, t)
           out == Append(sent, t)
<1>1. /\ times \in Seq(Nat) /\ sent \in Seq(Nat) /\ t \in Nat
      /\ Len(times) \in Nat /\ Len(sent) \in Nat
      /\ DOMAIN times = 1 .. Len(times) /\ DOMAIN sent = 1 .. Len(sent)
  BY DEF Guarded
<1>2. new \in Seq(Nat) /\ InOrder(new, t) BY CountingKeeps DEF Guarded
<1>3. /\ Len(new) = Len(times) + 1 /\ DOMAIN new = 1 .. Len(times) + 1
      /\ \A i \in 1 .. Len(times) : new[i] = times[i]
      /\ new[Len(times) + 1] = t
  BY <1>1
<1>4. /\ out \in Seq(Nat) /\ Len(out) = Len(sent) + 1 /\ DOMAIN out = 1 .. Len(sent) + 1
      /\ \A i \in 1 .. Len(sent) : out[i] = sent[i]
      /\ out[Len(sent) + 1] = t
  BY <1>1
<1>5. /\ \A i \in 1 .. Len(sent) : sent[i] \in Nat /\ sent[i] <= t
      /\ \A i, j \in 1 .. Len(sent) : i <= j => sent[i] <= sent[j]
  <2>1. InOrder(sent, t) BY DEF Guarded
  <2>2. \A i \in 1 .. Len(sent) : sent[i] \in Nat BY <1>1
  <2>3. QED BY <1>1, <2>1, <2>2 DEF InOrder
<1>6. \A i \in 1 .. Len(sent) + 1 : i \in 1 .. Len(sent) \/ i = Len(sent) + 1
  BY <1>1
<1> HIDE DEF new, out
<1>7. InOrder(out, t)
  <2>1. ASSUME NEW i \in 1 .. Len(sent) + 1 PROVE out[i] <= t
    <3>1. CASE i \in 1 .. Len(sent) BY <1>4, <1>5, <3>1
    <3>2. CASE i = Len(sent) + 1 BY <1>1, <1>4, <3>2
    <3>3. QED BY <1>6, <3>1, <3>2
  <2>2. ASSUME NEW i \in 1 .. Len(sent) + 1, NEW j \in 1 .. Len(sent) + 1, i <= j
        PROVE  out[i] <= out[j]
    <3>1. CASE j = Len(sent) + 1 BY <1>4, <2>1, <3>1
    <3>2. CASE j \in 1 .. Len(sent)
      <4>1. i \in 1 .. Len(sent) BY <1>1, <2>2, <3>2
      <4>2. QED BY <1>4, <1>5, <2>2, <3>2, <4>1
    <3>3. QED BY <1>6, <3>1, <3>2
  <2>3. QED BY <1>4, <2>1, <2>2 DEF InOrder
<1>8. \A i \in 1 .. Len(sent) :
        sent[i] >= t - Window =>
          /\ CountedAt(times, sent, i) \in 1 .. Len(times)
          /\ times[CountedAt(times, sent, i)] >= sent[i]
  BY <1>1 DEF Guarded, Counted
<1>9. Counted(new, out, t)
  <2> SUFFICES ASSUME NEW i \in 1 .. Len(sent) + 1, out[i] >= t - Window
               PROVE  /\ CountedAt(new, out, i) \in 1 .. Len(times) + 1
                      /\ new[CountedAt(new, out, i)] >= out[i]
    BY <1>3, <1>4 DEF Counted
  <2>1. CountedAt(new, out, i) = CountedAt(times, sent, i)
    BY <1>1, <1>3, <1>4 DEF CountedAt
  <2>2. CASE i \in 1 .. Len(sent)
    <3>1. out[i] = sent[i] BY <1>4, <2>2
    <3>2. /\ CountedAt(times, sent, i) \in 1 .. Len(times)
          /\ times[CountedAt(times, sent, i)] >= sent[i]
      BY <1>8, <2>2, <3>1
    <3>3. QED BY <1>1, <1>3, <2>1, <3>1, <3>2
  <2>3. CASE i = Len(sent) + 1
    <3>1. CountedAt(times, sent, i) = Len(times) + 1 BY <1>1, <2>3 DEF CountedAt
    <3>2. QED BY <1>1, <1>3, <1>4, <2>1, <2>3, <3>1
  <2>4. QED BY <1>6, <2>2, <2>3
<1>10. Spaced(out)
  <2> SUFFICES ASSUME NEW i \in 1 .. Len(sent) + 1, i + MaxReplies \in 1 .. Len(sent) + 1
               PROVE  out[i + MaxReplies] > out[i] + Window
    BY <1>4 DEF Spaced
  <2>1. i \in 1 .. Len(sent) BY <1>1, GuardNumbers
  <2>2. out[i] = sent[i] BY <1>4, <2>1
  <2>3. CASE i + MaxReplies \in 1 .. Len(sent)
    BY <1>1, <1>4, <2>1, <2>2, <2>3 DEF Guarded, Spaced
  <2>4. CASE i + MaxReplies = Len(sent) + 1
    <3>1. CountedAt(times, sent, i) = Len(times) + 1 - MaxReplies
      <4>1. i \in Int /\ i = Len(sent) + 1 - MaxReplies BY <1>1, <2>1, <2>4, GuardNumbers
      <4>2. QED BY <1>1, <4>1, GuardNumbers DEF CountedAt
    <3>2. CountedAt(times, sent, i) \notin 1 .. Len(times)
      BY <1>1, <3>1, GuardNumbers
    <3>3. ~ (sent[i] >= t - Window) BY <1>8, <2>1, <3>2
    <3>4. out[i + MaxReplies] = t BY <1>4, <2>4
    <3>5. QED BY <1>1, <1>5, <2>1, <2>2, <3>3, <3>4, GuardNumbers
  <2>5. QED BY <1>6, <2>3, <2>4
<1>11. QED BY <1>1, <1>2, <1>4, <1>7, <1>9, <1>10 DEF Guarded, new, out

LEMMA TimePasses ==
  ASSUME NEW times, NEW sent, NEW t, Guarded(times, sent, t)
  PROVE  Guarded(times, sent, t + 1)
<1>1. /\ times \in Seq(Nat) /\ sent \in Seq(Nat) /\ t \in Nat
      /\ \A i \in DOMAIN times : times[i] \in Nat
      /\ \A i \in DOMAIN sent : sent[i] \in Nat
  BY DEF Guarded
<1>2. InOrder(times, t + 1) /\ InOrder(sent, t + 1) BY <1>1 DEF Guarded, InOrder
<1>3. Counted(times, sent, t + 1) BY <1>1, GuardNumbers DEF Guarded, Counted
<1>4. QED BY <1>1, <1>2, <1>3 DEF Guarded

(* So no window holds more than MaxReplies replies: those in it are next   *)
(* to each other.                                                          *)
LEMMA SpacedIsCapped ==
  ASSUME NEW sent \in Seq(Nat), NEW n \in Nat, InOrder(sent, n), Spaced(sent),
         NEW t \in 0 .. n
  PROVE  Cardinality({i \in DOMAIN sent : t <= sent[i] /\ sent[i] <= t + Window})
           <= MaxReplies
<1> DEFINE I == {i \in DOMAIN sent : t <= sent[i] /\ sent[i] <= t + Window}
<1>1. /\ Len(sent) \in Nat /\ DOMAIN sent = 1 .. Len(sent)
      /\ \A i \in 1 .. Len(sent) : sent[i] \in Nat
  OBVIOUS
<1>2. CASE I = {}
  <2>1. Cardinality(I) = 0 BY <1>2, FS_EmptySet
  <2>2. QED BY <2>1, GuardNumbers
<1>3. CASE I # {}
  <2> DEFINE first == Min(I)
             last == first + MaxReplies - 1
  <2>1. first \in I /\ \A i \in I : first <= i
    <3>1. I \in SUBSET Nat BY <1>1
    <3> HIDE DEF I
    <3>2. QED BY <1>3, <3>1, LeastOfSet
  <2>2. /\ first \in 1 .. Len(sent) /\ t <= sent[first] /\ sent[first] \in Nat
    BY <1>1, <2>1
  <2>3. \A i \in I : i \in 1 .. Len(sent) /\ first <= i /\ sent[i] <= t + Window
    BY <1>1, <2>1
  <2> HIDE DEF first, I
  <2>4. ASSUME NEW i \in I, i > last PROVE FALSE
    <3>1. first + MaxReplies \in 1 .. Len(sent) /\ first + MaxReplies <= i
      BY <1>1, <2>2, <2>3, <2>4, GuardNumbers
    <3>2. sent[first + MaxReplies] > sent[first] + Window
      BY <1>1, <2>2, <3>1 DEF Spaced
    <3>3. sent[first + MaxReplies] <= sent[i] BY <1>1, <2>3, <3>1 DEF InOrder
    <3>4. sent[i] \in Nat /\ sent[first + MaxReplies] \in Nat BY <1>1, <2>3, <3>1
    <3>5. sent[i] <= t + Window /\ t \in Nat BY <2>3, <2>4
    <3>6. sent[first] \in Nat /\ t <= sent[first] BY <2>2
    <3>7. sent[first] + Window >= t + Window BY <3>5, <3>6, GuardNumbers
    <3>8. \A a, b, c, x, y \in Nat : b > x + c /\ b <= a /\ a <= y + c => ~ (x + c >= y + c)
      OBVIOUS
    <3>9. QED BY <3>2, <3>3, <3>4, <3>5, <3>6, <3>7, <3>8, GuardNumbers
  <2>5. first \in Int /\ last \in Int BY <2>2, GuardNumbers
  <2>6. I \in SUBSET (first .. last)
    BY <1>1, <2>3, <2>4, <2>5
  <2>7. IsFiniteSet(first .. last) /\ Cardinality(first .. last) = MaxReplies
    BY <2>5, FS_Interval, GuardNumbers
  <2>8. Cardinality(I) <= Cardinality(first .. last) BY <2>6, <2>7, FS_Subset
  <2>9. QED BY <2>7, <2>8 DEF I
<1>4. QED BY <1>2, <1>3

GuardInv ==
  /\ now \in Nat
  /\ replyTimes \in [Peers -> Seq(Nat)] /\ replied \in [Peers -> Seq(Nat)]
  /\ \A p \in Peers : Guarded(replyTimes[p], replied[p], now)

(* One peer's lists change and stay in step; everyone else's are the same. *)
LEMMA PeerGuardKeeps ==
  ASSUME GuardInv, NEW p \in Peers, NEW times, NEW sent, Guarded(times, sent, now),
         replyTimes' = [replyTimes EXCEPT ![p] = times],
         replied' = [replied EXCEPT ![p] = sent], now' = now
  PROVE  GuardInv'
<1>1. times \in Seq(Nat) /\ sent \in Seq(Nat) BY DEF Guarded
<1>2. replyTimes' \in [Peers -> Seq(Nat)] /\ replied' \in [Peers -> Seq(Nat)]
  BY <1>1 DEF GuardInv
<1>3. \A q \in Peers : Guarded(replyTimes'[q], replied'[q], now) BY DEF GuardInv
<1>4. QED BY <1>2, <1>3 DEF GuardInv

LEMMA ReplyKeeps ==
  ASSUME GuardInv, NEW p \in Peers, now' = now, Reply(p) PROVE GuardInv'
<1>1. Guarded(replyTimes[p], replied[p], now) /\ replyTimes[p] \in Seq(Nat) /\ now \in Nat
  BY DEF GuardInv
<1>2. Guarded(Recent(p), replied[p], now) BY <1>1, RecentForgets, ForgettingKeeps
<1>3. replied = [replied EXCEPT ![p] = replied[p]] BY DEF GuardInv
<1>4. CASE /\ ReplyAllowed(p)
           /\ replyTimes' = [replyTimes EXCEPT ![p] = Append(Recent(p), now)]
           /\ replied' = [replied EXCEPT ![p] = Append(replied[p], now)]
  <2>1. Guarded(Append(Recent(p), now), Append(replied[p], now), now)
    BY <1>2, <1>4, SendingKeeps DEF ReplyAllowed
  <2>2. QED BY <1>4, <2>1, PeerGuardKeeps
<1>5. CASE /\ replyTimes' = [replyTimes EXCEPT ![p] = Append(Recent(p), now)]
           /\ replied' = replied
  <2>1. Guarded(Append(Recent(p), now), replied[p], now) BY <1>2, CountingKeeps
  <2>2. QED BY <1>3, <1>5, <2>1, PeerGuardKeeps
<1>6. CASE replyTimes' = [replyTimes EXCEPT ![p] = Recent(p)] /\ replied' = replied
  BY <1>2, <1>3, <1>6, PeerGuardKeeps
<1>7. QED BY <1>4, <1>5, <1>6 DEF Reply, ReplySent, CountReply

-----------------------------------------------------------------------------
(* The UI's list of ports is the truth, and the key tells when to rebind.  *)
THEOREM ListenerKeyIsBound == ListenSpec => []KeyIsBound
<1>1. ListenInit => KeyIsBound BY DEF ListenInit, KeyIsBound
<1>2. KeyIsBound /\ [ListenNext]_listenVars => KeyIsBound'
  <2> SUFFICES ASSUME KeyIsBound, [ListenNext]_listenVars PROVE KeyIsBound' OBVIOUS
  <2>1. CASE Iterate BY <2>1, SyncKeepsKey DEF Iterate
  <2>2. CASE UNCHANGED bindVars BY <2>2 DEF bindVars, KeyIsBound
  <2>3. QED
    BY <2>1, <2>2
    DEF ListenNext, ConfigPut, InterfaceChanges, ClockAdvances, ListenSettles, threadVars,
        Accept, Read, SplitLine, EndRead, PeerCloses, CloseAgain, ConnectionReset, Datagram,
        listenVars
<1>3. QED BY <1>1, <1>2, PTL DEF ListenSpec

(* Every fragment received is captured, in the buffer, given up with its   *)
(* connection, or of the one line or datagram whose own row could not be   *)
(* written.                                                                *)
THEOREM ListenerTextAccountedFor == ListenSpec => []TextAccountedFor
<1>1. ListenInit => Books
  BY DEF ListenInit, Books, CountersType, TextAccountedFor, Conn, Closed
<1>2. Books /\ [ListenNext]_listenVars => Books'
  <2> SUFFICES ASSUME Books, [ListenNext]_listenVars PROVE Books' OBVIOUS
  <2>1. CASE Iterate BY <2>1, SyncKeepsBooks DEF Iterate
  <2>2. CASE UNCHANGED <<conns, textVars>>
    BY <2>2 DEF textVars, Books, CountersType, TextAccountedFor
  <2>3. CASE ConfigPut \/ InterfaceChanges \/ ClockAdvances \/ ListenSettles
             \/ UNCHANGED listenVars
    BY <2>2, <2>3 DEF ConfigPut, InterfaceChanges, ClockAdvances, ListenSettles, threadVars,
                      connVars, listenVars
  <2>4. ASSUME NEW p \in Peers,
               \/ Accept(p) \/ Read(p) \/ SplitLine(p) \/ EndRead(p)
               \/ PeerCloses(p) \/ CloseAgain(p) \/ ConnectionReset(p) \/ Datagram(p)
        PROVE  Books'
    BY <2>4, AcceptKeeps, ReadKeeps, SplitKeeps, EndReadKeeps, ClosingKeeps, DatagramKeeps
  <2>5. QED BY <2>1, <2>3, <2>4 DEF ListenNext
<1>3. QED BY <1>1, <1>2, PTL DEF ListenSpec, Books, CountersType

(* No peer gets more than MaxReplies automatic replies in any window,      *)
(* however the reply rows and the sends fail: the guard counts a reply     *)
(* before it is sent, and forgets only what has left the window.           *)
THEOREM ListenerRepliesCapped == ListenSpec => []RepliesCapped
<1>1. ListenInit => GuardInv
  BY DEF ListenInit, GuardInv, Guarded, InOrder, Counted, Spaced
<1>2. GuardInv /\ [ListenNext]_listenVars => GuardInv'
  <2> SUFFICES ASSUME GuardInv, [ListenNext]_listenVars PROVE GuardInv' OBVIOUS
  <2>1. CASE UNCHANGED guardVars BY <2>1 DEF guardVars, GuardInv
  <2>2. CASE ClockAdvances
    <3>1. now' = now + 1 /\ UNCHANGED <<replyTimes, replied>> BY <2>2 DEF ClockAdvances
    <3>2. \A p \in Peers : Guarded(replyTimes[p], replied[p], now + 1)
      BY TimePasses DEF GuardInv
    <3>3. QED BY <3>1, <3>2 DEF GuardInv
  <2>3. CASE ConfigPut \/ Iterate \/ InterfaceChanges \/ ListenSettles
             \/ UNCHANGED listenVars
    BY <2>1, <2>3 DEF ConfigPut, Iterate, InterfaceChanges, ListenSettles, listenVars
  <2>4. ASSUME NEW p \in Peers, Accept(p) \/ Read(p) \/ ConnectionReset(p) PROVE GuardInv'
    BY <2>1, <2>4 DEF Accept, Read, ConnectionReset
  <2>5. ASSUME NEW p \in Peers,
               SplitLine(p) \/ EndRead(p) \/ PeerCloses(p) \/ CloseAgain(p) \/ Datagram(p)
        PROVE  GuardInv'
    <3> DEFINE Answered == UNCHANGED guardVars \/ (Reply(p) /\ now' = now)
    <3>1. Answered
      <4>1. \A line : Answer(p, line) \/ AnswerUnlogged(p, line) => Answered
        BY DEF Answer, AnswerUnlogged, Reply, guardVars
      <4>2. \A line, next : HandleLine(p, line, next) => Answered
        BY <4>1 DEF HandleLine, Unwritten
      <4> HIDE DEF Answered
      <4>3. CASE SplitLine(p) BY <4>2, <4>3 DEF SplitLine
      <4>4. CASE EndRead(p) BY <4>2, <4>4 DEF EndRead
      <4>5. CASE PeerCloses(p)
        <5>1. UNCHANGED guardVars => Answered BY DEF Answered
        <5>2. QED BY <4>1, <4>5, <5>1 DEF PeerCloses
      <4>6. CASE CloseAgain(p) BY <4>1, <4>6 DEF CloseAgain
      <4>7. CASE Datagram(p)
        <5>1. UNCHANGED guardVars => Answered BY DEF Answered
        <5>2. QED BY <4>1, <4>7, <5>1 DEF Datagram, Unwritten
      <4>8. QED BY <2>5, <4>3, <4>4, <4>5, <4>6, <4>7
    <3>2. QED BY <2>1, <3>1, ReplyKeeps
  <2>6. QED BY <2>2, <2>3, <2>4, <2>5 DEF ListenNext
<1>3. GuardInv => RepliesCapped
  <2> SUFFICES ASSUME GuardInv, NEW p \in Peers, NEW t \in 0 .. now
               PROVE  Cardinality({i \in DOMAIN replied[p] :
                        t <= replied[p][i] /\ replied[p][i] <= t + Window}) <= MaxReplies
    BY DEF RepliesCapped
  <2>1. /\ replied[p] \in Seq(Nat) /\ now \in Nat
        /\ InOrder(replied[p], now) /\ Spaced(replied[p])
    BY DEF GuardInv, Guarded
  <2>2. QED BY <2>1, SpacedIsCapped
<1>4. QED BY <1>1, <1>2, <1>3, PTL DEF ListenSpec

-----------------------------------------------------------------------------
(* The arithmetic of buckets.                                              *)
LEMMA ProbeNumbers ==
  /\ Hour \in Nat /\ Hour >= 1 /\ Day \in Nat /\ Day >= 1 /\ Hour <= Day
  /\ Day % Hour = 0 /\ RawDays \in Nat /\ RawDays >= 1 /\ RollupDays \in Nat
  /\ MaxGap \in Nat /\ MaxClock \in Nat /\ RawSpan \in Nat /\ HourSpan \in Nat
BY ProbesConstants

LEMMA PeriodNumbers ==
  ASSUME NEW p \in Periods
  PROVE  PeriodSeconds(p) \in Nat /\ PeriodSeconds(p) >= 1 /\ PeriodSeconds(p) <= Day
BY ProbeNumbers DEF Periods, PeriodSeconds

(* A number is a multiple of the divisor and a rest less than it.          *)
LEMMA Euclid ==
  ASSUME NEW n \in Nat, n >= 1, NEW t \in Nat
  PROVE  \E q \in Nat : t - (t % n) = n * q /\ n * q \in Nat /\ n * q <= t /\ t < n * q + n
<1> DEFINE q == t \div n
<1>1. t % n \in 0 .. n - 1 /\ q \in Int OBVIOUS
<1>2. t - (t % n) = q * n OBVIOUS
<1>3. q \in Int /\ n * q \in Int /\ t - (t % n) = n * q BY <1>1, <1>2
<1> HIDE DEF q
<1>4. n * q <= t /\ t < n * q + n BY <1>1, <1>3
<1>5. q \in Nat
  <2>1. CASE q <= -1
    <3>1. -q \in Nat /\ -q >= 1 BY <1>3, <2>1
    <3>2. n * (-q) >= n /\ n * q = -(n * (-q)) BY <1>3, <3>1
    <3>3. n * q + n <= 0 BY <1>3, <3>1, <3>2
    <3>4. QED BY <1>3, <1>4, <3>3
  <2>2. QED BY <1>3, <2>1
<1>6. n * q \in Nat BY <1>5
<1>7. QED BY <1>3, <1>4, <1>5, <1>6

LEMMA MultiplesApart ==
  ASSUME NEW n \in Nat, n >= 1, NEW q \in Nat, NEW r \in Nat, q < r
  PROVE  n * q \in Nat /\ n * r \in Nat /\ n * q + n <= n * r
<1>1. PICK d \in Nat : r = q + 1 + d BY r - q - 1 \in Nat
<1>2. n * r = n * q + n + n * d /\ n * d \in Nat /\ n * q \in Nat BY <1>1
<1>3. QED BY <1>2

LEMMA BucketOf ==
  ASSUME NEW p \in Periods, NEW t \in Nat
  PROVE  /\ BucketStart(t, p) \in Nat /\ BucketStart(t, p) <= t
         /\ t < BucketStart(t, p) + PeriodSeconds(p)
<1> DEFINE n == PeriodSeconds(p)
<1>1. n \in Nat /\ n >= 1 BY PeriodNumbers
<1> HIDE DEF n
<1>2. PICK q \in Nat : t - (t % n) = n * q /\ n * q \in Nat /\ n * q <= t /\ t < n * q + n
  BY <1>1, Euclid
<1>3. BucketStart(t, p) = n * q BY <1>2 DEF BucketStart, n
<1>4. QED BY <1>2, <1>3 DEF n

LEMMA BucketSame ==
  ASSUME NEW p \in Periods, NEW s \in Nat, NEW t \in Nat,
         BucketStart(s, p) <= t, t < BucketStart(s, p) + PeriodSeconds(p)
  PROVE  BucketStart(t, p) = BucketStart(s, p)
<1> DEFINE n == PeriodSeconds(p)
<1>1. n \in Nat /\ n >= 1 BY PeriodNumbers
<1>2. PICK q \in Nat : BucketStart(s, p) = n * q BY <1>1, Euclid DEF BucketStart
<1>3. PICK r \in Nat : BucketStart(t, p) = n * r /\ n * r <= t /\ t < n * r + n
  BY <1>1, Euclid DEF BucketStart
<1>4. n * q <= t /\ t < n * q + n BY <1>2
<1> HIDE DEF n
<1>5. ~ (q < r) BY <1>1, <1>3, <1>4, MultiplesApart
<1>6. ~ (r < q) BY <1>1, <1>3, <1>4, MultiplesApart
<1>7. q = r BY <1>5, <1>6
<1>8. QED BY <1>2, <1>3, <1>7

LEMMA BucketIdempotent ==
  ASSUME NEW p \in Periods, NEW t \in Nat
  PROVE  BucketStart(BucketStart(t, p), p) = BucketStart(t, p)
<1> DEFINE b == BucketStart(t, p)
<1>1. b \in Nat /\ PeriodSeconds(p) \in Nat /\ PeriodSeconds(p) >= 1
  BY BucketOf, PeriodNumbers
<1>2. b <= b /\ b < b + PeriodSeconds(p) BY <1>1
<1>3. QED BY <1>1, <1>2, BucketSame

LEMMA BucketMonotone ==
  ASSUME NEW p \in Periods, NEW s \in Nat, NEW t \in Nat, s <= t
  PROVE  BucketStart(s, p) <= BucketStart(t, p)
<1> DEFINE a == BucketStart(s, p)
           b == BucketStart(t, p)
<1>1. /\ a \in Nat /\ b \in Nat /\ a <= s /\ b <= t /\ t < b + PeriodSeconds(p)
      /\ PeriodSeconds(p) \in Nat
  BY BucketOf, PeriodNumbers
<1>2. CASE b <= s
  <2>1. s < b + PeriodSeconds(p) BY <1>1
  <2>2. a = b BY <1>2, <2>1, BucketSame
  <2>3. QED BY <1>1, <2>2
<1>3. CASE s < b BY <1>1, <1>3
<1>4. QED BY <1>1, <1>2, <1>3

LEMMA BucketsApart ==
  ASSUME NEW p \in Periods, NEW s \in Nat, NEW t \in Nat,
         BucketStart(s, p) < BucketStart(t, p)
  PROVE  BucketStart(s, p) + PeriodSeconds(p) <= BucketStart(t, p)
<1> DEFINE a == BucketStart(s, p)
           b == BucketStart(t, p)
<1>1. a \in Nat /\ b \in Nat /\ PeriodSeconds(p) \in Nat BY BucketOf, PeriodNumbers
<1>2. ASSUME b < a + PeriodSeconds(p) PROVE FALSE
  <2>1. a <= b BY <1>1
  <2>2. BucketStart(b, p) = a BY <1>1, <1>2, <2>1, BucketSame
  <2>3. BucketStart(b, p) = b BY BucketIdempotent
  <2>4. QED BY <1>1, <2>2, <2>3
<1> HIDE DEF a, b
<1>3. QED BY <1>1, <1>2 DEF a, b

(* The lengths of the retentions, and that buckets divide them.            *)
RawAge == RawDays * Day
RollupAge == RollupDays * Day
LongestGap == (RawDays - 1) * Day

LEMMA Ages ==
  /\ RawAge \in Nat /\ RollupAge \in Nat /\ LongestGap \in Nat
  /\ RawAge = LongestGap + Day
<1>1. RawDays - 1 \in Nat /\ RawDays = (RawDays - 1) + 1 BY ProbeNumbers
<1> DEFINE d == RawDays - 1
<1>2. d * Day \in Nat /\ (d + 1) * Day = d * Day + Day BY <1>1, ProbeNumbers
<1>3. RollupDays * Day \in Nat BY ProbeNumbers
<1>4. (d + 1) * Day = RawDays * Day BY <1>1
<1>5. RawDays * Day = d * Day + Day BY <1>2, <1>4
<1>6. d * Day = LongestGap BY DEF LongestGap
<1> HIDE DEF d
<1>7. QED BY <1>2, <1>3, <1>5, <1>6, ProbeNumbers DEF RawAge, RollupAge

LEMMA PeriodDivides ==
  ASSUME NEW p \in Periods
  PROVE  \E m \in Nat : LongestGap = PeriodSeconds(p) * m
<1>1. CASE p = "day"
  <2>1. RawDays - 1 \in Nat /\ LongestGap = Day * (RawDays - 1)
    BY ProbeNumbers DEF LongestGap
  <2>2. QED BY <1>1, <2>1 DEF PeriodSeconds
<1>2. CASE p = "hour"
  <2>1. PICK k \in Nat : Day = Hour * k
    <3>1. PICK k \in Nat : Day - (Day % Hour) = Hour * k BY Euclid, ProbeNumbers
    <3>2. QED BY <3>1, ProbeNumbers
  <2>2. RawDays - 1 \in Nat /\ (RawDays - 1) * k \in Nat BY ProbeNumbers
  <2>3. (RawDays - 1) * (Hour * k) = Hour * ((RawDays - 1) * k)
    BY <2>2, ProbeNumbers
  <2>4. LongestGap = Hour * ((RawDays - 1) * k) BY <2>1, <2>3 DEF LongestGap
  <2>5. QED BY <1>2, <2>2, <2>4 DEF PeriodSeconds
<1>3. QED BY <1>1, <1>2 DEF Periods

(* A sample no more than the longest gap before the bucket under way is in *)
(* a bucket that begins no more than the longest gap before it.            *)
LEMMA GapAligned ==
  ASSUME NEW p \in Periods, NEW c \in Nat, NEW u \in Nat,
         u >= BucketStart(c, p) - LongestGap
  PROVE  BucketStart(u, p) >= BucketStart(c, p) - LongestGap
<1> DEFINE n == PeriodSeconds(p)
<1>1. n \in Nat /\ n >= 1 BY PeriodNumbers
<1>2. PICK q \in Nat : BucketStart(c, p) = n * q /\ n * q \in Nat
  BY <1>1, Euclid DEF BucketStart
<1>3. PICK m \in Nat : LongestGap = n * m BY PeriodDivides
<1>4. PICK r \in Nat : BucketStart(u, p) = n * r /\ n * r \in Nat /\ u < n * r + n
  BY <1>1, Euclid DEF BucketStart
<1>5. n * m \in Nat BY <1>3, Ages
<1> HIDE DEF n
<1>6. CASE q < m
  <2>1. n * q + n <= n * m BY <1>1, <1>6, MultiplesApart
  <2>2. QED BY <1>1, <1>2, <1>3, <1>4, <1>5, <2>1
<1>7. CASE m <= q
  <2> DEFINE e == q - m
  <2>1. e \in Nat /\ n * e = n * q - n * m /\ n * e \in Nat BY <1>1, <1>7
  <2> HIDE DEF e
  <2>2. u >= n * e BY <1>2, <1>3, <2>1
  <2>3. CASE r < e
    <3>1. n * r + n <= n * e BY <1>1, <2>1, <2>3, MultiplesApart
    <3>2. QED BY <1>1, <1>4, <2>1, <2>2, <3>1
  <2>4. CASE r = e BY <1>2, <1>3, <1>4, <2>1, <2>4
  <2>5. CASE e < r
    <3>1. n * e + n <= n * r BY <1>1, <2>1, <2>5, MultiplesApart
    <3>2. QED BY <1>1, <1>2, <1>3, <1>4, <2>1, <3>1
  <2>6. QED BY <2>1, <2>3, <2>4, <2>5
<1>8. QED BY <1>6, <1>7

(* A sample of a bucket that is over is before the bucket under way.       *)
LEMMA OverIsEarlier ==
  ASSUME NEW p \in Periods, NEW t \in Nat, NEW c \in Nat,
         BucketStart(t, p) + PeriodSeconds(p) <= c
  PROVE  t < BucketStart(c, p)
<1> DEFINE a == BucketStart(t, p)
           b == BucketStart(c, p)
           n == PeriodSeconds(p)
<1>1. /\ a \in Nat /\ b \in Nat /\ n \in Nat /\ a <= t /\ t < a + n /\ c < b + n
  BY BucketOf, PeriodNumbers
<1>2. t <= c
  <2> HIDE DEF a, b, n
  <2>1. a + n <= c BY DEF a, n
  <2>2. QED BY <1>1, <2>1
<1>3. a <= b BY <1>2, BucketMonotone
<1>4. a # b
  <2> HIDE DEF a, b, n
  <2>1. a + n <= c BY DEF a, n
  <2>2. QED BY <1>1, <2>1
<1>5. a < b
  <2> HIDE DEF a, b, n
  <2>1. QED BY <1>1, <1>3, <1>4
<1>6. a + n <= b BY <1>5, BucketsApart
<1> HIDE DEF a, b, n
<1>7. t < b BY <1>1, <1>6
<1>8. QED BY <1>7 DEF b

-----------------------------------------------------------------------------
(* The invariant of the probes.  Whatever is pruned from the samples is in *)
(* a row, if its bucket is kept (Rolled); the newest bucket that has one,  *)
(* only one that is folded again, has all its samples still (NewestWhole); *)
(* after the folds of a cycle every bucket that is over has a row with all *)
(* that was sampled in it (Folded).  That a prune keeps NewestWhole needs  *)
(* the samples to come without a long gap (Recently, NoGap).               *)
OldestKept == clock - RollupAge
Over(t, p) == BucketStart(t, p) + PeriodSeconds(p) <= clock
HasRows(p) == \E b \in Times : rollups[p][b] # {}

ProbeType ==
  /\ clock \in Times /\ whole \in BOOLEAN
  /\ cycle \in {"idle", "hour", "day", "prune raw", "prune rollups"}
  /\ samples \subseteq taken /\ taken \subseteq 0 .. clock
  /\ rollups \in [Periods -> [Times -> SUBSET Times]]
  /\ cycle # "idle" => clock \in taken /\ ~whole
RowsOver ==
  \A p \in Periods, b \in Times : \A t \in rollups[p][b] :
    t \in taken /\ BucketStart(t, p) = b /\ b + PeriodSeconds(p) <= clock
RawKept == \A t \in taken : t \notin samples => t < clock - RawAge
Recently == taken # {} => \E t \in taken : clock - MaxGap <= t
NoGap ==
  \A x \in Times, s \in taken, u \in taken :
    s < x /\ x <= u => \E t \in taken : x - MaxGap <= t /\ t < x
Rolled(p) ==
  \A t \in taken :
    /\ BucketStart(t, p) >= OldestKept
    /\ t \notin samples \/ BucketStart(t, p) < LastRollupBucket(p)
    => t \in rollups[p][BucketStart(t, p)]
NewestWhole(p) ==
  HasRows(p) =>
    \A t \in taken :
      BucketStart(t, p) >= OldestKept /\ t >= LastRollupBucket(p) => t \in samples
Folded(p) ==
  \A t \in taken :
    Over(t, p) /\ BucketStart(t, p) >= OldestKept => t \in rollups[p][BucketStart(t, p)]
SoFarFolded ==
  /\ whole \/ cycle \in {"day", "prune raw", "prune rollups"} => Folded("hour")
  /\ whole \/ cycle \in {"prune raw", "prune rollups"} => Folded("day")
ProbeInv ==
  /\ ProbeType /\ RowsOver /\ RawKept /\ Recently /\ NoGap
  /\ \A p \in Periods : Rolled(p) /\ NewestWhole(p)
  /\ SoFarFolded

Newest(p) ==
  /\ LastRollupBucket(p) \in Times
  /\ \A b \in Times : rollups[p][b] # {} => b <= LastRollupBucket(p)
  /\ HasRows(p) => rollups[p][LastRollupBucket(p)] # {}
  /\ ~HasRows(p) => LastRollupBucket(p) = 0

(* What LastRollupBucket returns.                                          *)
LEMMA NewestOf ==
  ASSUME NEW f \in [Times -> SUBSET Times]
  PROVE  LET filled == {b \in Times : f[b] # {}}
             last == IF filled = {} THEN 0 ELSE Max(filled)
         IN  /\ last \in Times
             /\ \A b \in Times : f[b] # {} => b <= last
             /\ filled # {} => f[last] # {}
             /\ filled = {} => last = 0
<1> DEFINE filled == {b \in Times : f[b] # {}}
<1>1. MaxClock \in Nat /\ Times = 0 .. MaxClock BY ProbeNumbers DEF Times
<1>2. CASE filled = {}
  <2>1. 0 \in Times /\ \A b \in Times : f[b] = {} BY <1>1, <1>2
  <2>2. QED BY <1>2, <2>1
<1>3. CASE filled # {}
  <2>1. filled \in SUBSET Nat /\ \A b \in filled : b <= MaxClock BY <1>1
  <2>2. Max(filled) \in filled /\ \A b \in filled : b <= Max(filled)
    <3> HIDE DEF filled
    <3>1. QED BY <1>1, <1>3, <2>1, GreatestOfSet
  <2>3. /\ Max(filled) \in Times /\ f[Max(filled)] # {}
        /\ \A b \in Times : f[b] # {} => b <= Max(filled)
    <3> DEFINE last == Max(filled)
    <3>1. last \in filled /\ \A b \in filled : b <= last BY <2>2
    <3> HIDE DEF last
    <3>2. last \in Times /\ f[last] # {} /\ \A b \in Times : f[b] # {} => b <= last
      BY <3>1
    <3>3. QED BY <3>2 DEF last
  <2> HIDE DEF filled
  <2>4. (IF filled = {} THEN 0 ELSE Max(filled)) = Max(filled) BY <1>3
  <2>5. QED BY <1>3, <2>3, <2>4 DEF filled
<1>4. QED BY <1>2, <1>3

LEMMA NewestNow ==
  ASSUME rollups \in [Periods -> [Times -> SUBSET Times]], NEW p \in Periods
  PROVE  Newest(p)
<1>1. rollups[p] \in [Times -> SUBSET Times] OBVIOUS
<1>2. QED BY <1>1, NewestOf DEF Newest, LastRollupBucket, HasRows

LEMMA NewestNext ==
  ASSUME rollups' \in [Periods -> [Times -> SUBSET Times]], NEW p \in Periods
  PROVE  Newest(p)'
<1>1. rollups'[p] \in [Times -> SUBSET Times] OBVIOUS
<1>2. QED BY <1>1, NewestOf DEF Newest, LastRollupBucket, HasRows

LEMMA TimesOf ==
  ASSUME NEW c \in Times, NEW t \in 0 .. c, NEW p \in Periods
  PROVE  /\ c \in Nat /\ c <= MaxClock /\ t \in Nat /\ t <= c /\ t \in Times
         /\ BucketStart(t, p) \in Nat /\ BucketStart(t, p) \in Times
         /\ BucketStart(t, p) <= t /\ t < BucketStart(t, p) + PeriodSeconds(p)
         /\ PeriodSeconds(p) \in Nat /\ PeriodSeconds(p) >= 1 /\ PeriodSeconds(p) <= Day
<1>1. c \in Nat /\ c <= MaxClock /\ t \in Nat /\ t <= c BY ProbeNumbers DEF Times
<1>2. /\ BucketStart(t, p) \in Nat
      /\ BucketStart(t, p) <= t /\ t < BucketStart(t, p) + PeriodSeconds(p)
  BY <1>1, BucketOf
<1>3. BucketStart(t, p) \in Times /\ t \in Times
  BY <1>1, <1>2, ProbeNumbers DEF Times
<1>4. QED BY <1>1, <1>2, <1>3, PeriodNumbers

LEMMA TimesNat == \A c \in Times : c \in Nat /\ 0 .. c \subseteq Times
<1>1. MaxClock \in Nat BY ProbeNumbers
<1>2. QED BY <1>1 DEF Times

LEMMA StoredNow ==
  ASSUME ProbeType
  PROVE  /\ clock \in Times /\ clock \in Nat /\ taken \subseteq 0 .. clock
         /\ samples \subseteq taken /\ taken \subseteq Times
<1>1. clock \in Times /\ taken \subseteq 0 .. clock /\ samples \subseteq taken
  BY DEF ProbeType
<1>2. QED BY <1>1, TimesNat

(* Right after the folds every sample that needs a row has one.            *)
LEMMA FoldedRolls ==
  ASSUME ProbeType', RowsOver', RawKept', NEW p \in Periods, Folded(p)'
  PROVE  Rolled(p)'
<1>1. clock' \in Times /\ taken' \subseteq 0 .. clock' /\ clock' \in Nat
  <2>1. clock' \in Times /\ taken' \subseteq 0 .. clock' BY DEF ProbeType
  <2>2. QED BY <2>1, TimesNat
<1>2. Newest(p)' BY NewestNext DEF ProbeType
<1> SUFFICES ASSUME NEW t \in taken', BucketStart(t, p) >= OldestKept',
                    t \notin samples' \/ BucketStart(t, p) < LastRollupBucket(p)'
             PROVE  t \in rollups'[p][BucketStart(t, p)]
  BY DEF Rolled
<1> DEFINE b == BucketStart(t, p)
           n == PeriodSeconds(p)
           last == LastRollupBucket(p)'
<1>3. /\ t \in Nat /\ b \in Nat /\ b <= t /\ t < b + n /\ n \in Nat /\ n <= Day
  BY <1>1, TimesOf
<1>4. ASSUME b + n <= clock' PROVE t \in rollups'[p][b]
  BY <1>4 DEF Folded, Over
<1>5. CASE t \notin samples'
  <2>1. t < clock' - RawAge BY <1>5 DEF RawKept
  <2>2. RawAge \in Nat /\ RawAge >= Day /\ Day \in Nat BY Ages, ProbeNumbers
  <2> HIDE DEF b, n
  <2>3. t + Day < clock'
    <3>1. \A x, c, r, d \in Nat : x < c - r /\ r >= d => x + d < c OBVIOUS
    <3>2. t \in Nat /\ clock' \in Nat BY <1>1, <1>3
    <3>3. QED BY <2>1, <2>2, <3>1, <3>2
  <2>4. b + n <= clock' BY <1>1, <1>3, <2>2, <2>3
  <2>5. QED BY <1>4, <2>4 DEF b, n
<1>6. CASE b < last
  <2>1. last \in Times /\ last \in Nat BY <1>2, ProbeNumbers DEF Newest, Times
  <2>2. last # 0 BY <1>3, <1>6
  <2>3. rollups'[p][last] # {} BY <1>2, <2>2 DEF Newest
  <2>4. last + n <= clock' BY <2>1, <2>3 DEF RowsOver
  <2> HIDE DEF b, n, last
  <2>5. b + n <= clock' BY <1>1, <1>3, <1>6, <2>1, <2>4
  <2>6. QED BY <1>4, <2>5 DEF b, n
<1>7. QED BY <1>5, <1>6

(* The row of the newest bucket is that of a bucket that is over.          *)
LEMMA NewestIsOver ==
  ASSUME ProbeType, RowsOver, NEW p \in Periods, HasRows(p)
  PROVE  /\ LastRollupBucket(p) \in Times /\ LastRollupBucket(p) \in Nat
         /\ LastRollupBucket(p) + PeriodSeconds(p) <= clock
         /\ BucketStart(LastRollupBucket(p), p) = LastRollupBucket(p)
         /\ \A b \in Times : rollups[p][b] # {} => b <= LastRollupBucket(p)
<1> DEFINE last == LastRollupBucket(p)
<1>1. Newest(p) BY NewestNow DEF ProbeType
<1>2. last \in Times /\ last \in Nat BY <1>1, ProbeNumbers DEF Newest, Times
<1>3. PICK x \in rollups[p][last] : TRUE BY <1>1 DEF Newest
<1>4. x \in taken /\ BucketStart(x, p) = last /\ last + PeriodSeconds(p) <= clock
  BY <1>2, <1>3 DEF RowsOver
<1>5. x \in Nat BY <1>4, TimesOf DEF ProbeType
<1>6. BucketStart(last, p) = last BY <1>4, <1>5, BucketIdempotent
<1>7. QED BY <1>1, <1>2, <1>4, <1>6 DEF Newest

(* A fold replaces the row of the newest bucket, whose samples are all     *)
(* still there, adds rows of later buckets, and leaves the earlier rows.   *)
LEMMA FoldWrites ==
  ASSUME ProbeInv, NEW p \in Periods, FoldRollups(p), NEW b \in Times
  PROVE  /\ rollups'[p][b] \in SUBSET Times
         /\ \/ rollups'[p][b] = rollups[p][b]
            \/ /\ rollups'[p][b] = InBucket(ToFold(p), b, p)
               /\ rollups'[p][b] # {} /\ b + PeriodSeconds(p) <= clock
         /\ InBucket(ToFold(p), b, p) # {} /\ b + PeriodSeconds(p) <= clock
              => rollups'[p][b] = InBucket(ToFold(p), b, p)
         /\ rollups[p][b] # {} => rollups'[p][b] # {}
         /\ \A q \in Periods \ {p} : rollups'[q] = rollups[q]
<1> DEFINE group == InBucket(ToFold(p), b, p)
<1>1. rollups \in [Periods -> [Times -> SUBSET Times]] BY DEF ProbeInv, ProbeType
<1>2. /\ rollups'[p][b] = IF group # {} /\ b + PeriodSeconds(p) <= clock
                          THEN group ELSE rollups[p][b]
      /\ \A q \in Periods \ {p} : rollups'[q] = rollups[q]
  BY <1>1 DEF FoldRollups
<1>3. group \subseteq Times
  <2>1. samples \subseteq Times
    BY StoredNow DEF ProbeInv
  <2>2. QED BY <2>1 DEF InBucket, ToFold
<1>4. rollups[p][b] \subseteq Times BY <1>1
<1> HIDE DEF group
<1>5. CASE group # {} /\ b + PeriodSeconds(p) <= clock
  BY <1>2, <1>3, <1>5 DEF group
<1>6. CASE ~(group # {} /\ b + PeriodSeconds(p) <= clock)
  BY <1>2, <1>4, <1>6 DEF group
<1>7. QED BY <1>5, <1>6

(* So no sample in the row of a bucket that is kept leaves it.             *)
LEMMA FoldKeepsRows ==
  ASSUME ProbeInv, NEW p \in Periods, FoldRollups(p), NEW t \in taken,
         BucketStart(t, p) >= OldestKept, t \in rollups[p][BucketStart(t, p)],
         t \in samples => BucketStart(t, p) < LastRollupBucket(p)
  PROVE  t \in rollups'[p][BucketStart(t, p)]
<1> DEFINE b == BucketStart(t, p)
           n == PeriodSeconds(p)
           last == LastRollupBucket(p)
<1>1. /\ clock \in Times /\ clock \in Nat /\ taken \subseteq 0 .. clock
      /\ samples \subseteq taken
  BY StoredNow DEF ProbeInv
<1>2. /\ t \in Nat /\ b \in Nat /\ b \in Times /\ b <= t /\ t < b + n /\ n \in Nat
  BY <1>1, TimesOf
<1>3. HasRows(p) BY <1>2 DEF HasRows
<1>4. /\ last \in Nat /\ BucketStart(last, p) = last /\ b <= last
  <2>1. rollups[p][b] # {} OBVIOUS
  <2>2. QED BY <1>2, <1>3, <2>1, NewestIsOver DEF ProbeInv
<1>5. CASE rollups'[p][b] = rollups[p][b] BY <1>5
<1>6. CASE rollups'[p][b] = InBucket(ToFold(p), b, p) /\ rollups'[p][b] # {}
  <2>1. PICK s \in samples : last <= s /\ BucketStart(s, p) = b
    BY <1>6 DEF InBucket, ToFold
  <2>2. s \in Nat /\ s < b + n BY <1>1, <2>1, TimesOf
  <2>3. last < b + n
    <3> HIDE DEF b, n, last
    <3>1. QED BY <1>2, <1>4, <2>1, <2>2
  <2>4. BucketStart(last, p) = b BY <1>2, <1>4, <2>3, BucketSame
  <2>5. last = b BY <1>4, <2>4
  <2>6. t \notin samples BY <1>2, <2>5
  <2>7. t >= last BY <1>2, <2>5
  <2>8. NewestWhole(p) BY DEF ProbeInv
  <2>9. QED BY <1>3, <2>6, <2>7, <2>8 DEF NewestWhole
<1>7. QED BY <1>2, <1>5, <1>6, FoldWrites

(* What a fold of one of the periods establishes.                          *)
LEMMA FoldKeeps ==
  ASSUME ProbeInv, NEW p \in Periods, FoldRollups(p), UNCHANGED <<clock, samples, taken>>
  PROVE  /\ rollups' \in [Periods -> [Times -> SUBSET Times]]
         /\ RowsOver' /\ Folded(p)' /\ NewestWhole(p)'
<1>1. /\ clock \in Nat /\ clock \in Times /\ taken \subseteq 0 .. clock
      /\ samples \subseteq taken
      /\ rollups \in [Periods -> [Times -> SUBSET Times]]
  BY StoredNow DEF ProbeInv, ProbeType
<1>2. rollups' \in [Periods -> [Times -> SUBSET Times]]
  <2>1. rollups' = [rollups EXCEPT ![p] = rollups'[p]] BY <1>1 DEF FoldRollups
  <2>2. rollups'[p] = [b \in Times |-> rollups'[p][b]] BY <1>1 DEF FoldRollups
  <2>3. \A b \in Times : rollups'[p][b] \in SUBSET Times BY FoldWrites
  <2>4. rollups'[p] \in [Times -> SUBSET Times] BY <2>2, <2>3
  <2>5. QED BY <1>1, <2>1, <2>4
<1>3. RowsOver'
  <2> SUFFICES ASSUME NEW q \in Periods, NEW b \in Times, NEW t \in rollups'[q][b]
               PROVE  /\ t \in taken /\ BucketStart(t, q) = b
                      /\ b + PeriodSeconds(q) <= clock
    BY DEF RowsOver
  <2>1. CASE rollups'[q][b] = rollups[q][b] BY <2>1 DEF ProbeInv, RowsOver
  <2>2. CASE /\ q = p /\ rollups'[p][b] = InBucket(ToFold(p), b, p)
             /\ b + PeriodSeconds(p) <= clock
    BY <1>1, <2>2 DEF InBucket, ToFold
  <2>3. QED BY <2>1, <2>2, FoldWrites
<1>4. Folded(p)'
  <2> SUFFICES ASSUME NEW t \in taken, BucketStart(t, p) + PeriodSeconds(p) <= clock,
                      BucketStart(t, p) >= OldestKept
               PROVE  t \in rollups'[p][BucketStart(t, p)]
    BY DEF Folded, Over, OldestKept
  <2> DEFINE b == BucketStart(t, p)
             n == PeriodSeconds(p)
             last == LastRollupBucket(p)
  <2>1. /\ t \in Nat /\ b \in Nat /\ b \in Times /\ b <= t /\ t < b + n
        /\ n \in Nat /\ n >= 1
    BY <1>1, TimesOf
  <2>2. last \in Nat
    <3>1. last \in Times BY <1>1, NewestNow DEF Newest
    <3>2. QED BY <3>1, TimesNat
  <2>3. CASE t \notin samples \/ b < last
    <3>1. Rolled(p) BY DEF ProbeInv
    <3>2. t \in rollups[p][b] BY <2>3, <3>1 DEF Rolled
    <3>3. t \in samples => b < last BY <2>3
    <3>4. QED BY <3>2, <3>3, FoldKeepsRows
  <2>4. CASE t \in samples /\ last <= b
    <3>1. b + n \in Nat /\ b + n - 1 \in Nat BY <2>1
    <3>2. t <= BucketStart(clock, p)
      <4>1. t < BucketStart(clock, p) BY <1>1, <2>1, OverIsEarlier
      <4>2. BucketStart(clock, p) \in Nat BY <1>1, BucketOf
      <4>3. QED BY <2>1, <4>1, <4>2
    <3>3. last <= t BY <2>1, <2>2, <2>4
    <3>4. t \in InBucket(ToFold(p), b, p) BY <2>4, <3>2, <3>3 DEF InBucket, ToFold
    <3>5. rollups'[p][b] = InBucket(ToFold(p), b, p) BY <2>1, <3>4, FoldWrites
    <3>6. QED BY <3>4, <3>5
  <2>5. QED BY <2>1, <2>2, <2>3, <2>4
<1>5. NewestWhole(p)'
  <2> SUFFICES ASSUME HasRows(p)', NEW t \in taken, BucketStart(t, p) >= OldestKept,
                      t >= LastRollupBucket(p)', t \notin samples
               PROVE  FALSE
    BY DEF NewestWhole, OldestKept
  <2> DEFINE b == BucketStart(t, p)
  <2>1. t \in Nat /\ b \in Times BY <1>1, TimesOf
  <2>2. t \in rollups[p][b] BY DEF ProbeInv, Rolled
  <2>3. HasRows(p) BY <2>1, <2>2 DEF HasRows
  <2>4. /\ LastRollupBucket(p) \in Times /\ LastRollupBucket(p) \in Nat
        /\ rollups[p][LastRollupBucket(p)] # {}
    BY <1>1, <2>3, NewestNow, TimesNat DEF Newest
  <2>5. rollups'[p][LastRollupBucket(p)] # {} BY <2>4, FoldWrites
  <2>6. Newest(p)' BY <1>2, NewestNext
  <2>7. /\ LastRollupBucket(p) <= LastRollupBucket(p)'
        /\ LastRollupBucket(p)' \in Nat
    BY <2>4, <2>5, <2>6, TimesNat DEF Newest
  <2>8. t >= LastRollupBucket(p) BY <2>1, <2>4, <2>7
  <2>9. QED BY <2>3, <2>8 DEF ProbeInv, NewestWhole
<1>6. QED BY <1>2, <1>3, <1>4, <1>5

(* Later than a sample that a prune of the raw samples takes there is one  *)
(* it leaves, in a later bucket that is over: it is no more than the       *)
(* longest gap before the bucket under way.                                *)
LEMMA LaterSample ==
  ASSUME ProbeInv, MaxGap <= LongestGap, clock \in taken,
         NEW p \in Periods, NEW t \in taken, t < clock - RawAge
  PROVE  \E u \in samples : Over(u, p) /\ t < BucketStart(u, p)
<1> DEFINE n == PeriodSeconds(p)
           current == BucketStart(clock, p)
<1>1. /\ clock \in Nat /\ clock \in Times /\ taken \subseteq 0 .. clock
  BY StoredNow DEF ProbeInv
<1>2. /\ current \in Nat /\ current \in Times /\ current <= clock
      /\ clock < current + n /\ n \in Nat /\ n <= Day /\ Day \in Nat
  BY <1>1, TimesOf, ProbeNumbers
<1>3. /\ RawAge \in Nat /\ LongestGap \in Nat /\ RawAge = LongestGap + Day
      /\ MaxGap \in Nat
  BY Ages, ProbeNumbers
<1>4. t \in Nat BY <1>1
<1> HIDE DEF n, current
<1>5. clock - RawAge < current - LongestGap
  <2>1. \A c, k, d, g, m \in Nat : c < k + m /\ m <= d => c - (g + d) < k - g OBVIOUS
  <2>2. QED BY <1>1, <1>2, <1>3, <2>1
<1>6. t < current - LongestGap /\ t < current BY <1>1, <1>2, <1>3, <1>4, <1>5
<1>7. PICK u \in taken : current - MaxGap <= u /\ u < current
  BY <1>1, <1>2, <1>6 DEF ProbeInv, NoGap
<1>8. /\ u \in Nat /\ BucketStart(u, p) \in Nat /\ BucketStart(u, p) <= u
  BY <1>1, TimesOf
<1>9. u >= current - LongestGap BY <1>2, <1>3, <1>7, <1>8
<1>10. BucketStart(u, p) >= current - LongestGap
  BY <1>1, <1>8, <1>9, GapAligned DEF current
<1>11. t < BucketStart(u, p) BY <1>2, <1>3, <1>4, <1>6, <1>8, <1>10
<1>12. Over(u, p)
  <2>1. BucketStart(u, p) < current BY <1>2, <1>7, <1>8
  <2>2. BucketStart(u, p) + n <= current BY <1>1, <1>8, <2>1, BucketsApart DEF current, n
  <2>3. BucketStart(u, p) + n <= clock BY <1>1, <1>2, <1>8, <2>2
  <2>4. QED BY <2>3 DEF Over, n
<1>13. u \in samples
  <2>1. ~ (u < clock - RawAge) BY <1>1, <1>2, <1>3, <1>5, <1>8, <1>9
  <2>2. QED BY <2>1 DEF ProbeInv, RawKept
<1>14. QED BY <1>11, <1>12, <1>13

(* So nothing it takes is in or after the newest bucket there is a row of. *)
LEMMA PruneIsBeforeNewest ==
  ASSUME ProbeInv, MaxGap <= LongestGap, clock \in taken,
         NEW p \in Periods, Folded(p), HasRows(p),
         NEW t \in taken, t < clock - RawAge, BucketStart(t, p) >= OldestKept
  PROVE  t < LastRollupBucket(p)
<1> DEFINE last == LastRollupBucket(p)
<1>1. PICK u \in samples : Over(u, p) /\ t < BucketStart(u, p) BY LaterSample
<1>2. /\ clock \in Nat /\ clock \in Times /\ u \in taken /\ taken \subseteq 0 .. clock
      /\ RollupAge \in Nat
  BY StoredNow, Ages DEF ProbeInv
<1>3. /\ t \in Nat /\ BucketStart(t, p) \in Nat /\ BucketStart(t, p) <= t
      /\ BucketStart(u, p) \in Nat /\ BucketStart(u, p) \in Times
  BY <1>2, TimesOf
<1>4. BucketStart(u, p) >= OldestKept BY <1>1, <1>2, <1>3 DEF OldestKept
<1>5. u \in rollups[p][BucketStart(u, p)] BY <1>1, <1>2, <1>4 DEF Folded
<1>6. BucketStart(u, p) <= last /\ last \in Nat
  BY <1>3, <1>5, NewestIsOver DEF ProbeInv
<1>7. QED BY <1>1, <1>3, <1>6

-----------------------------------------------------------------------------
(* The steps of a cycle.                                                   *)
LEMMA ProbeInsertKeeps == ASSUME ProbeInv, Insert PROVE ProbeInv'
<1>1. /\ clock \in Nat /\ clock \in Times /\ taken \subseteq 0 .. clock
      /\ samples \subseteq taken /\ MaxGap \in Nat
  BY StoredNow, ProbeNumbers DEF ProbeInv
<1>2. /\ samples' = samples \union {clock} /\ taken' = taken \union {clock}
      /\ cycle' = "hour" /\ whole' = FALSE /\ UNCHANGED <<clock, rollups>>
  BY DEF Insert
<1>3. ProbeType'
  <2>1. clock \in 0 .. clock BY <1>1
  <2>2. QED BY <1>1, <1>2, <2>1 DEF ProbeInv, ProbeType
<1>4. RowsOver' BY <1>2 DEF ProbeInv, RowsOver
<1>5. RawKept' BY <1>2 DEF ProbeInv, RawKept
<1>6. Recently' BY <1>1, <1>2 DEF Recently
<1>7. NoGap'
  <2> SUFFICES ASSUME NEW x \in Times, NEW s \in taken', NEW u \in taken', s < x, x <= u
               PROVE  \E t \in taken' : x - MaxGap <= t /\ t < x
    BY DEF NoGap
  <2>1. x \in Nat /\ \A t \in taken : t \in Nat /\ t <= clock BY <1>1, TimesNat
  <2>2. s \in taken BY <1>1, <1>2, <2>1
  <2>3. CASE u \in taken BY <1>2, <2>2, <2>3 DEF ProbeInv, NoGap
  <2>4. CASE u = clock /\ \A t \in taken : t < x
    <3>1. PICK t \in taken : clock - MaxGap <= t BY <2>2 DEF ProbeInv, Recently
    <3>2. t \in Nat /\ t < x BY <2>1, <2>4
    <3>3. x - MaxGap <= t BY <1>1, <2>1, <2>4, <3>1, <3>2
    <3>4. QED BY <1>2, <3>2, <3>3
  <2>5. CASE \E v \in taken : ~ (v < x)
    <3>1. PICK v \in taken : x <= v BY <2>1, <2>5
    <3>2. QED BY <1>2, <2>2, <3>1 DEF ProbeInv, NoGap
  <2>6. QED BY <1>2, <2>3, <2>4, <2>5
<1>8. ASSUME NEW p \in Periods PROVE Rolled(p)' /\ NewestWhole(p)'
  <2>1. Rolled(p) /\ NewestWhole(p) BY DEF ProbeInv
  <2>2. LastRollupBucket(p)' = LastRollupBucket(p) /\ (HasRows(p)' <=> HasRows(p))
    BY <1>2 DEF LastRollupBucket, HasRows
  <2>3. ~ (BucketStart(clock, p) < LastRollupBucket(p))
    <3>1. /\ BucketStart(clock, p) \in Nat
          /\ clock < BucketStart(clock, p) + PeriodSeconds(p) /\ PeriodSeconds(p) \in Nat
      BY <1>1, BucketOf, PeriodNumbers
    <3>2. CASE HasRows(p)
      <4>1. /\ LastRollupBucket(p) \in Nat
            /\ LastRollupBucket(p) + PeriodSeconds(p) <= clock
        BY <3>2, NewestIsOver DEF ProbeInv
      <4>2. QED BY <1>1, <3>1, <4>1
    <3>3. CASE ~HasRows(p)
      <4>1. LastRollupBucket(p) = 0 BY <3>3, NewestNow DEF Newest, ProbeInv, ProbeType
      <4>2. QED BY <3>1, <4>1
    <3>4. QED BY <3>2, <3>3
  <2>4. Rolled(p)' BY <1>2, <2>1, <2>2, <2>3 DEF Rolled, OldestKept
  <2>5. NewestWhole(p)' BY <1>2, <2>1, <2>2 DEF NewestWhole, OldestKept
  <2>6. QED BY <2>4, <2>5
<1>9. SoFarFolded' BY <1>2 DEF SoFarFolded
<1>10. QED BY <1>3, <1>4, <1>5, <1>6, <1>7, <1>8, <1>9 DEF ProbeInv

LEMMA ProbeFoldKeeps == ASSUME ProbeInv, FoldHour \/ FoldDay PROVE ProbeInv'
<1>1. PICK p \in Periods :
        /\ FoldRollups(p)
        /\ \/ p = "hour" /\ cycle = "hour" /\ cycle' = "day"
           \/ p = "day" /\ cycle = "day" /\ cycle' = "prune raw"
  BY DEF FoldHour, FoldDay, Periods
<1>2. UNCHANGED <<clock, samples, taken, whole>> BY DEF FoldHour, FoldDay
<1>3. /\ rollups' \in [Periods -> [Times -> SUBSET Times]]
      /\ RowsOver' /\ Folded(p)' /\ NewestWhole(p)'
  BY <1>1, <1>2, FoldKeeps
<1>4. ProbeType' BY <1>1, <1>2, <1>3 DEF ProbeInv, ProbeType
<1>5. RawKept' /\ Recently' /\ NoGap'
  BY <1>2 DEF ProbeInv, RawKept, Recently, NoGap
<1>6. Rolled(p)' BY <1>3, <1>4, <1>5, FoldedRolls
<1>7. ASSUME NEW q \in Periods, q # p
      PROVE  Rolled(q)' /\ NewestWhole(q)' /\ (Folded(q) => Folded(q)')
  <2>1. rollups'[q] = rollups[q]
    <3>1. 0 \in Times BY ProbeNumbers DEF Times
    <3>2. QED BY <1>1, <1>7, <3>1, FoldWrites
  <2>2. LastRollupBucket(q)' = LastRollupBucket(q) /\ (HasRows(q)' <=> HasRows(q))
    BY <2>1 DEF LastRollupBucket, HasRows
  <2>3. Rolled(q) /\ NewestWhole(q) BY DEF ProbeInv
  <2>4. Rolled(q)' BY <1>2, <2>1, <2>2, <2>3 DEF Rolled, OldestKept
  <2>5. NewestWhole(q)' BY <1>2, <2>2, <2>3 DEF NewestWhole, OldestKept
  <2>6. Folded(q) => Folded(q)' BY <1>2, <2>1 DEF Folded, Over, OldestKept
  <2>7. QED BY <2>4, <2>5, <2>6
<1>8. SoFarFolded'
  <2>1. ~whole BY <1>1 DEF ProbeInv, ProbeType
  <2>2. CASE p = "hour" /\ cycle' = "day"
    BY <1>2, <1>3, <2>1, <2>2 DEF SoFarFolded
  <2>3. CASE p = "day" /\ cycle = "day" /\ cycle' = "prune raw"
    <3>1. Folded("hour") BY <2>3 DEF ProbeInv, SoFarFolded
    <3>2. Folded("hour")' BY <1>7, <2>3, <3>1 DEF Periods
    <3>3. QED BY <1>3, <2>3, <3>2 DEF SoFarFolded
  <2>4. QED BY <1>1, <2>2, <2>3
<1>9. QED BY <1>3, <1>4, <1>5, <1>6, <1>7, <1>8 DEF ProbeInv

LEMMA ProbePruneRawKeeps ==
  ASSUME ProbeInv, MaxGap <= LongestGap, PruneRaw PROVE ProbeInv'
<1>1. /\ cycle = "prune raw" /\ cycle' = "prune rollups"
      /\ samples' = {t \in samples : t >= clock - RawAge}
      /\ UNCHANGED <<clock, rollups, taken, whole>>
  BY DEF PruneRaw, RawAge
<1>2. clock \in taken /\ Folded("hour") /\ Folded("day")
  BY <1>1 DEF ProbeInv, ProbeType, SoFarFolded
<1>3. \A t \in taken : t \in samples /\ t \notin samples' => t < clock - RawAge
  <2>1. clock \in Nat /\ \A t \in taken : t \in Nat BY StoredNow DEF ProbeInv
  <2>2. \A t \in taken : ~ (t >= clock - RawAge) => t < clock - RawAge
    BY <2>1, Ages
  <2>3. QED BY <1>1, <2>2
<1>4. ProbeType' BY <1>1 DEF ProbeInv, ProbeType
<1>5. RowsOver' /\ Recently' /\ NoGap' BY <1>1 DEF ProbeInv, RowsOver, Recently, NoGap
<1>6. RawKept' BY <1>1, <1>3 DEF ProbeInv, RawKept
<1>7. ASSUME NEW p \in Periods PROVE Rolled(p)' /\ NewestWhole(p)' /\ Folded(p)'
  <2>1. Folded(p) BY <1>2 DEF Periods
  <2>2. Folded(p)' BY <1>1, <2>1 DEF Folded, Over, OldestKept
  <2>3. Rolled(p)' BY <1>4, <1>5, <1>6, <2>2, FoldedRolls
  <2>4. LastRollupBucket(p)' = LastRollupBucket(p) /\ (HasRows(p)' <=> HasRows(p))
    BY <1>1 DEF LastRollupBucket, HasRows
  <2>5. NewestWhole(p)'
    <3> SUFFICES ASSUME HasRows(p), NEW t \in taken, BucketStart(t, p) >= OldestKept,
                        t >= LastRollupBucket(p), t \notin samples'
                 PROVE  FALSE
      BY <1>1, <2>4 DEF NewestWhole, OldestKept
    <3>1. t \in samples BY DEF ProbeInv, NewestWhole
    <3>2. t < LastRollupBucket(p) BY <1>2, <1>3, <2>1, <3>1, PruneIsBeforeNewest
    <3>3. LastRollupBucket(p) \in Nat /\ t \in Nat
      BY NewestIsOver, StoredNow DEF ProbeInv
    <3>4. QED BY <3>2, <3>3
  <2>6. QED BY <2>2, <2>3, <2>5
<1>8. SoFarFolded' BY <1>7 DEF SoFarFolded, Periods
<1>9. QED BY <1>4, <1>5, <1>6, <1>7, <1>8 DEF ProbeInv

LEMMA ProbePruneRollupsKeeps == ASSUME ProbeInv, PruneRollups PROVE ProbeInv'
<1>1. /\ cycle = "prune rollups" /\ cycle' = "idle" /\ whole' = TRUE
      /\ rollups' = [p \in Periods |-> [b \in Times |->
           IF b >= OldestKept THEN rollups[p][b] ELSE {}]]
      /\ UNCHANGED <<clock, samples, taken>>
  BY DEF PruneRollups, OldestKept, RollupAge
<1>2. /\ clock \in Nat /\ clock \in Times /\ taken \subseteq 0 .. clock
      /\ Folded("hour") /\ Folded("day") /\ OldestKept \in Int
      /\ rollups \in [Periods -> [Times -> SUBSET Times]]
  <2>1. OldestKept \in Int BY StoredNow, Ages DEF OldestKept, ProbeInv
  <2>2. QED BY <1>1, <2>1, StoredNow DEF ProbeInv, ProbeType, SoFarFolded
<1>3. /\ rollups' \in [Periods -> [Times -> SUBSET Times]]
      /\ \A p \in Periods, b \in Times :
           rollups'[p][b] = IF b >= OldestKept THEN rollups[p][b] ELSE {}
  BY <1>1, <1>2
<1>4. ProbeType' BY <1>1, <1>3 DEF ProbeInv, ProbeType
<1>5. RowsOver'
  <2>1. \A p \in Periods, b \in Times : rollups'[p][b] \subseteq rollups[p][b] BY <1>3
  <2>2. QED BY <1>1, <2>1 DEF ProbeInv, RowsOver
<1>6. RawKept' /\ Recently' /\ NoGap'
  BY <1>1 DEF ProbeInv, RawKept, Recently, NoGap
<1>7. ASSUME NEW p \in Periods PROVE Rolled(p)' /\ NewestWhole(p)' /\ Folded(p)'
  <2>1. Folded(p) BY <1>2 DEF Periods
  <2>2. \A t \in taken : BucketStart(t, p) \in Times BY <1>2, TimesOf
  <2>3. Folded(p)' BY <1>1, <1>3, <2>1, <2>2 DEF Folded, Over, OldestKept
  <2>4. Rolled(p)' BY <1>4, <1>5, <1>6, <2>3, FoldedRolls
  <2>5. NewestWhole(p)'
    <3> SUFFICES ASSUME HasRows(p)', NEW t \in taken, BucketStart(t, p) >= OldestKept,
                        t >= LastRollupBucket(p)'
                 PROVE  t \in samples
      BY <1>1 DEF NewestWhole, OldestKept
    <3>1. PICK b \in Times : rollups'[p][b] # {} BY DEF HasRows
    <3>2. b >= OldestKept /\ rollups[p][b] # {} BY <1>3, <3>1
    <3>3. HasRows(p) BY <3>2 DEF HasRows
    <3>4. /\ LastRollupBucket(p) \in Times /\ LastRollupBucket(p) \in Nat
          /\ rollups[p][LastRollupBucket(p)] # {} /\ b <= LastRollupBucket(p)
      BY <1>2, <3>2, <3>3, NewestNow, TimesNat DEF Newest
    <3>5. LastRollupBucket(p) >= OldestKept BY <1>2, <3>2, <3>4, TimesNat
    <3>6. rollups'[p][LastRollupBucket(p)] # {} BY <1>3, <3>4, <3>5
    <3>7. Newest(p)' BY <1>3, NewestNext
    <3>8. /\ LastRollupBucket(p) <= LastRollupBucket(p)'
          /\ LastRollupBucket(p)' \in Nat /\ t \in Nat
      BY <1>2, <3>4, <3>6, <3>7, TimesNat DEF Newest
    <3>9. t >= LastRollupBucket(p) BY <3>4, <3>8
    <3>10. QED BY <3>3, <3>9 DEF ProbeInv, NewestWhole
  <2>6. QED BY <2>3, <2>4, <2>5
<1>8. SoFarFolded' BY <1>7 DEF SoFarFolded, Periods
<1>9. QED BY <1>4, <1>5, <1>6, <1>7, <1>8 DEF ProbeInv

LEMMA ProbeTickKeeps == ASSUME ProbeInv, ClockTicks PROVE ProbeInv'
<1>1. /\ cycle = "idle" /\ clock < MaxClock /\ clock' = clock + 1 /\ whole' = FALSE
      /\ clock - LastTaken < MaxGap /\ UNCHANGED <<cycle, samples, rollups, taken>>
  BY DEF ClockTicks
<1>2. /\ clock \in Nat /\ clock \in Times /\ taken \subseteq 0 .. clock
      /\ samples \subseteq taken /\ MaxGap \in Nat
  BY StoredNow, ProbeNumbers DEF ProbeInv
<1>3. clock' \in Times /\ clock' \in Nat /\ taken \subseteq 0 .. clock'
  BY <1>1, <1>2, ProbeNumbers DEF Times
<1>4. ProbeType' BY <1>1, <1>3 DEF ProbeInv, ProbeType
<1>5. RowsOver'
  <2> SUFFICES ASSUME NEW p \in Periods, NEW b \in Times, NEW t \in rollups[p][b]
               PROVE  /\ t \in taken /\ BucketStart(t, p) = b
                      /\ b + PeriodSeconds(p) <= clock + 1
    BY <1>1 DEF RowsOver
  <2>1. t \in taken /\ BucketStart(t, p) = b /\ b + PeriodSeconds(p) <= clock
    BY DEF ProbeInv, RowsOver
  <2>2. b \in Nat /\ PeriodSeconds(p) \in Nat BY TimesNat, PeriodNumbers
  <2>3. QED BY <1>2, <2>1, <2>2
<1>6. RawKept'
  <2> SUFFICES ASSUME NEW t \in taken, t \notin samples PROVE t < clock' - RawAge
    BY <1>1 DEF RawKept
  <2>1. t \in Nat /\ t < clock - RawAge /\ RawAge \in Nat
    BY <1>2, Ages DEF ProbeInv, RawKept
  <2>2. QED BY <1>1, <1>2, <2>1
<1>7. Recently'
  <2> SUFFICES ASSUME taken # {} PROVE \E t \in taken : clock' - MaxGap <= t
    BY <1>1 DEF Recently
  <2>1. taken \in SUBSET Nat /\ \A t \in taken : t <= clock BY <1>2
  <2>2. Max(taken) \in taken BY <1>2, <2>1, GreatestOfSet
  <2>3. clock - Max(taken) < MaxGap BY <1>1 DEF LastTaken
  <2> DEFINE m == Max(taken)
  <2>4. m \in Nat /\ m \in taken /\ clock - m < MaxGap BY <2>1, <2>2, <2>3
  <2> HIDE DEF m
  <2>5. clock' - MaxGap <= m BY <1>1, <1>2, <2>4
  <2>6. QED BY <2>4, <2>5
<1>8. NoGap' BY <1>1 DEF ProbeInv, NoGap
<1>9. ASSUME NEW p \in Periods PROVE Rolled(p)' /\ NewestWhole(p)'
  <2>1. LastRollupBucket(p)' = LastRollupBucket(p) /\ (HasRows(p)' <=> HasRows(p))
    BY <1>1 DEF LastRollupBucket, HasRows
  <2>2. ASSUME NEW t \in taken, BucketStart(t, p) >= OldestKept'
        PROVE  BucketStart(t, p) >= OldestKept
    <3>1. BucketStart(t, p) \in Nat BY <1>2, TimesOf
    <3>2. OldestKept \in Int /\ OldestKept' = OldestKept + 1
      BY <1>1, <1>2, Ages DEF OldestKept
    <3>3. QED BY <2>2, <3>1, <3>2
  <2>3. Rolled(p) /\ NewestWhole(p) BY DEF ProbeInv
  <2>4. Rolled(p)' BY <1>1, <2>1, <2>2, <2>3 DEF Rolled
  <2>5. NewestWhole(p)' BY <1>1, <2>1, <2>2, <2>3 DEF NewestWhole
  <2>6. QED BY <2>4, <2>5
<1>10. SoFarFolded' BY <1>1 DEF SoFarFolded
<1>11. QED BY <1>4, <1>5, <1>6, <1>7, <1>8, <1>9, <1>10 DEF ProbeInv

(* A step that moves only the cycle, and does not say it is whole.         *)
LEMMA ProbeAbortKeeps ==
  ASSUME ProbeInv, Abort \/ UNCHANGED probeVars PROVE ProbeInv'
<1>1. /\ UNCHANGED <<clock, samples, rollups, taken, whole>>
      /\ (cycle' = "idle" /\ ~whole) \/ cycle' = cycle
  BY DEF Abort, probeVars, ProbeInv, ProbeType
<1>2. ProbeType' BY <1>1 DEF ProbeInv, ProbeType
<1>3. RowsOver' /\ RawKept' /\ Recently' /\ NoGap'
  BY <1>1 DEF ProbeInv, RowsOver, RawKept, Recently, NoGap
<1>4. ASSUME NEW p \in Periods PROVE Rolled(p)' /\ NewestWhole(p)'
  <2>1. LastRollupBucket(p)' = LastRollupBucket(p) /\ (HasRows(p)' <=> HasRows(p))
    BY <1>1 DEF LastRollupBucket, HasRows
  <2>2. Rolled(p) /\ NewestWhole(p) BY DEF ProbeInv
  <2>3. QED BY <1>1, <2>1, <2>2 DEF Rolled, NewestWhole, OldestKept
<1>5. SoFarFolded'
  <2>1. SoFarFolded BY DEF ProbeInv
  <2>2. \A p \in Periods : Folded(p) => Folded(p)' BY <1>1 DEF Folded, Over, OldestKept
  <2>3. QED BY <1>1, <2>1, <2>2 DEF SoFarFolded, Periods
<1>6. QED BY <1>2, <1>3, <1>4, <1>5 DEF ProbeInv

-----------------------------------------------------------------------------
(* What a window shows, by its source.                                     *)
LEMMA RawExact ==
  ASSUME ProbeInv, NEW to \in 0 .. clock, NEW frm \in 0 .. to,
         Source(frm, to) = "raw", Kept(frm, "raw")
  PROVE  /\ \A t \in taken : frm <= t /\ t <= to => t \in Shown(frm, to)
         /\ \A t \in Shown(frm, to) :
              /\ frm <= t /\ t <= to /\ t \in taken
              /\ \A r1, r2 \in RowsShown(frm, to) : t \in r1 /\ t \in r2 => r1 = r2
<1>1. RowsShown(frm, to) = SampleRows(frm, to) BY DEF RowsShown
<1>2. clock \in Nat /\ samples \subseteq taken /\ \A t \in taken : t \in Nat
  BY StoredNow DEF ProbeInv
<1>3. ASSUME NEW t \in taken, frm <= t PROVE t \in samples
  <2>1. frm >= clock - RawAge BY DEF Kept, RawAge
  <2>2. frm \in Nat /\ to \in Nat BY <1>2
  <2>3. ~ (t < clock - RawAge) BY <1>2, <1>3, <2>1, <2>2, Ages
  <2>4. QED BY <2>3 DEF ProbeInv, RawKept
<1>4. ASSUME NEW t \in taken, frm <= t, t <= to PROVE t \in Shown(frm, to)
  <2>1. {t} \in SampleRows(frm, to) BY <1>3, <1>4 DEF SampleRows
  <2>2. QED BY <1>1, <2>1 DEF Shown
<1>5. ASSUME NEW r \in RowsShown(frm, to), NEW t \in r
      PROVE  r = {t} /\ frm <= t /\ t <= to /\ t \in taken
  BY <1>1, <1>2, <1>5 DEF SampleRows
<1>6. ASSUME NEW t \in Shown(frm, to)
      PROVE  /\ frm <= t /\ t <= to /\ t \in taken
             /\ \A r1, r2 \in RowsShown(frm, to) : t \in r1 /\ t \in r2 => r1 = r2
  BY <1>5 DEF Shown
<1>7. QED BY <1>4, <1>6

LEMMA RollupsExact ==
  ASSUME ProbeInv, whole, NEW to \in 0 .. clock, NEW frm \in 0 .. to,
         NEW p \in Periods, Source(frm, to) = p, Kept(frm, p)
  PROVE  /\ \A t \in taken :
              frm + PeriodSeconds(p) <= t /\ t <= to /\ Over(t, p) => t \in Shown(frm, to)
         /\ \A t \in Shown(frm, to) :
              /\ frm <= t /\ t <= to + PeriodSeconds(p) /\ t \in taken
              /\ \A r1, r2 \in RowsShown(frm, to) : t \in r1 /\ t \in r2 => r1 = r2
<1>1. RowsShown(frm, to) = RollupRows(p, frm, to)
  BY DEF RowsShown, Periods
<1>2. /\ clock \in Nat /\ clock \in Times /\ taken \subseteq 0 .. clock
      /\ to \in Nat /\ frm \in Nat /\ frm \in Int /\ to <= clock
  <2>1. clock \in Nat /\ clock \in Times /\ taken \subseteq 0 .. clock
    BY StoredNow DEF ProbeInv
  <2>2. QED BY <2>1
<1>3. \A b \in frm .. to : b \in Times /\ b \in Nat /\ frm <= b /\ b <= to
  BY <1>2, TimesNat
<1>4. ASSUME NEW t \in taken, frm + PeriodSeconds(p) <= t, t <= to, Over(t, p)
      PROVE  t \in Shown(frm, to)
  <2> DEFINE b == BucketStart(t, p)
             n == PeriodSeconds(p)
  <2>1. t \in Nat /\ b \in Nat /\ b <= t /\ t < b + n /\ n \in Nat
    BY <1>2, TimesOf
  <2>2. b \in frm .. to /\ frm <= b
    <3>1. frm + n <= t BY <1>4
    <3> HIDE DEF b, n
    <3>2. QED BY <1>2, <1>4, <2>1, <3>1
  <2>3. frm >= clock - RollupAge BY DEF Kept, RollupAge, Periods
  <2>4. b >= OldestKept BY <1>2, <2>1, <2>2, <2>3, Ages DEF OldestKept
  <2>5. Folded(p) BY DEF ProbeInv, SoFarFolded, Periods
  <2>6. t \in rollups[p][b] BY <1>4, <2>4, <2>5 DEF Folded
  <2>7. rollups[p][b] \in RowsShown(frm, to) BY <1>1, <2>2, <2>6 DEF RollupRows
  <2>8. QED BY <2>6, <2>7 DEF Shown
<1>5. ASSUME NEW r \in RowsShown(frm, to), NEW t \in r
      PROVE  /\ r = rollups[p][BucketStart(t, p)]
             /\ frm <= t /\ t <= to + PeriodSeconds(p) /\ t \in taken
  <2>1. PICK b \in frm .. to : r = rollups[p][b] BY <1>1 DEF RollupRows
  <2>2. t \in taken /\ BucketStart(t, p) = b BY <1>3, <2>1 DEF ProbeInv, RowsOver
  <2>3. /\ t \in Nat /\ b <= t /\ t < b + PeriodSeconds(p) /\ PeriodSeconds(p) \in Nat
    BY <1>2, <2>2, TimesOf
  <2>4. frm <= t /\ t <= to + PeriodSeconds(p) BY <1>2, <1>3, <2>1, <2>3
  <2>5. QED BY <2>1, <2>2, <2>4
<1>6. ASSUME NEW t \in Shown(frm, to)
      PROVE  /\ frm <= t /\ t <= to + PeriodSeconds(p) /\ t \in taken
             /\ \A r1, r2 \in RowsShown(frm, to) : t \in r1 /\ t \in r2 => r1 = r2
  BY <1>5 DEF Shown
<1>7. QED BY <1>4, <1>6

LEMMA ProbeInitInv == ASSUME ProbeInit PROVE ProbeInv
<1>1. 0 \in Times /\ NoRows \in [Times -> SUBSET Times]
  BY ProbeNumbers DEF Times, NoRows
<1>2. ProbeType BY <1>1 DEF ProbeInit, ProbeType
<1>3. \A p \in Periods, b \in Times : rollups[p][b] = {} BY DEF ProbeInit, NoRows
<1>4. RowsOver BY <1>3 DEF RowsOver
<1>5. RawKept /\ Recently /\ NoGap BY DEF ProbeInit, RawKept, Recently, NoGap
<1>6. \A p \in Periods : Rolled(p) /\ NewestWhole(p)
  BY DEF ProbeInit, Rolled, NewestWhole
<1>7. SoFarFolded BY DEF ProbeInit, SoFarFolded
<1>8. QED BY <1>2, <1>4, <1>5, <1>6, <1>7 DEF ProbeInv

LEMMA ProbeStepInv ==
  ASSUME MaxGap <= LongestGap, ProbeInv, [ProbeNext]_probeVars PROVE ProbeInv'
<1>1. CASE Insert BY <1>1, ProbeInsertKeeps
<1>2. CASE FoldHour \/ FoldDay BY <1>2, ProbeFoldKeeps
<1>3. CASE PruneRaw BY <1>3, ProbePruneRawKeeps
<1>4. CASE PruneRollups BY <1>4, ProbePruneRollupsKeeps
<1>5. CASE ClockTicks BY <1>5, ProbeTickKeeps
<1>6. CASE Abort \/ NotDue \/ UNCHANGED probeVars BY <1>6, ProbeAbortKeeps DEF NotDue
<1>7. QED BY <1>1, <1>2, <1>3, <1>4, <1>5, <1>6 DEF ProbeNext

(* After a whole cycle a window within the retention shows exactly what    *)
(* was measured in it, for any lengths of buckets, windows and retentions  *)
(* and however many cycles were cut short, as long as no time without a    *)
(* sample is longer than the raw retention less a day: otherwise the half  *)
(* of a bucket that is left is folded again over the whole.                *)
THEOREM ProbeWindowsExact ==
  ASSUME MaxGap <= LongestGap
  PROVE  ProbeSpec => []WindowsExact
<1>1. ProbeInit => ProbeInv BY ProbeInitInv
<1>2. ProbeInv /\ [ProbeNext]_probeVars => ProbeInv' BY ProbeStepInv
<1>3. ProbeInv => WindowsExact
  <2> SUFFICES ASSUME ProbeInv, whole, NEW to \in 0 .. clock, NEW frm \in 0 .. to,
                      Kept(frm, Source(frm, to))
               PROVE  LET source == Source(frm, to) IN
                        /\ \A t \in taken :
                             /\ frm + Width(source) <= t
                             /\ t <= to /\ ~Underway(t, source)
                             => t \in Shown(frm, to)
                        /\ \A t \in Shown(frm, to) :
                             /\ frm <= t /\ t <= to + Width(source) /\ t \in taken
                             /\ \A r1, r2 \in RowsShown(frm, to) :
                                  t \in r1 /\ t \in r2 => r1 = r2
    BY DEF WindowsExact
  <2>1. Source(frm, to) \in {"raw", "hour", "day"} BY DEF Source
  <2>2. CASE Source(frm, to) = "raw"
    <3>1. Width("raw") = 0 BY DEF Width
    <3>2. \A x \in Nat : x + 0 = x OBVIOUS
    <3>3. clock \in Nat BY StoredNow DEF ProbeInv
    <3>4. frm + 0 = frm /\ to + 0 = to BY <3>2, <3>3
    <3>5. QED BY <2>2, <3>1, <3>4, RawExact
  <2>3. CASE Source(frm, to) \in Periods
    <3> DEFINE p == Source(frm, to)
    <3>1. Width(p) = PeriodSeconds(p) /\ p # "raw" BY <2>3 DEF Width, Periods
    <3>2. \A t \in taken : ~Underway(t, p) => Over(t, p)
      <4>1. ASSUME NEW t \in taken
            PROVE  BucketStart(t, p) \in Nat /\ PeriodSeconds(p) \in Nat
        BY <2>3, StoredNow, TimesOf DEF ProbeInv
      <4>2. clock \in Nat BY StoredNow DEF ProbeInv
      <4> HIDE DEF p
      <4>3. QED BY <3>1, <4>1, <4>2 DEF Underway, Over
    <3> HIDE DEF p
    <3>3. QED BY <2>3, <3>1, <3>2, RollupsExact DEF p
  <2>4. QED BY <2>1, <2>2, <2>3 DEF Periods
<1>4. QED BY <1>1, <1>2, <1>3, PTL DEF ProbeSpec
-----------------------------------------------------------------------------
(* That folding again never shrinks a row needs more: of the newest bucket *)
(* with a row, the only one folded again, every sample in the row is still *)
(* stored; and within a cycle no stored sample of a bucket that is over is *)
(* newer than the newest row, once its period is folded.                   *)
NewestStored(p) == rollups[p][LastRollupBucket(p)] \subseteq samples
Reached(p) ==
  \A t \in samples : Over(t, p) => BucketStart(t, p) <= LastRollupBucket(p)
SoFarReached ==
  /\ cycle \in {"day", "prune raw"} => Reached("hour")
  /\ cycle = "prune raw" => Reached("day")
RefoldInv == ProbeInv /\ SoFarReached /\ \A p \in Periods : NewestStored(p)

LEMMA FoldReaches ==
  ASSUME ProbeInv, NEW p \in Periods, NewestStored(p), FoldRollups(p),
         UNCHANGED <<clock, samples, taken>>
  PROVE  NewestStored(p)' /\ Reached(p)'
<1> DEFINE last == LastRollupBucket(p)
           next == LastRollupBucket(p)'
<1>1. /\ clock \in Nat /\ clock \in Times /\ taken \subseteq 0 .. clock
      /\ samples \subseteq taken
  BY StoredNow DEF ProbeInv
<1>2. Newest(p) /\ Newest(p)'
  <2>1. rollups' \in [Periods -> [Times -> SUBSET Times]] BY FoldKeeps
  <2>2. QED BY <2>1, NewestNow, NewestNext DEF ProbeInv, ProbeType
<1>3. last \in Times /\ last \in Nat /\ next \in Times /\ next \in Nat
  BY <1>2, TimesNat DEF Newest
<1>4. last <= next
  <2>1. CASE HasRows(p)
    <3>1. rollups'[p][last] # {} BY <1>2, <1>3, <2>1, FoldWrites DEF Newest
    <3>2. QED BY <1>2, <1>3, <3>1 DEF Newest
  <2>2. CASE ~HasRows(p)
    <3>1. last = 0 BY <1>2, <2>2 DEF Newest
    <3>2. QED BY <1>3, <3>1
  <2>3. QED BY <2>1, <2>2
<1>5. NewestStored(p)'
  <2>1. CASE rollups'[p][next] = rollups[p][next]
    <3>1. CASE rollups[p][next] = {} BY <2>1, <3>1 DEF NewestStored
    <3>2. CASE rollups[p][next] # {}
      <4>1. next <= last BY <1>2, <1>3, <3>2 DEF Newest
      <4>2. next = last BY <1>3, <1>4, <4>1
      <4>3. rollups'[p][next] \subseteq samples BY <2>1, <4>2 DEF NewestStored
      <4>4. QED BY <4>3 DEF NewestStored
    <3>3. QED BY <3>1, <3>2
  <2>2. CASE rollups'[p][next] = InBucket(ToFold(p), next, p)
    BY <2>2 DEF NewestStored, InBucket, ToFold
  <2>3. QED BY <1>3, <2>1, <2>2, FoldWrites
<1>6. Reached(p)'
  <2> SUFFICES ASSUME NEW t \in samples, Over(t, p) PROVE BucketStart(t, p) <= next
    BY DEF Reached, Over
  <2> DEFINE b == BucketStart(t, p)
  <2>1. t \in Nat /\ b \in Nat /\ b \in Times /\ b <= t BY <1>1, TimesOf
  <2>2. b + PeriodSeconds(p) <= clock BY DEF Over
  <2>3. CASE b <= last BY <1>3, <1>4, <2>1, <2>3
  <2>4. CASE last < b
    <3>1. t < BucketStart(clock, p) /\ BucketStart(clock, p) \in Nat
      BY <1>1, <2>1, <2>2, OverIsEarlier, BucketOf
    <3>2. t <= BucketStart(clock, p) /\ last <= t BY <1>3, <2>1, <2>4, <3>1
    <3>3. t \in InBucket(ToFold(p), b, p) BY <3>2 DEF InBucket, ToFold
    <3>4. rollups'[p][b] # {} BY <2>1, <2>2, <3>3, FoldWrites
    <3>5. QED BY <1>2, <2>1, <3>4 DEF Newest
  <2>5. QED BY <1>3, <2>1, <2>3, <2>4
<1>7. QED BY <1>5, <1>6

LEMMA RefoldFoldKeeps ==
  ASSUME RefoldInv, FoldHour \/ FoldDay
  PROVE  SoFarReached' /\ \A p \in Periods : NewestStored(p)'
<1>1. PICK p \in Periods :
        /\ FoldRollups(p)
        /\ \/ p = "hour" /\ cycle = "hour" /\ cycle' = "day"
           \/ p = "day" /\ cycle = "day" /\ cycle' = "prune raw"
  BY DEF FoldHour, FoldDay, Periods
<1>2. UNCHANGED <<clock, samples, taken>> BY DEF FoldHour, FoldDay
<1>3. NewestStored(p)' /\ Reached(p)' BY <1>1, <1>2, FoldReaches DEF RefoldInv
<1>4. ASSUME NEW q \in Periods, q # p
      PROVE  NewestStored(q)' /\ (Reached(q) => Reached(q)')
  <2>1. rollups'[q] = rollups[q]
    <3>1. 0 \in Times BY ProbeNumbers DEF Times
    <3>2. QED BY <1>1, <1>4, <3>1, FoldWrites DEF RefoldInv
  <2>2. LastRollupBucket(q)' = LastRollupBucket(q) BY <2>1 DEF LastRollupBucket
  <2>3. QED BY <1>2, <2>1, <2>2 DEF RefoldInv, NewestStored, Reached, Over
<1>5. SoFarReached'
  <2>1. CASE p = "hour" /\ cycle' = "day" BY <1>3, <2>1 DEF SoFarReached
  <2>2. CASE p = "day" /\ cycle = "day" /\ cycle' = "prune raw"
    <3>1. Reached("hour") BY <2>2 DEF RefoldInv, SoFarReached
    <3>2. Reached("hour")' BY <1>4, <2>2, <3>1 DEF Periods
    <3>3. QED BY <1>3, <2>2, <3>2 DEF SoFarReached
  <2>3. QED BY <1>1, <2>1, <2>2
<1>6. QED BY <1>3, <1>4, <1>5

LEMMA RefoldPruneRawKeeps ==
  ASSUME RefoldInv, MaxGap <= LongestGap, PruneRaw, NEW p \in Periods
  PROVE  NewestStored(p)'
<1>1. /\ cycle = "prune raw" /\ samples' = {t \in samples : t >= clock - RawAge}
      /\ UNCHANGED <<clock, rollups, taken>>
  BY DEF PruneRaw, RawAge
<1>2. ProbeInv /\ Reached(p) /\ NewestStored(p) /\ clock \in taken
  BY <1>1 DEF RefoldInv, SoFarReached, Periods, ProbeInv, ProbeType
<1>3. LastRollupBucket(p)' = LastRollupBucket(p) BY <1>1 DEF LastRollupBucket
<1> DEFINE last == LastRollupBucket(p)
<1> SUFFICES ASSUME NEW t \in rollups[p][last], t \notin samples' PROVE FALSE
  BY <1>1, <1>3 DEF NewestStored
<1>4. /\ clock \in Nat /\ clock \in Times /\ taken \subseteq 0 .. clock
      /\ samples \subseteq taken
  BY <1>2, StoredNow DEF ProbeInv
<1>5. last \in Times /\ last \in Nat
  BY <1>2, NewestNow, TimesNat DEF Newest, ProbeInv, ProbeType
<1>6. t \in taken /\ BucketStart(t, p) = last
  BY <1>2, <1>5 DEF ProbeInv, RowsOver
<1>7. t \in Nat /\ last <= t BY <1>4, <1>6, TimesOf
<1>8. t < clock - RawAge
  <2>1. t \in samples BY <1>2 DEF NewestStored
  <2>2. ~ (t >= clock - RawAge) BY <1>1, <2>1
  <2>3. QED BY <1>4, <1>7, <2>2, Ages
<1>9. PICK u \in samples : Over(u, p) /\ t < BucketStart(u, p)
  BY <1>2, <1>6, <1>8, LaterSample
<1>10. BucketStart(u, p) \in Nat BY <1>4, <1>9, TimesOf
<1>11. BucketStart(u, p) <= last BY <1>2, <1>9 DEF Reached
<1>12. QED BY <1>5, <1>7, <1>9, <1>10, <1>11

LEMMA RefoldPruneRollupsKeeps ==
  ASSUME RefoldInv, PruneRollups, NEW p \in Periods PROVE NewestStored(p)'
<1>1. /\ rollups' = [q \in Periods |-> [b \in Times |->
           IF b >= OldestKept THEN rollups[q][b] ELSE {}]]
      /\ UNCHANGED <<clock, samples, taken>>
  BY DEF PruneRollups, OldestKept, RollupAge
<1>2. \A b \in Times : rollups'[p][b] = IF b >= OldestKept THEN rollups[p][b] ELSE {}
  BY <1>1
<1>3. Newest(p) /\ Newest(p)'
  <2>1. ProbeInv' BY ProbePruneRollupsKeeps DEF RefoldInv
  <2>2. QED BY <2>1, NewestNow, NewestNext DEF RefoldInv, ProbeInv, ProbeType
<1> DEFINE last == LastRollupBucket(p)
           next == LastRollupBucket(p)'
<1>4. last \in Times /\ last \in Nat /\ next \in Times /\ next \in Nat
  BY <1>3, TimesNat DEF Newest
<1>5. CASE rollups'[p][next] = {} BY <1>5 DEF NewestStored
<1>6. CASE rollups'[p][next] # {}
  <2>1. next >= OldestKept /\ rollups'[p][next] = rollups[p][next] BY <1>2, <1>4, <1>6
  <2>2. rollups[p][next] # {} BY <1>6, <2>1
  <2>3. HasRows(p) /\ next <= last BY <1>3, <1>4, <2>2 DEF Newest, HasRows
  <2>4. OldestKept \in Int BY StoredNow, Ages DEF OldestKept, RefoldInv, ProbeInv
  <2>5. last >= OldestKept
    <3> HIDE DEF last, next
    <3>1. QED BY <1>4, <2>1, <2>3, <2>4
  <2>6. rollups'[p][last] # {} BY <1>2, <1>3, <1>4, <2>3, <2>5 DEF Newest
  <2>7. last <= next BY <1>3, <1>4, <2>6 DEF Newest
  <2>8. last = next BY <1>4, <2>3, <2>7
  <2>9. rollups'[p][next] \subseteq samples BY <2>1, <2>8 DEF RefoldInv, NewestStored
  <2>10. QED BY <1>1, <2>9 DEF NewestStored
<1>7. QED BY <1>5, <1>6

(* A fold that replaces a row replaces that of the newest bucket, with all *)
(* the samples that are still stored.                                      *)
LEMMA FoldLosesNothing ==
  ASSUME RefoldInv, NEW p \in Periods, FoldRollups(p), NEW q \in Periods, NEW b \in Times
  PROVE  rollups[q][b] \subseteq rollups'[q][b]
<1>1. /\ clock \in Nat /\ clock \in Times /\ taken \subseteq 0 .. clock
      /\ samples \subseteq taken
  BY StoredNow DEF RefoldInv, ProbeInv
<1>2. CASE q # p BY <1>2, FoldWrites DEF RefoldInv
<1>3. CASE q = p /\ rollups'[p][b] = rollups[p][b] BY <1>3
<1>4. CASE q = p /\ rollups'[p][b] = InBucket(ToFold(p), b, p) /\ rollups'[p][b] # {}
  <2> SUFFICES ASSUME NEW t \in rollups[p][b] PROVE t \in InBucket(ToFold(p), b, p)
    BY <1>4
  <2> DEFINE n == PeriodSeconds(p)
             last == LastRollupBucket(p)
  <2>1. t \in taken /\ BucketStart(t, p) = b /\ b + n <= clock
    BY DEF RefoldInv, ProbeInv, RowsOver
  <2>2. t \in Nat /\ b \in Nat /\ b <= t /\ n \in Nat BY <1>1, <2>1, TimesOf
  <2>3. HasRows(p) BY DEF HasRows
  <2>4. rollups[p][b] # {} OBVIOUS
  <2>5. last \in Nat /\ BucketStart(last, p) = last /\ b <= last
    BY <2>3, <2>4, NewestIsOver DEF RefoldInv, ProbeInv
  <2>6. PICK s \in samples : last <= s /\ BucketStart(s, p) = b
    BY <1>4 DEF InBucket, ToFold
  <2>7. s \in Nat /\ s < b + n BY <1>1, <2>6, TimesOf
  <2>8. last < b + n
    <3> HIDE DEF n, last
    <3>1. QED BY <2>2, <2>5, <2>6, <2>7
  <2>9. BucketStart(last, p) = b BY <2>1, <2>2, <2>5, <2>8, BucketSame
  <2>10. last = b BY <2>5, <2>9
  <2>11. t \in samples BY <2>10 DEF RefoldInv, NewestStored
  <2>12. t < BucketStart(clock, p) /\ BucketStart(clock, p) \in Nat
    BY <1>1, <2>1, <2>2, OverIsEarlier, BucketOf
  <2>13. last <= t /\ t <= BucketStart(clock, p) BY <2>2, <2>10, <2>12
  <2>14. QED BY <2>1, <2>11, <2>13 DEF InBucket, ToFold
<1>5. QED BY <1>2, <1>3, <1>4, FoldWrites DEF RefoldInv

(* upsert_icmp_rollups and upsert_http_rollups are "idempotent on re-fold" *)
(* as long as no time without a sample is longer than the raw retention    *)
(* less a day, whatever cycles are cut short: a row never loses some of    *)
(* its samples.  The run probes_refold shows what a longer gap does.       *)
THEOREM ProbeRefoldIdempotent ==
  ASSUME MaxGap <= LongestGap
  PROVE  ProbeSpec => RefoldIdempotent
<1>1. ProbeInit => RefoldInv
  <2>1. ASSUME ProbeInit PROVE SoFarReached /\ \A p \in Periods : NewestStored(p)
    <3>1. \A p \in Periods : rollups[p] = NoRows BY <2>1 DEF ProbeInit
    <3>2. NoRows \in [Times -> SUBSET Times] BY DEF NoRows
    <3>3. rollups \in [Periods -> [Times -> SUBSET Times]]
      BY <2>1, <3>2 DEF ProbeInit
    <3>4. \A p \in Periods : LastRollupBucket(p) \in Times BY <3>3, NewestNow DEF Newest
    <3>5. \A p \in Periods : NewestStored(p) BY <3>1, <3>4 DEF NewestStored, NoRows
    <3>6. QED BY <2>1, <3>5 DEF ProbeInit, SoFarReached
  <2>2. QED BY <2>1, ProbeInitInv DEF RefoldInv
<1>2. RefoldInv /\ [ProbeNext]_probeVars => RefoldInv'
  <2> SUFFICES ASSUME RefoldInv, [ProbeNext]_probeVars PROVE RefoldInv' OBVIOUS
  <2>1. ProbeInv' BY ProbeStepInv DEF RefoldInv
  <2>2. ASSUME samples \subseteq samples', UNCHANGED rollups,
               cycle' \notin {"day", "prune raw"}
                 \/ UNCHANGED <<clock, samples, taken, cycle>>
        PROVE  SoFarReached' /\ \A p \in Periods : NewestStored(p)'
    <3>1. \A p \in Periods : LastRollupBucket(p)' = LastRollupBucket(p)
      BY <2>2 DEF LastRollupBucket
    <3>2. \A p \in Periods : NewestStored(p)' BY <2>2, <3>1 DEF RefoldInv, NewestStored
    <3>3. CASE cycle' \notin {"day", "prune raw"} BY <3>2, <3>3 DEF SoFarReached
    <3>4. CASE UNCHANGED <<clock, samples, taken, cycle>>
      BY <3>1, <3>2, <3>4 DEF RefoldInv, SoFarReached, Reached, Over, Periods
    <3>5. QED BY <2>2, <3>3, <3>4
  <2>3. CASE Insert BY <2>1, <2>2, <2>3 DEF Insert, RefoldInv
  <2>4. CASE FoldHour \/ FoldDay BY <2>1, <2>4, RefoldFoldKeeps DEF RefoldInv
  <2>5. CASE PruneRaw
    <3>1. cycle' = "prune rollups" BY <2>5 DEF PruneRaw
    <3>2. QED BY <2>1, <2>5, <3>1, RefoldPruneRawKeeps DEF RefoldInv, SoFarReached
  <2>6. CASE PruneRollups
    <3>1. cycle' = "idle" BY <2>6 DEF PruneRollups
    <3>2. QED BY <2>1, <2>6, <3>1, RefoldPruneRollupsKeeps DEF RefoldInv, SoFarReached
  <2>7. CASE ClockTicks
    <3>1. UNCHANGED <<samples, rollups>> /\ cycle' = "idle" BY <2>7 DEF ClockTicks
    <3>2. QED BY <2>1, <2>2, <3>1 DEF RefoldInv
  <2>8. CASE Abort
    <3>1. UNCHANGED <<samples, rollups>> /\ cycle' = "idle" BY <2>8 DEF Abort
    <3>2. QED BY <2>1, <2>2, <3>1 DEF RefoldInv
  <2>9. CASE NotDue \/ UNCHANGED probeVars
    BY <2>1, <2>2, <2>9 DEF NotDue, probeVars, RefoldInv
  <2>10. QED BY <2>3, <2>4, <2>5, <2>6, <2>7, <2>8, <2>9 DEF ProbeNext
<1>3. ASSUME RefoldInv, [ProbeNext]_probeVars, NEW p \in Periods, NEW b \in Times,
             rollups'[p][b] # {}
      PROVE  rollups[p][b] \subseteq rollups'[p][b]
  <2>1. CASE FoldHour BY <1>3, <2>1, FoldLosesNothing DEF FoldHour, Periods
  <2>2. CASE FoldDay BY <1>3, <2>2, FoldLosesNothing DEF FoldDay, Periods
  <2>3. CASE PruneRollups
    <3>1. rollups'[p][b] = IF b >= clock - RollupDays * Day THEN rollups[p][b] ELSE {}
      BY <2>3 DEF PruneRollups
    <3>2. QED BY <1>3, <3>1
  <2>4. CASE UNCHANGED rollups BY <2>4
  <2>5. QED BY <1>3, <2>1, <2>2, <2>3, <2>4
    DEF ProbeNext, NotDue, Insert, PruneRaw, Abort, ClockTicks, probeVars
<1>4. RefoldInv /\ [ProbeNext]_probeVars =>
        [\A p \in Periods, b \in Times :
           rollups'[p][b] # {} => rollups[p][b] \subseteq rollups'[p][b]]_probeVars
  BY <1>3
<1>5. QED BY <1>1, <1>2, <1>4, PTL DEF ProbeSpec, RefoldIdempotent

-----------------------------------------------------------------------------
(* The connectivity log.  Whatever writes were lost and rows pruned, the   *)
(* rows are in order, and in each second without a lost edge the row in    *)
(* force tells what was: the last one by then.                             *)
Rows == [ts : Nat, up : BOOLEAN]
InForce(i, s) ==
  /\ i \in DOMAIN rows /\ rows[i].ts <= s
  /\ \A j \in DOMAIN rows : i < j => s < rows[j].ts
UpType ==
  /\ rows \in Seq(Rows) /\ connUp \in BOOLEAN
  /\ second \in Nat /\ wasUp \in Seq(BOOLEAN) /\ Len(wasUp) = second
RowsInOrder ==
  /\ \A i \in DOMAIN rows : rows[i].ts <= second
  /\ \A i, j \in DOMAIN rows : i < j => rows[i].ts <= rows[j].ts
RowsTell ==
  \A s \in 0 .. second - 1 : s \notin untold =>
    /\ rows # <<>>
    /\ \A i \in DOMAIN rows : InForce(i, s) => rows[i].up = wasUp[s + 1]
LogInv == UpType /\ RowsInOrder /\ RowsTell

(* A row more, at the present second, changes nothing for the seconds past.*)
LEMMA LogAdds ==
  ASSUME LogInv, NEW up \in BOOLEAN, AddConnectivity(up),
         UNCHANGED <<second, histVars>>
  PROVE  rows' \in Seq(Rows) /\ RowsInOrder' /\ RowsTell'
<1> USE DEF histVars
<1> DEFINE all == Append(rows, Row(up))
           n == Len(rows)
<1>1. /\ rows \in Seq(Rows) /\ n \in Nat /\ second \in Nat
      /\ DOMAIN rows = 1 .. n
      /\ \A i \in 1 .. n : rows[i] \in Rows
  BY DEF LogInv, UpType
<1>2. Row(up) \in Rows /\ Row(up).ts = second BY <1>1 DEF Row, Rows
<1>3. /\ all \in Seq(Rows) /\ Len(all) = n + 1 /\ DOMAIN all = 1 .. n + 1
      /\ all[n + 1] = Row(up) /\ \A i \in 1 .. n : all[i] = rows[i]
  BY <1>1, <1>2
<1>4. /\ \A i \in 1 .. n + 1 : all[i].ts \in Nat /\ all[i].ts <= second
      /\ \A i, j \in 1 .. n + 1 : i < j => all[i].ts <= all[j].ts
  <2>1. \A i \in 1 .. n + 1 : all[i].ts \in Nat /\ all[i].ts <= second
    <3>1. \A i \in 1 .. n : all[i].ts \in Nat /\ all[i].ts <= second
      BY <1>1, <1>3 DEF LogInv, RowsInOrder, Rows
    <3>2. \A i \in 1 .. n + 1 : i \in 1 .. n \/ i = n + 1 BY <1>1
    <3>3. QED BY <1>1, <1>2, <1>3, <3>1, <3>2
  <2>2. ASSUME NEW i \in 1 .. n + 1, NEW j \in 1 .. n + 1, i < j
        PROVE  all[i].ts <= all[j].ts
    <3>1. i \in 1 .. n BY <1>1, <2>2
    <3>2. CASE j \in 1 .. n BY <1>1, <1>3, <2>2, <3>1, <3>2 DEF LogInv, RowsInOrder
    <3>3. CASE j = n + 1 BY <1>2, <1>3, <2>1, <3>1, <3>3
    <3>4. QED BY <1>1, <3>2, <3>3
  <2>3. QED BY <2>1, <2>2
<1>5. PICK d \in {0, 1} :
        /\ rows' \in Seq(Rows) /\ Len(rows') = n + 1 - d /\ Len(rows') >= 1
        /\ \A i \in 1 .. Len(rows') : i + d \in 1 .. n + 1 /\ rows'[i] = all[i + d]
  <2>1. CASE Len(all) > MaxRows
    <3>1. rows' = Tail(all) BY <2>1 DEF AddConnectivity
    <3>2. n + 1 > 1 BY <1>1, <1>3, <2>1, UptimeConstants
    <3> HIDE DEF all
    <3>3. /\ Tail(all) \in Seq(Rows) /\ Len(Tail(all)) = n
          /\ \A i \in 1 .. n : Tail(all)[i] = all[i + 1]
      BY <1>1, <1>3, <3>2
    <3>4. QED BY <1>1, <3>1, <3>2, <3>3
  <2>2. CASE ~(Len(all) > MaxRows)
    <3>1. rows' = all BY <2>2 DEF AddConnectivity
    <3> HIDE DEF all
    <3>2. QED BY <1>1, <1>3, <3>1
  <2>3. QED BY <2>1, <2>2
<1> HIDE DEF all, n
<1>6. /\ DOMAIN rows' = 1 .. Len(rows') /\ Len(rows') \in Nat
      /\ d \in Int /\ 0 <= d /\ d <= 1 /\ Len(rows') = n + 1 - d /\ n \in Nat
  BY <1>1, <1>5
<1>7. RowsInOrder'
  <2>1. \A i \in DOMAIN rows' : rows'[i].ts <= second BY <1>4, <1>5, <1>6
  <2>2. ASSUME NEW i \in DOMAIN rows', NEW j \in DOMAIN rows', i < j
        PROVE  rows'[i].ts <= rows'[j].ts
    <3>1. i \in 1 .. Len(rows') /\ j \in 1 .. Len(rows') BY <1>6
    <3>2. i + d < j + d BY <1>6, <2>2, <3>1
    <3>3. i + d \in 1 .. n + 1 /\ j + d \in 1 .. n + 1 BY <1>5, <3>1
    <3>4. QED BY <1>4, <1>5, <3>1, <3>2, <3>3
  <2>3. QED BY <2>1, <2>2 DEF RowsInOrder
<1>8. RowsTell'
  <2> SUFFICES ASSUME NEW s \in 0 .. second - 1, s \notin untold,
                      NEW i \in DOMAIN rows', InForce(i, s)'
               PROVE  rows'[i].up = wasUp[s + 1]
    BY <1>5, <1>6 DEF RowsTell
  <2>1. i \in 1 .. Len(rows') /\ i + d \in 1 .. n + 1 /\ rows'[i] = all[i + d]
    BY <1>5, <1>6
  <2>2. rows'[i].ts <= s BY DEF InForce
  <2>3. i + d # n + 1 BY <1>1, <1>2, <1>3, <2>1, <2>2
  <2>4. i + d \in 1 .. n /\ rows'[i] = rows[i + d] BY <1>1, <1>3, <2>1, <2>3
  <2>5. ASSUME NEW j \in 1 .. n, i + d < j PROVE s < rows[j].ts
    <3>1. j - d \in 1 .. Len(rows') /\ i < j - d /\ (j - d) + d = j
      <4>1. \A x, y, e, m \in Int :
              1 <= x /\ x + e < y /\ y <= m => y - e <= m + 1 - e /\ 1 <= y - e
                                              /\ x < y - e /\ (y - e) + e = y
        OBVIOUS
      <4>2. j \in Int /\ i \in Int /\ 1 <= i /\ j <= n BY <1>6, <2>1
      <4>3. j - d <= n + 1 - d /\ 1 <= j - d /\ i < j - d /\ (j - d) + d = j
        BY <1>6, <2>5, <4>1, <4>2
      <4>4. QED BY <1>6, <4>2, <4>3
    <3>2. s < rows'[j - d].ts BY <1>6, <3>1 DEF InForce
    <3>3. rows'[j - d] = all[j] BY <1>5, <3>1
    <3>4. QED BY <1>3, <3>2, <3>3
  <2>6. InForce(i + d, s) BY <1>1, <2>2, <2>4, <2>5 DEF InForce
  <2>7. QED BY <1>1, <2>4, <2>6 DEF LogInv, RowsTell
<1>9. QED BY <1>5, <1>7, <1>8

LEMMA LogSecondPasses == ASSUME LogInv, SecondPasses PROVE LogInv'
<1>1. /\ second' = second + 1 /\ wasUp' = Append(wasUp, Up)
      /\ UNCHANGED <<rows, connUp>>
      /\ untold' = IF LastSays(Up) THEN untold ELSE untold \union {second}
  BY DEF SecondPasses
<1>2. /\ rows \in Seq(Rows) /\ DOMAIN rows = 1 .. Len(rows) /\ Len(rows) \in Nat
      /\ second \in Nat /\ wasUp \in Seq(BOOLEAN) /\ Len(wasUp) = second
      /\ connUp \in BOOLEAN /\ Up \in BOOLEAN
  BY DEF LogInv, UpType, Up
<1>3. /\ wasUp' \in Seq(BOOLEAN) /\ Len(wasUp') = second + 1
      /\ wasUp'[second + 1] = Up
      /\ \A k \in 1 .. second : wasUp'[k] = wasUp[k]
  BY <1>1, <1>2
<1>4. UpType' BY <1>1, <1>2, <1>3 DEF UpType
<1>5. RowsInOrder'
  <2>1. ASSUME NEW i \in DOMAIN rows PROVE rows[i].ts <= second + 1
    <3>1. rows[i].ts <= second BY DEF LogInv, RowsInOrder
    <3>2. rows[i] \in Rows BY <1>2
    <3>3. rows[i].ts \in Nat BY <3>2 DEF Rows
    <3>4. QED BY <1>2, <3>1, <3>3
  <2>2. QED BY <1>1, <2>1 DEF LogInv, RowsInOrder
<1>6. RowsTell'
  <2> SUFFICES ASSUME NEW s \in 0 .. second, s \notin untold'
               PROVE  /\ rows # <<>>
                      /\ \A i \in DOMAIN rows : InForce(i, s) => rows[i].up = wasUp'[s + 1]
    <3>1. UNCHANGED rows /\ second' - 1 = second BY <1>1, <1>2
    <3>2. QED BY <3>1 DEF RowsTell, InForce
  <2>1. s \notin untold BY <1>1
  <2>2. CASE s < second
    <3>1. s \in 0 .. second - 1 /\ s + 1 \in 1 .. second BY <1>2, <2>2
    <3>2. QED BY <1>3, <2>1, <3>1 DEF LogInv, RowsTell
  <2>3. CASE s = second
    <3>1. LastSays(Up) BY <1>1, <2>3
    <3>2. rows # <<>> /\ rows[Len(rows)].up = Up BY <3>1 DEF LastSays, Last
    <3>3. ASSUME NEW i \in DOMAIN rows, InForce(i, s) PROVE i = Len(rows)
      <4>1. Len(rows) \in DOMAIN rows /\ i <= Len(rows) BY <1>2, <3>2
      <4>2. rows[Len(rows)].ts <= second BY <4>1 DEF LogInv, RowsInOrder
      <4>3. rows[Len(rows)].ts \in Nat
        <5>1. rows[Len(rows)] \in Rows BY <1>2, <4>1
        <5>2. QED BY <5>1 DEF Rows
      <4>4. ~(i < Len(rows)) BY <1>2, <2>3, <3>3, <4>1, <4>2, <4>3 DEF InForce
      <4>5. QED BY <1>2, <4>1, <4>4
    <3>4. QED BY <1>3, <2>3, <3>2, <3>3
  <2>4. QED BY <1>2, <2>2, <2>3
<1>7. QED BY <1>4, <1>5, <1>6 DEF LogInv

LEMMA LogStep == ASSUME LogInv, [UpNext]_upVars PROVE LogInv'
<1> USE DEF histVars
<1>1. ASSUME NEW known, NEW connected \in BOOLEAN, RecordConnectivity(known, connected),
             UNCHANGED <<second, histVars>>
      PROVE  LogInv'
  <2>1. connUp' = connected BY <1>1 DEF RecordConnectivity
  <2>2. CASE AddConnectivity(connected)
    BY <1>1, <2>1, <2>2, LogAdds DEF LogInv, UpType
  <2>3. CASE UNCHANGED rows
    BY <1>1, <2>1, <2>3 DEF LogInv, UpType, RowsInOrder, RowsTell, InForce
  <2>4. QED BY <1>1, <2>2, <2>3 DEF RecordConnectivity
<1>2. CASE Start BY <1>1, <1>2 DEF Start
<1>3. CASE Go BY <1>1, <1>3 DEF Go
<1>4. CASE SecondPasses BY <1>4, LogSecondPasses
<1>5. CASE ServiceStops \/ UNCHANGED upVars
  BY <1>5 DEF ServiceStops, upVars, LogInv, UpType, RowsInOrder, RowsTell, InForce
<1>6. QED BY <1>2, <1>3, <1>4, <1>5 DEF UpNext

(* The sweep of summarize.  Its sums are well-defined, by induction on how *)
(* many rows were passed.                                                  *)
Opening(t0) ==
  [up |-> StateAt(t0), cursor |-> t0, since |-> t0,
   connected |-> 0, down |-> 0, episodes |-> <<>>]
Passed(sum, n, t0, t1) ==
  IF Between(rows[n], t0, t1) THEN Edge(sum, rows[n]) ELSE sum

LEMMA SumsRecur ==
  ASSUME Len(rows) \in Nat, NEW t0, NEW t1
  PROVE  /\ SumsAfter(t0, t1)[0] = Opening(t0)
         /\ \A n \in 1 .. Len(rows) :
              SumsAfter(t0, t1)[n] = Passed(SumsAfter(t0, t1)[n - 1], n, t0, t1)
<1> DEFINE Is(f, m) ==
             f = [n \in 0 .. m |-> IF n = 0 THEN Opening(t0)
                                   ELSE Passed(f[n - 1], n, t0, t1)]
           bad == {m \in Nat : \A f : ~Is(f, m)}
<1>1. bad = {}
  <2> SUFFICES ASSUME bad # {} PROVE FALSE OBVIOUS
  <2> DEFINE k == Min(bad)
  <2>1. k \in bad /\ \A m \in bad : k <= m
    <3>1. bad \in SUBSET Nat OBVIOUS
    <3> HIDE DEF bad
    <3>2. QED BY <3>1, LeastOfSet
  <2>2. k \in Nat /\ \A f : ~Is(f, k) BY <2>1
  <2> HIDE DEF k
  <2>3. CASE k = 0
    <3> DEFINE g == [n \in 0 .. 0 |-> Opening(t0)]
    <3>1. Is(g, 0) OBVIOUS
    <3>2. QED BY <2>2, <2>3, <3>1
  <2>4. CASE k # 0
    <3>1. k - 1 \in Nat /\ ~(k <= k - 1) BY <2>2, <2>4
    <3>2. PICK f : Is(f, k - 1) BY <2>1, <3>1
    <3> DEFINE g == [n \in 0 .. k |-> IF n = k THEN Passed(f[k - 1], k, t0, t1) ELSE f[n]]
    <3>3. ASSUME NEW n \in 0 .. k
          PROVE  g[n] = IF n = 0 THEN Opening(t0) ELSE Passed(g[n - 1], n, t0, t1)
      <4>1. CASE n = 0
        <5>1. 0 \in 0 .. k - 1 /\ n # k BY <2>4, <3>1, <4>1
        <5>2. f[0] = Opening(t0) BY <3>2, <5>1
        <5>3. QED BY <4>1, <5>1, <5>2
      <4>2. CASE n = k
        <5>1. k - 1 \in 0 .. k /\ k - 1 # k BY <2>2, <3>1
        <5>2. g[k - 1] = f[k - 1] BY <5>1
        <5>3. QED BY <2>4, <4>2, <5>2
      <4>3. CASE n # 0 /\ n # k
        <5>1. n \in 0 .. k - 1 /\ n - 1 \in 0 .. k /\ n - 1 # k BY <2>2, <4>3
        <5>2. f[n] = Passed(f[n - 1], n, t0, t1) BY <3>2, <4>3, <5>1
        <5>3. g[n - 1] = f[n - 1] BY <5>1
        <5>4. QED BY <4>3, <5>2, <5>3
      <4>4. QED BY <4>1, <4>2, <4>3
    <3>4. Is(g, k) BY <3>3
    <3>5. QED BY <2>2, <3>4
  <2>5. QED BY <2>3, <2>4
<1>2. PICK f : Is(f, Len(rows)) BY <1>1
<1>3. Is(SumsAfter(t0, t1), Len(rows)) BY <1>2 DEF SumsAfter, Opening, Passed
<1> HIDE DEF bad
<1>4. QED BY <1>3

(* The seconds up and down from t0 to c, and what a sum says of them: its  *)
(* numbers are their numbers, and its outages, with the one under way, are *)
(* those that were down.                                                   *)
Downs(t0, c) == {s \in t0 .. (c - 1) : ~wasUp[s + 1]}
Ups(t0, c) == {s \in t0 .. (c - 1) : wasUp[s + 1]}
Outages == [start : Nat, end : Nat]
Sums == [up : BOOLEAN, cursor : Nat, since : Nat, connected : Nat, down : Nat,
         episodes : Seq(Outages)]
Told(episodes) == UNION {episodes[i].start .. (episodes[i].end - 1) : i \in DOMAIN episodes}
InTurn(episodes, latest) ==
  /\ \A i \in DOMAIN episodes : episodes[i].end <= latest
  /\ \A i \in DOMAIN episodes : \A j \in DOMAIN episodes :
       j = i + 1 => episodes[i].end <= episodes[j].start
SumHolds(sum, t0) ==
  /\ sum \in Sums /\ t0 <= sum.since /\ sum.since <= sum.cursor
  /\ sum.down = Cardinality(Downs(t0, sum.cursor))
  /\ sum.connected = Cardinality(Ups(t0, sum.cursor))
  /\ Told(sum.episodes) \union (IF sum.up THEN {} ELSE sum.since .. (sum.cursor - 1))
       = Downs(t0, sum.cursor)
  /\ InTurn(sum.episodes, IF sum.up THEN sum.cursor ELSE sum.since)

LEMMA IntervalCount ==
  ASSUME NEW c \in Nat, NEW ts \in Nat, c <= ts
  PROVE  IsFiniteSet(c .. (ts - 1)) /\ Cardinality(c .. (ts - 1)) = ts - c
<1>1. IsFiniteSet(c .. (ts - 1)) BY FS_Interval
<1>2. Cardinality(c .. (ts - 1)) = IF c > ts - 1 THEN 0 ELSE (ts - 1) - c + 1 BY FS_Interval
<1>3. QED BY <1>1, <1>2

LEMMA CountsAdd ==
  ASSUME NEW S, NEW T, IsFiniteSet(S), IsFiniteSet(T), S \intersect T = {}
  PROVE  /\ IsFiniteSet(S \union T)
         /\ Cardinality(S \union T) = Cardinality(S) + Cardinality(T)
<1>1. /\ IsFiniteSet(S \union T)
      /\ Cardinality(S \union T) =
           Cardinality(S) + Cardinality(T) - Cardinality(S \intersect T)
  BY FS_Union
<1>2. Cardinality(S \intersect T) = 0 BY FS_EmptySet
<1>3. Cardinality(S) \in Nat /\ Cardinality(T) \in Nat BY FS_CardinalityType
<1>4. QED BY <1>1, <1>2, <1>3

LEMMA SecondsAdd ==
  ASSUME NEW t0 \in Nat, NEW c \in Nat, NEW ts \in Nat, t0 <= c, c <= ts,
         NEW up \in BOOLEAN,
         \A s \in c .. (ts - 1) : wasUp[s + 1] = up
  PROVE  /\ Downs(t0, ts) = Downs(t0, c) \union (IF up THEN {} ELSE c .. (ts - 1))
         /\ Cardinality(Downs(t0, ts)) =
              Cardinality(Downs(t0, c)) + (IF up THEN 0 ELSE ts - c)
         /\ Cardinality(Ups(t0, ts)) =
              Cardinality(Ups(t0, c)) + (IF up THEN ts - c ELSE 0)
<1> DEFINE more == c .. (ts - 1)
<1>1. t0 .. (ts - 1) = (t0 .. (c - 1)) \union more
  <2>1. \A s \in Int : s \in t0 .. (ts - 1) <=> s \in t0 .. (c - 1) \/ s \in more OBVIOUS
  <2>2. QED BY <2>1
<1>2. IsFiniteSet(more) /\ Cardinality(more) = ts - c BY IntervalCount
<1>3. /\ IsFiniteSet(Downs(t0, c)) /\ IsFiniteSet(Ups(t0, c))
      /\ Cardinality(Downs(t0, c)) \in Nat /\ Cardinality(Ups(t0, c)) \in Nat
  <2>1. IsFiniteSet(t0 .. (c - 1)) BY FS_Interval
  <2>2. Downs(t0, c) \in SUBSET (t0 .. (c - 1)) /\ Ups(t0, c) \in SUBSET (t0 .. (c - 1))
    BY DEF Downs, Ups
  <2>3. IsFiniteSet(Downs(t0, c)) /\ IsFiniteSet(Ups(t0, c)) BY <2>1, <2>2, FS_Subset
  <2>4. QED BY <2>3, FS_CardinalityType
<1>4. Downs(t0, c) \intersect more = {} /\ Ups(t0, c) \intersect more = {}
  <2>1. (t0 .. (c - 1)) \intersect more = {} OBVIOUS
  <2>2. QED BY <2>1 DEF Downs, Ups
<1>5. \A s \in more : wasUp[s + 1] = up OBVIOUS
<1> HIDE DEF more
<1>6. CASE up = TRUE
  <2>1. Downs(t0, ts) = Downs(t0, c) /\ Ups(t0, ts) = Ups(t0, c) \union more
    BY <1>1, <1>5, <1>6 DEF Downs, Ups
  <2>2. Cardinality(Ups(t0, c) \union more) = Cardinality(Ups(t0, c)) + (ts - c)
    BY <1>2, <1>3, <1>4, CountsAdd
  <2>3. Cardinality(Downs(t0, c)) + 0 = Cardinality(Downs(t0, c)) BY <1>3
  <2>4. QED BY <1>6, <2>1, <2>2, <2>3
<1>7. CASE up = FALSE
  <2>1. Ups(t0, ts) = Ups(t0, c) /\ Downs(t0, ts) = Downs(t0, c) \union more
    BY <1>1, <1>5, <1>7 DEF Downs, Ups
  <2>2. Cardinality(Downs(t0, c) \union more) = Cardinality(Downs(t0, c)) + (ts - c)
    BY <1>2, <1>3, <1>4, CountsAdd
  <2>3. Cardinality(Ups(t0, c)) + 0 = Cardinality(Ups(t0, c)) BY <1>3
  <2>4. QED BY <1>7, <2>1, <2>2, <2>3 DEF more
<1>8. QED BY <1>6, <1>7

LEMMA ElapseFields ==
  ASSUME NEW sum \in Sums, NEW ts \in Nat, sum.cursor <= ts
  PROVE  LET then == Elapse(sum, ts) IN
           /\ then \in Sums
           /\ then.up = sum.up /\ then.cursor = ts /\ then.since = sum.since
           /\ then.connected = sum.connected + (IF sum.up THEN ts - sum.cursor ELSE 0)
           /\ then.down = sum.down + (IF sum.up THEN 0 ELSE ts - sum.cursor)
           /\ then.episodes = sum.episodes
<1>1. /\ sum.cursor \in Nat /\ sum.connected \in Nat /\ sum.down \in Nat
      /\ sum.up \in BOOLEAN
  BY DEF Sums
<1>2. ts - sum.cursor \in Nat BY <1>1
<1>3. /\ sum.connected + (IF sum.up THEN ts - sum.cursor ELSE 0) \in Nat
      /\ sum.down + (IF sum.up THEN 0 ELSE ts - sum.cursor) \in Nat
  BY <1>1, <1>2
<1>4. QED BY <1>3 DEF Elapse, Sums

LEMMA ElapseHolds ==
  ASSUME NEW t0 \in Nat, NEW sum, SumHolds(sum, t0), NEW ts \in Nat, sum.cursor <= ts,
         \A s \in sum.cursor .. (ts - 1) : wasUp[s + 1] = sum.up
  PROVE  SumHolds(Elapse(sum, ts), t0)
<1> DEFINE then == Elapse(sum, ts)
           c == sum.cursor
<1>1. /\ sum \in Sums /\ c \in Nat /\ sum.since \in Nat /\ sum.up \in BOOLEAN
      /\ t0 <= sum.since /\ sum.since <= c /\ t0 <= c
      /\ sum.episodes \in Seq(Outages)
  <2>1. /\ sum \in Sums /\ t0 <= sum.since /\ sum.since <= c BY DEF SumHolds
  <2>2. /\ c \in Nat /\ sum.since \in Nat /\ sum.up \in BOOLEAN
        /\ sum.episodes \in Seq(Outages)
    BY <2>1 DEF Sums
  <2>3. QED BY <2>1, <2>2
<1>2. /\ then \in Sums /\ then.up = sum.up /\ then.cursor = ts /\ then.since = sum.since
      /\ then.connected = sum.connected + (IF sum.up THEN ts - c ELSE 0)
      /\ then.down = sum.down + (IF sum.up THEN 0 ELSE ts - c)
      /\ then.episodes = sum.episodes
  BY <1>1, ElapseFields
<1>3. /\ Downs(t0, ts) = Downs(t0, c) \union (IF sum.up THEN {} ELSE c .. (ts - 1))
      /\ Cardinality(Downs(t0, ts)) =
           Cardinality(Downs(t0, c)) + (IF sum.up THEN 0 ELSE ts - c)
      /\ Cardinality(Ups(t0, ts)) =
           Cardinality(Ups(t0, c)) + (IF sum.up THEN ts - c ELSE 0)
  <2>1. c <= ts /\ (\A s \in c .. (ts - 1) : wasUp[s + 1] = sum.up) OBVIOUS
  <2> DEFINE up == sum.up
  <2>2. up \in BOOLEAN /\ \A s \in c .. (ts - 1) : wasUp[s + 1] = up BY <1>1, <2>1
  <2> HIDE DEF c, up, then
  <2>3. /\ Downs(t0, ts) = Downs(t0, c) \union (IF up THEN {} ELSE c .. (ts - 1))
        /\ Cardinality(Downs(t0, ts)) =
             Cardinality(Downs(t0, c)) + (IF up THEN 0 ELSE ts - c)
        /\ Cardinality(Ups(t0, ts)) =
             Cardinality(Ups(t0, c)) + (IF up THEN ts - c ELSE 0)
    BY <1>1, <2>1, <2>2, SecondsAdd
  <2>4. QED BY <2>3 DEF up
<1>4. /\ sum.down = Cardinality(Downs(t0, c)) /\ sum.connected = Cardinality(Ups(t0, c))
      /\ Told(sum.episodes) \union (IF sum.up THEN {} ELSE sum.since .. (c - 1))
           = Downs(t0, c)
      /\ InTurn(sum.episodes, IF sum.up THEN c ELSE sum.since)
  BY DEF SumHolds
<1> HIDE DEF then, c
<1>5. then.down = Cardinality(Downs(t0, ts)) /\ then.connected = Cardinality(Ups(t0, ts))
  BY <1>2, <1>3, <1>4
<1>6. Told(then.episodes) \union (IF then.up THEN {} ELSE then.since .. (ts - 1))
        = Downs(t0, ts)
  <2>1. CASE sum.up = TRUE BY <1>2, <1>3, <1>4, <2>1
  <2>2. CASE sum.up = FALSE
    <3>1. sum.since .. (ts - 1) = (sum.since .. (c - 1)) \union (c .. (ts - 1))
      <4>1. c <= ts BY DEF c
      <4>2. \A s \in Int : s \in sum.since .. (ts - 1)
                             <=> s \in sum.since .. (c - 1) \/ s \in c .. (ts - 1)
        BY <1>1, <4>1
      <4>3. QED BY <4>2
    <3>2. QED BY <1>2, <1>3, <1>4, <2>2, <3>1
  <2>3. QED BY <1>1, <2>1, <2>2
<1>7. InTurn(then.episodes, IF then.up THEN ts ELSE then.since)
  <2>1. CASE sum.up = TRUE
    <3>1. \A i \in DOMAIN sum.episodes : sum.episodes[i].end \in Nat
      <4>1. \A i \in DOMAIN sum.episodes : sum.episodes[i] \in Outages BY <1>1
      <4>2. QED BY <4>1 DEF Outages
    <3>2. c <= ts BY DEF c
    <3>3. \A i \in DOMAIN sum.episodes : sum.episodes[i].end <= ts
      BY <1>1, <1>4, <2>1, <3>1, <3>2 DEF InTurn
    <3>4. QED BY <1>2, <1>4, <2>1, <3>3 DEF InTurn
  <2>2. CASE sum.up = FALSE BY <1>2, <1>4, <2>2
  <2>3. QED BY <1>1, <2>1, <2>2
<1>8. then.since <= then.cursor /\ t0 <= then.since
  <2>1. c <= ts BY DEF c
  <2>2. QED BY <1>1, <1>2, <2>1
<1>9. SumHolds(then, t0) BY <1>2, <1>5, <1>6, <1>7, <1>8 DEF SumHolds
<1>10. QED BY <1>9 DEF then

LEMMA OutageCloses ==
  ASSUME NEW t0 \in Nat, NEW sum, SumHolds(sum, t0), ~sum.up
  PROVE  LET closed == CloseOutage(sum, sum.cursor) IN
           /\ closed \in Sums
           /\ closed.cursor = sum.cursor /\ closed.since = sum.since
           /\ closed.down = sum.down /\ closed.connected = sum.connected
           /\ Told(closed.episodes) = Downs(t0, sum.cursor)
           /\ InTurn(closed.episodes, sum.cursor)
<1> DEFINE closed == CloseOutage(sum, sum.cursor)
           e == sum.episodes
           last == [start |-> sum.since, end |-> sum.cursor]
           all == closed.episodes
           n == Len(e)
<1>1. /\ sum \in Sums /\ sum.since <= sum.cursor
      /\ Told(e) \union (sum.since .. (sum.cursor - 1)) = Downs(t0, sum.cursor)
      /\ InTurn(e, sum.since)
  BY DEF SumHolds
<1>2. /\ sum.cursor \in Nat /\ sum.since \in Nat /\ e \in Seq(Outages)
      /\ last \in Outages
  BY <1>1 DEF Sums, Outages
<1>3. /\ all = Append(e, last) /\ all \in Seq(Outages)
      /\ closed = [sum EXCEPT !.episodes = Append(e, last)]
  BY <1>1, <1>2 DEF CloseOutage, Sums
<1>4. /\ closed \in Sums
      /\ closed.cursor = sum.cursor /\ closed.since = sum.since
      /\ closed.down = sum.down /\ closed.connected = sum.connected
  BY <1>1, <1>3 DEF Sums
<1> HIDE DEF all
<1>5. /\ n \in Nat /\ DOMAIN e = 1 .. n /\ DOMAIN all = 1 .. (n + 1)
      /\ all[n + 1] = last /\ \A i \in 1 .. n : all[i] = e[i]
  BY <1>2, <1>3
<1>6. last.start = sum.since /\ last.end = sum.cursor OBVIOUS
<1> HIDE DEF n, e, last, closed
<1>7. Told(all) = Told(e) \union (sum.since .. (sum.cursor - 1))
  <2>1. DOMAIN all = DOMAIN e \union {n + 1} BY <1>5
  <2>2. \A i \in DOMAIN e : all[i] = e[i] BY <1>5
  <2>3. QED BY <1>5, <1>6, <2>1, <2>2 DEF Told
<1>8. \A i \in 1 .. n : e[i].end \in Nat /\ e[i].end <= sum.since
  <2>1. \A i \in 1 .. n : e[i] \in Outages BY <1>2, <1>5
  <2>2. QED BY <1>1, <1>5, <2>1 DEF InTurn, Outages
<1>9. InTurn(all, sum.cursor)
  <2>1. ASSUME NEW i \in 1 .. (n + 1) PROVE all[i].end <= sum.cursor
    <3>1. CASE i = n + 1 BY <1>2, <1>5, <1>6, <3>1
    <3>2. CASE i \in 1 .. n BY <1>1, <1>2, <1>5, <1>8, <3>2
    <3>3. QED BY <1>5, <3>1, <3>2
  <2>2. ASSUME NEW i \in 1 .. (n + 1), NEW j \in 1 .. (n + 1), j = i + 1
        PROVE  all[i].end <= all[j].start
    <3>1. i \in 1 .. n /\ all[i] = e[i] BY <1>5, <2>2
    <3>2. CASE j = n + 1 BY <1>5, <1>6, <1>8, <3>1, <3>2
    <3>3. CASE j # n + 1
      <4>1. j \in 1 .. n /\ all[j] = e[j] BY <1>5, <3>3
      <4>2. QED BY <1>1, <1>5, <2>2, <3>1, <4>1 DEF InTurn
    <3>4. QED BY <3>2, <3>3
  <2>3. QED BY <1>5, <2>1, <2>2 DEF InTurn
<1>10. QED BY <1>1, <1>4, <1>7, <1>9 DEF all, closed

LEMMA EdgeHolds ==
  ASSUME NEW t0 \in Nat, NEW sum, SumHolds(sum, t0), NEW row \in Rows, sum.cursor <= row.ts,
         \A s \in sum.cursor .. (row.ts - 1) : wasUp[s + 1] = sum.up
  PROVE  /\ SumHolds(Edge(sum, row), t0)
         /\ Edge(sum, row).up = row.up /\ Edge(sum, row).cursor = row.ts
<1> DEFINE then == Elapse(sum, row.ts)
<1>1. row.ts \in Nat /\ row.up \in BOOLEAN BY DEF Rows
<1>2. sum \in Sums BY DEF SumHolds
<1>3. SumHolds(then, t0) /\ then.up = sum.up /\ then.cursor = row.ts
  BY <1>1, <1>2, ElapseHolds, ElapseFields
<1>4. then \in Sums /\ t0 <= then.since /\ then.since <= then.cursor BY <1>3 DEF SumHolds
<1>5. then.up \in BOOLEAN /\ then.cursor \in Nat /\ then.since \in Nat BY <1>4 DEF Sums
<1> HIDE DEF then
<1>6. CASE row.up /\ ~sum.up
  <2> DEFINE closed == CloseOutage(then, then.cursor)
             next == [closed EXCEPT !.up = TRUE]
  <2>1. /\ closed \in Sums
        /\ closed.cursor = then.cursor /\ closed.since = then.since
        /\ closed.down = then.down /\ closed.connected = then.connected
        /\ Told(closed.episodes) = Downs(t0, then.cursor)
        /\ InTurn(closed.episodes, then.cursor)
    BY <1>3, <1>6, OutageCloses
  <2>2. Edge(sum, row) = next BY <1>3, <1>6 DEF Edge, then
  <2> HIDE DEF closed
  <2>3. /\ next \in Sums /\ next.up = TRUE /\ next.cursor = then.cursor
        /\ next.since = then.since /\ next.episodes = closed.episodes
        /\ next.down = then.down /\ next.connected = then.connected
    BY <2>1 DEF Sums
  <2> HIDE DEF next
  <2>4. SumHolds(next, t0) BY <1>3, <1>4, <2>1, <2>3 DEF SumHolds
  <2>5. QED BY <1>3, <1>6, <2>2, <2>3, <2>4
<1>7. CASE ~row.up /\ sum.up
  <2> DEFINE next == [then EXCEPT !.up = FALSE, !.since = row.ts]
  <2>1. Edge(sum, row) = next BY <1>7 DEF Edge, then
  <2>2. /\ next \in Sums /\ next.up = FALSE /\ next.cursor = row.ts /\ next.since = row.ts
        /\ next.episodes = then.episodes
        /\ next.down = then.down /\ next.connected = then.connected
    BY <1>1, <1>3, <1>4 DEF Sums
  <2> HIDE DEF next
  <2>3. row.ts .. (row.ts - 1) = {} BY <1>1
  <2>4. /\ then.down = Cardinality(Downs(t0, row.ts))
        /\ then.connected = Cardinality(Ups(t0, row.ts))
        /\ Told(then.episodes) = Downs(t0, row.ts)
        /\ InTurn(then.episodes, row.ts)
    BY <1>3, <1>7 DEF SumHolds
  <2>5. t0 <= row.ts /\ row.ts <= row.ts BY <1>1, <1>3, <1>4, <1>5
  <2>6. SumHolds(next, t0) BY <2>2, <2>3, <2>4, <2>5 DEF SumHolds
  <2>7. QED BY <1>1, <1>7, <2>1, <2>2, <2>6
<1>8. CASE row.up = sum.up
  <2>1. Edge(sum, row) = then BY <1>8 DEF Edge, then
  <2>2. QED BY <1>3, <1>8, <2>1
<1>9. QED BY <1>1, <1>3, <1>5, <1>6, <1>7, <1>8

(* A window without a lost edge, that starts when there was a row in       *)
(* force; and what is known of it once n rows were passed: between the     *)
(* cursor and the first row to come, the state was the one of the sum.     *)
Covered(t0, t1) ==
  /\ t0 \in Nat /\ t1 \in Nat /\ t0 <= t1 /\ t1 <= second
  /\ (t0 .. (t1 - 1)) \intersect untold = {}
  /\ t0 < t1 => 1 \in DOMAIN rows /\ rows[1].ts <= t0
Ahead(sum, n, t0, t1) ==
  /\ sum.cursor <= t1
  /\ \A m \in DOMAIN rows : n < m /\ Between(rows[m], t0, t1) => sum.cursor <= rows[m].ts
  /\ \A s \in sum.cursor .. (t1 - 1) :
       (\A m \in DOMAIN rows : n < m => ~(t0 <= rows[m].ts /\ rows[m].ts <= s))
         => wasUp[s + 1] = sum.up

LEMMA ForceTells ==
  ASSUME LogInv, NEW t0, NEW t1, Covered(t0, t1), NEW s \in t0 .. (t1 - 1), NEW i,
         InForce(i, s)
  PROVE  rows[i].up = wasUp[s + 1]
<1>1. s \in 0 .. second - 1
  <2>1. /\ t0 \in Nat /\ t1 \in Nat /\ t1 <= second /\ second \in Nat
    BY DEF Covered, LogInv, UpType
  <2>2. QED BY <2>1
<1>2. s \notin untold BY DEF Covered
<1>3. QED BY <1>1, <1>2 DEF LogInv, RowsTell, InForce

LEMMA RowTimes ==
  ASSUME LogInv
  PROVE  /\ Len(rows) \in Nat /\ DOMAIN rows = 1 .. Len(rows)
         /\ \A i \in DOMAIN rows : /\ rows[i] \in Rows /\ rows[i].ts \in Nat
                                   /\ rows[i].up \in BOOLEAN
<1>1. rows \in Seq(Rows) BY DEF LogInv, UpType
<1>2. \A i \in DOMAIN rows : rows[i] \in Rows BY <1>1
<1>3. QED BY <1>1, <1>2 DEF Rows

LEMMA OpeningHolds ==
  ASSUME LogInv, NEW t0, NEW t1, Covered(t0, t1)
  PROVE  SumHolds(Opening(t0), t0) /\ Ahead(Opening(t0), 0, t0, t1)
<1> DEFINE before == {i \in DOMAIN rows : rows[i].ts <= t0}
           sum == Opening(t0)
<1>1. t0 \in Nat /\ t1 \in Nat /\ t0 <= t1 BY DEF Covered
<1>2. /\ sum.up = StateAt(t0) /\ sum.cursor = t0 /\ sum.since = t0 /\ sum.connected = 0
      /\ sum.down = 0 /\ sum.episodes = <<>>
  BY DEF Opening
<1>3. StateAt(t0) = (before # {} /\ rows[Max(before)].up) BY DEF StateAt
<1>4. before # {} => /\ Max(before) \in before /\ \A i \in before : i <= Max(before)
  <2>1. before \in SUBSET Nat /\ \A i \in before : i <= Len(rows) BY RowTimes
  <2> HIDE DEF before
  <2>2. QED BY <2>1, RowTimes, GreatestOfSet
<1>5. sum \in Sums
  <2>1. StateAt(t0) \in BOOLEAN BY <1>3
  <2>2. QED BY <1>1, <2>1 DEF Opening, Sums
<1> HIDE DEF sum
<1>6. SumHolds(sum, t0)
  <2>1. t0 .. (t0 - 1) = {} BY <1>1
  <2>2. Downs(t0, t0) = {} /\ Ups(t0, t0) = {} BY <2>1 DEF Downs, Ups
  <2>3. Cardinality({}) = 0 BY FS_EmptySet
  <2>4. DOMAIN sum.episodes = {} BY <1>2
  <2>5. Told(sum.episodes) = {} BY <2>4 DEF Told
  <2>6. InTurn(sum.episodes, t0) BY <2>4 DEF InTurn
  <2>7. t0 <= t0 BY <1>1
  <2>8. QED BY <1>2, <1>5, <2>1, <2>2, <2>3, <2>5, <2>6, <2>7 DEF SumHolds
<1>7. ASSUME NEW s \in t0 .. (t1 - 1),
             \A m \in DOMAIN rows : 0 < m => ~(t0 <= rows[m].ts /\ rows[m].ts <= s)
      PROVE  wasUp[s + 1] = StateAt(t0)
  <2> DEFINE k == Max(before)
  <2>1. t0 < t1 /\ s \in Nat /\ t0 <= s
    <3>1. s \in Int /\ t0 <= s /\ s <= t1 - 1 BY <1>1
    <3>2. QED BY <1>1, <3>1
  <2>2. 1 \in before BY <2>1 DEF Covered
  <2>3. k \in DOMAIN rows /\ rows[k].ts <= t0 /\ \A i \in before : i <= k BY <1>4, <2>2
  <2>4. StateAt(t0) = rows[k].up
    <3>1. rows[k].up \in BOOLEAN BY <2>3, RowTimes
    <3>2. QED BY <1>3, <2>2, <3>1
  <2> HIDE DEF k
  <2>5. ASSUME NEW j \in DOMAIN rows, k < j PROVE s < rows[j].ts
    <3>1. j \notin before BY <2>3, <2>5, RowTimes
    <3>2. ~(rows[j].ts <= t0) /\ 0 < j /\ rows[j].ts \in Nat BY <3>1, RowTimes
    <3>3. QED BY <1>1, <1>7, <2>1, <3>2
  <2>6. rows[k].ts <= s BY <1>1, <2>1, <2>3, RowTimes
  <2>7. InForce(k, s) BY <2>3, <2>5, <2>6 DEF InForce
  <2>8. QED BY <2>4, <2>7, ForceTells
<1>8. \A m \in DOMAIN rows : Between(rows[m], t0, t1) => t0 <= rows[m].ts BY DEF Between
<1>9. Ahead(sum, 0, t0, t1) BY <1>1, <1>2, <1>7, <1>8 DEF Ahead
<1>10. QED BY <1>6, <1>9 DEF sum

LEMMA PassedHolds ==
  ASSUME LogInv, NEW t0, NEW t1, Covered(t0, t1), NEW n \in DOMAIN rows,
         NEW sum, SumHolds(sum, t0), Ahead(sum, n - 1, t0, t1)
  PROVE  LET next == Passed(sum, n, t0, t1) IN
           SumHolds(next, t0) /\ Ahead(next, n, t0, t1)
<1> DEFINE ts == rows[n].ts
<1>1. t0 \in Nat /\ t1 \in Nat /\ t0 <= t1 BY DEF Covered
<1>2. n \in Nat /\ ts \in Nat /\ rows[n] \in Rows BY RowTimes
<1>3. \A m \in DOMAIN rows : m \in Nat /\ rows[m].ts \in Nat BY RowTimes
<1>4. sum.cursor \in Nat /\ t0 <= sum.cursor
  <2>1. sum \in Sums /\ t0 <= sum.since /\ sum.since <= sum.cursor BY DEF SumHolds
  <2>2. sum.since \in Nat /\ sum.cursor \in Nat BY <2>1 DEF Sums
  <2>3. QED BY <1>1, <2>1, <2>2
<1>5. \A m \in DOMAIN rows : n < m => ts <= rows[m].ts BY DEF LogInv, RowsInOrder
<1>6. \A m \in DOMAIN rows : n - 1 < m => m = n \/ n < m BY <1>2, <1>3
<1>7. n - 1 < n /\ \A m \in DOMAIN rows : n < m => n - 1 < m BY <1>2, <1>3
<1> HIDE DEF ts
<1>8. CASE ~Between(rows[n], t0, t1)
  <2>1. Passed(sum, n, t0, t1) = sum BY <1>8 DEF Passed
  <2>2. ASSUME NEW s \in sum.cursor .. (t1 - 1),
               \A m \in DOMAIN rows : n < m => ~(t0 <= rows[m].ts /\ rows[m].ts <= s)
        PROVE  wasUp[s + 1] = sum.up
    <3>1. ~(t0 <= ts /\ ts <= s)
      <4>1. t0 <= ts /\ ts <= s => ts <= t1
        <5>1. s \in Int /\ s <= t1 - 1 BY <1>1, <1>4
        <5>2. QED BY <1>1, <1>2, <5>1
      <4>2. QED BY <1>8, <4>1 DEF Between, ts
    <3>2. \A m \in DOMAIN rows : n - 1 < m => ~(t0 <= rows[m].ts /\ rows[m].ts <= s)
      BY <1>6, <2>2, <3>1 DEF ts
    <3>3. QED BY <3>2 DEF Ahead
  <2>3. \A m \in DOMAIN rows : n < m /\ Between(rows[m], t0, t1) => sum.cursor <= rows[m].ts
    BY <1>7 DEF Ahead
  <2>4. sum.cursor <= t1 BY DEF Ahead
  <2>5. Ahead(sum, n, t0, t1) BY <2>2, <2>3, <2>4 DEF Ahead
  <2>6. QED BY <2>1, <2>5
<1>9. CASE Between(rows[n], t0, t1)
  <2> DEFINE next == Edge(sum, rows[n])
  <2>1. Passed(sum, n, t0, t1) = next BY <1>9 DEF Passed
  <2>2. t0 <= ts /\ ts <= t1 BY <1>9 DEF Between, ts
  <2>3. sum.cursor <= ts BY <1>7, <1>9 DEF Ahead, ts
  <2>4. ASSUME NEW s \in sum.cursor .. (ts - 1) PROVE wasUp[s + 1] = sum.up
    <3>1. s \in sum.cursor .. (t1 - 1) /\ s \in Nat /\ s < ts BY <1>1, <1>2, <1>4, <2>2
    <3>2. ASSUME NEW m \in DOMAIN rows, n - 1 < m PROVE ~(rows[m].ts <= s)
      <4>1. m = n \/ ts <= rows[m].ts BY <1>5, <1>6, <3>2
      <4>2. ts <= rows[m].ts BY <1>2, <4>1 DEF ts
      <4>3. QED BY <1>2, <1>3, <3>1, <4>2
    <3>3. QED BY <3>1, <3>2 DEF Ahead
  <2>5. SumHolds(next, t0) /\ next.up = rows[n].up /\ next.cursor = ts
    <3>1. sum.cursor <= rows[n].ts /\ \A s \in sum.cursor .. (rows[n].ts - 1) :
                                         wasUp[s + 1] = sum.up
      BY <2>3, <2>4 DEF ts
    <3>2. QED BY <1>1, <1>2, <3>1, EdgeHolds DEF ts
  <2> HIDE DEF next
  <2>6. ASSUME NEW s \in ts .. (t1 - 1),
               \A m \in DOMAIN rows : n < m => ~(t0 <= rows[m].ts /\ rows[m].ts <= s)
        PROVE  wasUp[s + 1] = rows[n].up
    <3>1. s \in t0 .. (t1 - 1) /\ s \in Nat /\ ts <= s BY <1>1, <1>2, <2>2
    <3>2. ASSUME NEW j \in DOMAIN rows, n < j PROVE s < rows[j].ts
      <4>1. ts <= rows[j].ts /\ rows[j].ts \in Nat BY <1>3, <1>5, <3>2
      <4>2. t0 <= rows[j].ts BY <1>1, <1>2, <2>2, <4>1
      <4>3. ~(rows[j].ts <= s) BY <2>6, <3>2, <4>2
      <4>4. QED BY <3>1, <4>1, <4>3
    <3>3. InForce(n, s) BY <3>1, <3>2 DEF InForce, ts
    <3>4. QED BY <3>1, <3>3, ForceTells
  <2>7. Ahead(next, n, t0, t1) BY <1>5, <2>2, <2>5, <2>6 DEF Ahead
  <2>8. QED BY <2>1, <2>5, <2>7
<1>10. QED BY <1>8, <1>9

LEMMA SumsHold ==
  ASSUME LogInv, NEW t0, NEW t1, Covered(t0, t1)
  PROVE  \A n \in 0 .. Len(rows) : /\ SumHolds(SumsAfter(t0, t1)[n], t0)
                                   /\ Ahead(SumsAfter(t0, t1)[n], n, t0, t1)
<1> DEFINE sums == SumsAfter(t0, t1)
           Holds(n) == SumHolds(sums[n], t0) /\ Ahead(sums[n], n, t0, t1)
           bad == {n \in 0 .. Len(rows) : ~Holds(n)}
<1>1. Len(rows) \in Nat /\ DOMAIN rows = 1 .. Len(rows) BY RowTimes
<1>2. /\ sums[0] = Opening(t0)
      /\ \A n \in 1 .. Len(rows) : sums[n] = Passed(sums[n - 1], n, t0, t1)
  BY <1>1, SumsRecur
<1> HIDE DEF sums
<1>3. Holds(0) BY <1>2, OpeningHolds
<1>4. ASSUME NEW n \in 1 .. Len(rows), Holds(n - 1) PROVE Holds(n)
  <2>1. n \in DOMAIN rows /\ sums[n] = Passed(sums[n - 1], n, t0, t1) BY <1>1, <1>2
  <2>2. QED BY <1>4, <2>1, PassedHolds
<1> HIDE DEF Holds
<1>5. bad = {}
  <2> SUFFICES ASSUME bad # {} PROVE FALSE OBVIOUS
  <2> DEFINE k == Min(bad)
  <2>1. bad \in SUBSET Nat BY <1>1
  <2>2. k \in bad /\ \A n \in bad : k <= n
    <3> HIDE DEF bad
    <3>1. QED BY <2>1, LeastOfSet
  <2>3. k \in 0 .. Len(rows) /\ ~Holds(k) BY <2>2
  <2> HIDE DEF k
  <2>4. k # 0 BY <1>3, <2>3
  <2>5. k \in 1 .. Len(rows) /\ k - 1 \in 0 .. Len(rows) /\ ~(k <= k - 1)
    BY <1>1, <2>3, <2>4
  <2>6. Holds(k - 1) BY <2>2, <2>5
  <2>7. QED BY <1>4, <2>3, <2>5, <2>6
<1>6. \A n \in 0 .. Len(rows) : Holds(n) BY <1>5
<1>7. QED BY <1>6 DEF Holds, sums

LEMMA SummaryTells ==
  ASSUME LogInv, NEW t0, NEW t1, Covered(t0, t1)
  PROVE  LET sum == Summarize(t0, t1) IN
           /\ sum.episodes \in Seq(Outages)
           /\ sum.down = Cardinality(Downs(t0, t1))
           /\ sum.connected = Cardinality(Ups(t0, t1))
           /\ Told(sum.episodes) = Downs(t0, t1)
           /\ InTurn(sum.episodes, t1)
<1> DEFINE last == SumsAfter(t0, t1)[Len(rows)]
           then == Elapse(last, t1)
<1>1. Len(rows) \in Nat /\ DOMAIN rows = 1 .. Len(rows) BY RowTimes
<1>2. t0 \in Nat /\ t1 \in Nat BY DEF Covered
<1>3. SumHolds(last, t0) /\ Ahead(last, Len(rows), t0, t1)
  <2>1. Len(rows) \in 0 .. Len(rows) BY <1>1
  <2>2. QED BY <2>1, SumsHold
<1> HIDE DEF last
<1>4. last.cursor <= t1 /\ \A s \in last.cursor .. (t1 - 1) : wasUp[s + 1] = last.up
  <2>1. \A m \in DOMAIN rows : ~(Len(rows) < m) BY <1>1
  <2>2. QED BY <1>3, <2>1 DEF Ahead
<1>5. SumHolds(then, t0) BY <1>2, <1>3, <1>4, ElapseHolds
<1>6. then.cursor = t1
  <2>1. last \in Sums BY <1>3 DEF SumHolds
  <2>2. QED BY <1>2, <1>4, <2>1, ElapseFields
<1>7. Summarize(t0, t1) = IF then.up THEN then ELSE CloseOutage(then, t1)
  BY DEF Summarize, last
<1> HIDE DEF then
<1>8. then \in Sums /\ then.down = Cardinality(Downs(t0, t1))
      /\ then.connected = Cardinality(Ups(t0, t1))
  BY <1>5, <1>6 DEF SumHolds
<1>9. CASE then.up
  <2>1. Told(then.episodes) = Downs(t0, t1) /\ InTurn(then.episodes, t1)
    BY <1>5, <1>6, <1>9 DEF SumHolds
  <2>2. then.episodes \in Seq(Outages) BY <1>8 DEF Sums
  <2>3. Summarize(t0, t1) = then BY <1>7, <1>9
  <2>4. QED BY <1>8, <2>1, <2>2, <2>3
<1>10. CASE ~then.up
  <2> DEFINE closed == CloseOutage(then, then.cursor)
  <2>1. /\ closed \in Sums
        /\ closed.down = then.down /\ closed.connected = then.connected
        /\ Told(closed.episodes) = Downs(t0, t1)
        /\ InTurn(closed.episodes, t1)
    BY <1>2, <1>5, <1>6, <1>10, OutageCloses
  <2>2. Summarize(t0, t1) = closed BY <1>6, <1>7, <1>10
  <2> HIDE DEF closed
  <2>3. closed.episodes \in Seq(Outages) BY <2>1 DEF Sums
  <2>4. QED BY <1>8, <2>1, <2>2, <2>3
<1>11. QED BY <1>9, <1>10

(* The window of the page starts where the rows do.                        *)
LEMMA WindowCovered ==
  ASSUME LogInv, NEW frm \in 0 .. second, NEW to \in frm .. second,
         (WindowStart(frm, to) .. (to - 1)) \intersect untold = {}
  PROVE  Covered(WindowStart(frm, to), to)
<1> DEFINE t0 == WindowStart(frm, to)
<1>1. second \in Nat BY DEF LogInv, UpType
<1>2. frm \in Nat /\ to \in Nat /\ frm <= to /\ to <= second BY <1>1
<1>3. ASSUME rows # <<>>
      PROVE  1 \in DOMAIN rows /\ Head(rows) = rows[1] /\ rows[1].ts \in Nat
  <2>1. rows \in Seq(Rows) BY DEF LogInv, UpType
  <2>2. 1 \in DOMAIN rows /\ Head(rows) = rows[1] BY <1>3, <2>1
  <2>3. QED BY <2>2, RowTimes
<1>4. /\ t0 \in Nat /\ t0 <= to
      /\ rows # <<>> /\ t0 < to => rows[1].ts <= t0
  <2>1. CASE rows = <<>> BY <1>2, <2>1 DEF WindowStart
  <2>2. CASE rows # <<>>
    <3>1. WindowStart(frm, to) = IF frm >= rows[1].ts THEN frm
                                 ELSE IF rows[1].ts < to THEN rows[1].ts ELSE to
      BY <1>3, <2>2 DEF WindowStart
    <3>2. QED BY <1>2, <1>3, <2>2, <3>1
  <2>3. QED BY <2>1, <2>2
<1> HIDE DEF t0
<1>5. (t0 .. (to - 1)) \intersect untold = {} BY DEF t0
<1>6. ASSUME t0 < to PROVE rows # <<>>
  <2>1. t0 \in t0 .. (to - 1) BY <1>2, <1>4, <1>6
  <2>2. t0 \in 0 .. second - 1 BY <1>1, <1>2, <1>4, <1>6
  <2>3. QED BY <1>5, <2>1, <2>2 DEF LogInv, RowsTell
<1>7. Covered(t0, to) BY <1>2, <1>3, <1>4, <1>5, <1>6 DEF Covered
<1>8. QED BY <1>7 DEF t0

(* Over every window without a second whose edge was lost, the seconds and *)
(* the outages of /connectivity.json are those there were, whatever was    *)
(* pruned or written twice, for every length of the table.                 *)
THEOREM UptimeTruth == UpSpec => []UptimeTruthful
<1>1. UpInit => LogInv
  <2>1. ASSUME UpInit PROVE LogInv
    <3>1. /\ rows = <<>> /\ connUp = FALSE /\ second = 0 /\ wasUp = <<>> BY <2>1 DEF UpInit
    <3>2. UpType
      <4>1. <<>> \in Seq(Rows) /\ <<>> \in Seq(BOOLEAN) /\ Len(<<>>) = 0 OBVIOUS
      <4>2. FALSE \in BOOLEAN /\ 0 \in Nat OBVIOUS
      <4>3. QED BY <3>1, <4>1, <4>2 DEF UpType
    <3>3. DOMAIN rows = {} /\ 0 .. second - 1 = {} BY <3>1
    <3>4. QED BY <3>2, <3>3 DEF LogInv, RowsInOrder, RowsTell
  <2>2. QED BY <2>1
<1>2. LogInv /\ [UpNext]_upVars => LogInv' BY LogStep
<1>3. LogInv => UptimeTruthful
  <2> SUFFICES ASSUME LogInv, NEW frm \in 0 .. second, NEW to \in frm .. second,
                      (WindowStart(frm, to) .. (to - 1)) \intersect untold = {}
      PROVE  LET t0 == WindowStart(frm, to)
                 seconds == t0 .. (to - 1)
                 down == {s \in seconds : ~wasUp[s + 1]}
                 sum == Summarize(t0, to)
             IN  /\ sum.down = Cardinality(down)
                 /\ sum.connected = Cardinality(seconds \ down)
                 /\ UNION {e.start .. (e.end - 1) : e \in ToSet(sum.episodes)} = down
                 /\ \A i \in 1 .. Len(sum.episodes) - 1 :
                      sum.episodes[i].end <= sum.episodes[i + 1].start
    BY DEF UptimeTruthful
  <2> DEFINE t0 == WindowStart(frm, to)
             seconds == t0 .. (to - 1)
             sum == Summarize(t0, to)
             told == sum.episodes
  <2>1. /\ told \in Seq(Outages)
        /\ sum.down = Cardinality(Downs(t0, to))
        /\ sum.connected = Cardinality(Ups(t0, to))
        /\ Told(told) = Downs(t0, to)
        /\ InTurn(told, to)
    BY WindowCovered, SummaryTells
  <2> HIDE DEF t0, sum
  <2>2. Downs(t0, to) = {s \in seconds : ~wasUp[s + 1]} BY DEF Downs
  <2>3. Ups(t0, to) = seconds \ {s \in seconds : ~wasUp[s + 1]} BY DEF Ups
  <2> HIDE DEF seconds, told
  <2>4. UNION {e.start .. (e.end - 1) : e \in ToSet(told)} = Told(told)
    BY DEF ToSet, Told
  <2>5. ASSUME NEW i \in 1 .. Len(told) - 1 PROVE told[i].end <= told[i + 1].start
    <3>1. DOMAIN told = 1 .. Len(told) /\ Len(told) \in Nat BY <2>1
    <3>2. i \in DOMAIN told /\ i + 1 \in DOMAIN told BY <3>1
    <3>3. QED BY <2>1, <3>2 DEF InTurn
  <2>6. QED BY <2>1, <2>2, <2>3, <2>4, <2>5 DEF t0, seconds, sum, told
<1>4. QED BY <1>1, <1>2, <1>3, PTL DEF UpSpec
=============================================================================
