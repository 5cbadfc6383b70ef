----------------------------- MODULE Sms_proofs -----------------------------
(***************************************************************************)
(* Text messages, for any messages, slots and SIM cards, any texts, number *)
(* of texts and capacity of a part.                                        *)
(*                                                                         *)
(* The inbox: a row is answered once.  What is still to be considered for  *)
(* a reply has a row that was not answered, and a body without a row has   *)
(* no answers.                                                             *)
(*                                                                         *)
(* The codec, in the second half: a text is read as it was sent unless it  *)
(* was torn, halved or mixed with another.  What is stored are parts of    *)
(* the texts sent, none twice, of each text the first ones.                *)
(***************************************************************************)
EXTENDS SmsInbox, SmsCodec, SequenceTheorems, FiniteSetTheorems, TLAPS

HasRow(b) == \E r \in inbox : r.body = b
Answers ==
  /\ \A b \in Body : answered[b] <= 1 /\ (~HasRow(b) => answered[b] = 0)
  /\ \A b \in outbox : answered[b] = 0 /\ HasRow(b)
Inv == TypeOK /\ Answers

(* Messages and pieces.                                                    *)
LEMMA Pairs ==
  /\ \A p \in Piece : p[1] \in Messages /\ p[2] \in 1 .. Pieces[p[1]]
  /\ \A b \in Body : b[1] \in Messages
  /\ \A m \in Messages : \A ns :
        ns \subseteq 1 .. Pieces[m] /\ ns # {} => <<m, ns>> \in Body
<1>1. \A p \in Piece : \E m \in Messages : p \in {m} \X (1 .. Pieces[m]) BY DEF Piece
<1>2. \A b \in Body : \E m \in Messages :
        b \in {m} \X {ns \in SUBSET (1 .. Pieces[m]) : ns # {}}
  BY DEF Body
<1>3. ASSUME NEW m \in Messages, NEW ns, ns \subseteq 1 .. Pieces[m], ns # {}
      PROVE  <<m, ns>> \in Body
  <2>1. <<m, ns>> \in {m} \X {s \in SUBSET (1 .. Pieces[m]) : s # {}} BY <1>3
  <2>2. QED BY <2>1 DEF Body
<1>4. QED BY <1>1, <1>2, <1>3

(* What the modem lists are bodies.                                        *)
LEMMA ListedAreBodies == TypeOK => Listed \subseteq Body
<1> SUFFICES ASSUME TypeOK, NEW m \in Messages, Held(m) # {} PROVE BodyOf(m) \in Body
  BY DEF Listed
<1> DEFINE ns == {storage[sim][s][2] : s \in Held(m)}
<1>1. \A s \in Held(m) : storage[sim][s] \in Piece /\ storage[sim][s][1] = m
  BY DEF TypeOK, Held
<1>2. \A s \in Held(m) : storage[sim][s][2] \in 1 .. Pieces[m] BY <1>1, Pairs
<1>3. ns \subseteq 1 .. Pieces[m] BY <1>2
<1>4. ns # {}
  <2>1. PICK s \in Held(m) : TRUE OBVIOUS
  <2>2. storage[sim][s][2] \in ns BY <2>1
  <2>3. QED BY <2>2
<1>5. BodyOf(m) = <<m, ns>> BY DEF BodyOf
<1> HIDE DEF ns
<1>6. QED BY <1>3, <1>4, <1>5, Pairs

(* The rows of a fetch: one for each body listed.                          *)
LEMMA SyncedRows ==
  ASSUME TypeOK
  PROVE  /\ Synced \subseteq Row
         /\ \A r1, r2 \in Synced : r1.body = r2.body => r1 = r2
         /\ \A b \in Body : (\E r \in Synced : r.body = b) <=> b \in Listed
<1>1. Listed \subseteq Body BY ListedAreBodies
<1>2. \A b \in Body : SlotsOf(b) \in SUBSET Slots BY DEF SlotsOf, Held
<1>3. \A b \in Body : Kept(b) \in BOOLEAN BY DEF Kept
<1>4. Synced \subseteq Row BY <1>1, <1>2, <1>3 DEF Synced, Row
<1>5. \A r \in Synced :
        /\ r.body \in Listed
        /\ r = [body |-> r.body, at |-> SlotsOf(r.body), read |-> Kept(r.body)]
  BY DEF Synced
<1>6. \A b \in Listed : [body |-> b, at |-> SlotsOf(b), read |-> Kept(b)] \in Synced
  BY DEF Synced
<1>7. QED BY <1>4, <1>5, <1>6

-----------------------------------------------------------------------------
LEMMA InvInit == Init => Inv
<1> SUFFICES ASSUME Init PROVE Inv OBVIOUS
<1>1. storage \in [Sims -> [Slots -> Piece \union {None}]] BY DEF Init, Empty
<1>2. recent \in [Peers -> 0 .. MaxPerPeer] BY SmsConstants DEF Init
<1>3. answered \in [Body -> Nat] /\ \A b \in Body : answered[b] = 0
  BY DEF Init, NoReplies
<1>4. replies \in [Messages -> 0 .. Enough] BY DEF Init, Enough
<1>5. TypeOK BY <1>1, <1>2, <1>3, <1>4 DEF Init, TypeOK
<1>6. QED BY <1>3, <1>5 DEF Inv, Answers, Init

(* Forgetting the answers of bodies without a row.                         *)
LEMMA ForgetAnswers ==
  ASSUME Inv, NEW rs, Forget(rs)
  PROVE  /\ answered' \in [Body -> Nat]
         /\ \A b \in Body : answered'[b] = IF \E r \in rs : r.body = b THEN answered[b] ELSE 0
BY DEF Forget, Inv, TypeOK

LEMMA FetchKeeps == ASSUME Inv, Fetch PROVE Inv'
<1> USE DEF historyVars, modemVars
<1>1. TypeOK BY DEF Inv
<1>2. CASE inbox' = Synced /\ outbox' \in {NewRows, {}} /\ Forget(Synced)
  <2>1. \A b \in Body : HasRow(b)' <=> b \in Listed BY <1>1, <1>2, SyncedRows DEF HasRow
  <2>2. outbox' \subseteq {b \in Body : b \in Listed /\ ~HasRow(b)}
    BY <1>1, <1>2, ListedAreBodies DEF NewRows, RowsOf, HasRow
  <2>3. /\ answered' \in [Body -> Nat]
        /\ \A b \in Body : answered'[b] = IF b \in Listed THEN answered[b] ELSE 0
    BY <1>1, <1>2, SyncedRows, ForgetAnswers
  <2>4. Answers' BY <2>1, <2>2, <2>3 DEF Inv, Answers
  <2>5. TypeOK'
    <3>1. inbox' \subseteq Row /\ \A r1, r2 \in inbox' : r1.body = r2.body => r1 = r2
      BY <1>1, <1>2, SyncedRows
    <3>2. QED BY <1>1, <2>2, <2>3, <3>1 DEF TypeOK, Fetch
  <2>6. QED BY <2>4, <2>5 DEF Inv
<1>3. CASE UNCHANGED <<inbox, outbox, answered>>
  <2>1. TypeOK' BY <1>1, <1>3 DEF TypeOK, Fetch
  <2>2. Answers' BY <1>3 DEF Inv, Answers, HasRow
  <2>3. QED BY <2>1, <2>2 DEF Inv
<1>4. QED BY <1>2, <1>3 DEF Fetch, Idle

LEMMA ConsiderReplyKeeps == ASSUME Inv, ConsiderReply PROVE Inv'
<1>1. PICK b \in outbox :
        \/ outbox' = outbox \ {b} /\ UNCHANGED <<recent, historyVars>>
        \/ /\ Allowed(PeerOf[b[1]])
           /\ recent' = [recent EXCEPT ![PeerOf[b[1]]] = @ + 1]
           /\ outbox' \in {outbox \ {b}, {}}
           /\ Answer(b) \/ UNCHANGED historyVars
  BY DEF ConsiderReply
<1>2. UNCHANGED <<modemVars, daemon, pending, inbox, calm>> BY DEF ConsiderReply
<1>3. TypeOK /\ b \in Body /\ answered[b] = 0 /\ HasRow(b) BY DEF Inv, Answers, TypeOK
<1>4. b[1] \in Messages /\ PeerOf[b[1]] \in Peers BY <1>3, Pairs DEF Peers
<1>5. outbox' \subseteq outbox \ {b} BY <1>1
<1>6. answered' \in {answered, [answered EXCEPT ![b] = @ + 1]} BY <1>1 DEF Answer, historyVars
<1>7. replies' \in [Messages -> 0 .. Enough]
  <2>1. CASE Answer(b) BY <2>1, <1>3, <1>4 DEF Answer, TypeOK, Enough
  <2>2. CASE UNCHANGED historyVars BY <2>2, <1>3 DEF historyVars, TypeOK
  <2>3. QED BY <2>1, <2>2, <1>1
<1>8. recent' \in [Peers -> 0 .. MaxPerPeer]
  <2>1. CASE UNCHANGED recent BY <2>1, <1>3 DEF TypeOK
  <2>2. CASE Allowed(PeerOf[b[1]]) /\ recent' = [recent EXCEPT ![PeerOf[b[1]]] = @ + 1]
    BY <2>2, <1>3, <1>4, SmsConstants DEF TypeOK, Allowed
  <2>3. QED BY <2>1, <2>2, <1>1
<1>9. answered' \in [Body -> Nat] /\ \A c \in Body : c # b => answered'[c] = answered[c]
  BY <1>6, <1>3 DEF TypeOK
<1>10. answered'[b] \in {0, 1} BY <1>6, <1>3 DEF TypeOK
<1>11. TypeOK' BY <1>2, <1>3, <1>5, <1>7, <1>8, <1>9 DEF TypeOK, modemVars
<1>12. \A c : HasRow(c)' <=> HasRow(c) BY <1>2 DEF HasRow
<1>13. Answers' BY <1>3, <1>5, <1>9, <1>10, <1>12 DEF Inv, Answers, TypeOK
<1>14. QED BY <1>11, <1>13 DEF Inv

LEMMA DeleteKeeps == ASSUME Inv, DeleteSms PROVE Inv'
<1>1. PICK r \in inbox :
        /\ inbox' = inbox \ {r} /\ Forget(inbox \ {r})
        /\ \/ UNCHANGED <<storage, pending>>
           \/ /\ \E failed \in SUBSET r.at :
                   storage' = [storage EXCEPT ![sim] =
                     [s \in Slots |-> IF s \in r.at \ failed THEN None ELSE @[s]]]
              /\ pending' = TRUE
  BY DEF DeleteSms
<1>2. TypeOK /\ outbox = {} BY DEF Inv, DeleteSms, Idle
<1>3. storage' \in [Sims -> [Slots -> Piece \union {None}]] /\ pending' \in BOOLEAN
  <2>1. CASE UNCHANGED <<storage, pending>> BY <2>1, <1>2 DEF TypeOK
  <2>2. ASSUME NEW gone,
               storage' = [storage EXCEPT ![sim] =
                 [s \in Slots |-> IF s \in gone THEN None ELSE @[s]]]
        PROVE  storage' \in [Sims -> [Slots -> Piece \union {None}]]
    BY <2>2, <1>2 DEF TypeOK
  <2>3. QED BY <2>1, <2>2, <1>1
<1>4. /\ answered' \in [Body -> Nat]
      /\ \A b \in Body : answered'[b] = IF HasRow(b)' THEN answered[b] ELSE 0
  BY <1>1, ForgetAnswers DEF HasRow
<1>5. TypeOK' BY <1>1, <1>2, <1>3, <1>4 DEF TypeOK, DeleteSms
<1>6. Answers' BY <1>2, <1>4 DEF Inv, Answers, DeleteSms
<1>7. QED BY <1>5, <1>6 DEF Inv

LEMMA MarkKeeps == ASSUME Inv, MarkSmsRead PROVE Inv'
<1>1. TypeOK BY DEF Inv
<1>2. \A n \in inbox' : \E r \in inbox : n = [r EXCEPT !.read = TRUE] BY DEF MarkSmsRead
<1>3. \A r \in inbox : [r EXCEPT !.read = TRUE] \in inbox' BY DEF MarkSmsRead
<1>4. \A r \in inbox :
        [r EXCEPT !.read = TRUE] \in Row /\ [r EXCEPT !.read = TRUE].body = r.body
  BY <1>1 DEF TypeOK, Row
<1>5. \A b : HasRow(b)' <=> HasRow(b)
  <2> TAKE b
  <2>1. ASSUME NEW r \in inbox, r.body = b PROVE HasRow(b)'
    BY <2>1, <1>3, <1>4 DEF HasRow
  <2>2. ASSUME NEW n \in inbox', n.body = b PROVE HasRow(b)
    <3>1. PICK r \in inbox : n = [r EXCEPT !.read = TRUE] BY <1>2
    <3>2. r.body = b BY <3>1, <2>2, <1>4
    <3>3. QED BY <3>2 DEF HasRow
  <2>3. QED BY <2>1, <2>2 DEF HasRow
<1>6. inbox' \subseteq Row /\ \A n1, n2 \in inbox' : n1.body = n2.body => n1 = n2
  <2>1. inbox' \subseteq Row BY <1>2, <1>4
  <2>2. ASSUME NEW n1 \in inbox', NEW n2 \in inbox', n1.body = n2.body PROVE n1 = n2
    <3>1. PICK r1 \in inbox : n1 = [r1 EXCEPT !.read = TRUE] BY <1>2
    <3>2. PICK r2 \in inbox : n2 = [r2 EXCEPT !.read = TRUE] BY <1>2
    <3>3. r1 = r2 BY <3>1, <3>2, <2>2, <1>1, <1>4 DEF TypeOK
    <3>4. QED BY <3>1, <3>2, <3>3
  <2>3. QED BY <2>1, <2>2
<1>7. TypeOK' BY <1>1, <1>6 DEF TypeOK, MarkSmsRead, modemVars, historyVars
<1>8. Answers' BY <1>5 DEF Inv, Answers, MarkSmsRead, historyVars
<1>9. QED BY <1>7, <1>8 DEF Inv

(* The other actions leave the rows and their answers alone.               *)
LEMMA RowsUntouched ==
  ASSUME Inv, TypeOK', outbox' \subseteq outbox, UNCHANGED <<inbox, answered>>
  PROVE  Inv'
BY DEF Inv, Answers, HasRow

LEMMA ModemKeeps == ASSUME Inv, Arrive \/ Redeliver \/ ClearSms \/ SwapSim PROVE Inv'
<1>1. TypeOK BY DEF Inv
<1>2. storage' \in [Sims -> [Slots -> Piece \union {None}]]
  <2>1. ASSUME NEW s \in Slots, NEW p \in Piece \union {None},
               storage' = [storage EXCEPT ![sim][s] = p]
        PROVE  storage' \in [Sims -> [Slots -> Piece \union {None}]]
    BY <1>1, <2>1 DEF TypeOK
  <2>2. CASE Arrive
    <3>1. PICK p \in waiting, s \in Slots : storage' = [storage EXCEPT ![sim][s] = p]
      BY <2>2 DEF Arrive
    <3>2. QED BY <1>1, <2>1, <3>1 DEF TypeOK
  <2>3. CASE Redeliver
    <3>1. PICK t \in Slots, s \in Slots :
            storage' = [storage EXCEPT ![sim][s] = storage[sim][t]]
      BY <2>3 DEF Redeliver
    <3>2. storage[sim][t] \in Piece \union {None} BY <1>1 DEF TypeOK
    <3>3. QED BY <2>1, <3>1, <3>2
  <2>4. CASE ClearSms BY <1>1, <2>4 DEF ClearSms, TypeOK, Empty
  <2>5. CASE SwapSim BY <1>1, <2>5 DEF SwapSim, TypeOK
  <2>6. QED BY <2>2, <2>3, <2>4, <2>5
<1>3. TypeOK' /\ UNCHANGED <<inbox, outbox, answered>>
  <2>1. CASE Arrive
    BY <1>1, <1>2, <2>1 DEF Arrive, TypeOK, historyVars
  <2>2. CASE Redeliver BY <1>1, <1>2, <2>2 DEF Redeliver, TypeOK, historyVars
  <2>3. CASE ClearSms BY <1>1, <1>2, <2>3 DEF ClearSms, TypeOK, historyVars
  <2>4. CASE SwapSim BY <1>1, <1>2, <2>4 DEF SwapSim, TypeOK, historyVars
  <2>5. QED BY <2>1, <2>2, <2>3, <2>4
<1>4. QED BY <1>3, RowsUntouched

LEMMA OthersKeep ==
  ASSUME Inv,
         Poll \/ WindowPasses \/ StateChanges \/ Restart \/ Settle \/ UNCHANGED vars
  PROVE  Inv'
<1>1. TypeOK BY DEF Inv
<1>2. TypeOK' /\ outbox' \subseteq outbox /\ UNCHANGED <<inbox, answered>>
  <2>1. CASE Poll BY <1>1, <2>1 DEF Poll, TypeOK, modemVars, historyVars
  <2>2. CASE WindowPasses
    <3>1. recent' \in [Peers -> 0 .. MaxPerPeer]
      BY <1>1, <2>2, SmsConstants DEF WindowPasses, TypeOK
    <3>2. QED BY <1>1, <2>2, <3>1 DEF WindowPasses, TypeOK, modemVars, historyVars
  <2>3. CASE StateChanges
    BY <1>1, <2>3 DEF StateChanges, TypeOK, modemVars, historyVars
  <2>4. CASE Restart
    <3>1. recent' \in [Peers -> 0 .. MaxPerPeer] BY <2>4, SmsConstants DEF Restart
    <3>2. QED BY <1>1, <2>4, <3>1 DEF Restart, TypeOK, modemVars, historyVars
  <2>5. CASE Settle BY <1>1, <2>5 DEF Settle, TypeOK, modemVars, historyVars
  <2>6. CASE UNCHANGED vars BY <1>1, <2>6 DEF vars, TypeOK, modemVars, historyVars
  <2>7. QED BY <2>1, <2>2, <2>3, <2>4, <2>5, <2>6
<1>3. QED BY <1>2, RowsUntouched

LEMMA StepKeeps == Inv /\ [Next]_vars => Inv'
BY FetchKeeps, ConsiderReplyKeeps, DeleteKeeps, MarkKeeps, ModemKeeps, OthersKeep DEF Next

THEOREM SmsInvariant == Spec => []Inv
BY InvInit, StepKeeps, PTL DEF Spec

-----------------------------------------------------------------------------
(* Every variable has its type, and the table one row per body.            *)
THEOREM SmsTypeOK == Spec => []TypeOK
BY SmsInvariant, PTL DEF Inv

(* No row is answered twice: a fetch that lists it again, a failing reply, *)
(* a restart or a SIM swap do not put it among the new ones again.         *)
THEOREM SmsRowAnsweredOnce == Spec => []RowAnsweredOnce
<1>1. Inv => RowAnsweredOnce BY DEF Inv, Answers, RowAnsweredOnce
<1>2. QED BY <1>1, SmsInvariant, PTL

(* No step makes a row the user has read unread.                           *)
THEOREM SmsReadStaysRead == Spec => ReadStaysRead
<1> DEFINE Stays == \A r \in inbox : r.read => \A n \in inbox' : n.body = r.body => n.read
<1>1. ASSUME Inv, [Next]_vars PROVE Stays
  <2> SUFFICES ASSUME NEW r \in inbox, r.read, NEW n \in inbox', n.body = r.body PROVE n.read
    OBVIOUS
  <2>1. TypeOK BY <1>1 DEF Inv
  <2>2. CASE inbox' = Synced BY <2>1, <2>2 DEF Synced, Kept, RowsOf
  <2>3. CASE inbox' \subseteq inbox BY <2>1, <2>3 DEF TypeOK
  <2>4. CASE inbox' = {[o EXCEPT !.read = TRUE] : o \in inbox}
    BY <2>1, <2>4 DEF TypeOK, Row
  <2>5. QED
    BY <1>1, <2>2, <2>3, <2>4
    DEF Next, vars, Poll, Fetch, ConsiderReply, WindowPasses, DeleteSms, ClearSms, MarkSmsRead,
        StateChanges, Restart, Arrive, Redeliver, SwapSim, Settle
<1>2. Inv /\ [Next]_vars => [Stays]_vars BY <1>1
<1>3. QED BY <1>2, SmsInvariant, PTL DEF Spec, ReadStaysRead

-----------------------------------------------------------------------------
(* A set of numbers has a least one: among its initial segments, which are *)
(* finite, there is a smallest.                                            *)
LEMMA LeastOfSet ==
  ASSUME NEW I \in SUBSET Nat, I # {}
  PROVE  Min(I) \in I /\ \A i \in I : Min(I) <= i
<1> DEFINE Upto(k) == I \intersect (0 .. k)
           T == {Upto(k) : k \in I}
           R == StrictSubsetOrdering(I)
<1>1. T \subseteq FiniteSubsetsOf(I)
  <2>1. \A k \in I : Upto(k) \in SUBSET (0 .. k) /\ IsFiniteSet(0 .. k)
    BY FS_Interval
  <2>2. \A k \in I : IsFiniteSet(Upto(k)) BY <2>1, FS_Subset
  <2>3. QED BY <2>2 DEF FiniteSubsetsOf
<1>2. \E x \in T : \A y \in T : <<y, x>> \notin R
  <2>1. IsWellFoundedOn(R, FiniteSubsetsOf(I)) BY FS_StrictSubsetOrderingWellFounded
  <2>2. T # {} OBVIOUS
  <2> HIDE DEF T, R
  <2>3. QED BY <1>1, <2>1, <2>2, WFMin
<1>3. PICK k \in I : \A j \in I : <<Upto(j), Upto(k)>> \notin R BY <1>2
<1>4. ASSUME NEW j \in I, j < k PROVE FALSE
  <2>1. Upto(j) \subseteq Upto(k) /\ k \in Upto(k) /\ k \notin Upto(j) BY <1>4
  <2>2. <<Upto(j), Upto(k)>> \in R BY <2>1 DEF StrictSubsetOrdering
  <2>3. QED BY <1>3, <2>2
<1>5. \A j \in I : k <= j BY <1>4
<1>6. QED BY <1>5 DEF Min

(* Induction up to a number, on the set of those for which a fact holds.   *)
LEMMA Climb ==
  ASSUME NEW L \in Nat, NEW I, 0 \in I,
         \A n \in 0 .. L - 1 : n \in I => n + 1 \in I
  PROVE  \A n \in 0 .. L : n \in I
<1> DEFINE bad == {n \in 0 .. L : n \notin I}
<1>1. ASSUME bad # {} PROVE FALSE
  <2> DEFINE k == Min(bad)
  <2>1. bad \in SUBSET Nat OBVIOUS
  <2>2. k \in bad /\ \A i \in bad : k <= i
    <3> HIDE DEF bad
    <3>1. QED BY <1>1, <2>1, LeastOfSet
  <2>3. k \in 0 .. L /\ k \notin I BY <2>2
  <2> HIDE DEF k
  <2>4. k # 0 BY <2>3
  <2>5. k - 1 \in 0 .. L /\ k - 1 \in 0 .. L - 1 /\ ~(k <= k - 1) /\ (k - 1) + 1 = k
    BY <2>3, <2>4
  <2>6. k - 1 \in I BY <2>2, <2>5
  <2>7. QED BY <2>3, <2>5, <2>6
<1>2. QED BY <1>1

(* The prefixes FlattenSeq goes through, each of which adds one sequence.  *)
BuildsUp(f, seqs) ==
  /\ f[0] = <<>>
  /\ \A i \in 1 .. Len(seqs) : f[i] = f[i - 1] \o seqs[i]

(* Those sequences exist.                                                  *)
LEMMA PrefixesExist ==
  ASSUME NEW S, NEW seqs \in Seq(Seq(S))
  PROVE  \E f \in [0 .. Len(seqs) -> Seq(S)] : BuildsUp(f, seqs)
<1> DEFINE L == Len(seqs)
           Is(f, m) == /\ f[0] = <<>>
                       /\ \A i \in 1 .. m : f[i] = f[i - 1] \o seqs[i]
           I == {m \in Nat : \E f \in [0 .. m -> Seq(S)] : Is(f, m)}
<1>1. L \in Nat /\ \A i \in 1 .. L : seqs[i] \in Seq(S) OBVIOUS
<1>2. 0 \in I
  <2> DEFINE g == [i \in 0 .. 0 |-> <<>>]
  <2>1. g \in [0 .. 0 -> Seq(S)] /\ g[0] = <<>> OBVIOUS
  <2>2. 1 .. 0 = {} OBVIOUS
  <2> HIDE DEF g
  <2>3. QED BY <2>1, <2>2
<1>3. ASSUME NEW n \in 0 .. L - 1, n \in I PROVE n + 1 \in I
  <2>1. PICK f \in [0 .. n -> Seq(S)] : Is(f, n) BY <1>3
  <2> DEFINE g == [i \in 0 .. n + 1 |-> IF i = n + 1 THEN f[n] \o seqs[n + 1] ELSE f[i]]
  <2>2. n \in Nat /\ n + 1 \in 1 .. L /\ n \in 0 .. n /\ n # n + 1 BY <1>1
  <2>3. f[n] \o seqs[n + 1] \in Seq(S)
    <3>1. f[n] \in Seq(S) /\ seqs[n + 1] \in Seq(S) BY <1>1, <2>1, <2>2
    <3>2. QED BY <3>1, ConcatProperties
  <2>4. g \in [0 .. n + 1 -> Seq(S)]
    <3>1. \A i \in 0 .. n + 1 : i = n + 1 \/ i \in 0 .. n BY <2>2
    <3>2. QED BY <2>1, <2>3, <3>1
  <2>5. g[0] = <<>> BY <2>1, <2>2
  <2>6. ASSUME NEW i \in 1 .. n + 1 PROVE g[i] = g[i - 1] \o seqs[i]
    <3>1. CASE i = n + 1
      <4>1. i \in 0 .. n + 1 /\ i - 1 \in 0 .. n + 1 /\ i - 1 = n BY <2>2, <3>1
      <4>2. QED BY <2>2, <3>1, <4>1
    <3>2. CASE i # n + 1
      <4>1. i \in 1 .. n /\ i \in 0 .. n + 1 /\ i - 1 \in 0 .. n + 1 /\ i - 1 # n + 1
        BY <2>2, <3>2
      <4>2. g[i] = f[i] /\ g[i - 1] = f[i - 1] BY <3>2, <4>1
      <4>3. QED BY <2>1, <4>1, <4>2
    <3>3. QED BY <3>1, <3>2
  <2> HIDE DEF g
  <2>7. Is(g, n + 1) BY <2>5, <2>6
  <2> HIDE DEF Is
  <2>8. QED BY <2>2, <2>4, <2>7
<1> HIDE DEF I
<1>4. \A n \in 0 .. L : n \in I BY <1>1, <1>2, <1>3, Climb
<1>5. L \in I BY <1>1, <1>4
<1>6. QED BY <1>5 DEF I, BuildsUp

(* They end in what it returns.                                            *)
LEMMA FlattenIs ==
  ASSUME NEW S, NEW seqs \in Seq(Seq(S)), NEW f, BuildsUp(f, seqs)
  PROVE  FlattenSeq(seqs) = f[Len(seqs)]
<1> DEFINE L == Len(seqs)
           Is(g) == g = [i \in 1 .. L |-> IF i = 1 THEN seqs[i] ELSE g[i - 1] \o seqs[i]]
           h == CHOOSE g : Is(g)
           own == [i \in 1 .. L |-> f[i]]
<1>1. L \in Nat /\ \A i \in 1 .. L : seqs[i] \in Seq(S) OBVIOUS
<1>2. CASE L = 0
  <2>1. seqs = <<>> BY <1>2
  <2>2. QED BY <1>2, <2>1 DEF FlattenSeq, BuildsUp
<1>3. CASE L # 0
  <2>1. Is(own)
    <3>1. ASSUME NEW i \in 1 .. L
          PROVE  own[i] = IF i = 1 THEN seqs[i] ELSE own[i - 1] \o seqs[i]
      <4>1. f[i] = f[i - 1] \o seqs[i] BY DEF BuildsUp
      <4>2. CASE i = 1
        <5>1. f[i - 1] = <<>> BY <4>2 DEF BuildsUp
        <5>2. seqs[i] \in Seq(S) BY <1>1
        <5>3. <<>> \o seqs[i] = seqs[i] BY <5>2, ConcatEmptySeq
        <5>4. own[i] = f[i] OBVIOUS
        <5> HIDE DEF own
        <5>5. QED BY <4>1, <4>2, <5>1, <5>3, <5>4
      <4>3. CASE i # 1
        <5>1. i - 1 \in 1 .. L BY <1>1, <4>3
        <5>2. own[i] = f[i] /\ own[i - 1] = f[i - 1] BY <5>1
        <5> HIDE DEF own
        <5>3. QED BY <4>1, <4>3, <5>2
      <4>4. QED BY <4>2, <4>3
    <3>2. QED BY <3>1
  <2>2. Is(h)
    <3> HIDE DEF Is, own
    <3>1. QED BY <2>1
  <2>3. FlattenSeq(seqs) = h[L] BY <1>3 DEF FlattenSeq
  <2> HIDE DEF h
  <2>4. \A i \in 1 .. L : h[i] = IF i = 1 THEN seqs[i] ELSE h[i - 1] \o seqs[i]
    BY <2>2
  <2> HIDE DEF Is, own
  <2> DEFINE I == {n \in Nat : n = 0 \/ h[n] = f[n]}
  <2>5. 0 \in I OBVIOUS
  <2>6. ASSUME NEW n \in 0 .. L - 1, n \in I PROVE n + 1 \in I
    <3>1. n \in Nat /\ n + 1 \in 1 .. L /\ (n + 1) - 1 = n BY <1>1
    <3>2. f[n + 1] = f[n] \o seqs[n + 1] BY <3>1 DEF BuildsUp
    <3>3. CASE n = 0
      <4>1. seqs[1] \in Seq(S) BY <1>1, <3>1, <3>3
      <4>2. f[0] \o seqs[1] = seqs[1] BY <4>1, ConcatEmptySeq DEF BuildsUp
      <4>3. h[1] = seqs[1] BY <2>4, <3>1, <3>3
      <4>4. n + 1 = 1 BY <3>3
      <4>5. f[1] = f[0] \o seqs[1] BY <3>2, <3>3, <4>4
      <4>6. h[n + 1] = f[n + 1] BY <4>2, <4>3, <4>4, <4>5
      <4>7. QED BY <3>1, <4>6
    <3>4. CASE n # 0
      <4>1. n + 1 # 1 BY <3>1, <3>4
      <4>2. h[n + 1] = h[(n + 1) - 1] \o seqs[n + 1] BY <2>4, <3>1, <4>1
      <4>3. h[n] = f[n] BY <2>6, <3>4
      <4>4. h[n + 1] = f[n + 1] BY <3>1, <3>2, <4>2, <4>3
      <4>5. QED BY <3>1, <4>4
    <3>5. QED BY <3>3, <3>4
  <2> HIDE DEF I
  <2>7. \A n \in 0 .. L : n \in I BY <1>1, <2>5, <2>6, Climb
  <2>8. L \in 0 .. L BY <1>1
  <2>9. L \in I BY <2>7, <2>8
  <2>10. h[L] = f[L] BY <1>3, <2>9 DEF I
  <2>11. QED BY <2>3, <2>10
<1>4. QED BY <1>2, <1>3

(* Nothing is lost: what is in one of the sequences is in the result.      *)
LEMMA FlattenKeeps ==
  ASSUME NEW S, NEW seqs \in Seq(Seq(S)), NEW k \in 1 .. Len(seqs),
         NEW j \in 1 .. Len(seqs[k])
  PROVE  /\ FlattenSeq(seqs) \in Seq(S)
         /\ \E q \in 1 .. Len(FlattenSeq(seqs)) : FlattenSeq(seqs)[q] = seqs[k][j]
<1> DEFINE L == Len(seqs)
           In(s) == s \in Seq(S) /\ \E q \in 1 .. Len(s) : s[q] = seqs[k][j]
<1>1. PICK f \in [0 .. L -> Seq(S)] : BuildsUp(f, seqs) BY PrefixesExist
<1>2. L \in Nat /\ (\A i \in 1 .. L : seqs[i] \in Seq(S)) /\ k \in Nat OBVIOUS
<1>3. \A i \in 1 .. L : f[i] = f[i - 1] \o seqs[i] BY <1>1 DEF BuildsUp
<1> DEFINE I == {n \in Nat : n + k <= L => In(f[n + k])}
<1>4. ASSUME NEW s \in Seq(S), NEW t \in Seq(S), In(s) \/ In(t) PROVE In(s \o t)
  <2>1. /\ s \o t \in Seq(S) /\ Len(s \o t) = Len(s) + Len(t)
        /\ \A i \in 1 .. Len(s) + Len(t) :
             (s \o t)[i] = IF i <= Len(s) THEN s[i] ELSE t[i - Len(s)]
    BY ConcatProperties
  <2>2. Len(s) \in Nat /\ Len(t) \in Nat OBVIOUS
  <2>3. CASE In(s)
    <3>1. PICK q \in 1 .. Len(s) : s[q] = seqs[k][j] BY <2>3
    <3>2. q \in 1 .. Len(s) + Len(t) /\ q <= Len(s) BY <2>2
    <3>3. QED BY <2>1, <3>1, <3>2
  <2>4. CASE In(t)
    <3>1. PICK q \in 1 .. Len(t) : t[q] = seqs[k][j] BY <2>4
    <3>2. /\ q + Len(s) \in 1 .. Len(s) + Len(t) /\ ~(q + Len(s) <= Len(s))
          /\ (q + Len(s)) - Len(s) = q
      BY <2>2
    <3>3. (s \o t)[q + Len(s)] = seqs[k][j] BY <2>1, <3>1, <3>2
    <3>4. QED BY <2>1, <3>2, <3>3
  <2>5. QED BY <1>4, <2>3, <2>4
<1>5. 0 \in I
  <2>1. f[k] = f[k - 1] \o seqs[k] /\ f[k - 1] \in Seq(S) /\ seqs[k] \in Seq(S)
    <3>1. k \in 1 .. L /\ k - 1 \in 0 .. L BY <1>2
    <3>2. QED BY <1>1, <1>2, <1>3, <3>1
  <2>2. In(seqs[k]) BY <2>1
  <2> HIDE DEF In
  <2>3. In(f[k]) BY <1>4, <2>1, <2>2
  <2>4. 0 + k = k BY <1>2
  <2>5. QED BY <2>3, <2>4
<1>6. ASSUME NEW n \in 0 .. L - 1, n \in I PROVE n + 1 \in I
  <2> HIDE DEF In
  <2>1. SUFFICES ASSUME (n + 1) + k <= L PROVE In(f[(n + 1) + k]) OBVIOUS
  <2>2. /\ n \in Nat /\ n + k <= L /\ (n + 1) + k \in 1 .. L
        /\ ((n + 1) + k) - 1 = n + k /\ n + k \in 0 .. L
    BY <1>2, <2>1
  <2>3. In(f[n + k]) /\ f[n + k] \in Seq(S) BY <1>1, <1>6, <2>2
  <2>4. seqs[(n + 1) + k] \in Seq(S) BY <1>2, <2>2
  <2>5. f[(n + 1) + k] = f[n + k] \o seqs[(n + 1) + k] BY <1>3, <2>2
  <2>6. QED BY <1>4, <2>3, <2>4, <2>5
<1> HIDE DEF I
<1>7. \A n \in 0 .. L : n \in I BY <1>2, <1>5, <1>6, Climb
<1>8. L - k \in 0 .. L /\ (L - k) + k = L BY <1>2
<1>9. In(f[L])
  <2> HIDE DEF In
  <2>1. L - k \in I BY <1>7, <1>8
  <2>2. QED BY <1>2, <1>8, <2>1 DEF I
<1>10. FlattenSeq(seqs) = f[L] BY <1>1, FlattenIs
<1>11. QED BY <1>9, <1>10

-----------------------------------------------------------------------------
(* What the codes of a text look like: a[q] is the number of the letter    *)
(* the code at q belongs to, a[0] = 0.  A second half follows its first    *)
(* half and belongs to its letter, any other code begins the next letter.  *)
AnyCode == [half : {"whole", "first", "second"}, letter : Letters]
HalfOpen(codes, q) == q > 0 /\ codes[q].half = "first"
Laid(codes, text, a) ==
  /\ codes \in Seq(AnyCode)
  /\ a \in [0 .. Len(codes) -> 0 .. Len(text)] /\ a[0] = 0
  /\ \A q \in 1 .. Len(codes) :
       /\ a[q] # 0 /\ codes[q] = Code(codes[q].half, text[a[q]])
       /\ a[q] = IF codes[q].half = "second" THEN a[q - 1] ELSE a[q - 1] + 1
       /\ codes[q].half = "second" <=> HalfOpen(codes, q - 1)

(* One more code carries a layout on, by a whole letter or half of one.    *)
LEMMA LaidNext ==
  ASSUME NEW text \in Seq(Letters), NEW codes, NEW a, Laid(codes, text, a),
         NEW half \in {"whole", "first", "second"},
         half = "second" <=> HalfOpen(codes, Len(codes)),
         NEW m \in 1 .. Len(text),
         m = IF half = "second" THEN a[Len(codes)] ELSE a[Len(codes)] + 1
  PROVE  LET long == Append(codes, Code(half, text[m])) IN
           \E b : /\ Laid(long, text, b) /\ b[Len(long)] = m
                  /\ HalfOpen(long, Len(long)) <=> half = "first"
<1> DEFINE long == Append(codes, Code(half, text[m]))
           M == Len(codes)
           b == [q \in 0 .. M + 1 |-> IF q = M + 1 THEN m ELSE a[q]]
<1>1. /\ codes \in Seq(AnyCode) /\ M \in Nat /\ Len(text) \in Nat
      /\ a \in [0 .. M -> 0 .. Len(text)] /\ a[0] = 0
  BY DEF Laid
<1>2. Code(half, text[m]) \in AnyCode
  <2>1. text[m] \in Letters BY ElementOfSeq
  <2>2. QED BY <2>1 DEF Code, AnyCode
<1>3. /\ long \in Seq(AnyCode) /\ Len(long) = M + 1
      /\ long[M + 1] = Code(half, text[m])
      /\ \A q \in 1 .. M : long[q] = codes[q]
  BY <1>1, <1>2, AppendProperties
<1>4. /\ b \in [0 .. M + 1 -> 0 .. Len(text)] /\ b[0] = 0 /\ b[M + 1] = m
      /\ \A q \in 0 .. M : b[q] = a[q]
  BY <1>1
<1>5. long[M + 1].half = half /\ long[M + 1].letter = text[m] BY <1>3 DEF Code
<1> HIDE DEF long, b
<1>6. ASSUME NEW q \in 1 .. M + 1
      PROVE  /\ b[q] # 0 /\ long[q] = Code(long[q].half, text[b[q]])
             /\ b[q] = IF long[q].half = "second" THEN b[q - 1] ELSE b[q - 1] + 1
             /\ long[q].half = "second" <=> HalfOpen(long, q - 1)
  <2>1. CASE q = M + 1
    <3>1. q - 1 = M /\ M \in 0 .. M BY <1>1, <2>1
    <3>2. HalfOpen(long, M) <=> HalfOpen(codes, M)
      <4>1. CASE M = 0 BY <4>1 DEF HalfOpen
      <4>2. CASE M # 0
        <5>1. M \in 1 .. M BY <1>1, <4>2
        <5>2. QED BY <1>3, <5>1 DEF HalfOpen
      <4>3. QED BY <4>1, <4>2
    <3>3. b[q - 1] = a[M] /\ b[q] = m BY <1>4, <2>1, <3>1
    <3>4. QED BY <1>3, <1>5, <2>1, <3>1, <3>2, <3>3
  <2>2. CASE q # M + 1
    <3>1. q \in 1 .. M /\ q \in 0 .. M /\ q - 1 \in 0 .. M BY <1>1, <2>2
    <3>2. HalfOpen(long, q - 1) <=> HalfOpen(codes, q - 1)
      <4>1. CASE q = 1 BY <4>1 DEF HalfOpen
      <4>2. CASE q # 1
        <5>1. q - 1 \in 1 .. M BY <3>1, <4>2
        <5>2. QED BY <1>3, <5>1 DEF HalfOpen
      <4>3. QED BY <4>1, <4>2
    <3>3. long[q] = codes[q] /\ b[q] = a[q] /\ b[q - 1] = a[q - 1]
      BY <1>3, <1>4, <3>1
    <3>4. /\ a[q] # 0 /\ codes[q] = Code(codes[q].half, text[a[q]])
          /\ a[q] = IF codes[q].half = "second" THEN a[q - 1] ELSE a[q - 1] + 1
          /\ codes[q].half = "second" <=> HalfOpen(codes, q - 1)
      BY <3>1 DEF Laid
    <3>5. QED BY <3>2, <3>3, <3>4
  <2>3. QED BY <2>1, <2>2
<1>7. Laid(long, text, b) BY <1>3, <1>4, <1>6 DEF Laid
<1>8. HalfOpen(long, Len(long)) <=> half = "first"
  BY <1>1, <1>3, <1>5 DEF HalfOpen
<1>9. QED BY <1>3, <1>4, <1>7, <1>8 DEF long

(* Gsm7Septets and Utf16Units lay a text out letter by letter.             *)
Spread(text, E) ==
  [i \in DOMAIN text |-> IF text[i] \in E THEN Pair(text[i]) ELSE <<Code("whole", text[i])>>]

LEMMA SpreadLaid ==
  ASSUME NEW text \in Seq(Letters), NEW E
  PROVE  LET codes == FlattenSeq(Spread(text, E)) IN
           \E a : /\ Laid(codes, text, a) /\ a[Len(codes)] = Len(text)
                  /\ ~HalfOpen(codes, Len(codes))
<1> DEFINE seqs == Spread(text, E)
           L == Len(text)
           Good(s, n) == \E a : Laid(s, text, a) /\ a[Len(s)] = n /\ ~HalfOpen(s, Len(s))
<1>1. L \in Nat /\ \A i \in 1 .. L : text[i] \in Letters BY ElementOfSeq
<1>2. \A i \in 1 .. L :
        /\ Code("whole", text[i]) \in AnyCode
        /\ Code("first", text[i]) \in AnyCode /\ Code("second", text[i]) \in AnyCode
  BY <1>1 DEF Code, AnyCode
<1>3. \A i \in 1 .. L : seqs[i] \in Seq(AnyCode)
  <2>1. ASSUME NEW i \in 1 .. L PROVE seqs[i] \in Seq(AnyCode)
    <3>1. Pair(text[i]) \in Seq(AnyCode) BY <1>2 DEF Pair
    <3>2. <<Code("whole", text[i])>> \in Seq(AnyCode) BY <1>2
    <3>3. QED BY <3>1, <3>2 DEF Spread
  <2>2. QED BY <2>1
<1>4. seqs \in Seq(Seq(AnyCode)) /\ Len(seqs) = L
  <2>1. seqs = [i \in 1 .. L |-> seqs[i]] BY DEF Spread
  <2> HIDE DEF seqs
  <2>2. QED BY <1>1, <1>3, <2>1, IsASeq
<1>5. PICK f \in [0 .. L -> Seq(AnyCode)] : BuildsUp(f, seqs) BY <1>4, PrefixesExist
<1> DEFINE I == {n \in Nat : Good(f[n], n)}
<1>6. 0 \in I
  <2>1. f[0] = <<>> /\ Len(f[0]) = 0 BY <1>5 DEF BuildsUp
  <2> DEFINE b == [q \in 0 .. 0 |-> 0]
  <2>2. b \in [0 .. 0 -> 0 .. L] /\ b[0] = 0 BY <1>1
  <2> HIDE DEF b
  <2>3. Laid(<<>>, text, b) BY <2>2 DEF Laid
  <2>4. ~HalfOpen(<<>>, 0) BY DEF HalfOpen
  <2>5. QED BY <2>1, <2>2, <2>3, <2>4
<1>7. ASSUME NEW n \in 0 .. L - 1, n \in I PROVE n + 1 \in I
  <2>1. /\ n \in Nat /\ n + 1 \in 1 .. L /\ n \in 0 .. L /\ (n + 1) - 1 = n
    BY <1>1
  <2>2. f[n + 1] = f[n] \o seqs[n + 1] BY <1>4, <1>5, <2>1 DEF BuildsUp
  <2>3. PICK a : Laid(f[n], text, a) /\ a[Len(f[n])] = n /\ ~HalfOpen(f[n], Len(f[n]))
    BY <1>7
  <2>4. f[n] \in Seq(AnyCode) BY <1>5, <2>1
  <2>5. CASE text[n + 1] \in E
    <3> DEFINE c == Code("first", text[n + 1])
               d == Code("second", text[n + 1])
               s == Append(f[n], c)
    <3>1. PICK b : Laid(s, text, b) /\ b[Len(s)] = n + 1 /\ HalfOpen(s, Len(s))
      BY <2>1, <2>3, LaidNext
    <3>2. PICK e : /\ Laid(Append(s, d), text, e) /\ e[Len(Append(s, d))] = n + 1
                   /\ ~HalfOpen(Append(s, d), Len(Append(s, d)))
      <4> HIDE DEF s
      <4>1. QED BY <2>1, <3>1, LaidNext
    <3>3. seqs[n + 1] = <<c, d>> BY <2>1, <2>5 DEF Spread, Pair
    <3>4. f[n + 1] = Append(s, d)
      <4>1. c \in AnyCode /\ d \in AnyCode BY <1>2, <2>1
      <4> HIDE DEF c, d
      <4>2. /\ Append(Append(f[n], c), d) = Append(f[n], c) \o <<d>>
            /\ Append(f[n], c) = f[n] \o <<c>>
        BY <2>4, <4>1, AppendProperties, AppendIsConcat
      <4>3. (f[n] \o <<c>>) \o <<d>> = f[n] \o (<<c>> \o <<d>>)
        BY <2>4, <4>1, ConcatAssociative
      <4>4. <<c>> \o <<d>> = <<c, d>>
        <5>1. /\ <<c>> \o <<d>> = Append(<<c>>, d)
          BY <4>1, AppendIsConcat
        <5>2. QED BY <4>1, <5>1
      <4>5. QED BY <2>2, <3>3, <4>2, <4>3, <4>4
    <3> HIDE DEF s
    <3>5. Good(f[n + 1], n + 1) BY <3>2, <3>4
    <3>6. QED BY <2>1, <3>5
  <2>6. CASE text[n + 1] \notin E
    <3> DEFINE c == Code("whole", text[n + 1])
               s == Append(f[n], c)
    <3>1. PICK b : Laid(s, text, b) /\ b[Len(s)] = n + 1 /\ ~HalfOpen(s, Len(s))
      BY <2>1, <2>3, LaidNext
    <3>2. seqs[n + 1] = <<c>> BY <2>1, <2>6 DEF Spread
    <3>3. f[n + 1] = s
      <4>1. c \in AnyCode BY <1>2, <2>1
      <4> HIDE DEF c
      <4>2. f[n] \o <<c>> = Append(f[n], c) BY <2>4, <4>1
      <4>3. QED BY <2>2, <3>2, <4>2
    <3> HIDE DEF s
    <3>4. Good(f[n + 1], n + 1) BY <3>1, <3>3
    <3>5. QED BY <2>1, <3>4
  <2>7. QED BY <2>5, <2>6
<1> HIDE DEF I
<1>8. \A n \in 0 .. L : n \in I BY <1>1, <1>6, <1>7, Climb
<1>9. Good(f[L], L)
  <2> HIDE DEF Good
  <2>1. L \in I BY <1>1, <1>8
  <2>2. QED BY <2>1 DEF I
<1>10. FlattenSeq(seqs) = f[L] BY <1>4, <1>5, FlattenIs
<1>11. QED BY <1>9, <1>10

(* Later codes belong to later letters.                                    *)
LEMMA LaidGrows ==
  ASSUME NEW text \in Seq(Letters), NEW codes, NEW a, Laid(codes, text, a),
         NEW p \in 0 .. Len(codes), NEW q \in p .. Len(codes)
  PROVE  a[p] <= a[q] /\ a[p] \in Nat /\ a[q] \in Nat
<1> DEFINE M == Len(codes)
           I == {n \in Nat : p + n <= M => a[p] <= a[p + n]}
<1>1. /\ M \in Nat /\ Len(text) \in Nat
      /\ a \in [0 .. M -> 0 .. Len(text)]
      /\ \A i \in 1 .. M : a[i] = a[i - 1] \/ a[i] = a[i - 1] + 1
  <2>1. codes \in Seq(AnyCode) /\ a \in [0 .. M -> 0 .. Len(text)] BY DEF Laid
  <2>2. M \in Nat /\ Len(text) \in Nat BY <2>1
  <2>3. \A i \in 1 .. M : a[i] = a[i - 1] \/ a[i] = a[i - 1] + 1 BY DEF Laid
  <2>4. QED BY <2>1, <2>2, <2>3
<1>2. \A i \in 0 .. M : a[i] \in Nat BY <1>1
<1>3. 0 \in I BY <1>1, <1>2
<1>4. ASSUME NEW n \in 0 .. M - 1, n \in I PROVE n + 1 \in I
  <2>1. SUFFICES ASSUME p + (n + 1) <= M PROVE a[p] <= a[p + (n + 1)] BY <1>1
  <2>2. /\ p + (n + 1) \in 1 .. M /\ p + n \in 0 .. M /\ p + n <= M
        /\ (p + (n + 1)) - 1 = p + n /\ p + (n + 1) \in 0 .. M
    BY <1>1, <2>1
  <2>3. a[p] <= a[p + n] BY <1>4, <2>2
  <2>4. a[p + (n + 1)] = a[p + n] \/ a[p + (n + 1)] = a[p + n] + 1 BY <1>1, <2>2
  <2>5. a[p] \in Nat /\ a[p + n] \in Nat BY <1>2, <2>2
  <2>6. a[p + n] <= a[p + (n + 1)] BY <2>4, <2>5
  <2>7. a[p + (n + 1)] \in Nat BY <1>2, <2>2
  <2>8. QED BY <2>3, <2>5, <2>6, <2>7
<1> HIDE DEF I
<1>5. \A n \in 0 .. M : n \in I BY <1>1, <1>3, <1>4, Climb
<1>6. q - p \in 0 .. M /\ p + (q - p) = q /\ q <= M /\ q \in 0 .. M BY <1>1
<1>7. q - p \in I BY <1>5, <1>6
<1>8. QED BY <1>2, <1>6, <1>7 DEF I

(* Slices of a sequence that follow one another are joined to one slice.   *)
LEMMA FlattenSlices ==
  ASSUME NEW S, NEW R \in Seq(S), NEW seqs \in Seq(Seq(S)),
         NEW e \in [0 .. Len(seqs) -> 0 .. Len(R)],
         \A i \in 1 .. Len(seqs) :
           e[i - 1] <= e[i] /\ seqs[i] = SubSeq(R, e[i - 1] + 1, e[i])
  PROVE  FlattenSeq(seqs) = SubSeq(R, e[0] + 1, e[Len(seqs)])
<1> DEFINE L == Len(seqs)
<1>1. L \in Nat /\ Len(R) \in Nat /\ \A i \in 0 .. L : e[i] \in 0 .. Len(R)
  <2>1. L \in Nat /\ Len(R) \in Nat BY LenProperties
  <2>2. \A i \in 0 .. L : e[i] \in 0 .. Len(R) OBVIOUS
  <2>3. QED BY <2>1, <2>2
<1> DEFINE I == {n \in Nat : e[0] <= e[n]}
<1>2. 0 \in I BY <1>1
<1>3. ASSUME NEW n \in 0 .. L - 1, n \in I PROVE n + 1 \in I
  <2>1. n + 1 \in 1 .. L /\ (n + 1) - 1 = n /\ n \in 0 .. L /\ n + 1 \in 0 .. L OBVIOUS
  <2>2. e[n] <= e[n + 1] BY <2>1
  <2>3. e[0] \in Int /\ e[n] \in Int /\ e[n + 1] \in Int
    <3>1. 0 \in 0 .. L OBVIOUS
    <3>2. e[0] \in 0 .. Len(R) /\ e[n] \in 0 .. Len(R) /\ e[n + 1] \in 0 .. Len(R)
      BY <1>1, <2>1, <3>1
    <3>3. QED BY <3>2
  <2>4. QED BY <1>3, <2>1, <2>2, <2>3
<1> HIDE DEF I
<1>4. \A n \in 0 .. L : n \in I BY <1>1, <1>2, <1>3, Climb
<1>5. \A n \in 0 .. L : e[0] <= e[n] BY <1>4 DEF I
<1> DEFINE f == [i \in 0 .. L |-> SubSeq(R, e[0] + 1, e[i])]
<1>6. BuildsUp(f, seqs)
  <2>1. f[0] = <<>>
    <3>1. SubSeq(R, e[0] + 1, e[0]) = <<>>
      <4>1. e[0] + 1 \in Int /\ e[0] \in Int /\ e[0] < e[0] + 1 BY <1>1
      <4>2. QED BY <4>1, SubSeqEmpty
    <3>2. QED BY <3>1
  <2>2. ASSUME NEW i \in 1 .. L PROVE f[i] = f[i - 1] \o seqs[i]
    <3>1. i \in 0 .. L /\ i - 1 \in 0 .. L OBVIOUS
    <3>2. e[0] \in 0 .. Len(R) /\ e[i - 1] \in 0 .. Len(R) /\ e[i] \in 0 .. Len(R)
      BY <1>1, <3>1
    <3>3. e[0] <= e[i - 1] /\ e[i - 1] <= e[i] BY <1>5, <3>1
    <3>4. /\ e[0] + 1 \in 1 .. Len(R) + 1
          /\ e[i - 1] \in (e[0] + 1) - 1 .. Len(R) /\ e[i] \in e[i - 1] .. Len(R)
      BY <1>1, <3>2, <3>3
    <3>5. SubSeq(R, e[0] + 1, e[i - 1]) \o SubSeq(R, e[i - 1] + 1, e[i])
            = SubSeq(R, e[0] + 1, e[i])
      BY <3>4, ConcatAdjacentSubSeq
    <3>6. /\ f[i] = SubSeq(R, e[0] + 1, e[i])
          /\ f[i - 1] = SubSeq(R, e[0] + 1, e[i - 1])
      BY <3>1
    <3> HIDE DEF f
    <3>7. QED BY <3>5, <3>6
  <2> HIDE DEF f
  <2>3. QED BY <2>1, <2>2 DEF BuildsUp
<1>7. f[L] = SubSeq(R, e[0] + 1, e[L])
  <2>1. L \in 0 .. L OBVIOUS
  <2>2. QED BY <2>1
<1> HIDE DEF f
<1>8. FlattenSeq(seqs) = f[L] BY <1>6, FlattenIs
<1>9. QED BY <1>7, <1>8

(* What decode_pdu makes of each code of a PDU.                            *)
DecodeEach(codes) ==
  [i \in DOMAIN codes |->
    CASE codes[i].half = "first" /\ i < Len(codes) -> <<Code("whole", codes[i].letter)>>
      [] codes[i].half = "second" /\ i > 1 -> <<>>
      [] OTHER -> <<codes[i]>>]

(* Decode joins, code by code, sequences of codes.                         *)
LEMMA DecodeTyped ==
  ASSUME NEW chunk \in Seq(AnyCode)
  PROVE  /\ Decode(chunk) = FlattenSeq(DecodeEach(chunk))
         /\ DecodeEach(chunk) \in Seq(Seq(AnyCode))
         /\ Len(DecodeEach(chunk)) = Len(chunk)
<1>1. Len(chunk) \in Nat /\ \A i \in 1 .. Len(chunk) : chunk[i] \in AnyCode
  BY ElementOfSeq
<1> DEFINE seqs == DecodeEach(chunk)
<1>2. seqs = [i \in 1 .. Len(chunk) |-> seqs[i]] BY DEF DecodeEach
<1>3. ASSUME NEW i \in 1 .. Len(chunk) PROVE seqs[i] \in Seq(AnyCode)
  <2>1. Code("whole", chunk[i].letter) \in AnyCode BY <1>1 DEF Code, AnyCode
  <2>2. seqs[i] \in {<<Code("whole", chunk[i].letter)>>, <<>>, <<chunk[i]>>}
    BY DEF DecodeEach
  <2>3. /\ <<Code("whole", chunk[i].letter)>> \in Seq(AnyCode)
        /\ <<chunk[i]>> \in Seq(AnyCode) /\ <<>> \in Seq(AnyCode)
    BY <1>1, <2>1
  <2> HIDE DEF seqs
  <2>4. QED BY <2>2, <2>3
<1> HIDE DEF seqs
<1>4. seqs \in Seq(Seq(AnyCode)) /\ Len(seqs) = Len(chunk) BY <1>1, <1>2, <1>3, IsASeq
<1>5. QED BY <1>4 DEF seqs, Decode, DecodeEach

(* A chunk that begins and ends between letters decodes to its letters.    *)
LEMMA DecodeSlice ==
  ASSUME NEW text \in Seq(Letters), NEW codes, NEW a, Laid(codes, text, a),
         NEW lo \in 0 .. Len(codes), NEW hi \in lo + 1 .. Len(codes),
         ~HalfOpen(codes, lo), ~HalfOpen(codes, hi)
  PROVE  Decode(SubSeq(codes, lo + 1, hi)) = SubSeq(Read(text), a[lo] + 1, a[hi])
<1> DEFINE M == Len(codes)
           R == Read(text)
           L == hi - lo
           chunk == SubSeq(codes, lo + 1, hi)
           seqs == DecodeEach(chunk)
           e == [i \in 0 .. L |-> a[lo + i]]
<1>1. /\ codes \in Seq(AnyCode) /\ M \in Nat /\ Len(text) \in Nat
      /\ a \in [0 .. M -> 0 .. Len(text)]
  BY DEF Laid
<1>2. /\ R \in Seq(AnyCode) /\ Len(R) = Len(text)
      /\ \A i \in 1 .. Len(text) : R[i] = Code("whole", text[i])
  <2>1. \A i \in 1 .. Len(text) : Code("whole", text[i]) \in AnyCode
    BY ElementOfSeq DEF Code, AnyCode
  <2>2. R = [i \in 1 .. Len(text) |-> Code("whole", text[i])] BY DEF Read
  <2> HIDE DEF R
  <2>3. QED BY <1>1, <2>1, <2>2, IsASeq
<1>3. L \in Nat /\ lo \in Nat /\ hi \in Nat /\ L >= 1 BY <1>1
<1>4. /\ chunk \in Seq(AnyCode) /\ Len(chunk) = L
      /\ \A i \in 1 .. L : chunk[i] = codes[lo + i]
  <2>1. lo + 1 \in Int /\ hi \in Int /\ lo + 1 <= hi /\ hi - (lo + 1) + 1 = L BY <1>3
  <2>2. \A q \in lo + 1 .. hi : q \in 1 .. M BY <1>1, <1>3
  <2>3. \A q \in lo + 1 .. hi : codes[q] \in AnyCode BY <1>1, <2>2, ElementOfSeq
  <2>4. \A i \in 1 .. L : (lo + 1) + i - 1 = lo + i BY <1>3
  <2>5. QED BY <2>1, <2>3, <2>4, SubSeqProperties
<1> HIDE DEF chunk
<1>5. /\ seqs \in Seq(Seq(AnyCode)) /\ Len(seqs) = L /\ Decode(chunk) = FlattenSeq(seqs)
      /\ seqs = [i \in 1 .. L |-> seqs[i]]
  <2>1. DOMAIN chunk = 1 .. L BY <1>4
  <2>2. seqs = [i \in 1 .. L |-> seqs[i]] BY <2>1 DEF DecodeEach
  <2> HIDE DEF seqs
  <2>3. QED BY <1>4, <2>2, DecodeTyped DEF seqs
<1>6. e \in [0 .. L -> 0 .. Len(R)]
  <2>1. \A i \in 0 .. L : lo + i \in 0 .. M BY <1>1, <1>3
  <2>2. QED BY <1>1, <1>2, <2>1
<1>7. ASSUME NEW i \in 1 .. L
      PROVE  e[i - 1] <= e[i] /\ seqs[i] = SubSeq(R, e[i - 1] + 1, e[i])
  <2> DEFINE q == lo + i
             p == a[q - 1]
  <2>1. /\ q \in 1 .. M /\ q - 1 \in 0 .. M /\ i \in 0 .. L /\ i - 1 \in 0 .. L
        /\ lo + (i - 1) = q - 1
    BY <1>1, <1>3
  <2>2. e[i] = a[q] /\ e[i - 1] = p BY <2>1
  <2> HIDE DEF e
  <2>3. /\ a[q] # 0 /\ codes[q] = Code(codes[q].half, text[a[q]])
        /\ a[q] = IF codes[q].half = "second" THEN p ELSE p + 1
        /\ codes[q].half = "second" <=> HalfOpen(codes, q - 1)
    BY <2>1 DEF Laid
  <2>4. p \in 0 .. Len(text) /\ a[q] \in 1 .. Len(text)
    <3>1. q \in 0 .. M BY <2>1
    <3>2. a[q] \in 0 .. Len(text) /\ a[q - 1] \in 0 .. Len(text) BY <1>1, <2>1, <3>1
    <3>3. QED BY <2>3, <3>2
  <2>5. codes[q].half \in {"whole", "first", "second"}
    <3>1. codes[q] \in AnyCode BY <1>1, <2>1, ElementOfSeq
    <3>2. QED BY <3>1 DEF AnyCode
  <2>6. chunk[i] = codes[q] /\ codes[q].letter = text[a[q]]
    BY <1>4, <2>3 DEF Code
  <2>7. seqs[i] = CASE codes[q].half = "first" /\ i < L -> <<Code("whole", text[a[q]])>>
                    [] codes[q].half = "second" /\ i > 1 -> <<>>
                    [] OTHER -> <<codes[q]>>
    BY <1>4, <2>6 DEF DecodeEach
  <2> HIDE DEF seqs
  <2>8. CASE codes[q].half = "second"
    <3>1. i # 1
      <4>1. i = 1 => q - 1 = lo BY <1>3
      <4>2. QED BY <2>3, <2>8, <4>1
    <3>2. seqs[i] = <<>> BY <2>7, <2>8, <3>1
    <3>3. SubSeq(R, p + 1, p) = <<>>
      <4>1. p + 1 \in Int /\ p \in Int /\ p < p + 1 BY <2>4
      <4>2. QED BY <4>1, SubSeqEmpty
    <3>4. a[q] = p BY <2>3, <2>8
    <3>5. QED BY <2>2, <2>4, <3>2, <3>3, <3>4
  <2>9. CASE codes[q].half # "second"
    <3>1. a[q] = p + 1 BY <2>3, <2>9
    <3>2. SubSeq(R, p + 1, p + 1) = <<R[p + 1]>>
      <4>1. p + 1 \in 1 .. Len(R) /\ p + 1 \in p + 1 .. Len(R) /\ (p + 1) - 1 = p
        BY <1>2, <2>4, <3>1
      <4>2. SubSeq(R, p + 1, p + 1) = SubSeq(R, p + 1, p) \o <<R[p + 1]>>
        BY <1>2, <4>1, SubSeqRecursiveSecond
      <4>3. SubSeq(R, p + 1, p) = <<>>
        <5>1. p + 1 \in Int /\ p \in Int /\ p < p + 1 BY <2>4
        <5>2. QED BY <5>1, SubSeqEmpty
      <4>4. <<R[p + 1]>> \in Seq(AnyCode) BY <1>2, <4>1, ElementOfSeq
      <4>5. QED BY <4>2, <4>3, <4>4, ConcatEmptySeq
    <3>3. R[p + 1] = Code("whole", text[a[q]]) BY <1>2, <2>4, <3>1
    <3>4. seqs[i] = <<Code("whole", text[a[q]])>>
      <4>1. CASE codes[q].half = "first"
        <5>1. i # L
          <6>1. i = L => q = hi BY <1>3
          <6>2. q > 0 BY <2>1
          <6>3. QED BY <4>1, <6>1, <6>2 DEF HalfOpen
        <5>2. i < L BY <1>3, <5>1
        <5>3. QED BY <2>7, <4>1, <5>2
      <4>2. CASE codes[q].half = "whole"
        <5>1. seqs[i] = <<codes[q]>> BY <2>7, <4>2
        <5>2. QED BY <2>3, <4>2, <5>1
      <4>3. QED BY <2>5, <2>9, <4>1, <4>2
    <3>5. e[i - 1] <= e[i] BY <2>2, <2>4, <3>1
    <3>6. QED BY <2>2, <3>1, <3>2, <3>3, <3>4, <3>5
  <2>10. QED BY <2>8, <2>9
<1>8. e[0] = a[lo] /\ e[L] = a[hi]
  <2>1. lo + 0 = lo /\ lo + L = hi /\ 0 \in 0 .. L /\ L \in 0 .. L BY <1>3
  <2>2. QED BY <2>1
<1> HIDE DEF e, seqs, R, L
<1>9. FlattenSeq(seqs) = SubSeq(R, e[0] + 1, e[L])
  BY <1>2, <1>5, <1>6, <1>7, FlattenSlices
<1>10. QED BY <1>5, <1>8, <1>9 DEF R, chunk

(* One that does not keeps half a letter.                                  *)
LEMMA DecodeHalves ==
  ASSUME NEW chunk \in Seq(AnyCode), chunk # <<>>,
         chunk[1].half = "second" \/ Last(chunk).half = "first"
  PROVE  /\ Decode(chunk) \in Seq(AnyCode)
         /\ \E q \in 1 .. Len(Decode(chunk)) : Decode(chunk)[q].half # "whole"
<1> DEFINE L == Len(chunk)
           seqs == DecodeEach(chunk)
<1>1. L \in Nat /\ L >= 1 /\ 1 \in 1 .. L /\ L \in 1 .. L BY EmptySeq
<1>2. /\ Decode(chunk) = FlattenSeq(seqs) /\ seqs \in Seq(Seq(AnyCode)) /\ Len(seqs) = L
  BY DecodeTyped
<1>3. PICK k \in 1 .. L : seqs[k] = <<chunk[k]>> /\ chunk[k].half # "whole"
  <2>1. CASE chunk[1].half = "second"
    <3>1. seqs[1] = <<chunk[1]>> BY <1>1, <2>1 DEF DecodeEach
    <3>2. QED BY <1>1, <2>1, <3>1
  <2>2. CASE Last(chunk).half = "first"
    <3>1. chunk[L].half = "first" BY <2>2 DEF Last
    <3>2. ~(L < L) BY <1>1
    <3>3. seqs[L] = <<chunk[L]>> BY <1>1, <3>1, <3>2 DEF DecodeEach
    <3>4. QED BY <1>1, <3>1, <3>3
  <2>3. QED BY <2>1, <2>2
<1> HIDE DEF seqs
<1>4. Len(seqs[k]) = 1 /\ seqs[k][1] = chunk[k] /\ 1 \in 1 .. Len(seqs[k]) BY <1>3
<1>5. /\ FlattenSeq(seqs) \in Seq(AnyCode)
      /\ \E q \in 1 .. Len(FlattenSeq(seqs)) : FlattenSeq(seqs)[q] = seqs[k][1]
  BY <1>2, <1>4, FlattenKeeps
<1>6. QED BY <1>2, <1>3, <1>4, <1>5

-----------------------------------------------------------------------------
(* How the codes of a text are cut into parts: b[n] is the place of the    *)
(* last code of part n.                                                    *)
Cut(codes, parts, b) ==
  /\ parts \in Seq(Seq(AnyCode)) /\ Len(parts) # 0
  /\ b \in [0 .. Len(parts) -> 0 .. Len(codes)] /\ b[0] = 0 /\ b[Len(parts)] = Len(codes)
  /\ \A n \in 1 .. Len(parts) :
       b[n - 1] < b[n] /\ parts[n] = SubSeq(codes, b[n - 1] + 1, b[n])

(* Rounding up: the parts hold all, and all but the last not yet all.      *)
LEMMA RoundedUp ==
  ASSUME NEW m \in Nat, NEW size \in Nat, m >= 1, size >= 1
  PROVE  LET n == (m + size - 1) \div size IN
           n \in Nat /\ n >= 1 /\ n * size >= m /\ (n - 1) * size < m
<1> DEFINE t == m + size - 1
           n == t \div size
<1>1. t \in Nat /\ t >= size BY Z3
<1>2. n \in Int /\ size * n <= t /\ t < size * n + size BY <1>1, Z3
<1> HIDE DEF n
<1>3. n >= 1
  <2>1. ASSUME n <= 0 PROVE FALSE
    <3>1. size * n <= 0 BY <1>2, <2>1, Z3
    <3>2. QED BY <1>1, <1>2, <3>1, Z3
  <2>2. QED BY <1>2, <2>1
<1>4. n * size = size * n /\ (n - 1) * size = size * n - size BY <1>2, Z3
<1>5. size * n \in Int BY <1>2
<1>6. n * size >= m /\ (n - 1) * size < m BY <1>2, <1>4, <1>5
<1>7. QED BY <1>2, <1>3, <1>6 DEF n

(* Multiples are in order.                                                 *)
LEMMA ProductGrows ==
  ASSUME NEW size \in Nat, size >= 1, NEW i \in Nat, NEW j \in Nat, i < j
  PROVE  /\ i * size \in Nat /\ j * size \in Nat
         /\ i * size + size <= j * size /\ i * size < j * size
         /\ (i + 1) * size = i * size + size
<1>1. i * size \in Nat /\ j * size \in Nat /\ (j - i - 1) * size \in Nat BY Z3
<1>2. j * size = i * size + size + (j - i - 1) * size BY Z3
<1>3. (i + 1) * size = i * size + size BY Z3
<1>4. QED BY <1>1, <1>2, <1>3

(* A slice is as long as it says, and is of codes when the whole is.       *)
LEMMA SliceTyped ==
  ASSUME NEW codes \in Seq(AnyCode), NEW lo \in 0 .. Len(codes), NEW hi \in lo .. Len(codes)
  PROVE  /\ SubSeq(codes, lo + 1, hi) \in Seq(AnyCode)
         /\ Len(SubSeq(codes, lo + 1, hi)) = hi - lo
         /\ \A i \in 1 .. hi - lo : SubSeq(codes, lo + 1, hi)[i] = codes[lo + i]
<1>1. /\ Len(codes) \in Nat /\ lo + 1 \in Int /\ hi \in Int
      /\ hi - (lo + 1) + 1 = hi - lo /\ (lo + 1 <= hi <=> lo # hi)
  OBVIOUS
<1>2. \A q \in lo + 1 .. hi : codes[q] \in AnyCode
  <2>1. \A q \in lo + 1 .. hi : q \in 1 .. Len(codes) BY <1>1
  <2>2. QED BY <2>1, ElementOfSeq
<1>3. \A i \in 1 .. hi - lo : (lo + 1) + i - 1 = lo + i BY <1>1
<1>4. QED BY <1>1, <1>2, <1>3, SubSeqProperties

(* _encode_parts_gsm7 and _encode_parts_ucs2 cut the codes, none empty.    *)
LEMMA PartsCut ==
  ASSUME NEW codes \in Seq(AnyCode), codes # <<>>,
         NEW single, NEW size \in Nat, size >= 1
  PROVE  \E b : Cut(codes, Parts(codes, single, size), b)
<1> DEFINE M == Len(codes)
<1>1. M \in Nat /\ M >= 1 BY EmptySeq
<1>2. CASE M <= single
  <2>1. Parts(codes, single, size) = <<codes>> BY <1>2 DEF Parts
  <2> DEFINE b == [n \in 0 .. 1 |-> IF n = 0 THEN 0 ELSE M]
  <2>2. b \in [0 .. 1 -> 0 .. M] /\ b[0] = 0 /\ b[1] = M BY <1>1
  <2>3. SubSeq(codes, 1, M) = codes BY SubSeqFull
  <2>4. /\ <<codes>> \in Seq(Seq(AnyCode)) /\ Len(<<codes>>) = 1 /\ <<codes>>[1] = codes
    OBVIOUS
  <2> HIDE DEF b
  <2>5. \A n \in 1 .. 1 : n = 1 /\ n - 1 = 0 OBVIOUS
  <2>6. Cut(codes, <<codes>>, b) BY <1>1, <2>2, <2>3, <2>4, <2>5 DEF Cut
  <2>7. QED BY <2>1, <2>6
<1>3. CASE ~(M <= single)
  <2> DEFINE N == (M + size - 1) \div size
             b == [n \in 0 .. N |-> IF n = N THEN M ELSE n * size]
             parts == Chunks(codes, size)
  <2>1. Parts(codes, single, size) = parts BY <1>3 DEF Parts
  <2>2. N \in Nat /\ N >= 1 /\ N * size >= M /\ (N - 1) * size < M BY <1>1, RoundedUp
  <2>3. parts = [n \in 1 .. N |-> SubSeq(codes, (n - 1) * size + 1, Least(n * size, M))]
    BY DEF Chunks
  <2> HIDE DEF N, parts
  <2>4. \A n \in 0 .. N : n # N => n * size \in Nat /\ n * size < M
    <3>1. ASSUME NEW n \in 0 .. N, n # N PROVE n * size \in Nat /\ n * size < M
      <4>1. n \in Nat /\ n <= N - 1 /\ N - 1 \in Nat /\ n < N BY <2>2, <3>1
      <4>2. n * size \in Nat BY <2>2, <4>1, ProductGrows
      <4>3. CASE n = N - 1 BY <2>2, <4>2, <4>3
      <4>4. CASE n # N - 1
        <5>1. n < N - 1 BY <4>1, <4>4
        <5>2. n * size < (N - 1) * size /\ (N - 1) * size \in Nat
          BY <4>1, <5>1, ProductGrows
        <5>3. QED BY <1>1, <2>2, <4>2, <5>2
      <4>5. QED BY <4>3, <4>4
    <3>2. QED BY <3>1
  <2>5. b \in [0 .. N -> 0 .. M] /\ b[N] = M /\ \A n \in 0 .. N : n # N => b[n] = n * size
    BY <1>1, <2>2, <2>4
  <2>6. b[0] = 0
    <3>1. 0 \in 0 .. N /\ 0 # N BY <2>2
    <3>2. 0 * size = 0 OBVIOUS
    <3>3. QED BY <2>5, <3>1, <3>2
  <2> HIDE DEF b
  <2>7. ASSUME NEW n \in 1 .. N
        PROVE  b[n - 1] < b[n] /\ parts[n] = SubSeq(codes, b[n - 1] + 1, b[n])
    <3>1. n \in 0 .. N /\ n - 1 \in 0 .. N /\ n - 1 # N /\ n - 1 \in Nat /\ n \in Nat /\ n - 1 < n
      BY <2>2
    <3>2. b[n - 1] = (n - 1) * size /\ (n - 1) * size < M /\ (n - 1) * size \in Nat
      BY <2>4, <2>5, <3>1
    <3>3. parts[n] = SubSeq(codes, (n - 1) * size + 1, Least(n * size, M)) BY <2>3
    <3>4. n * size \in Nat /\ (n - 1) * size < n * size BY <3>1, ProductGrows
    <3>5. CASE n = N
      <4>1. b[n] = M BY <2>5, <3>5
      <4>2. n * size >= M BY <2>2, <3>5
      <4>3. Least(n * size, M) = M BY <1>1, <3>4, <4>2 DEF Least
      <4>4. QED BY <3>2, <3>3, <4>1, <4>3
    <3>6. CASE n # N
      <4>1. b[n] = n * size /\ n * size < M BY <2>4, <2>5, <3>1, <3>6
      <4>2. Least(n * size, M) = n * size BY <4>1 DEF Least
      <4>3. QED BY <3>2, <3>3, <3>4, <4>1, <4>2
    <3>7. QED BY <3>5, <3>6
  <2>8. parts \in Seq(Seq(AnyCode)) /\ Len(parts) = N
    <3>1. ASSUME NEW n \in 1 .. N PROVE parts[n] \in Seq(AnyCode)
      <4>1. n \in 0 .. N /\ n - 1 \in 0 .. N BY <2>2
      <4>2. b[n - 1] \in 0 .. M /\ b[n] \in 0 .. M /\ b[n - 1] < b[n] BY <2>5, <2>7, <4>1
      <4>3. b[n] \in b[n - 1] .. M BY <4>2
      <4>4. QED BY <2>7, <4>2, <4>3, SliceTyped
    <3>2. parts = [n \in 1 .. N |-> parts[n]] BY <2>3
    <3>3. QED BY <2>2, <3>1, <3>2, IsASeq
  <2>9. \A n \in 1 .. N :
          b[n - 1] < b[n] /\ parts[n] = SubSeq(codes, b[n - 1] + 1, b[n])
    BY <2>7
  <2>10. N # 0 BY <2>2
  <2>11. Cut(codes, parts, b) BY <2>5, <2>6, <2>8, <2>9, <2>10, Zenon DEF Cut
  <2>12. QED BY <2>1, <2>11
<1>4. QED BY <1>2, <1>3

(* A text, its codes and the cuts between its parts.                       *)
Split(text, codes, a, b) ==
  /\ Laid(codes, text, a) /\ a[Len(codes)] = Len(text) /\ ~HalfOpen(codes, Len(codes))
  /\ Cut(codes, EncodeSubmit(text), b)

(* encode_submit lays a whole text out and cuts it.                        *)
LEMMA EncodeSplits ==
  ASSUME NEW text \in Seq(Letters), text # <<>>
  PROVE  \E codes, a, b : Split(text, codes, a, b)
<1>1. /\ PartSeptets \in Nat /\ PartSeptets >= 1
      /\ PartUnits \in Nat /\ PartUnits >= 1
  BY SmsCodecConstants
<1> DEFINE Coded(E) == FlattenSeq(Spread(text, E))
<1>2. ASSUME NEW E
      PROVE  /\ Coded(E) \in Seq(AnyCode) /\ Coded(E) # <<>>
             /\ \E a : /\ Laid(Coded(E), text, a) /\ a[Len(Coded(E))] = Len(text)
                       /\ ~HalfOpen(Coded(E), Len(Coded(E)))
  <2>1. PICK a : /\ Laid(Coded(E), text, a) /\ a[Len(Coded(E))] = Len(text)
                 /\ ~HalfOpen(Coded(E), Len(Coded(E)))
    BY SpreadLaid
  <2>2. Len(text) # 0 BY EmptySeq
  <2>3. Coded(E) \in Seq(AnyCode) /\ a[0] = 0 BY <2>1 DEF Laid
  <2> HIDE DEF Coded
  <2>4. Coded(E) # <<>> BY <2>1, <2>2, <2>3, EmptySeq
  <2>5. QED BY <2>1, <2>3, <2>4
<1>3. Gsm7Septets(text) = Coded(Ext) /\ Utf16Units(text) = Coded(Astral)
  BY DEF Gsm7Septets, Utf16Units, Spread
<1> HIDE DEF Coded
<1>4. CASE InGsm7(text)
  <2>1. EncodeSubmit(text) = Parts(Coded(Ext), SingleSeptets, PartSeptets)
    BY <1>3, <1>4 DEF EncodeSubmit
  <2>2. \E b : Cut(Coded(Ext), EncodeSubmit(text), b) BY <1>1, <1>2, <2>1, PartsCut
  <2>3. QED BY <1>2, <2>2 DEF Split
<1>5. CASE ~InGsm7(text)
  <2>1. EncodeSubmit(text) = Parts(Coded(Astral), SingleUnits, PartUnits)
    BY <1>3, <1>5 DEF EncodeSubmit
  <2>2. \E b : Cut(Coded(Astral), EncodeSubmit(text), b) BY <1>1, <1>2, <2>1, PartsCut
  <2>3. QED BY <1>2, <2>2 DEF Split
<1>6. QED BY <1>4, <1>5

(* The edges of a part.                                                    *)
LEMMA PartEdges ==
  ASSUME NEW text \in Seq(Letters), NEW codes, NEW a, NEW b, Split(text, codes, a, b),
         NEW n \in 1 .. Len(EncodeSubmit(text))
  PROVE  LET part == EncodeSubmit(text)[n] IN
           /\ b[n - 1] \in 0 .. Len(codes) /\ b[n] \in b[n - 1] + 1 .. Len(codes)
           /\ part = SubSeq(codes, b[n - 1] + 1, b[n])
           /\ part \in Seq(AnyCode) /\ part # <<>>
           /\ part[1].half = "second" <=> HalfOpen(codes, b[n - 1])
           /\ Last(part).half = "first" <=> HalfOpen(codes, b[n])
<1> DEFINE parts == EncodeSubmit(text)
           lo == b[n - 1]
           hi == b[n]
           part == parts[n]
<1>1. codes \in Seq(AnyCode) /\ Len(codes) \in Nat /\ Len(parts) \in Nat
  BY DEF Split, Laid, Cut
<1>2. n \in 0 .. Len(parts) /\ n - 1 \in 0 .. Len(parts) BY <1>1
<1>3. /\ b \in [0 .. Len(parts) -> 0 .. Len(codes)] /\ lo < hi
      /\ part = SubSeq(codes, lo + 1, hi)
  BY DEF Split, Cut
<1>4. lo \in 0 .. Len(codes) /\ hi \in 0 .. Len(codes) BY <1>2, <1>3
<1>5. hi \in lo + 1 .. Len(codes) /\ hi \in lo .. Len(codes) BY <1>1, <1>3, <1>4
<1> HIDE DEF lo, hi, parts, part
<1>6. /\ part \in Seq(AnyCode) /\ Len(part) = hi - lo
      /\ \A i \in 1 .. hi - lo : part[i] = codes[lo + i]
  BY <1>1, <1>3, <1>4, <1>5, SliceTyped
<1>7. hi - lo \in 1 .. hi - lo /\ 1 \in 1 .. hi - lo /\ lo + (hi - lo) = hi
  BY <1>4, <1>5
<1>8. part[1] = codes[lo + 1] /\ Last(part) = codes[hi]
  <2>1. part[1] = codes[lo + 1] BY <1>6, <1>7
  <2>2. part[hi - lo] = codes[lo + (hi - lo)] BY <1>6, <1>7
  <2>3. QED BY <1>6, <1>7, <2>1, <2>2 DEF Last
<1>9. codes[lo + 1].half = "second" <=> HalfOpen(codes, lo)
  <2>1. lo + 1 \in 1 .. Len(codes) /\ (lo + 1) - 1 = lo BY <1>4, <1>5
  <2>2. QED BY <2>1 DEF Split, Laid
<1>10. codes[hi].half = "first" <=> HalfOpen(codes, hi)
  <2>1. hi > 0 BY <1>4, <1>5
  <2>2. QED BY <2>1 DEF HalfOpen
<1>11. part # <<>> BY <1>6, <1>7, EmptySeq
<1>12. QED BY <1>3, <1>4, <1>5, <1>6, <1>8, <1>9, <1>10, <1>11 DEF lo, hi, parts, part

(* A text is halved when an edge of a part is inside a letter.             *)
LEMMA HalvedIs ==
  ASSUME NEW text \in Seq(Letters), NEW codes, NEW a, NEW b, Split(text, codes, a, b)
  PROVE  Halved(text) <=> \E n \in 1 .. Len(EncodeSubmit(text)) :
                            HalfOpen(codes, b[n - 1]) \/ HalfOpen(codes, b[n])
<1> DEFINE parts == EncodeSubmit(text)
<1>1. parts \in Seq(Seq(AnyCode)) BY DEF Split, Cut
<1>2. ToSet(parts) = {parts[n] : n \in 1 .. Len(parts)} BY <1>1 DEF ToSet
<1>3. Halved(text) <=> \E n \in 1 .. Len(parts) :
                         parts[n][1].half = "second" \/ Last(parts[n]).half = "first"
  BY <1>2 DEF Halved
<1>4. \A n \in 1 .. Len(parts) :
        /\ parts[n][1].half = "second" <=> HalfOpen(codes, b[n - 1])
        /\ Last(parts[n]).half = "first" <=> HalfOpen(codes, b[n])
  BY PartEdges
<1> HIDE DEF parts
<1>5. QED BY <1>3, <1>4 DEF parts

(* What should be read of a text are codes, one for each letter.           *)
LEMMA ReadTyped ==
  ASSUME NEW text \in Seq(Letters)
  PROVE  /\ Read(text) \in Seq(AnyCode) /\ Len(Read(text)) = Len(text)
         /\ \A i \in 1 .. Len(text) : Read(text)[i] = Code("whole", text[i])
<1>1. Len(text) \in Nat OBVIOUS
<1>2. \A i \in 1 .. Len(text) : Code("whole", text[i]) \in AnyCode
  BY ElementOfSeq DEF Code, AnyCode
<1>3. Read(text) = [i \in 1 .. Len(text) |-> Code("whole", text[i])] BY DEF Read
<1>4. QED BY <1>1, <1>2, <1>3, IsASeq

(* The first k parts of a text, joined.                                    *)
JoinedParts(text, k) ==
  FlattenSeq([n \in 1 .. k |-> Decode(EncodeSubmit(text)[n])])

(* They are the text exactly if they are all its parts and none is cut     *)
(* inside a letter.                                                        *)
LEMMA JoinedIs ==
  ASSUME NEW text \in Seq(Letters), text # <<>>, NEW k \in 1 .. Len(EncodeSubmit(text))
  PROVE  JoinedParts(text, k) = Read(text)
           <=> k = Len(EncodeSubmit(text)) /\ ~Halved(text)
<1> DEFINE parts == EncodeSubmit(text)
           N == Len(parts)
           R == Read(text)
           seqs == [n \in 1 .. k |-> Decode(parts[n])]
<1>1. PICK codes, a, b : Split(text, codes, a, b) BY EncodeSplits
<1> DEFINE Torn(n) == HalfOpen(codes, b[n - 1]) \/ HalfOpen(codes, b[n])
<1>2. /\ Laid(codes, text, a) /\ a[Len(codes)] = Len(text)
      /\ parts \in Seq(Seq(AnyCode)) /\ b \in [0 .. N -> 0 .. Len(codes)]
      /\ b[0] = 0 /\ b[N] = Len(codes)
  BY <1>1 DEF Split, Cut
<1>3. /\ codes \in Seq(AnyCode) /\ Len(codes) \in Nat /\ Len(text) \in Nat /\ a[0] = 0
      /\ a \in [0 .. Len(codes) -> 0 .. Len(text)] /\ N \in Nat /\ k \in Nat /\ k <= N
  BY <1>2 DEF Laid
<1>4. /\ R \in Seq(AnyCode) /\ Len(R) = Len(text)
      /\ \A i \in 1 .. Len(text) : R[i] = Code("whole", text[i])
  BY ReadTyped
<1>5. \A n \in 1 .. N :
        /\ b[n - 1] \in 0 .. Len(codes) /\ b[n] \in b[n - 1] + 1 .. Len(codes)
        /\ parts[n] = SubSeq(codes, b[n - 1] + 1, b[n])
        /\ parts[n] \in Seq(AnyCode) /\ parts[n] # <<>>
        /\ parts[n][1].half = "second" <=> HalfOpen(codes, b[n - 1])
        /\ Last(parts[n]).half = "first" <=> HalfOpen(codes, b[n])
  BY <1>1, PartEdges
<1>6. Halved(text) <=> \E n \in 1 .. N : Torn(n) BY <1>1, HalvedIs
<1>7. JoinedParts(text, k) = FlattenSeq(seqs) BY DEF JoinedParts
<1>8. \A n \in 1 .. k : n \in 1 .. N /\ seqs[n] = Decode(parts[n]) BY <1>3
<1>9. seqs = [n \in 1 .. k |-> seqs[n]] /\ Len(seqs) = k BY <1>3
<1>10. \A n \in 1 .. N : ~Torn(n) =>
         Decode(parts[n]) = SubSeq(R, a[b[n - 1]] + 1, a[b[n]])
  <2>1. ASSUME NEW n \in 1 .. N, ~Torn(n)
        PROVE  Decode(parts[n]) = SubSeq(R, a[b[n - 1]] + 1, a[b[n]])
    <3>1. /\ b[n - 1] \in 0 .. Len(codes) /\ b[n] \in b[n - 1] + 1 .. Len(codes)
          /\ parts[n] = SubSeq(codes, b[n - 1] + 1, b[n])
      BY <1>5
    <3>2. ~HalfOpen(codes, b[n - 1]) /\ ~HalfOpen(codes, b[n]) BY <2>1
    <3>3. \A lo \in 0 .. Len(codes) : \A hi \in lo + 1 .. Len(codes) :
            ~HalfOpen(codes, lo) /\ ~HalfOpen(codes, hi) =>
              Decode(SubSeq(codes, lo + 1, hi)) = SubSeq(Read(text), a[lo] + 1, a[hi])
      BY <1>2, DecodeSlice
    <3> HIDE DEF parts, N, Torn
    <3>4. QED BY <3>1, <3>2, <3>3
  <2>2. QED BY <2>1
<1>11. \A n \in 1 .. N : Torn(n) =>
         /\ Decode(parts[n]) \in Seq(AnyCode)
         /\ \E q \in 1 .. Len(Decode(parts[n])) : Decode(parts[n])[q].half # "whole"
  BY <1>5, DecodeHalves
<1>12. \A i \in 0 .. N : b[i] \in 0 .. Len(codes) /\ a[b[i]] \in 0 .. Len(text)
  BY <1>2, <1>3
<1>13. \A n \in 1 .. N : a[b[n - 1]] <= a[b[n]]
  <2>1. ASSUME NEW n \in 1 .. N PROVE a[b[n - 1]] <= a[b[n]]
    <3>1. b[n - 1] \in 0 .. Len(codes) /\ b[n] \in b[n - 1] .. Len(codes)
      BY <1>3, <1>5
    <3>2. QED BY <1>2, <3>1, LaidGrows
  <2>2. QED BY <2>1
<1> HIDE DEF seqs, R, N, parts, Torn
<1>14. \A n \in 1 .. k : seqs[n] \in Seq(AnyCode)
  <2>1. ASSUME NEW n \in 1 .. k PROVE seqs[n] \in Seq(AnyCode)
    <3>1. n \in 1 .. N /\ n \in 0 .. N /\ n - 1 \in 0 .. N BY <1>3
    <3>2. CASE Torn(n) BY <1>8, <1>11, <3>1, <3>2
    <3>3. CASE ~Torn(n)
      <4>1. a[b[n - 1]] \in 0 .. Len(text) /\ a[b[n]] \in a[b[n - 1]] .. Len(text)
        BY <1>3, <1>12, <1>13, <3>1
      <4>2. SubSeq(R, a[b[n - 1]] + 1, a[b[n]]) \in Seq(AnyCode)
        BY <1>4, <4>1, SliceTyped
      <4>3. QED BY <1>8, <1>10, <3>1, <3>3, <4>2
    <3>4. QED BY <3>2, <3>3
  <2>2. QED BY <2>1
<1>15. seqs \in Seq(Seq(AnyCode))
  <2> DEFINE own == [n \in 1 .. k |-> seqs[n]]
  <2>1. own \in Seq(Seq(AnyCode)) BY <1>3, <1>14, IsASeq
  <2>2. own = seqs BY <1>9
  <2> HIDE DEF own
  <2>3. QED BY <2>1, <2>2
<1>16. CASE \E n \in 1 .. k : Torn(n)
  <2>1. PICK n \in 1 .. k : Torn(n) BY <1>16
  <2>2. PICK q \in 1 .. Len(seqs[n]) : seqs[n][q].half # "whole" BY <1>8, <1>11, <2>1
  <2>3. n \in 1 .. Len(seqs) BY <1>9
  <2>4. PICK i \in 1 .. Len(FlattenSeq(seqs)) : FlattenSeq(seqs)[i] = seqs[n][q]
    BY <1>15, <2>2, <2>3, FlattenKeeps
  <2>5. FlattenSeq(seqs) # R
    <3>1. ASSUME FlattenSeq(seqs) = R PROVE FALSE
      <4>1. i \in 1 .. Len(text) /\ R[i].half # "whole" BY <1>4, <2>2, <2>4, <3>1
      <4>2. R[i] = Code("whole", text[i]) BY <1>4, <4>1
      <4>3. R[i].half = "whole" BY <4>2 DEF Code
      <4>4. QED BY <4>1, <4>3
    <3>2. QED BY <3>1
  <2>6. Halved(text) BY <1>6, <1>8, <2>1
  <2>7. QED BY <1>7, <2>5, <2>6 DEF R
<1>17. CASE ~\E n \in 1 .. k : Torn(n)
  <2> DEFINE e == [n \in 0 .. k |-> a[b[n]]]
  <2>1. e \in [0 .. Len(seqs) -> 0 .. Len(R)]
    <3>1. \A n \in 0 .. k : n \in 0 .. N BY <1>3
    <3>2. QED BY <1>4, <1>9, <1>12, <3>1
  <2>2. ASSUME NEW n \in 1 .. Len(seqs)
        PROVE  e[n - 1] <= e[n] /\ seqs[n] = SubSeq(R, e[n - 1] + 1, e[n])
    <3>1. n \in 1 .. k /\ n \in 0 .. k /\ n - 1 \in 0 .. k /\ n \in 1 .. N
      BY <1>3, <1>9
    <3>2. e[n] = a[b[n]] /\ e[n - 1] = a[b[n - 1]] BY <3>1
    <3>3. ~Torn(n) BY <1>17, <3>1
    <3> HIDE DEF e
    <3>4. QED BY <1>8, <1>10, <1>13, <3>1, <3>2, <3>3
  <2>3. e[0] = 0 /\ e[k] = a[b[k]]
    <3>1. 0 \in 0 .. k /\ k \in 0 .. k BY <1>3
    <3>2. QED BY <1>2, <1>3, <3>1
  <2> HIDE DEF e
  <2>4. FlattenSeq(seqs) = SubSeq(R, 0 + 1, a[b[k]])
    <3>1. FlattenSeq(seqs) = SubSeq(R, e[0] + 1, e[Len(seqs)])
      BY <1>4, <1>15, <2>1, <2>2, FlattenSlices
    <3>2. QED BY <1>9, <2>3, <3>1
  <2>5. CASE k = N
    <3>1. a[b[k]] = Len(R) BY <1>2, <1>4, <2>5
    <3>2. SubSeq(R, 1, Len(R)) = R BY <1>4, SubSeqFull
    <3>3. 0 + 1 = 1 OBVIOUS
    <3>4. FlattenSeq(seqs) = R BY <2>4, <3>1, <3>2, <3>3
    <3>5. ~Halved(text) BY <1>6, <1>17, <2>5
    <3>6. QED BY <1>7, <2>5, <3>4, <3>5 DEF R, N, parts
  <2>6. CASE k # N
    <3> DEFINE q == b[k] + 1
    <3>1. k \in 1 .. N /\ k + 1 \in 1 .. N /\ (k + 1) - 1 = k /\ k \in 0 .. N /\ k \in 1 .. k
      BY <1>3, <2>6
    <3>2. q \in 1 .. Len(codes) /\ q - 1 = b[k] /\ b[k] \in Nat
      <4>1. b[k] \in 0 .. Len(codes) /\ b[k + 1] \in b[k] + 1 .. Len(codes)
        BY <1>5, <3>1
      <4>2. /\ b[k] \in Nat /\ b[k + 1] \in Int
            /\ b[k] + 1 <= b[k + 1] /\ b[k + 1] <= Len(codes)
        BY <1>3, <4>1
      <4>3. b[k] + 1 <= Len(codes) BY <1>3, <4>2
      <4>4. q \in 1 .. Len(codes) BY <1>3, <4>2, <4>3
      <4>5. q - 1 = b[k] BY <4>2
      <4> HIDE DEF q
      <4>6. QED BY <4>2, <4>4, <4>5
    <3>3. ~HalfOpen(codes, b[k]) BY <1>17, <3>1 DEF Torn
    <3>4. a[q] = a[b[k]] + 1
      <4>1. /\ a[q] = IF codes[q].half = "second" THEN a[q - 1] ELSE a[q - 1] + 1
            /\ codes[q].half = "second" <=> HalfOpen(codes, q - 1)
        BY <1>2, <3>2 DEF Laid
      <4>2. QED BY <3>2, <3>3, <4>1
    <3>5. a[q] \in 0 .. Len(text)
      <4>1. q \in 0 .. Len(codes) BY <3>2
      <4>2. \A i \in 0 .. Len(codes) : a[i] \in 0 .. Len(text) BY <1>3
      <4> HIDE DEF q
      <4>3. QED BY <4>1, <4>2
    <3> HIDE DEF q
    <3>6. a[b[k]] \in 0 .. Len(text) /\ a[b[k]] # Len(text)
      BY <1>3, <1>12, <3>1, <3>4, <3>5
    <3>7. Len(FlattenSeq(seqs)) = a[b[k]]
      <4>1. 0 \in 0 .. Len(R) /\ a[b[k]] \in 0 .. Len(R) BY <1>3, <1>4, <3>6
      <4>2. Len(SubSeq(R, 0 + 1, a[b[k]])) = a[b[k]] - 0 BY <1>4, <4>1, SliceTyped
      <4>3. a[b[k]] - 0 = a[b[k]] BY <3>6
      <4>4. QED BY <2>4, <4>2, <4>3
    <3>8. FlattenSeq(seqs) # R BY <1>4, <3>6, <3>7
    <3>9. QED BY <1>7, <2>6, <3>8 DEF R, N, parts
  <2>7. QED BY <2>5, <2>6
<1>18. QED BY <1>16, <1>17

(* What is sent in one part is read whole.                                 *)
LEMMA ShortIsWhole ==
  ASSUME NEW text \in Seq(Letters), text # <<>>, Len(EncodeSubmit(text)) = 1
  PROVE  ~Halved(text)
<1>1. PICK codes, a, b : Split(text, codes, a, b) BY EncodeSplits
<1>2. b[0] = 0 /\ b[1] = Len(codes) /\ ~HalfOpen(codes, Len(codes))
  BY <1>1 DEF Split, Cut
<1>3. ~HalfOpen(codes, 0) BY DEF HalfOpen
<1>4. \A n \in 1 .. 1 : n = 1 /\ n - 1 = 0 OBVIOUS
<1>5. QED BY <1>1, <1>2, <1>3, <1>4, HalvedIs

(* encode_submit gives at least one part, each of codes.                   *)
LEMMA EncodeTyped ==
  ASSUME NEW text \in Seq(Letters), text # <<>>
  PROVE  /\ EncodeSubmit(text) \in Seq(Seq(AnyCode))
         /\ Len(EncodeSubmit(text)) \in Nat /\ Len(EncodeSubmit(text)) >= 1
<1>1. PICK codes, a, b : Split(text, codes, a, b) BY EncodeSplits
<1>2. QED BY <1>1 DEF Split, Cut

-----------------------------------------------------------------------------
(* What is always true of the parts on their way and stored: each is one   *)
(* of a text that was sent, none is there twice, and of each text it is    *)
(* the first ones that were accepted.                                      *)
Parted(n) == EncodeSubmit(sent[n])
Stored == {slots[i] : i \in DOMAIN slots}
Accepted(n) == {p.seq : p \in {x \in air \union Stored : x.of = n}}
AnyPdu == [codes : Seq(AnyCode), total : Nat, seq : Nat, ref : {Ref}, of : Nat]

SmsType ==
  /\ sent \in Seq(Texts) /\ slots \in Seq(AnyPdu) /\ torn \in BOOLEAN
  /\ air \subseteq AnyPdu
PartsAreOfTexts ==
  \A p \in air \union Stored :
    /\ p.of \in 1 .. Len(sent) /\ p.seq \in 1 .. Len(Parted(p.of))
    /\ p = Pdu(p.of, Parted(p.of), p.seq)
NoPartTwice ==
  /\ \A i \in DOMAIN slots : slots[i] \notin air
  /\ \A i, j \in DOMAIN slots : slots[i] = slots[j] => i = j
FirstAccepted ==
  \A n \in 1 .. Len(sent) : \E k \in 1 .. Len(Parted(n)) : Accepted(n) = 1 .. k
TornIs ==
  torn <=> \E n \in 1 .. Len(sent) : Accepted(n) # 1 .. Len(Parted(n))
SmsInv == SmsType /\ PartsAreOfTexts /\ NoPartTwice /\ FirstAccepted /\ TornIs

(* The fields of a PDU.                                                    *)
LEMMA PduFields ==
  ASSUME NEW n, NEW parts, NEW q
  PROVE  /\ Pdu(n, parts, q).of = n /\ Pdu(n, parts, q).seq = q
         /\ Pdu(n, parts, q).codes = parts[q] /\ Pdu(n, parts, q).total = Len(parts)
         /\ Pdu(n, parts, q).ref = Ref
BY DEF Pdu

(* The same of the texts that may be sent.                                 *)
LEMMA TextsTyped ==
  ASSUME NEW text \in Texts
  PROVE  /\ text \in Seq(Letters) /\ text # <<>>
         /\ EncodeSubmit(text) \in Seq(Seq(AnyCode))
         /\ Len(EncodeSubmit(text)) \in Nat /\ Len(EncodeSubmit(text)) >= 1
BY SmsCodecConstants, EncodeTyped

(* No text yet, nothing stored.                                            *)
LEMMA SmsInitInv == SmsInit => SmsInv
<1> SUFFICES ASSUME SmsInit PROVE SmsInv OBVIOUS
<1>1. air = {} /\ slots = <<>> /\ sent = <<>> /\ torn = FALSE BY DEF SmsInit
<1>2. DOMAIN slots = {} /\ Stored = {} /\ 1 .. Len(sent) = {} BY <1>1 DEF Stored
<1>3. SmsType BY <1>1, EmptySeq DEF SmsType
<1>4. PartsAreOfTexts /\ NoPartTwice BY <1>1, <1>2 DEF PartsAreOfTexts, NoPartTwice
<1>5. FirstAccepted /\ TornIs BY <1>1, <1>2 DEF FirstAccepted, TornIs
<1>6. QED BY <1>3, <1>4, <1>5 DEF SmsInv

(* Sending adds the accepted parts of one text, the first ones of them.    *)
LEMMA SendKeeps ==
  ASSUME SmsInv, NEW text \in Texts, SendSms(text)
  PROVE  SmsInv'
<1> DEFINE parts == EncodeSubmit(text)
<1>0. PICK m \in Nat : m = Len(sent) + 1
  <2>1. Len(sent) \in Nat BY DEF SmsInv, SmsType
  <2>2. QED BY <2>1
<1>1. PICK k \in 1 .. Len(parts) :
        /\ air' = air \union {Pdu(m, parts, q) : q \in 1 .. k}
        /\ torn' = (torn \/ k < Len(parts))
  BY <1>0 DEF SendSms
<1>2. sent' = Append(sent, text) /\ slots' = slots BY DEF SendSms
<1>3. /\ parts \in Seq(Seq(AnyCode)) /\ Len(parts) \in Nat /\ k \in Nat /\ k <= Len(parts)
  BY TextsTyped
<1>4. /\ sent \in Seq(Texts) /\ slots \in Seq(AnyPdu) /\ air \subseteq AnyPdu
      /\ torn \in BOOLEAN /\ Len(sent) \in Nat
  BY DEF SmsInv, SmsType
<1>5. /\ sent' \in Seq(Texts) /\ Len(sent') = m /\ sent'[m] = text
      /\ \A n \in 1 .. Len(sent) : sent'[n] = sent[n]
  BY <1>0, <1>2, <1>4, AppendProperties
<1>6. Parted(m)' = parts /\ \A n \in 1 .. Len(sent) : Parted(n)' = Parted(n)
  BY <1>5 DEF Parted
<1>7. Stored' = Stored BY <1>2 DEF Stored
<1> DEFINE new == {Pdu(m, parts, q) : q \in 1 .. k}
<1>8. (air \union Stored)' = (air \union Stored) \union new BY <1>1, <1>7
<1>9. \A p \in air \union Stored : p.of \in 1 .. Len(sent) /\ p.of # m
  BY <1>0, <1>4 DEF SmsInv, PartsAreOfTexts
<1>10. \A p \in new :
         /\ p.of = m /\ p.seq \in 1 .. k /\ p = Pdu(m, parts, p.seq)
  BY PduFields
<1> HIDE DEF parts, new
<1>11. \A q \in 1 .. k : Pdu(m, parts, q) \in new BY DEF new
<1>12. SmsType'
  <2>1. new \subseteq AnyPdu
    <3>1. ASSUME NEW q \in 1 .. k PROVE Pdu(m, parts, q) \in AnyPdu
      <4>1. q \in 1 .. Len(parts) /\ q \in Nat /\ m \in Nat BY <1>0, <1>3, <1>4
      <4>2. parts[q] \in Seq(AnyCode) BY <1>3, <4>1, ElementOfSeq
      <4>3. QED BY <1>3, <4>1, <4>2 DEF Pdu, AnyPdu
    <3>2. QED BY <3>1 DEF new
  <2>2. air' \subseteq AnyPdu BY <1>1, <1>4, <2>1 DEF new
  <2>3. torn' \in BOOLEAN BY <1>1
  <2>4. QED BY <1>2, <1>4, <1>5, <2>2, <2>3 DEF SmsType
<1>13. PartsAreOfTexts'
  <2>1. ASSUME NEW p \in (air \union Stored)'
        PROVE  /\ p.of \in 1 .. Len(sent') /\ p.seq \in 1 .. Len(Parted(p.of)')
               /\ p = Pdu(p.of, Parted(p.of)', p.seq)
    <3>1. CASE p \in new
      <4>1. m \in 1 .. Len(sent') BY <1>0, <1>4, <1>5
      <4>2. 1 .. k \subseteq 1 .. Len(parts) BY <1>3
      <4>3. QED BY <1>6, <1>10, <3>1, <4>1, <4>2
    <3>2. CASE p \in air \union Stored
      <4>1. /\ p.of \in 1 .. Len(sent) /\ p.seq \in 1 .. Len(Parted(p.of))
            /\ p = Pdu(p.of, Parted(p.of), p.seq)
        BY <3>2 DEF SmsInv, PartsAreOfTexts
      <4>2. p.of \in 1 .. Len(sent') BY <1>0, <1>4, <1>5, <4>1
      <4>3. Parted(p.of)' = Parted(p.of) BY <1>6, <4>1
      <4>4. QED BY <4>1, <4>2, <4>3
    <3>3. QED BY <1>8, <2>1, <3>1, <3>2
  <2>2. QED BY <2>1 DEF PartsAreOfTexts
<1>14. NoPartTwice'
  <2>1. \A i \in DOMAIN slots : slots[i] \in Stored BY DEF Stored
  <2>2. \A i \in DOMAIN slots : slots[i] \notin new BY <1>9, <1>10, <2>1
  <2>3. \A i \in DOMAIN slots : slots[i] \notin air' BY <1>1, <2>2 DEF new, SmsInv, NoPartTwice
  <2>4. QED BY <1>2, <2>3 DEF SmsInv, NoPartTwice
<1>15. \A n \in 1 .. Len(sent) : Accepted(n)' = Accepted(n)
  <2>1. ASSUME NEW n \in 1 .. Len(sent) PROVE Accepted(n)' = Accepted(n)
    <3>1. n # m BY <1>0, <1>4
    <3>2. {x \in (air \union Stored)' : x.of = n} = {x \in air \union Stored : x.of = n}
      BY <1>8, <1>10, <3>1
    <3>3. QED BY <3>2 DEF Accepted
  <2>2. QED BY <2>1
<1>16. Accepted(m)' = 1 .. k
  <2>1. {x \in (air \union Stored)' : x.of = m} = new BY <1>8, <1>9, <1>10
  <2>2. Accepted(m)' = {p.seq : p \in new} BY <2>1 DEF Accepted
  <2>3. \A q \in 1 .. k : \E p \in new : p.seq = q BY <1>11, PduFields
  <2>4. QED BY <1>10, <2>2, <2>3
<1>17. \A n \in 1 .. m : n = m \/ n \in 1 .. Len(sent) BY <1>0, <1>4
<1>18. FirstAccepted'
  <2>1. ASSUME NEW n \in 1 .. Len(sent')
        PROVE  \E j \in 1 .. Len(Parted(n)') : Accepted(n)' = 1 .. j
    <3>1. CASE n = m
      <4>1. Parted(n)' = parts /\ Accepted(n)' = 1 .. k BY <1>6, <1>16, <3>1
      <4>2. QED BY <4>1
    <3>2. CASE n \in 1 .. Len(sent)
      BY <1>6, <1>15, <3>2 DEF SmsInv, FirstAccepted
    <3>3. QED BY <1>5, <1>17, <3>1, <3>2
  <2>2. QED BY <2>1 DEF FirstAccepted
<1>19. TornIs'
  <2>1. Accepted(m)' # 1 .. Len(Parted(m)') <=> k < Len(parts)
    <3>1. CASE k < Len(parts)
      <4>1. Len(parts) \in 1 .. Len(parts) /\ Len(parts) \notin 1 .. k BY <1>3, <3>1
      <4>2. QED BY <1>6, <1>16, <3>1, <4>1
    <3>2. CASE ~(k < Len(parts))
      <4>1. k = Len(parts) BY <1>3, <3>2
      <4>2. QED BY <1>6, <1>16, <3>2, <4>1
    <3>3. QED BY <3>1, <3>2
  <2>2. \A n \in 1 .. Len(sent) :
          Accepted(n)' # 1 .. Len(Parted(n)') <=> Accepted(n) # 1 .. Len(Parted(n))
    BY <1>6, <1>15
  <2>3. m \in 1 .. m /\ 1 .. Len(sent) \subseteq 1 .. m BY <1>0, <1>4
  <2>4. torn <=> \E n \in 1 .. Len(sent) : Accepted(n) # 1 .. Len(Parted(n))
    BY DEF SmsInv, TornIs
  <2>5. torn' <=> \E n \in 1 .. m : Accepted(n)' # 1 .. Len(Parted(n)')
    BY <1>1, <1>4, <1>17, <2>1, <2>2, <2>3, <2>4
  <2>6. QED BY <1>5, <2>5 DEF TornIs
<1>20. QED BY <1>12, <1>13, <1>14, <1>18, <1>19 DEF SmsInv

(* Storing moves a part from the air to the end of the slots.              *)
LEMMA StoreKeeps ==
  ASSUME SmsInv, NEW p \in air, Store(p)
  PROVE  SmsInv'
<1>1. slots' = Append(slots, p) /\ air' = air \ {p} /\ sent' = sent /\ torn' = torn
  BY DEF Store
<1>2. /\ sent \in Seq(Texts) /\ slots \in Seq(AnyPdu) /\ air \subseteq AnyPdu
      /\ torn \in BOOLEAN /\ Len(slots) \in Nat /\ p \in AnyPdu
  BY DEF SmsInv, SmsType
<1> DEFINE m == Len(slots) + 1
<1>3. /\ slots' \in Seq(AnyPdu) /\ Len(slots') = m /\ slots'[m] = p
      /\ \A i \in 1 .. Len(slots) : slots'[i] = slots[i]
  BY <1>1, <1>2, AppendProperties
<1>4. /\ DOMAIN slots = 1 .. Len(slots) /\ DOMAIN slots' = 1 .. m
      /\ \A i \in 1 .. m : i = m \/ i \in 1 .. Len(slots)
      /\ m \in 1 .. m /\ 1 .. Len(slots) \subseteq 1 .. m
  BY <1>2, <1>3
<1> HIDE DEF m
<1>5. Stored' = Stored \union {p} BY <1>3, <1>4 DEF Stored
<1>6. (air \union Stored)' = air \union Stored BY <1>1, <1>5
<1>7. \A n : Parted(n)' = Parted(n) BY <1>1 DEF Parted
<1>8. \A n : Accepted(n)' = Accepted(n) BY <1>6 DEF Accepted
<1>9. SmsType' BY <1>1, <1>2, <1>3 DEF SmsType
<1>10. PartsAreOfTexts' BY <1>1, <1>6, <1>7 DEF SmsInv, PartsAreOfTexts
<1>11. NoPartTwice'
  <2>1. /\ \A i \in 1 .. Len(slots) : slots[i] \notin air
        /\ \A i, j \in 1 .. Len(slots) : slots[i] = slots[j] => i = j
    BY <1>4 DEF SmsInv, NoPartTwice
  <2>2. \A i \in 1 .. m : slots'[i] \notin air' BY <1>1, <1>3, <1>4, <2>1
  <2>3. \A i, j \in 1 .. m : slots'[i] = slots'[j] => i = j BY <1>3, <1>4, <2>1
  <2>4. QED BY <1>4, <2>2, <2>3 DEF NoPartTwice
<1>12. FirstAccepted' BY <1>1, <1>7, <1>8 DEF SmsInv, FirstAccepted
<1>13. TornIs' BY <1>1, <1>7, <1>8 DEF SmsInv, TornIs
<1>14. QED BY <1>9, <1>10, <1>11, <1>12, <1>13 DEF SmsInv

(* What is on the air or stored, at any time.                              *)
LEMMA SmsInvariance == SmsSpec => []SmsInv
<1>1. ASSUME SmsInv, [SmsNext]_smsVars PROVE SmsInv'
  <2>1. CASE \E text \in Texts : SendSms(text) BY <1>1, <2>1, SendKeeps
  <2>2. CASE \E p \in air : Store(p) BY <1>1, <2>2, StoreKeeps
  <2>3. CASE UNCHANGED smsVars
    <3>1. air' = air /\ slots' = slots /\ sent' = sent /\ torn' = torn BY <2>3 DEF smsVars
    <3>2. Stored' = Stored BY <3>1 DEF Stored
    <3>3. \A n : Parted(n)' = Parted(n) /\ Accepted(n)' = Accepted(n)
      BY <3>1, <3>2 DEF Parted, Accepted
    <3>4. SmsType' /\ NoPartTwice' BY <1>1, <3>1 DEF SmsInv, SmsType, NoPartTwice
    <3>5. PartsAreOfTexts' BY <1>1, <3>1, <3>2, <3>3 DEF SmsInv, PartsAreOfTexts
    <3>6. FirstAccepted' /\ TornIs'
      BY <1>1, <3>1, <3>3 DEF SmsInv, FirstAccepted, TornIs
    <3>7. QED BY <3>4, <3>5, <3>6 DEF SmsInv
  <2>4. QED BY <1>1, <2>1, <2>2, <2>3 DEF SmsNext
<1>2. QED BY <1>1, SmsInitInv, PTL DEF SmsSpec

-----------------------------------------------------------------------------
(* The slots that hold the parts of a text.                                *)
TextSlots(n) == {i \in DOMAIN slots : slots[i].of = n}

(* One slot for each number of a part, and in their order they are the     *)
(* parts, whatever order they came in.                                     *)
LEMMA SlotsNumbered ==
  ASSUME SmsInv, air = {}, NEW n \in 1 .. Len(sent)
  PROVE  \E k \in 1 .. Len(Parted(n)) :
           /\ Accepted(n) = 1 .. k
           /\ \A i \in TextSlots(n) :
                /\ i \in Nat /\ slots[i].seq \in 1 .. k
                /\ slots[i] = Pdu(n, Parted(n), slots[i].seq)
           /\ \A i, j \in TextSlots(n) : slots[i].seq = slots[j].seq => i = j
           /\ \A q \in 1 .. k : \E i \in TextSlots(n) : slots[i].seq = q
<1>1. PICK k \in 1 .. Len(Parted(n)) : Accepted(n) = 1 .. k
  BY DEF SmsInv, FirstAccepted
<1>2. slots \in Seq(AnyPdu) /\ DOMAIN slots = 1 .. Len(slots)
  BY DEF SmsInv, SmsType
<1>3. ASSUME NEW i \in TextSlots(n)
      PROVE  /\ i \in Nat /\ slots[i].seq \in 1 .. k
             /\ slots[i] = Pdu(n, Parted(n), slots[i].seq)
  <2>1. i \in DOMAIN slots /\ slots[i].of = n BY DEF TextSlots
  <2>2. slots[i] \in Stored BY <2>1 DEF Stored
  <2>3. slots[i] = Pdu(slots[i].of, Parted(slots[i].of), slots[i].seq)
    BY <2>2 DEF SmsInv, PartsAreOfTexts
  <2>4. slots[i].seq \in Accepted(n) BY <2>1, <2>2 DEF Accepted
  <2>5. i \in Nat BY <1>2, <2>1
  <2>6. QED BY <1>1, <2>1, <2>3, <2>4, <2>5
<1>4. ASSUME NEW i \in TextSlots(n), NEW j \in TextSlots(n), slots[i].seq = slots[j].seq
      PROVE  i = j
  <2>1. slots[i] = slots[j] BY <1>3, <1>4
  <2>2. i \in DOMAIN slots /\ j \in DOMAIN slots BY DEF TextSlots
  <2>3. QED BY <2>1, <2>2 DEF SmsInv, NoPartTwice
<1>5. ASSUME NEW q \in 1 .. k PROVE \E i \in TextSlots(n) : slots[i].seq = q
  <2>1. q \in Accepted(n) BY <1>1
  <2>2. PICK p \in Stored : p.of = n /\ p.seq = q BY <2>1 DEF Accepted
  <2>3. PICK i \in DOMAIN slots : slots[i] = p BY DEF Stored
  <2>4. QED BY <2>2, <2>3 DEF TextSlots
<1>6. QED BY <1>1, <1>3, <1>4, <1>5

(* InOrder finds the parts of one text by their numbers.                   *)
LEMMA RowInOrder ==
  ASSUME SmsInv, air = {}, NEW n \in 1 .. Len(sent), NEW k \in 1 .. Len(Parted(n)),
         Accepted(n) = 1 .. k
  PROVE  /\ Cardinality(TextSlots(n)) = k
         /\ \A q \in 1 .. k : InOrder(TextSlots(n))[q].codes = Parted(n)[q]
<1> DEFINE row == TextSlots(n)
           Before(i) == {j \in row : Earlier(j, i)}
<1>1. /\ \A i \in row : /\ i \in Nat /\ slots[i].seq \in 1 .. k
                        /\ slots[i] = Pdu(n, Parted(n), slots[i].seq)
      /\ \A i, j \in row : slots[i].seq = slots[j].seq => i = j
      /\ \A q \in 1 .. k : \E i \in row : slots[i].seq = q
  <2>1. PICK m \in 1 .. Len(Parted(n)) :
           /\ Accepted(n) = 1 .. m
           /\ \A i \in TextSlots(n) :
                /\ i \in Nat /\ slots[i].seq \in 1 .. m
                /\ slots[i] = Pdu(n, Parted(n), slots[i].seq)
           /\ \A i, j \in TextSlots(n) : slots[i].seq = slots[j].seq => i = j
           /\ \A q \in 1 .. m : \E i \in TextSlots(n) : slots[i].seq = q
    BY SlotsNumbered
  <2>2. 1 .. k = 1 .. m BY <2>1
  <2>3. QED BY <2>1, <2>2
<1>2. k \in Nat OBVIOUS
<1> HIDE DEF row
<1> DEFINE slot == [q \in 1 .. k |-> CHOOSE i \in row : slots[i].seq = q]
<1>3. \A q \in 1 .. k : slot[q] \in row /\ slots[slot[q]].seq = q
  <2>1. ASSUME NEW q \in 1 .. k PROVE slot[q] \in row /\ slots[slot[q]].seq = q
    <3>1. \E i \in row : slots[i].seq = q BY <1>1
    <3>2. slot[q] = CHOOSE i \in row : slots[i].seq = q OBVIOUS
    <3> HIDE DEF slot
    <3>3. QED BY <3>1, <3>2
  <2>2. QED BY <2>1
<1>4. DOMAIN slot = 1 .. k OBVIOUS
<1> HIDE DEF slot
<1>5. \A i \in row : i = slot[slots[i].seq]
  <2>1. ASSUME NEW i \in row PROVE i = slot[slots[i].seq]
    <3>1. slots[i].seq \in 1 .. k BY <1>1
    <3>2. slot[slots[i].seq] \in row /\ slots[slot[slots[i].seq]].seq = slots[i].seq
      BY <1>3, <3>1
    <3>3. QED BY <1>1, <3>2
  <2>2. QED BY <2>1
<1>6. ASSUME NEW m \in 0 .. k
      PROVE  /\ IsFiniteSet({i \in row : slots[i].seq <= m})
             /\ Cardinality({i \in row : slots[i].seq <= m}) = m
  <2> DEFINE first == {i \in row : slots[i].seq <= m}
             f == [q \in 1 .. m |-> slot[q]]
  <2>1. m \in Nat /\ \A q \in 1 .. m : q \in 1 .. k /\ q <= m BY <1>2
  <2>2. \A q \in 1 .. m : f[q] \in first /\ slots[f[q]].seq = q BY <1>3, <2>1
  <2>3. \A i \in first : slots[i].seq \in 1 .. m /\ f[slots[i].seq] = i
    BY <1>1, <1>5, <2>1
  <2>4. f \in Bijection(1 .. m, first)
    <3>1. f \in [1 .. m -> first] BY <2>2
    <3>2. \A p, q \in 1 .. m : f[p] = f[q] => p = q BY <2>2
    <3>3. \A i \in first : \E q \in 1 .. m : f[q] = i BY <2>3
    <3> HIDE DEF f, first
    <3>4. QED BY <3>1, <3>2, <3>3 DEF Bijection, Injection, Surjection, IsInjective
  <2>5. ExistsBijection(1 .. m, first) BY <2>4 DEF ExistsBijection
  <2>6. /\ IsFiniteSet(1 .. m) /\ Cardinality(1 .. m) = m
    <3>1. 1 \in Int /\ m \in Int BY <2>1
    <3>2. QED BY <2>1, <3>1, FS_Interval
  <2> HIDE DEF first
  <2>7. QED BY <2>5, <2>6, FS_Bijection DEF first
<1>7. Cardinality(row) = k
  <2>1. \A i \in row : slots[i].seq <= k BY <1>1, <1>2
  <2>2. row = {i \in row : slots[i].seq <= k} BY <2>1
  <2>3. k \in 0 .. k BY <1>2
  <2>4. QED BY <1>6, <2>2, <2>3
<1>8. ASSUME NEW i \in row PROVE Cardinality(Before(i)) = slots[i].seq - 1
  <2>1. slots[i].seq - 1 \in 0 .. k BY <1>1, <1>2
  <2>2. \A j \in row : Earlier(j, i) <=> slots[j].seq <= slots[i].seq - 1
    <3>1. ASSUME NEW j \in row PROVE Earlier(j, i) <=> slots[j].seq <= slots[i].seq - 1
      <4>1. slots[i].seq \in Int /\ slots[j].seq \in Int /\ i \in Int BY <1>1
      <4>2. slots[i].seq = slots[j].seq => i = j BY <1>1
      <4>3. ~(i < i) BY <4>1
      <4>4. slots[j].seq < slots[i].seq <=> slots[j].seq <= slots[i].seq - 1 BY <4>1
      <4>5. QED BY <4>2, <4>3, <4>4 DEF Earlier
    <3>2. QED BY <3>1
  <2>3. Before(i) = {j \in row : slots[j].seq <= slots[i].seq - 1} BY <2>2
  <2> HIDE DEF Before
  <2>4. QED BY <1>6, <2>1, <2>3
<1>9. ASSUME NEW q \in 1 .. k PROVE InOrder(row)[q].codes = Parted(n)[q]
  <2> DEFINE Is(i) == Cardinality(Before(i)) = q - 1
             c == CHOOSE i \in row : Is(i)
  <2>1. \A i \in row : Is(i) <=> slots[i].seq = q
    <3>1. ASSUME NEW i \in row PROVE Is(i) <=> slots[i].seq = q
      <4>1. slots[i].seq \in Int /\ q \in Int BY <1>1
      <4>2. Cardinality(Before(i)) = slots[i].seq - 1 BY <1>8
      <4> HIDE DEF Before
      <4>3. QED BY <4>1, <4>2
    <3>2. QED BY <3>1
  <2>2. InOrder(row)[q] = slots[c] BY <1>7 DEF InOrder
  <2> HIDE DEF Is
  <2>3. \E i \in row : Is(i) BY <1>1, <2>1
  <2>4. c \in row /\ Is(c) BY <2>3
  <2> HIDE DEF c
  <2>5. slots[c] = Pdu(n, Parted(n), q) BY <1>1, <2>1, <2>4
  <2>6. slots[c].codes = Parted(n)[q] BY <2>5, PduFields
  <2>7. QED BY <2>2, <2>6
<1>10. QED BY <1>7, <1>9 DEF row

(* So what is read of them is the parts joined.                            *)
LEMMA RowReads ==
  ASSUME SmsInv, air = {}, NEW n \in 1 .. Len(sent)
  PROVE  TextOf(TextSlots(n)) = Read(sent[n])
           <=> Accepted(n) = 1 .. Len(Parted(n)) /\ ~Halved(sent[n])
<1>1. PICK k \in 1 .. Len(Parted(n)) : Accepted(n) = 1 .. k
  BY DEF SmsInv, FirstAccepted
<1>2. /\ Cardinality(TextSlots(n)) = k
      /\ \A q \in 1 .. k : InOrder(TextSlots(n))[q].codes = Parted(n)[q]
  BY <1>1, RowInOrder
<1>3. TextOf(TextSlots(n)) = JoinedParts(sent[n], k)
  <2>1. [q \in 1 .. k |-> Decode(InOrder(TextSlots(n))[q].codes)]
          = [q \in 1 .. k |-> Decode(EncodeSubmit(sent[n])[q])]
    BY <1>2 DEF Parted
  <2>2. QED BY <1>2, <2>1 DEF TextOf, JoinedParts
<1>4. sent[n] \in Texts
  <2>1. sent \in Seq(Texts) BY DEF SmsInv, SmsType
  <2>2. QED BY <2>1, ElementOfSeq
<1>5. sent[n] \in Seq(Letters) /\ sent[n] # <<>> /\ Len(Parted(n)) \in Nat
  BY <1>4, TextsTyped DEF Parted
<1>6. 1 .. k = 1 .. Len(Parted(n)) <=> k = Len(Parted(n))
  <2>1. k \in Nat /\ k >= 1 /\ k <= Len(Parted(n)) BY <1>5
  <2>2. ASSUME 1 .. k = 1 .. Len(Parted(n)) PROVE k = Len(Parted(n))
    <3>1. Len(Parted(n)) \in 1 .. Len(Parted(n)) BY <1>5, <2>1
    <3>2. Len(Parted(n)) <= k BY <2>2, <3>1
    <3>3. QED BY <1>5, <2>1, <3>2
  <2>3. QED BY <2>2
<1>7. JoinedParts(sent[n], k) = Read(sent[n])
        <=> k = Len(Parted(n)) /\ ~Halved(sent[n])
  BY <1>5, JoinedIs DEF Parted
<1>8. QED BY <1>1, <1>3, <1>6, <1>7

(* What a text should be read from: its own slots, or, of a long one, all  *)
(* slots with a part of a long text.                                       *)
RowOf(n) == IF Long(n) THEN Concatenated ELSE TextSlots(n)

(* With nothing on the air the rows are those: a long text has no other.   *)
LEMMA RowsAre ==
  ASSUME SmsInv, air = {}
  PROVE  /\ InboxRows = {RowOf(n) : n \in 1 .. Len(sent)}
         /\ Concatenated = {i \in DOMAIN slots : Long(slots[i].of)}
         /\ \A n \in 1 .. Len(sent) : TextSlots(n) # {}
<1> DEFINE D == 1 .. Len(sent)
<1>1. \A i \in DOMAIN slots :
        /\ slots[i].of \in D /\ slots[i].total = Len(Parted(slots[i].of))
        /\ slots[i].ref = Ref
  <2>1. ASSUME NEW i \in DOMAIN slots
        PROVE  /\ slots[i].of \in D /\ slots[i].total = Len(Parted(slots[i].of))
               /\ slots[i].ref = Ref
    <3>1. slots[i] \in Stored BY DEF Stored
    <3>2. /\ slots[i].of \in D
          /\ slots[i] = Pdu(slots[i].of, Parted(slots[i].of), slots[i].seq)
      BY <3>1 DEF SmsInv, PartsAreOfTexts
    <3>3. QED BY <3>2, PduFields
  <2>2. QED BY <2>1
<1>2. Concatenated = {i \in DOMAIN slots : Long(slots[i].of)}
  BY <1>1 DEF Concatenated, Long, Parted
<1>3. \A n \in D : TextSlots(n) # {} /\ (~Long(n) => \E i \in TextSlots(n) : TextSlots(n) = {i})
  <2>1. ASSUME NEW n \in D
        PROVE  TextSlots(n) # {} /\ (~Long(n) => \E i \in TextSlots(n) : TextSlots(n) = {i})
    <3>1. PICK k \in 1 .. Len(Parted(n)) :
             /\ \A i \in TextSlots(n) : slots[i].seq \in 1 .. k
             /\ \A i, j \in TextSlots(n) : slots[i].seq = slots[j].seq => i = j
             /\ \A q \in 1 .. k : \E i \in TextSlots(n) : slots[i].seq = q
      BY SlotsNumbered
    <3>2. 1 \in 1 .. k OBVIOUS
    <3>3. PICK i \in TextSlots(n) : slots[i].seq = 1 BY <3>1, <3>2
    <3>4. ASSUME ~Long(n), NEW j \in TextSlots(n) PROVE j = i
      <4>1. sent \in Seq(Texts) BY DEF SmsInv, SmsType
      <4>2. Len(Parted(n)) \in Nat BY <4>1, ElementOfSeq, TextsTyped DEF Parted
      <4>3. ~(Len(Parted(n)) > 1) BY <3>4 DEF Long, Parted
      <4>4. k = 1 BY <4>2, <4>3
      <4>5. slots[j].seq = 1 BY <3>1, <4>4
      <4>6. QED BY <3>1, <3>3, <4>5
    <3>5. QED BY <3>3, <3>4
  <2>2. QED BY <2>1
<1>4. \A i \in Concatenated : {j \in Concatenated : slots[j].ref = slots[i].ref} = Concatenated
  BY <1>1, <1>2
<1>5. InboxRows = {{i} : i \in DOMAIN slots \ Concatenated}
                    \union {Concatenated : i \in Concatenated}
  BY <1>4 DEF InboxRows
<1>6. ASSUME NEW row \in InboxRows PROVE \E n \in D : row = RowOf(n)
  <2>1. CASE \E i \in Concatenated : row = Concatenated
    <3>1. PICK i \in Concatenated : row = Concatenated BY <2>1
    <3>2. slots[i].of \in D /\ Long(slots[i].of) BY <1>1, <1>2
    <3>3. QED BY <3>1, <3>2 DEF RowOf
  <2>2. CASE \E i \in DOMAIN slots \ Concatenated : row = {i}
    <3>1. PICK i \in DOMAIN slots \ Concatenated : row = {i} BY <2>2
    <3>2. slots[i].of \in D /\ ~Long(slots[i].of) BY <1>1, <1>2
    <3>3. i \in TextSlots(slots[i].of) BY DEF TextSlots
    <3>4. TextSlots(slots[i].of) = {i} BY <1>3, <3>2, <3>3
    <3>5. QED BY <3>1, <3>2, <3>4 DEF RowOf
  <2>3. QED BY <1>5, <2>1, <2>2
<1>7. ASSUME NEW n \in D PROVE RowOf(n) \in InboxRows
  <2>1. CASE Long(n)
    <3>1. PICK i \in TextSlots(n) : TRUE BY <1>3
    <3>2. i \in Concatenated BY <1>2, <2>1 DEF TextSlots
    <3>3. QED BY <1>5, <2>1, <3>2 DEF RowOf
  <2>2. CASE ~Long(n)
    <3>1. PICK i \in TextSlots(n) : TextSlots(n) = {i} BY <1>3, <2>2
    <3>2. i \in DOMAIN slots \ Concatenated BY <1>2, <2>2 DEF TextSlots
    <3>3. QED BY <1>5, <2>2, <3>1, <3>2 DEF RowOf
  <2>3. QED BY <2>1, <2>2
<1>8. InboxRows = {RowOf(n) : n \in D} BY <1>6, <1>7
<1>9. QED BY <1>2, <1>3, <1>8

(* The rest of a finite set is not enough to meet each of its elements.    *)
LEMMA NoShrink ==
  ASSUME NEW A, IsFiniteSet(A), NEW x \in A, NEW g,
         \A m \in A : \E n \in A \ {x} : g[n] = m
  PROVE  FALSE
<1> DEFINE f == [m \in A |-> CHOOSE n \in A \ {x} : g[n] = m]
<1>1. ASSUME NEW m \in A PROVE f[m] \in A \ {x} /\ g[f[m]] = m
  <2>1. \E n \in A \ {x} : g[n] = m OBVIOUS
  <2>2. f[m] = CHOOSE n \in A \ {x} : g[n] = m OBVIOUS
  <2> HIDE DEF f
  <2>3. QED BY <2>1, <2>2
<1>2. f \in [A -> A \ {x}]
  <2>1. f = [m \in A |-> f[m]] OBVIOUS
  <2> HIDE DEF f
  <2>2. QED BY <1>1, <2>1
<1> HIDE DEF f
<1>3. /\ IsFiniteSet(A \ {x}) /\ Cardinality(A \ {x}) = Cardinality(A) - 1
      /\ Cardinality(A) \in Nat
  BY FS_RemoveElement, FS_CardinalityType
<1>4. Cardinality(A \ {x}) < Cardinality(A) BY <1>3
<1>5. PICK y \in A, z \in A : y # z /\ f[y] = f[z] BY <1>2, <1>3, <1>4, FS_PigeonHole
<1>6. QED BY <1>1, <1>5

(* So, text by text, a row is read whole when the text is whole and alone. *)
LEMMA SmsInvSurvives == SmsInv => Survives
<1> SUFFICES ASSUME SmsInv, air = {}
             PROVE  AllRead <=> /\ ~torn
                                /\ \A n \in DOMAIN sent : ~Halved(sent[n])
                                /\ \A m, n \in DOMAIN sent : Long(m) /\ Long(n) => m = n
  BY DEF Survives
<1> DEFINE D == 1 .. Len(sent)
           Good(n) == Accepted(n) = 1 .. Len(Parted(n)) /\ ~Halved(sent[n])
           OneLong == \A m, n \in D : Long(m) /\ Long(n) => m = n
<1>1. sent \in Seq(Texts) /\ DOMAIN sent = D /\ Len(sent) \in Nat
  BY DEF SmsInv, SmsType
<1>2. \A n \in D : sent[n] \in Texts BY <1>1, ElementOfSeq
<1>3. /\ InboxRows = {RowOf(n) : n \in D}
      /\ Concatenated = {i \in DOMAIN slots : Long(slots[i].of)}
      /\ \A n \in D : TextSlots(n) # {}
  BY RowsAre
<1>4. \A n \in D : TextOf(TextSlots(n)) = Read(sent[n]) <=> Good(n) BY RowReads
<1>5. \A n \in D : ~Long(n) => Good(n)
  <2>1. ASSUME NEW n \in D, ~Long(n) PROVE Good(n)
    <3>1. /\ sent[n] \in Seq(Letters) /\ sent[n] # <<>>
          /\ Len(Parted(n)) \in Nat /\ Len(Parted(n)) >= 1
      BY <1>2, TextsTyped DEF Parted
    <3>2. Len(Parted(n)) = 1
      <4>1. ~(Len(Parted(n)) > 1) BY <2>1 DEF Long, Parted
      <4>2. \A l \in Nat : l >= 1 /\ ~(l > 1) => l = 1 OBVIOUS
      <4>3. QED BY <3>1, <4>1, <4>2
    <3>3. ~Halved(sent[n]) BY <3>1, <3>2, ShortIsWhole DEF Parted
    <3>4. PICK k \in 1 .. Len(Parted(n)) : Accepted(n) = 1 .. k
      BY DEF SmsInv, FirstAccepted
    <3>5. k = Len(Parted(n)) BY <3>2, <3>4
    <3>6. QED BY <3>3, <3>4, <3>5
  <2>2. QED BY <2>1
<1>6. (~torn /\ \A n \in DOMAIN sent : ~Halved(sent[n])) <=> \A n \in D : Good(n)
  BY <1>1 DEF SmsInv, TornIs
<1>7. ASSUME OneLong, NEW n \in D PROVE RowOf(n) = TextSlots(n)
  <2>1. CASE Long(n)
    <3>1. \A i \in DOMAIN slots : slots[i].of \in D
      <4>1. \A i \in DOMAIN slots : slots[i] \in Stored BY DEF Stored
      <4>2. QED BY <4>1 DEF SmsInv, PartsAreOfTexts
    <3>2. Concatenated = TextSlots(n) BY <1>3, <1>7, <2>1, <3>1 DEF TextSlots
    <3>3. QED BY <2>1, <3>2 DEF RowOf
  <2>2. CASE ~Long(n) BY <2>2 DEF RowOf
  <2>3. QED BY <2>1, <2>2
<1> HIDE DEF Good
<1>8. ASSUME OneLong, \A n \in D : Good(n) PROVE AllRead
  <2> DEFINE meant == [row \in InboxRows |-> CHOOSE n \in D : row = TextSlots(n)]
  <2>1. \A row \in InboxRows : meant[row] \in D /\ row = TextSlots(meant[row])
    <3>1. ASSUME NEW row \in InboxRows PROVE meant[row] \in D /\ row = TextSlots(meant[row])
      <4>1. \E n \in D : row = TextSlots(n) BY <1>3, <1>7, <1>8
      <4>2. meant[row] = CHOOSE n \in D : row = TextSlots(n) OBVIOUS
      <4> HIDE DEF meant
      <4>3. QED BY <4>1, <4>2
    <3>2. QED BY <3>1
  <2>2. meant \in [InboxRows -> D]
    <3>1. meant = [row \in InboxRows |-> meant[row]] OBVIOUS
    <3> HIDE DEF meant
    <3>2. QED BY <2>1, <3>1
  <2> HIDE DEF meant
  <2>3. \A m, n \in D : TextSlots(m) = TextSlots(n) => m = n BY <1>3 DEF TextSlots
  <2>4. \A r, s \in InboxRows : meant[r] = meant[s] => r = s BY <2>1
  <2>5. \A n \in D : \E row \in InboxRows : meant[row] = n
    <3>1. \A n \in D : TextSlots(n) \in InboxRows BY <1>3, <1>7, <1>8
    <3>2. QED BY <2>1, <2>3, <3>1
  <2>6. meant \in Bijection(InboxRows, D)
    BY <2>2, <2>4, <2>5 DEF Bijection, Injection, Surjection, IsInjective
  <2>7. \A row \in InboxRows : TextOf(row) = Read(sent[meant[row]])
    BY <1>4, <1>8, <2>1
  <2>8. QED BY <1>1, <2>6, <2>7 DEF AllRead
<1>9. ASSUME AllRead PROVE OneLong /\ \A n \in D : Good(n)
  <2>1. PICK meant \in Bijection(InboxRows, D) :
          \A row \in InboxRows : TextOf(row) = Read(sent[meant[row]])
    BY <1>1, <1>9 DEF AllRead
  <2>2. \A n \in D : \E row \in InboxRows : meant[row] = n
    BY <2>1 DEF Bijection, Surjection
  <2> DEFINE g == [n \in D |-> meant[RowOf(n)]]
  <2>3. \A m \in D : \E n \in D :
          RowOf(n) \in InboxRows /\ meant[RowOf(n)] = m /\ g[n] = m
    BY <1>3, <2>2
  <2>4. IsFiniteSet(D) BY <1>1, FS_Interval
  <2> HIDE DEF g
  <2>5. OneLong
    <3>1. SUFFICES ASSUME NEW m \in D, NEW n \in D, Long(m), Long(n), m # n PROVE FALSE
      OBVIOUS
    <3>2. g[m] = g[n] BY <3>1 DEF g, RowOf
    <3>3. \A i \in D : \E j \in D \ {n} : g[j] = i BY <2>3, <3>1, <3>2
    <3>4. n \in D BY <3>1
    <3> HIDE DEF D
    <3>5. QED BY <2>4, <3>3, <3>4, NoShrink
  <2>6. ASSUME NEW x \in D, ~Good(x) PROVE FALSE
    <3> DEFINE A == {n \in D : Read(sent[n]) = Read(sent[x])}
    <3>1. Long(x) /\ \A n \in D : n # x => Good(n)
      BY <1>5, <2>5, <2>6
    <3>2. ASSUME NEW m \in A PROVE \E n \in A \ {x} : g[n] = m
      <4>1. PICK n \in D : RowOf(n) \in InboxRows /\ meant[RowOf(n)] = m /\ g[n] = m
        BY <2>3
      <4>2. TextOf(TextSlots(n)) = Read(sent[x]) BY <1>7, <2>1, <2>5, <4>1
      <4>3. n # x BY <1>4, <2>6, <4>2
      <4>4. Read(sent[n]) = Read(sent[x]) BY <1>4, <3>1, <4>2, <4>3
      <4>5. QED BY <4>1, <4>3, <4>4
    <3>3. IsFiniteSet(A) /\ x \in A BY <2>4, FS_Subset
    <3>4. \A i \in A : \E j \in A \ {x} : g[j] = i BY <3>2
    <3> HIDE DEF A, D
    <3>5. QED BY <3>3, <3>4, NoShrink
  <2>7. QED BY <2>5, <2>6
<1>10. QED BY <1>1, <1>6, <1>8, <1>9

(* What the receiver reads is what was sent, in whatever order the parts   *)
(* came, exactly unless a text was sent in part, was split inside a pair,  *)
(* or a second long one came from the same number: modem/sms.py and        *)
(* modem/pdu.py.                                                           *)
THEOREM SmsSurvives == SmsSpec => []Survives
BY SmsInvariance, SmsInvSurvives, PTL
=============================================================================
