---------------------------- MODULE Modem_proofs ----------------------------
(***************************************************************************)
(* The AT port hands every line to whom it belongs, for every driver       *)
(* operation, answer and number of commands, and however the modem's lines *)
(* fall between the channel's reads.  The modem answers in order and ends  *)
(* each answer once, so after the final result of a command nothing of it  *)
(* is left, neither unread nor unsent: what the next drain finds is        *)
(* unsolicited or belongs to a command that was given up.                  *)
(***************************************************************************)
EXTENDS AtChannel, Pdp, SequenceTheorems, FiniteSetTheorems, TLAPS

Sorts == {"ok", "error", "data", "prompt", "tail", "urc", "registration"}
Lines == [what : Sorts, n : Nat]
Queries == [n : Nat, lines : Nat, at : {"prompting", "prompted", "answering"}]
Final(line) == line.what \in {"ok", "error"}
Unsolicited(line) == line.what \in {"urc", "registration", "tail"}
Asked == phase \in {"prompting", "reading"}

AtTypeOK ==
  /\ buffer \in Seq(Lines) /\ payload \in Seq(Lines) /\ modem \in Seq(Queries)
  /\ phase \in {"idle", "drained", "prompting", "reading"}
  /\ written \in Nat /\ (Asked => written > 0)
  /\ phase # "reading" => payload = <<>>
  /\ \A i \in DOMAIN buffer : buffer[i].n <= written /\ (Final(buffer[i]) => buffer[i].n > 0)
  /\ \A i \in DOMAIN modem : modem[i].n \in 1 .. written

(* A command is answered once, and nothing of it follows its final result. *)
NothingAfter(lines, queries) ==
  \A i \in DOMAIN lines : Final(lines[i]) =>
    /\ \A j \in DOMAIN lines : i < j => lines[j].n # lines[i].n
    /\ \A k \in DOMAIN queries : queries[k].n # lines[i].n
AnsweredOnce ==
  /\ \A i, j \in DOMAIN modem : modem[i].n = modem[j].n => i = j
  /\ NothingAfter(buffer, modem)

(* What still has to be answered or read is the current command's, or that *)
(* of one given up; and the former alone if no answer was due before.      *)
Current(n) == Asked /\ n = written
Accounted ==
  /\ \A i \in DOMAIN buffer :
       Unsolicited(buffer[i]) \/ buffer[i].n \in abandoned \/ Current(buffer[i].n)
  /\ \A i \in DOMAIN modem : modem[i].n \in abandoned \/ Current(modem[i].n)
OwnAlone ==
  (phase # "idle" /\ ~due) =>
    /\ \A i \in DOMAIN buffer :
         buffer[i].what \in {"urc", "registration"} \/ Current(buffer[i].n)
    /\ \A i \in DOMAIN modem : Current(modem[i].n)
    /\ \A i \in DOMAIN payload :
         payload[i].what = "registration" \/ payload[i].n = written
AtInv == AtTypeOK /\ AnsweredOnce /\ Accounted /\ OwnAlone /\ LinesInPlace

-----------------------------------------------------------------------------
(* What is left of the buffer after some lines were taken from its front.  *)
Suffix(rest, s) ==
  \E d \in Nat : /\ Len(rest) + d = Len(s)
                 /\ \A i \in 1 .. Len(rest) : rest[i] = s[i + d]

LEMMA TailIsSuffix ==
  ASSUME NEW s \in Seq(Lines), s # <<>>
  PROVE  Tail(s) \in Seq(Lines) /\ Suffix(Tail(s), s)
<1>1. /\ Tail(s) \in Seq(Lines) /\ Len(Tail(s)) + 1 = Len(s)
      /\ \A i \in 1 .. Len(Tail(s)) : Tail(s)[i] = s[i + 1]
  BY HeadTailProperties
<1>2. QED BY <1>1 DEF Suffix

LEMMA EmptyIsSuffix == ASSUME NEW s \in Seq(Lines) PROVE Suffix(<<>>, s)
BY DEF Suffix

LEMMA GuardIsPositive == DrainGuard \in Nat /\ DrainGuard > 0
<1>1. DrainGuard \in Nat \ {0} BY AtChannelConstants, Zenon
<1>2. QED BY <1>1

LEMMA DrainedIsPrefix ==
  ASSUME AtTypeOK
  PROVE  /\ Drained \in 0 .. Len(buffer) /\ Len(buffer) \in Nat
         /\ SubSeq(buffer, Drained + 1, Len(buffer)) \in Seq(Lines)
         /\ Suffix(SubSeq(buffer, Drained + 1, Len(buffer)), buffer)
         /\ Len(buffer) <= DrainGuard => SubSeq(buffer, Drained + 1, Len(buffer)) = <<>>
         /\ \A line \in ToSet(SubSeq(buffer, 1, Drained)) :
              \E i \in DOMAIN buffer : line = buffer[i]
<1>1. Drained \in 0 .. Len(buffer) /\ Len(buffer) \in Nat /\ buffer \in Seq(Lines)
  <2>1. buffer \in Seq(Lines) BY DEF AtTypeOK
  <2>2. QED BY <2>1, GuardIsPositive DEF Drained
<1> DEFINE rest == SubSeq(buffer, Drained + 1, Len(buffer))
           gone == SubSeq(buffer, 1, Drained)
<1>2. /\ rest \in Seq(Lines)
      /\ Len(rest) = IF Drained + 1 <= Len(buffer) THEN Len(buffer) - (Drained + 1) + 1 ELSE 0
      /\ \A i \in 1 .. Len(buffer) - (Drained + 1) + 1 :
           rest[i] = buffer[Drained + 1 + i - 1]
  <2>1. \A i \in Drained + 1 .. Len(buffer) : buffer[i] \in Lines BY <1>1
  <2>2. QED BY <1>1, <2>1, SubSeqProperties
<1>3. /\ Len(gone) = Drained /\ gone \in Seq(Lines)
      /\ \A i \in 1 .. Drained : gone[i] = buffer[i]
  <2>1. \A i \in 1 .. Drained : buffer[i] \in Lines BY <1>1
  <2>2. QED BY <1>1, <2>1, SubSeqProperties
<1>4. Len(rest) + Drained = Len(buffer) /\ \A i \in 1 .. Len(rest) : rest[i] = buffer[i + Drained]
  BY <1>1, <1>2
<1>5. Suffix(rest, buffer) BY <1>1, <1>4 DEF Suffix
<1>6. Len(buffer) <= DrainGuard => rest = <<>>
  <2>1. Len(buffer) <= DrainGuard => Drained = Len(buffer)
    BY <1>1, GuardIsPositive DEF Drained
  <2>2. QED BY <1>1, <1>2, <1>4, <2>1
<1>7. \A line \in ToSet(gone) : \E i \in DOMAIN buffer : line = buffer[i]
  BY <1>1, <1>3 DEF ToSet
<1>8. QED BY <1>1, <1>2, <1>5, <1>6, <1>7

(* Of what is left nothing follows a final result that was taken.          *)
LEMMA SuffixKeeps ==
  ASSUME NEW s \in Seq(Lines), NEW rest \in Seq(Lines), Suffix(rest, s), NEW m,
         NothingAfter(s, m)
  PROVE  /\ NothingAfter(rest, m)
         /\ \A i \in DOMAIN rest : \E j \in DOMAIN s : rest[i] = s[j]
<1>1. PICK d \in Nat : /\ Len(rest) + d = Len(s)
                       /\ \A i \in 1 .. Len(rest) : rest[i] = s[i + d]
  BY DEF Suffix
<1>2. \A i \in DOMAIN rest : i + d \in DOMAIN s /\ rest[i] = s[i + d] BY <1>1
<1>3. \A i, j \in DOMAIN rest : i < j => i + d < j + d BY <1>1
<1>4. NothingAfter(rest, m) BY <1>2, <1>3 DEF NothingAfter
<1>5. QED BY <1>2, <1>4

LEMMA HeadOfBuffer ==
  ASSUME NEW s \in Seq(Lines), s # <<>>, NEW m, NothingAfter(s, m)
  PROVE  /\ Head(s) \in Lines /\ 1 \in DOMAIN s /\ Head(s) = s[1]
         /\ Tail(s) \in Seq(Lines) /\ NothingAfter(Tail(s), m)
         /\ \A i \in DOMAIN Tail(s) : \E j \in DOMAIN s : Tail(s)[i] = s[j]
         /\ Final(Head(s)) =>
              /\ \A i \in DOMAIN Tail(s) : Tail(s)[i].n # Head(s).n
              /\ \A k \in DOMAIN m : m[k].n # Head(s).n
<1>1. Tail(s) \in Seq(Lines) /\ Suffix(Tail(s), s) BY TailIsSuffix
<1>2. /\ NothingAfter(Tail(s), m)
      /\ \A i \in DOMAIN Tail(s) : \E j \in DOMAIN s : Tail(s)[i] = s[j]
  BY <1>1, SuffixKeeps
<1>3. 1 \in DOMAIN s /\ Head(s) = s[1] /\ Head(s) \in Lines BY HeadTailProperties
<1>4. \A i \in DOMAIN Tail(s) : i + 1 \in DOMAIN s /\ 1 < i + 1 /\ Tail(s)[i] = s[i + 1]
  BY HeadTailProperties
<1>5. QED BY <1>1, <1>2, <1>3, <1>4 DEF NothingAfter

LEMMA AppendLine ==
  ASSUME NEW s \in Seq(Lines), NEW line \in Lines
  PROVE  /\ Append(s, line) \in Seq(Lines) /\ DOMAIN Append(s, line) = 1 .. Len(s) + 1
         /\ DOMAIN s = 1 .. Len(s) /\ Len(s) \in Nat
         /\ \A i \in DOMAIN s : Append(s, line)[i] = s[i]
         /\ Append(s, line)[Len(s) + 1] = line
BY AppendProperties, LenProperties

-----------------------------------------------------------------------------
LEMMA AtInitInv == AtInit => AtInv
BY DEF AtInit, AtInv, AtTypeOK, AnsweredOnce, NothingAfter, Accounted, OwnAlone,
       LinesInPlace, NoAnswer, Asked

(* Between commands: what the drain hands over is accounted for.           *)
LEMMA ExecuteKeeps == ASSUME AtInv, Execute PROVE AtInv'
<1> DEFINE rest == SubSeq(buffer, Drained + 1, Len(buffer))
<1>1. /\ phase = "idle" /\ phase' = "drained" /\ buffer' = rest
      /\ handled' = handled \union ToSet(SubSeq(buffer, 1, Drained))
      /\ due' = (modem # <<>> \/ Len(buffer) > DrainGuard) /\ answer' = NoAnswer
      /\ UNCHANGED <<payload, modem, written, abandoned>>
  BY DEF Execute, DrainPending
<1>2. /\ AtTypeOK /\ AnsweredOnce /\ Accounted /\ LinesInPlace /\ buffer \in Seq(Lines)
  BY DEF AtInv, AtTypeOK
<1>3. /\ rest \in Seq(Lines) /\ NothingAfter(rest, modem)
      /\ \A i \in DOMAIN rest : \E j \in DOMAIN buffer : rest[i] = buffer[j]
  <2>1. NothingAfter(buffer, modem) BY <1>2 DEF AnsweredOnce
  <2>2. rest \in Seq(Lines) /\ Suffix(rest, buffer) BY <1>2, DrainedIsPrefix
  <2> HIDE DEF rest
  <2>3. QED BY <1>2, <2>1, <2>2, SuffixKeeps
<1>4. ~due' => modem = <<>> /\ rest = <<>>
  <2>1. Len(buffer) \in Nat BY <1>2
  <2>2. due' <=> (modem # <<>> \/ Len(buffer) > DrainGuard) BY <1>1
  <2>3. ~due' => modem = <<>> /\ Len(buffer) <= DrainGuard
    BY <2>1, <2>2, GuardIsPositive
  <2>4. QED BY <1>2, <2>3, DrainedIsPrefix
<1>5. \A line \in handled' :
        line \in handled \/ \E i \in DOMAIN buffer : line = buffer[i]
  BY <1>1, <1>2, DrainedIsPrefix
<1> HIDE DEF rest
<1>6. AtTypeOK' BY <1>1, <1>2, <1>3 DEF AtTypeOK, Asked
<1>7. AnsweredOnce' BY <1>1, <1>2, <1>3 DEF AnsweredOnce
<1>8. Accounted' BY <1>1, <1>2, <1>3 DEF Accounted, Current, Asked
<1>9. OwnAlone' BY <1>1, <1>2, <1>4 DEF OwnAlone, AtTypeOK
<1>10. LinesInPlace'
  BY <1>1, <1>2, <1>5 DEF LinesInPlace, NoAnswer, Accounted, Current, Asked, Unsolicited
<1>11. QED BY <1>6, <1>7, <1>8, <1>9, <1>10 DEF AtInv

LEMMA WriteKeeps == ASSUME AtInv, WriteCommand PROVE AtInv'
<1> DEFINE query == [n |-> written + 1, lines |-> 0,
                     at |-> IF Head(left) = "prompt" THEN "prompting" ELSE "answering"]
<1>1. /\ phase = "drained" /\ phase' \in {"prompting", "reading"}
      /\ written' = written + 1 /\ modem' = Append(modem, query)
      /\ UNCHANGED <<buffer, payload, handled, abandoned, due, answer>>
  BY DEF WriteCommand, portVars
<1>2. AtTypeOK /\ AnsweredOnce /\ Accounted /\ OwnAlone /\ LinesInPlace BY DEF AtInv
<1>3. query \in Queries /\ query.n = written + 1 BY <1>2 DEF AtTypeOK, Queries
<1> HIDE DEF query
<1>4. /\ modem' \in Seq(Queries) /\ DOMAIN modem' = 1 .. Len(modem) + 1
      /\ DOMAIN modem = 1 .. Len(modem) /\ Len(modem) \in Nat
      /\ \A i \in DOMAIN modem : modem'[i] = modem[i]
      /\ modem'[Len(modem) + 1] = query
  BY <1>1, <1>2, <1>3, AppendProperties, LenProperties DEF AtTypeOK
<1>5. \A i \in DOMAIN modem' :
        \/ i \in DOMAIN modem /\ modem'[i] = modem[i]
        \/ modem'[i] = query
  BY <1>4
<1>6. payload = <<>> BY <1>1, <1>2 DEF AtTypeOK
<1>7. AtTypeOK'
  <2>1. written \in Nat /\ buffer \in Seq(Lines) BY <1>2 DEF AtTypeOK
  <2>2. \A i \in DOMAIN buffer' :
          buffer'[i].n <= written' /\ (Final(buffer'[i]) => buffer'[i].n > 0)
    <3>1. \A i \in DOMAIN buffer : buffer[i] \in Lines BY <2>1
    <3>2. \A i \in DOMAIN buffer : buffer[i].n \in Nat BY <3>1 DEF Lines
    <3>3. \A i \in DOMAIN buffer :
            buffer[i].n <= written /\ (Final(buffer[i]) => buffer[i].n > 0)
      BY <1>2 DEF AtTypeOK
    <3>4. QED BY <1>1, <2>1, <3>2, <3>3 DEF Final
  <2>3. \A i \in DOMAIN modem' : modem'[i].n \in 1 .. written'
    BY <1>1, <1>2, <1>3, <1>5, <2>1 DEF AtTypeOK
  <2>4. buffer' \in Seq(Lines) /\ payload' = <<>> /\ written' \in Nat /\ written' > 0
    BY <1>1, <1>6, <2>1
  <2>5. QED BY <1>1, <1>4, <2>2, <2>3, <2>4 DEF AtTypeOK
<1>8. AnsweredOnce'
  <2>1. \A i \in DOMAIN modem : modem[i].n # written + 1 BY <1>2 DEF AtTypeOK
  <2>2. \A i, j \in DOMAIN modem' : modem'[i].n = modem'[j].n => i = j
    BY <1>2, <1>3, <1>4, <2>1 DEF AnsweredOnce
  <2>3. \A i \in DOMAIN buffer : buffer[i].n # written + 1
    BY <1>2 DEF AtTypeOK, Lines
  <2>4. NothingAfter(buffer, modem)' BY <1>1, <1>2, <1>3, <1>5, <2>3 DEF AnsweredOnce, NothingAfter
  <2>5. QED BY <2>2, <2>4 DEF AnsweredOnce
<1>9. Accounted' BY <1>1, <1>2, <1>3, <1>5 DEF Accounted, Current, Asked
<1>10. OwnAlone' BY <1>1, <1>2, <1>3, <1>5, <1>6 DEF OwnAlone, Current, Asked
<1>11. LinesInPlace' BY <1>1, <1>2 DEF LinesInPlace
<1>12. QED BY <1>7, <1>8, <1>9, <1>10, <1>11 DEF AtInv

-----------------------------------------------------------------------------
(* Reading.  A line is taken from the buffer, or what is left of it stays  *)
(* as a tail; the command goes on, or ends with its own final result or as *)
(* one given up.                                                           *)
Consumes ==
  /\ Asked /\ phase' \in {"prompting", "reading", "idle"}
  /\ UNCHANGED <<written, due>> /\ abandoned \subseteq abandoned'
  /\ buffer' \in Seq(Lines) /\ NothingAfter(buffer, modem)'
  /\ \A i \in DOMAIN buffer' :
       \/ \E j \in DOMAIN buffer : buffer'[i] = buffer[j]
       \/ phase' = "idle" /\ buffer'[i].what = "tail" /\ buffer'[i].n <= written
  /\ modem' \in Seq(Queries) /\ DOMAIN modem' = DOMAIN modem
  /\ \A i \in DOMAIN modem : modem'[i].n = modem[i].n
  /\ payload' \in Seq(Lines) /\ (phase' # "reading" => payload' = <<>>)
  /\ \A i \in DOMAIN payload' :
       \/ \E j \in DOMAIN payload : payload'[i] = payload[j]
       \/ \E j \in DOMAIN buffer : payload'[i] = buffer[j] /\ buffer[j].what # "urc"
  /\ (phase' = "idle" /\ written \notin abandoned') =>
       /\ \A i \in DOMAIN buffer' : Unsolicited(buffer'[i]) \/ buffer'[i].n # written
       /\ \A k \in DOMAIN modem : modem[k].n # written

LEMMA ConsumesKeeps ==
  ASSUME AtInv, Consumes PROVE (AtTypeOK /\ AnsweredOnce /\ Accounted /\ OwnAlone)'
<1>1. AtTypeOK /\ AnsweredOnce /\ Accounted /\ OwnAlone BY DEF AtInv
<1>2. AtTypeOK'
  <2>1. /\ buffer' \in Seq(Lines) /\ payload' \in Seq(Lines) /\ modem' \in Seq(Queries)
        /\ phase' \in {"idle", "drained", "prompting", "reading"}
        /\ (phase' # "reading" => payload' = <<>>)
    BY DEF Consumes
  <2>2. written' \in Nat /\ (Asked' => written' > 0)
    BY <1>1 DEF Consumes, AtTypeOK
  <2>3. \A i \in DOMAIN buffer' :
          buffer'[i].n <= written' /\ (Final(buffer'[i]) => buffer'[i].n > 0)
    BY <1>1 DEF Consumes, AtTypeOK, Final
  <2>4. \A i \in DOMAIN modem' : modem'[i].n \in 1 .. written'
    BY <1>1 DEF Consumes, AtTypeOK
  <2>5. QED BY <2>1, <2>2, <2>3, <2>4 DEF AtTypeOK
<1>3. AnsweredOnce' BY <1>1 DEF Consumes, AnsweredOnce
<1>4. Accounted'
  <2>1. \A i \in DOMAIN buffer' :
          Unsolicited(buffer'[i]) \/ buffer'[i].n \in abandoned' \/ buffer'[i].n = written
    BY <1>1 DEF Consumes, Accounted, Current, Unsolicited
  <2>2. \A i \in DOMAIN modem' : modem'[i].n \in abandoned' \/ modem'[i].n = written
    BY <1>1 DEF Consumes, Accounted, Current
  <2>3. CASE phase' = "idle"
    BY <2>1, <2>2, <2>3 DEF Consumes, Accounted, Current
  <2>4. CASE phase' # "idle"
    BY <2>1, <2>2, <2>4 DEF Consumes, Accounted, Current, Asked
  <2>5. QED BY <2>3, <2>4
<1>5. OwnAlone'
  <2> SUFFICES ASSUME phase' # "idle", ~due'
               PROVE  /\ \A i \in DOMAIN buffer' :
                           \/ buffer'[i].what \in {"urc", "registration"}
                           \/ Current(buffer[i].n)'
                      /\ \A i \in DOMAIN modem' : Current(modem[i].n)'
                      /\ \A i \in DOMAIN payload' :
                           payload'[i].what = "registration" \/ payload'[i].n = written'
    BY DEF OwnAlone
  <2>1. phase # "idle" /\ ~due /\ Asked' /\ Asked /\ written' = written
    BY DEF Consumes, Asked
  <2>2. /\ \A i \in DOMAIN buffer :
             buffer[i].what \in {"urc", "registration"} \/ buffer[i].n = written
        /\ \A i \in DOMAIN modem : modem[i].n = written
        /\ \A i \in DOMAIN payload :
             payload[i].what = "registration" \/ payload[i].n = written
    BY <1>1, <2>1 DEF OwnAlone, Current
  <2>3. QED BY <2>1, <2>2 DEF Consumes, Current
<1>6. QED BY <1>2, <1>3, <1>4, <1>5

(* The line the channel looks at, and what is behind it.                   *)
LEMMA NextLine ==
  ASSUME AtInv, buffer # <<>>
  PROVE  LET line == Head(buffer) rest == Tail(buffer) IN
         /\ line \in Lines /\ (\E j \in DOMAIN buffer : line = buffer[j])
         /\ line.n <= written
         /\ rest \in Seq(Lines) /\ NothingAfter(rest, modem)
         /\ \A i \in DOMAIN rest : \E j \in DOMAIN buffer : rest[i] = buffer[j]
         /\ Final(line) =>
              /\ \A i \in DOMAIN rest : rest[i].n # line.n
              /\ \A k \in DOMAIN modem : modem[k].n # line.n
<1>1. buffer \in Seq(Lines) /\ NothingAfter(buffer, modem)
  BY DEF AtInv, AtTypeOK, AnsweredOnce
<1>2. \A i \in DOMAIN buffer : buffer[i].n <= written BY DEF AtInv, AtTypeOK
<1>3. QED BY <1>1, <1>2, HeadOfBuffer

LEMMA ReadKeeps == ASSUME AtInv, ReadResponse PROVE AtInv'
<1> DEFINE line == Head(buffer)
           rest == Tail(buffer)
<1>1. /\ phase = "reading" /\ buffer # <<>>
      /\ UNCHANGED <<modem, written, due>>
  BY DEF ReadResponse
<1>2. /\ line \in Lines /\ rest \in Seq(Lines) /\ NothingAfter(rest, modem)
      /\ \E j \in DOMAIN buffer : line = buffer[j]
      /\ \A i \in DOMAIN rest : \E j \in DOMAIN buffer : rest[i] = buffer[j]
      /\ Final(line) =>
           /\ \A i \in DOMAIN rest : rest[i].n # line.n
           /\ \A k \in DOMAIN modem : modem[k].n # line.n
  BY <1>1, NextLine
<1>3. /\ AtTypeOK /\ OwnAlone /\ LinesInPlace /\ payload \in Seq(Lines)
      /\ modem \in Seq(Queries)
  BY DEF AtInv, AtTypeOK
<1>4. Asked BY <1>1 DEF Asked
<1>5. CASE line.what \in {"ok", "error"}
  <2>1. /\ phase' = "idle" /\ payload' = <<>> /\ EndedBy(line) /\ Keep(rest)
        /\ handled' = handled
        /\ \/ answer' = answer
           \/ answer' = [n |-> written, lines |-> Append(payload, line), due |-> due]
    BY <1>5 DEF ReadResponse, EndCommand, Asynchronous
  <2>2. buffer' = rest \/ buffer' = <<>> BY <2>1 DEF Keep, Close
  <2>3. abandoned \subseteq abandoned' /\ (written \notin abandoned' => line.n = written)
    BY <2>1 DEF EndedBy
  <2> HIDE DEF line, rest
  <2>4. /\ buffer' \in Seq(Lines) /\ NothingAfter(buffer', modem)
        /\ \A i \in DOMAIN buffer' : \E j \in DOMAIN buffer : buffer'[i] = buffer[j]
        /\ \A i \in DOMAIN buffer' : buffer'[i].n # line.n
    <3>1. Final(line) BY <1>5 DEF Final
    <3>2. CASE buffer' = rest BY <1>2, <3>1, <3>2
    <3>3. CASE buffer' = <<>> BY <3>3 DEF NothingAfter
    <3>4. QED BY <2>2, <3>2, <3>3
  <2>5. Consumes
    <3>1. written \notin abandoned' =>
            /\ \A i \in DOMAIN buffer' : buffer'[i].n # written
            /\ \A k \in DOMAIN modem : modem[k].n # written
      BY <1>2, <1>5, <2>3, <2>4 DEF Final
    <3>2. /\ payload' \in Seq(Lines) /\ \A i \in DOMAIN payload' : FALSE
          /\ modem' \in Seq(Queries)
      BY <1>1, <1>3, <2>1
    <3>3. NothingAfter(buffer, modem)' BY <1>1, <2>4
    <3>4. QED BY <1>1, <1>4, <2>1, <2>3, <2>4, <3>1, <3>2, <3>3 DEF Consumes
  <2>6. LinesInPlace'
    <3>1. CASE answer' = answer BY <1>3, <2>1, <2>3, <3>1 DEF LinesInPlace
    <3>2. CASE answer' = [n |-> written, lines |-> Append(payload, line), due |-> due]
      <4>1. ~due => line.what = "registration" \/ line.n = written
        BY <1>1, <1>2, <1>3, <1>5 DEF OwnAlone, Current
      <4>2. ~due => \A i \in DOMAIN payload :
                      payload[i].what = "registration" \/ payload[i].n = written
        BY <1>1, <1>3 DEF OwnAlone
      <4>3. \A i \in DOMAIN Append(payload, line) :
              \/ i \in DOMAIN payload /\ Append(payload, line)[i] = payload[i]
              \/ Append(payload, line)[i] = line
        BY <1>2, <1>3, AppendLine
      <4>4. QED BY <1>3, <2>1, <2>3, <3>2, <4>1, <4>2, <4>3 DEF LinesInPlace
    <3>3. QED BY <2>1, <3>1, <3>2
  <2>7. QED BY <2>5, <2>6, ConsumesKeeps DEF AtInv
<1>6. CASE line.what \notin {"ok", "error"}
  <2>1. /\ UNCHANGED <<phase, abandoned, answer>> /\ buffer' = rest
        /\ \/ /\ line.what = "urc" /\ handled' = handled \union {line}
              /\ payload' = payload
           \/ /\ line.what # "urc" /\ handled' = handled
              /\ payload' = Append(payload, line)
    BY <1>6 DEF ReadResponse, Asynchronous, callVars
  <2> HIDE DEF line, rest
  <2>2. Consumes
    <3>1. CASE payload' = payload
      BY <1>1, <1>2, <1>3, <1>4, <2>1, <3>1 DEF Consumes
    <3>2. CASE line.what # "urc" /\ payload' = Append(payload, line)
      <4>1. /\ payload' \in Seq(Lines)
            /\ \A i \in DOMAIN payload' :
                 \/ i \in DOMAIN payload /\ payload'[i] = payload[i]
                 \/ payload'[i] = line
        BY <1>2, <1>3, <3>2, AppendLine
      <4>2. QED BY <1>1, <1>2, <1>3, <1>4, <2>1, <3>2, <4>1 DEF Consumes
    <3>3. QED BY <2>1, <3>1, <3>2
  <2>3. LinesInPlace' BY <1>3, <2>1 DEF LinesInPlace
  <2>4. QED BY <2>2, <2>3, ConsumesKeeps DEF AtInv
<1>7. QED BY <1>5, <1>6

LEMMA PromptKeeps == ASSUME AtInv, WaitForPrompt PROVE AtInv'
<1> DEFINE line == Head(buffer)
           rest == Tail(buffer)
           tail == Line("tail", line.n)
<1>1. /\ phase = "prompting" /\ buffer # <<>>
      /\ UNCHANGED <<handled, written, due, answer>>
  BY DEF WaitForPrompt
<1>2. /\ line \in Lines /\ rest \in Seq(Lines) /\ NothingAfter(rest, modem)
      /\ line.n <= written
      /\ \A i \in DOMAIN rest : \E j \in DOMAIN buffer : rest[i] = buffer[j]
      /\ Final(line) =>
           /\ \A i \in DOMAIN rest : rest[i].n # line.n
           /\ \A k \in DOMAIN modem : modem[k].n # line.n
  BY <1>1, NextLine
<1>3. /\ AtTypeOK /\ LinesInPlace /\ payload = <<>> /\ modem \in Seq(Queries)
  BY <1>1 DEF AtInv, AtTypeOK
<1>4. Asked /\ \A i \in DOMAIN <<>> : FALSE BY <1>1 DEF Asked
<1>5. CASE line.what = "error"
  <2>1. /\ phase' = "idle" /\ payload' = <<>> /\ EndedBy(line) /\ modem' = modem
        /\ buffer' = <<tail>> \o rest
    BY <1>5 DEF WaitForPrompt, EndCommand
  <2>2. abandoned \subseteq abandoned' /\ (written \notin abandoned' => line.n = written)
    BY <2>1 DEF EndedBy
  <2>3. tail \in Lines /\ tail.what = "tail" /\ tail.n = line.n /\ ~Final(tail)
    BY <1>2 DEF Lines, Line, Sorts, Final
  <2> HIDE DEF line, rest, tail
  <2>4. /\ buffer' \in Seq(Lines) /\ Len(rest) \in Nat
        /\ DOMAIN buffer' = 1 .. Len(rest) + 1 /\ DOMAIN rest = 1 .. Len(rest)
        /\ buffer'[1] = tail /\ \A i \in DOMAIN rest : buffer'[i + 1] = rest[i]
    <3>1. <<tail>> \in Seq(Lines) /\ Len(<<tail>>) = 1 /\ <<tail>>[1] = tail BY <2>3
    <3>2. /\ buffer' \in Seq(Lines) /\ Len(buffer') = 1 + Len(rest)
          /\ \A i \in 1 .. 1 + Len(rest) :
               buffer'[i] = IF i <= 1 THEN <<tail>>[i] ELSE rest[i - 1]
      BY <1>2, <2>1, <3>1, ConcatProperties
    <3>3. /\ Len(rest) \in Nat /\ DOMAIN rest = 1 .. Len(rest)
          /\ DOMAIN buffer' = 1 .. Len(buffer')
      BY <1>2, <3>2, LenProperties
    <3>4. QED BY <3>1, <3>2, <3>3
  <2>5. \A i \in DOMAIN buffer' :
          \/ i = 1 /\ buffer'[i] = tail
          \/ i - 1 \in DOMAIN rest /\ buffer'[i] = rest[i - 1]
    <3>1. ASSUME NEW i \in DOMAIN buffer', i # 1
          PROVE  i - 1 \in DOMAIN rest /\ buffer'[i] = rest[i - 1]
      <4>1. i \in Int /\ i - 1 \in DOMAIN rest /\ (i - 1) + 1 = i BY <2>4, <3>1
      <4>2. QED BY <2>4, <4>1
    <3>2. QED BY <2>4, <3>1
  <2>6. NothingAfter(buffer', modem)
    <3> SUFFICES ASSUME NEW i \in DOMAIN buffer', Final(buffer'[i])
                 PROVE  /\ \A j \in DOMAIN buffer' : i < j => buffer'[j].n # buffer'[i].n
                        /\ \A k \in DOMAIN modem : modem[k].n # buffer'[i].n
      BY DEF NothingAfter
    <3>1. i - 1 \in DOMAIN rest /\ buffer'[i] = rest[i - 1] BY <2>3, <2>5
    <3>2. \A j \in DOMAIN buffer' :
            i < j => j - 1 \in DOMAIN rest /\ i - 1 < j - 1 /\ buffer'[j] = rest[j - 1]
      BY <2>4, <2>5, <3>1
    <3>3. QED BY <1>2, <3>1, <3>2 DEF NothingAfter
  <2>7. Consumes
    <3>1. written \notin abandoned' =>
            /\ \A i \in DOMAIN buffer' : Unsolicited(buffer'[i]) \/ buffer'[i].n # written
            /\ \A k \in DOMAIN modem : modem[k].n # written
      <4>1. Final(line) BY <1>5 DEF Final
      <4>2. Unsolicited(tail) BY <2>3 DEF Unsolicited
      <4>3. QED BY <1>2, <2>2, <2>5, <4>1, <4>2
    <3>2. \A i \in DOMAIN buffer' :
            \/ \E j \in DOMAIN buffer : buffer'[i] = buffer[j]
            \/ buffer'[i].what = "tail" /\ buffer'[i].n <= written
      BY <1>2, <2>3, <2>5
    <3>3. NothingAfter(buffer, modem)' /\ modem' \in Seq(Queries) /\ payload' \in Seq(Lines)
      BY <1>3, <2>1, <2>6
    <3>4. \A i \in DOMAIN payload' : FALSE BY <2>1
    <3>5. QED BY <1>1, <1>4, <2>1, <2>2, <2>4, <3>1, <3>2, <3>3, <3>4 DEF Consumes
  <2>8. LinesInPlace' BY <1>1, <1>3, <2>2 DEF LinesInPlace
  <2>9. QED BY <2>7, <2>8, ConsumesKeeps DEF AtInv
<1>6. CASE line.what # "error"
  <2>1. /\ buffer' = rest /\ UNCHANGED <<payload, abandoned>>
        /\ phase' \in {"prompting", "reading"}
        /\ \/ modem' = modem
           \/ modem' = [i \in DOMAIN modem |->
                IF modem[i].n = line.n THEN [modem[i] EXCEPT !.at = "answering"]
                                       ELSE modem[i]]
    BY <1>1, <1>6 DEF WaitForPrompt, callVars
  <2> HIDE DEF line, rest, tail
  <2>2. /\ modem' \in Seq(Queries) /\ DOMAIN modem' = DOMAIN modem
        /\ \A i \in DOMAIN modem : modem'[i].n = modem[i].n
    <3>1. \A i \in DOMAIN modem :
            /\ modem[i] \in Queries
            /\ [modem[i] EXCEPT !.at = "answering"] \in Queries
            /\ [modem[i] EXCEPT !.at = "answering"].n = modem[i].n
      <4>1. \A i \in DOMAIN modem : modem[i] \in Queries BY <1>3
      <4>2. QED BY <4>1 DEF Queries
    <3>2. CASE modem' = modem BY <1>3, <3>2
    <3>3. CASE modem' # modem
      <4>1. /\ DOMAIN modem' = DOMAIN modem
            /\ \A i \in DOMAIN modem : modem'[i] \in Queries /\ modem'[i].n = modem[i].n
        BY <2>1, <3>1, <3>3
      <4>2. modem' \in [1 .. Len(modem) -> Queries] /\ Len(modem) \in Nat
        BY <1>3, <2>1, <3>1, <3>3, LenProperties
      <4>3. QED BY <4>1, <4>2, SeqDef
    <3>4. QED BY <3>2, <3>3
  <2>3. NothingAfter(buffer, modem)' BY <1>2, <2>1, <2>2 DEF NothingAfter
  <2>4. \A i \in DOMAIN payload' : FALSE BY <1>3, <2>1
  <2>5. Consumes BY <1>1, <1>2, <1>3, <1>4, <2>1, <2>2, <2>3, <2>4 DEF Consumes
  <2>6. LinesInPlace' BY <1>1, <1>3, <2>1 DEF LinesInPlace
  <2>7. QED BY <2>5, <2>6, ConsumesKeeps DEF AtInv
<1>7. QED BY <1>5, <1>6

(* Giving up closes the port, which discards what was not read.            *)
LEMMA GiveUpKeeps == ASSUME AtInv, GiveUp PROVE AtInv'
<1>1. /\ phase # "idle" /\ phase' = "idle" /\ buffer' = <<>> /\ payload' = <<>>
      /\ UNCHANGED <<modem, handled, written, due, answer>>
      /\ abandoned \subseteq abandoned' /\ (phase # "drained" => written \in abandoned')
  BY DEF GiveUp, Close, EndCommand
<1>2. AtTypeOK /\ AnsweredOnce /\ Accounted /\ LinesInPlace BY DEF AtInv
<1>3. AtTypeOK' BY <1>1, <1>2 DEF AtTypeOK, Asked
<1>4. AnsweredOnce' BY <1>1, <1>2 DEF AnsweredOnce, NothingAfter
<1>5. Accounted' BY <1>1, <1>2 DEF Accounted, Current, Asked
<1>6. OwnAlone' BY <1>1 DEF OwnAlone
<1>7. LinesInPlace' BY <1>1, <1>2 DEF LinesInPlace
<1>8. QED BY <1>3, <1>4, <1>5, <1>6, <1>7 DEF AtInv

(* Steps that leave the port, the call and the modem alone.                *)
LEMMA AsideKeeps ==
  ASSUME AtInv, BeginOperation \/ CannotOpen \/ PollEvents \/ UNCHANGED atVars
  PROVE  AtInv'
<1>1. AtTypeOK /\ AnsweredOnce /\ Accounted /\ OwnAlone /\ LinesInPlace BY DEF AtInv
<1>2. CASE BeginOperation \/ CannotOpen \/ UNCHANGED atVars
  <2>1. UNCHANGED <<buffer, phase, payload, modem, handled, written, abandoned, due, answer>>
    BY <1>1, <1>2 DEF BeginOperation, CannotOpen, EndCommand, atVars, portVars, callVars,
                      AtTypeOK
  <2>2. AtTypeOK' /\ AnsweredOnce' BY <1>1, <2>1 DEF AtTypeOK, AnsweredOnce, Asked
  <2>3. Accounted' /\ OwnAlone' /\ LinesInPlace'
    BY <1>1, <2>1 DEF Accounted, OwnAlone, Current, Asked, LinesInPlace
  <2>4. QED BY <2>2, <2>3 DEF AtInv
<1>3. CASE PollEvents
  <2>1. /\ phase = "idle" /\ handled' = {}
        /\ (buffer' = buffer \/ buffer' = SubSeq(buffer, Drained + 1, Len(buffer)))
        /\ UNCHANGED <<phase, payload, modem, written, abandoned, due, answer>>
    BY <1>3 DEF PollEvents, callVars
  <2>2. buffer \in Seq(Lines) /\ NothingAfter(buffer, modem)
    BY <1>1 DEF AtTypeOK, AnsweredOnce
  <2>3. /\ buffer' \in Seq(Lines) /\ NothingAfter(buffer', modem)
        /\ \A i \in DOMAIN buffer' : \E j \in DOMAIN buffer : buffer'[i] = buffer[j]
    <3>1. CASE buffer' = buffer BY <2>2, <3>1
    <3>2. CASE buffer' = SubSeq(buffer, Drained + 1, Len(buffer))
      <4>1. buffer' \in Seq(Lines) /\ Suffix(buffer', buffer)
        BY <1>1, <3>2, DrainedIsPrefix
      <4>2. QED BY <2>2, <4>1, SuffixKeeps
    <3>3. QED BY <2>1, <3>1, <3>2
  <2>4. AtTypeOK' BY <1>1, <2>1, <2>3 DEF AtTypeOK, Asked
  <2>5. AnsweredOnce' /\ Accounted' /\ OwnAlone' /\ LinesInPlace'
    BY <1>1, <2>1, <2>3
    DEF AnsweredOnce, Accounted, OwnAlone, Current, Asked, LinesInPlace
  <2>6. QED BY <2>4, <2>5 DEF AtInv
<1>4. QED BY <1>2, <1>3

-----------------------------------------------------------------------------
(* The modem sends a line about the command it is at, which the buffer may *)
(* be too late for, or one about none.                                     *)
Sent(line) ==
  /\ line \in Lines /\ line.n <= written
  /\ UNCHANGED <<phase, payload, handled, written, abandoned, due, answer>>
  /\ (buffer' = Append(buffer, line) \/ buffer' = buffer)
  /\ modem' \in Seq(Queries)
  /\ \A i, j \in DOMAIN modem' : modem'[i].n = modem'[j].n => i = j
  /\ \A i \in DOMAIN modem' : \E j \in DOMAIN modem : modem'[i].n = modem[j].n
  /\ \/ line.what \in {"urc", "registration"} /\ line.n = 0
     \/ /\ \E j \in DOMAIN modem : modem[j].n = line.n
        /\ Final(line) => \A i \in DOMAIN modem' : modem'[i].n # line.n

LEMMA SentKeeps == ASSUME AtInv, NEW line, Sent(line) PROVE AtInv'
<1>1. /\ AtTypeOK /\ AnsweredOnce /\ Accounted /\ OwnAlone /\ LinesInPlace
      /\ buffer \in Seq(Lines) /\ line \in Lines
  BY DEF AtInv, AtTypeOK, Sent
<1>2. /\ buffer' \in Seq(Lines) /\ DOMAIN buffer \subseteq DOMAIN buffer'
      /\ DOMAIN buffer \subseteq Int
      /\ \A i \in DOMAIN buffer : buffer'[i] = buffer[i]
      /\ \A i \in DOMAIN buffer' :
           i \in DOMAIN buffer \/ (buffer'[i] = line /\ \A j \in DOMAIN buffer : j < i)
      /\ \A i, j \in DOMAIN buffer' : i < j => i \in DOMAIN buffer
  <2>1. CASE buffer' = Append(buffer, line) BY <1>1, <2>1, AppendLine
  <2>2. CASE buffer' = buffer BY <1>1, <2>2
  <2>3. QED BY <2>1, <2>2 DEF Sent
<1>3. \A i \in DOMAIN modem : modem[i].n \in 1 .. written BY <1>1 DEF AtTypeOK
<1>4. Final(line) => line.n > 0 BY <1>3 DEF Sent, Final
<1>5. AtTypeOK'
  <2>1. \A i \in DOMAIN buffer' :
          buffer'[i].n <= written' /\ (Final(buffer'[i]) => buffer'[i].n > 0)
    BY <1>1, <1>2, <1>4 DEF AtTypeOK, Sent, Final
  <2>2. \A i \in DOMAIN modem' : modem'[i].n \in 1 .. written' BY <1>3 DEF Sent
  <2>3. QED BY <1>1, <1>2, <2>1, <2>2 DEF AtTypeOK, Sent, Asked
<1>6. NothingAfter(buffer, modem)'
  <2> SUFFICES ASSUME NEW i \in DOMAIN buffer', Final(buffer'[i])
               PROVE  /\ \A j \in DOMAIN buffer' : i < j => buffer'[j].n # buffer'[i].n
                      /\ \A k \in DOMAIN modem' : modem'[k].n # buffer'[i].n
    BY DEF NothingAfter
  <2>1. CASE i \in DOMAIN buffer
    <3>1. /\ \A j \in DOMAIN buffer : i < j => buffer[j].n # buffer[i].n
          /\ \A k \in DOMAIN modem : modem[k].n # buffer[i].n
          /\ buffer[i].n > 0 /\ buffer'[i] = buffer[i]
      BY <1>1, <1>2, <2>1 DEF AnsweredOnce, NothingAfter, AtTypeOK
    <3>2. \A k \in DOMAIN modem' : modem'[k].n # buffer[i].n BY <3>1 DEF Sent
    <3>3. line.n # buffer[i].n BY <3>1 DEF Sent
    <3>4. \A j \in DOMAIN buffer' : j \in DOMAIN buffer \/ buffer'[j] = line BY <1>2
    <3>5. QED BY <1>2, <3>1, <3>2, <3>3, <3>4
  <2>2. CASE i \notin DOMAIN buffer
    <3>1. buffer'[i] = line /\ \A j \in DOMAIN buffer' : ~(i < j) BY <1>2, <2>2
    <3>2. QED BY <3>1 DEF Sent, Final
  <2>3. QED BY <2>1, <2>2
<1>7. AnsweredOnce' BY <1>6 DEF AnsweredOnce, Sent
<1>8. \A i \in DOMAIN buffer' :
        \/ i \in DOMAIN buffer /\ buffer'[i] = buffer[i]
        \/ buffer'[i] = line
  BY <1>2
<1>9. Accounted'
  <2>1. Unsolicited(line) \/ line.n \in abandoned \/ Current(line.n)
    BY <1>1 DEF Sent, Accounted, Unsolicited
  <2>2. \A i \in DOMAIN modem' : modem'[i].n \in abandoned \/ Current(modem'[i].n)
    BY <1>1 DEF Sent, Accounted
  <2>3. QED BY <1>1, <1>8, <2>1, <2>2 DEF Sent, Accounted, Current, Asked
<1>10. OwnAlone'
  <2> SUFFICES ASSUME phase # "idle", ~due PROVE OwnAlone' BY DEF OwnAlone, Sent
  <2>1. line.what \in {"urc", "registration"} \/ Current(line.n)
    BY <1>1 DEF Sent, OwnAlone
  <2>2. \A i \in DOMAIN modem' : Current(modem'[i].n) BY <1>1 DEF Sent, OwnAlone
  <2>3. QED BY <1>1, <1>8, <2>1, <2>2 DEF Sent, OwnAlone, Current, Asked
<1>11. LinesInPlace' BY <1>1 DEF Sent, LinesInPlace
<1>12. QED BY <1>5, <1>7, <1>9, <1>10, <1>11 DEF AtInv

(* The modem goes through its commands in order.                           *)
LEMMA FrontOfModem ==
  ASSUME AtInv, modem # <<>>
  PROVE  /\ modem \in Seq(Queries) /\ 1 \in DOMAIN modem /\ Head(modem) = modem[1]
         /\ Head(modem).n \in 1 .. written /\ Tail(modem) \in Seq(Queries)
         /\ \A i, j \in DOMAIN Tail(modem) : Tail(modem)[i].n = Tail(modem)[j].n => i = j
         /\ \A i \in DOMAIN Tail(modem) : /\ Tail(modem)[i].n # Head(modem).n
                                          /\ \E j \in DOMAIN modem : Tail(modem)[i] = modem[j]
<1>1. /\ modem \in Seq(Queries) /\ \A i \in DOMAIN modem : modem[i].n \in 1 .. written
      /\ \A i, j \in DOMAIN modem : modem[i].n = modem[j].n => i = j
  BY DEF AtInv, AtTypeOK, AnsweredOnce
<1>2. 1 \in DOMAIN modem /\ Head(modem) = modem[1] /\ Tail(modem) \in Seq(Queries)
  BY <1>1, HeadTailProperties
<1>3. \A i \in DOMAIN Tail(modem) :
        i \in Nat /\ i > 0 /\ i + 1 \in DOMAIN modem /\ Tail(modem)[i] = modem[i + 1]
  BY <1>1, HeadTailProperties
<1>4. \A i \in DOMAIN Tail(modem) : Tail(modem)[i].n # Head(modem).n
  <2>1. \A i \in DOMAIN Tail(modem) : i + 1 # 1 BY <1>3
  <2>2. QED BY <1>1, <1>2, <1>3, <2>1
<1>5. ASSUME NEW i \in DOMAIN Tail(modem), NEW j \in DOMAIN Tail(modem),
             Tail(modem)[i].n = Tail(modem)[j].n
      PROVE  i = j
  <2>1. i + 1 = j + 1 BY <1>1, <1>3, <1>5
  <2>2. QED BY <1>3, <2>1
<1>6. QED BY <1>1, <1>2, <1>3, <1>4, <1>5

LEMMA AnswerKeeps == ASSUME AtInv, SendsAnswer PROVE AtInv'
<1> DEFINE c == Head(modem)
<1>1. modem # <<>> /\ UNCHANGED <<phase, payload, handled, written, abandoned, due, answer>>
  BY DEF SendsAnswer, callVars
<1>2. /\ modem \in Seq(Queries) /\ 1 \in DOMAIN modem /\ c = modem[1]
      /\ c.n \in 1 .. written /\ Tail(modem) \in Seq(Queries)
      /\ \A i, j \in DOMAIN Tail(modem) : Tail(modem)[i].n = Tail(modem)[j].n => i = j
      /\ \A i \in DOMAIN Tail(modem) : /\ Tail(modem)[i].n # c.n
                                       /\ \E j \in DOMAIN modem : Tail(modem)[i] = modem[j]
      /\ \A i, j \in DOMAIN modem : modem[i].n = modem[j].n => i = j
      /\ written \in Nat
  BY <1>1, FrontOfModem DEF AtInv, AnsweredOnce, AtTypeOK
<1>3. \A what \in Sorts : /\ Line(what, c.n) \in Lines /\ Line(what, c.n).n = c.n
                          /\ Line(what, c.n).what = what
  BY <1>2 DEF Line, Lines
<1>4. PICK what \in {"prompt", "data", "ok", "error"} :
        /\ buffer' = Append(buffer, Line(what, c.n)) \/ buffer' = buffer
        /\ \/ modem' = Tail(modem)
           \/ /\ what \in {"prompt", "data"}
              /\ \/ modem' = [modem EXCEPT ![1].at = "prompted"]
                 \/ modem' = [modem EXCEPT ![1].lines = @ + 1]
  BY DEF SendsAnswer, Sends, Answered
<1> HIDE DEF c
<1>5. CASE modem' = Tail(modem)
  <2>1. Sent(Line(what, c.n))
    BY <1>1, <1>2, <1>3, <1>4, <1>5 DEF Sent, Sorts
  <2>2. QED BY <2>1, SentKeeps
<1>6. CASE modem' # Tail(modem)
  <2>1. /\ modem' \in Seq(Queries) /\ DOMAIN modem' = DOMAIN modem
        /\ \A i \in DOMAIN modem : modem'[i].n = modem[i].n
    <3>1. modem[1] \in Queries /\ 1 \in 1 .. Len(modem) BY <1>2, LenProperties
    <3>2. /\ [modem[1] EXCEPT !.at = "prompted"] \in Queries
          /\ [modem[1] EXCEPT !.at = "prompted"].n = modem[1].n
          /\ [modem[1] EXCEPT !.lines = @ + 1] \in Queries
          /\ [modem[1] EXCEPT !.lines = @ + 1].n = modem[1].n
      BY <3>1 DEF Queries
    <3>3. PICK q \in Queries : q.n = modem[1].n /\ modem' = [modem EXCEPT ![1] = q]
      BY <1>4, <1>6, <3>2
    <3>4. QED BY <1>2, <3>1, <3>3, ExceptSeq, LenProperties
  <2>2. Sent(Line(what, c.n))
    BY <1>1, <1>2, <1>3, <1>4, <1>6, <2>1 DEF Sent, Sorts, Final
  <2>3. QED BY <2>2, SentKeeps
<1>7. QED BY <1>5, <1>6

LEMMA UrcKeeps == ASSUME AtInv, SendsUrc PROVE AtInv'
<1>1. PICK what \in {"urc", "registration"} : Sends(Line(what, 0)) BY DEF SendsUrc
<1>2. /\ Line(what, 0) \in Lines /\ Line(what, 0).n = 0 /\ Line(what, 0).what = what
  BY DEF Line, Lines, Sorts
<1>3. /\ UNCHANGED <<phase, payload, modem, handled, written, abandoned, due, answer>>
      /\ modem \in Seq(Queries) /\ written \in Nat
      /\ \A i, j \in DOMAIN modem : modem[i].n = modem[j].n => i = j
  BY DEF SendsUrc, callVars, AtInv, AtTypeOK, AnsweredOnce
<1>4. Sent(Line(what, 0)) BY <1>1, <1>2, <1>3 DEF Sent, Sends
<1>5. QED BY <1>4, SentKeeps

(* Every line read gets where it belongs: to the answer of its command, or *)
(* to the handler of what nobody asked for.                                *)
THEOREM PortLinesInPlace == AtSpec => []LinesInPlace
<1>1. AtInv /\ [AtNext]_atVars => AtInv'
  <2> SUFFICES ASSUME AtInv, [AtNext]_atVars PROVE AtInv' OBVIOUS
  <2>1. QED
    BY ExecuteKeeps, WriteKeeps, PromptKeeps, ReadKeeps, GiveUpKeeps, AsideKeeps,
       AnswerKeeps, UrcKeeps
    DEF AtNext
<1>2. AtInv => LinesInPlace BY DEF AtInv
<1>3. QED BY <1>1, <1>2, AtInitInv, PTL DEF AtSpec
-----------------------------------------------------------------------------
(* match_profile has a best candidate to choose: of any set of candidates  *)
(* some are least by one part of the rank, and of these some by the next.  *)
LEMMA LeastBy ==
  ASSUME NEW C, C # {}, NEW f \in [C -> Int], NEW low \in Int, \A c \in C : low <= f[c]
  PROVE  \E c \in C : \A d \in C : f[c] <= f[d]
<1> DEFINE N == {f[c] - low : c \in C}
           Upto(k) == N \intersect (0 .. k)
           T == {Upto(k) : k \in N}
           R == StrictSubsetOrdering(N)
<1>1. N \in SUBSET Nat /\ N # {} OBVIOUS
<1>2. \A c \in C : f[c] - low \in N OBVIOUS
<1> HIDE DEF N
<1>3. T \subseteq FiniteSubsetsOf(N)
  <2>1. \A k \in N : Upto(k) \in SUBSET (0 .. k) /\ IsFiniteSet(0 .. k)
    BY <1>1, FS_Interval
  <2>2. \A k \in N : IsFiniteSet(Upto(k)) BY <2>1, FS_Subset
  <2>3. QED BY <2>2 DEF FiniteSubsetsOf
<1>4. \E x \in T : \A y \in T : <<y, x>> \notin R
  <2>1. IsWellFoundedOn(R, FiniteSubsetsOf(N)) BY FS_StrictSubsetOrderingWellFounded
  <2>2. T # {} BY <1>1
  <2> HIDE DEF T, R
  <2>3. QED BY <1>3, <2>1, <2>2, WFMin
<1>5. PICK k \in N : \A j \in N : <<Upto(j), Upto(k)>> \notin R BY <1>4
<1>6. ASSUME NEW j \in N PROVE k <= j
  <2>1. ASSUME j < k PROVE FALSE
    <3>1. Upto(j) \subseteq Upto(k) /\ k \in Upto(k) /\ k \notin Upto(j) BY <1>1, <2>1
    <3>2. <<Upto(j), Upto(k)>> \in R BY <3>1 DEF StrictSubsetOrdering
    <3>3. QED BY <1>5, <3>2
  <2>2. QED BY <1>1, <2>1
<1>7. PICK c \in C : k = f[c] - low BY DEF N
<1>8. ASSUME NEW d \in C PROVE f[c] <= f[d]
  <2>1. f[c] - low <= f[d] - low BY <1>2, <1>6, <1>7
  <2>2. f[c] \in Int /\ f[d] \in Int OBVIOUS
  <2>3. QED BY <2>1, <2>2
<1>9. QED BY <1>8

LEMMA CandidateRank ==
  ASSUME NEW library \in Libraries, NEW sim \in Iccids, NEW c \in Candidates(sim, library)
  PROVE  /\ c.profile \in library
         /\ DOMAIN Rank(c) = 1 .. 4
         /\ \A i \in 1 .. 4 : Rank(c)[i] \in Int /\ -Len(sim) <= Rank(c)[i]
<1>1. PICK p \in library : \E m \in p.patterns :
        PatternMatch(sim, m) /\ c = [profile |-> p, pattern |-> m]
  BY DEF Candidates
<1>2. PICK m \in p.patterns : PatternMatch(sim, m) /\ c = [profile |-> p, pattern |-> m]
  BY <1>1
<1>3. /\ p.name \in Nat /\ p.priority \in Nat
      /\ m.digits \in Seq(0 .. 9) /\ m.star \in BOOLEAN /\ sim \in Seq(0 .. 9)
  BY PdpConstants
<1>4. Len(m.digits) \in Nat /\ Len(sim) \in Nat /\ Len(m.digits) <= Len(sim)
  <2>1. CASE m.star BY <1>2, <1>3, <2>1 DEF PatternMatch, IsPrefix
  <2>2. CASE ~m.star BY <1>2, <1>3, <2>2 DEF PatternMatch
  <2>3. QED BY <2>1, <2>2
<1>5. Rank(c) = <<IF m.star THEN 1 ELSE 0, -Len(m.digits), p.priority, p.name>>
  BY <1>2 DEF Rank
<1>6. QED BY <1>2, <1>3, <1>4, <1>5

LEMMA BestCandidate ==
  ASSUME NEW library \in Libraries, NEW sim \in Iccids, Candidates(sim, library) # {}
  PROVE  \E c \in Candidates(sim, library) :
           /\ MatchProfile(sim, library) = c.profile
           /\ \A d \in Candidates(sim, library) \ {c} : ~Before(Rank(d), Rank(c))
<1> DEFINE C == Candidates(sim, library)
           low == -Len(sim)
<1>1. low \in Int
  <2>1. sim \in Seq(0 .. 9) BY PdpConstants
  <2>2. QED BY <2>1
<1>2. \A c \in C : /\ DOMAIN Rank(c) = 1 .. 4
                   /\ \A i \in 1 .. 4 : Rank(c)[i] \in Int /\ low <= Rank(c)[i]
  BY CandidateRank
<1> HIDE DEF C, low
<1>3. ASSUME NEW S \in SUBSET C, S # {}, NEW i \in 1 .. 4
      PROVE  \E c \in S : \A d \in S : Rank(c)[i] <= Rank(d)[i]
  <2> DEFINE f == [c \in S |-> Rank(c)[i]]
  <2>1. f \in [S -> Int] /\ \A c \in S : low <= f[c] BY <1>2
  <2>2. \A c \in S : f[c] = Rank(c)[i] OBVIOUS
  <2> HIDE DEF f
  <2>3. \E c \in S : \A d \in S : f[c] <= f[d] BY <1>1, <1>3, <2>1, LeastBy
  <2>4. QED BY <2>2, <2>3
<1> DEFINE Least(S, i) == {c \in S : \A d \in S : Rank(c)[i] <= Rank(d)[i]}
           C1 == Least(C, 1)
           C2 == Least(C1, 2)
           C3 == Least(C2, 3)
           C4 == Least(C3, 4)
<1>4. \A S \in SUBSET C : \A i \in 1 .. 4 :
        S # {} => Least(S, i) # {} /\ Least(S, i) \in SUBSET S
  <2>1. ASSUME NEW S \in SUBSET C, S # {}, NEW i \in 1 .. 4 PROVE Least(S, i) # {}
    <3>1. PICK c \in S : \A d \in S : Rank(c)[i] <= Rank(d)[i] BY <1>3, <2>1
    <3>2. c \in Least(S, i) BY <3>1
    <3>3. QED BY <3>2
  <2>2. QED BY <2>1
<1>5. C1 # {} /\ C1 \in SUBSET C
  <2>1. C # {} /\ C \in SUBSET C BY DEF C
  <2> HIDE DEF Least
  <2>2. QED BY <1>4, <2>1
<1>6. C2 # {} /\ C2 \in SUBSET C1
  <2> HIDE DEF C1, Least
  <2>1. QED BY <1>4, <1>5
<1>7. C3 # {} /\ C3 \in SUBSET C2 /\ C4 # {} /\ C4 \in SUBSET C3
  <2> HIDE DEF C1, C2, Least
  <2>1. C2 \in SUBSET C BY <1>5, <1>6
  <2>2. C3 # {} /\ C3 \in SUBSET C2 BY <1>4, <1>6, <2>1
  <2> HIDE DEF C3
  <2>3. C3 \in SUBSET C BY <2>1, <2>2
  <2>4. QED BY <1>4, <2>2, <2>3
<1>8. PICK c \in C4 : TRUE BY <1>7
<1>9. c \in C BY <1>5, <1>6, <1>7, <1>8
<1>10. ASSUME NEW d \in C, Before(Rank(d), Rank(c)) PROVE FALSE
  <2>1. PICK i \in 1 .. 4 :
          Rank(d)[i] < Rank(c)[i] /\ \A j \in 1 .. i - 1 : Rank(d)[j] = Rank(c)[j]
    BY <1>2, <1>10 DEF Before
  <2>2. \A j \in 1 .. 4 : Rank(d)[j] \in Int /\ Rank(c)[j] \in Int BY <1>2, <1>9
  <2>3. ASSUME NEW j \in 1 .. 4, NEW S, d \in S, c \in Least(S, j)
        PROVE  i # j /\ (j < i => d \in Least(S, j))
    <3>1. Rank(c)[j] <= Rank(d)[j] BY <2>3
    <3>2. i # j BY <2>1, <2>2, <3>1
    <3>3. ASSUME j < i PROVE d \in Least(S, j)
      <4>1. j \in 1 .. i - 1 BY <3>3
      <4>2. Rank(d)[j] = Rank(c)[j] BY <2>1, <4>1
      <4>3. QED BY <2>3, <4>2
    <3>4. QED BY <3>2, <3>3
  <2>4. c \in C1 /\ c \in C2 /\ c \in C3 BY <1>5, <1>6, <1>7, <1>8
  <2> HIDE DEF C1, C2, C3, C4, Least
  <2>5. i # 1 /\ (1 < i => d \in C1) BY <2>3, <2>4 DEF C1
  <2>6. i # 2 /\ (2 < i => d \in C2) BY <2>3, <2>4, <2>5 DEF C2
  <2>7. i # 3 /\ (3 < i => d \in C3) BY <2>3, <2>4, <2>5, <2>6 DEF C3
  <2>8. i # 4 BY <1>8, <2>1, <2>3, <2>5, <2>6, <2>7 DEF C4
  <2>9. QED BY <2>1, <2>5, <2>6, <2>7, <2>8
<1>11. QED BY <1>9, <1>10 DEF MatchProfile, C

LEMMA MatchIsLoaded ==
  ASSUME NEW library \in Libraries, NEW sim \in Iccids, MatchProfile(sim, library) # NoProfile
  PROVE  MatchProfile(sim, library) \in library
<1>1. Candidates(sim, library) # {} BY DEF MatchProfile
<1>2. QED BY <1>1, BestCandidate, CandidateRank

(* Which of the profiles is chosen: one with a pattern that fits, an exact *)
(* one before a prefix, a longer before a shorter, then by the priority    *)
(* and by the name, so that no other pattern that fits ranks before it.    *)
THEOREM MatchIsBest ==
  ASSUME NEW library \in Libraries, NEW sim \in Iccids, Candidates(sim, library) # {}
  PROVE  /\ MatchProfile(sim, library) \in library
         /\ \E m \in MatchProfile(sim, library).patterns :
              /\ PatternMatch(sim, m)
              /\ \A p \in library : \A o \in p.patterns : PatternMatch(sim, o) =>
                   ~Before(Rank([profile |-> p, pattern |-> o]),
                           Rank([profile |-> MatchProfile(sim, library), pattern |-> m]))
<1> DEFINE best == MatchProfile(sim, library)
<1>1. PICK c \in Candidates(sim, library) :
        /\ best = c.profile
        /\ \A d \in Candidates(sim, library) \ {c} : ~Before(Rank(d), Rank(c))
  BY BestCandidate
<1>2. PICK p \in library : \E m \in p.patterns :
        PatternMatch(sim, m) /\ c = [profile |-> p, pattern |-> m]
  BY DEF Candidates
<1>3. PICK m \in p.patterns : PatternMatch(sim, m) /\ c = [profile |-> p, pattern |-> m]
  BY <1>2
<1>4. best = p BY <1>1, <1>3
<1> HIDE DEF best
<1>5. ASSUME NEW q \in library, NEW o \in q.patterns, PatternMatch(sim, o)
      PROVE  ~Before(Rank([profile |-> q, pattern |-> o]), Rank(c))
  <2> DEFINE d == [profile |-> q, pattern |-> o]
  <2>1. d \in Candidates(sim, library) BY <1>5 DEF Candidates
  <2>2. CASE d # c BY <1>1, <2>1, <2>2
  <2>3. CASE d = c
    <3>1. DOMAIN Rank(c) = 1 .. 4 /\ \A i \in 1 .. 4 : Rank(c)[i] \in Int BY CandidateRank
    <3>2. ~Before(Rank(c), Rank(c)) BY <3>1 DEF Before
    <3>3. QED BY <2>3, <3>2
  <2>4. QED BY <2>2, <2>3
<1>6. QED BY <1>3, <1>4, <1>5 DEF best

-----------------------------------------------------------------------------
(* The contexts.  While the commands are sent, each context of the set to  *)
(* use is on the modem or its definition is still to be sent, its login is *)
(* in force, spared or still to be sent, and each stray is gone or still   *)
(* to be deleted; a command disturbs nothing that is done already.         *)
AtContext == [type : {ToAt[t] : t \in Types}, apn : Apns]
Loaded == UNION Libraries
PdpTypeOK ==
  /\ contexts \in [Cids -> {NoContext} \union FirmwareContexts \union AtContext]
  /\ auth \in [Cids -> Logins \union {"none"}]
  /\ stage \in {"no_sim", "sim_ready", "configuring", "executing", "configured", "degraded"}
  /\ iccid \in Iccids \/ stage = "no_sim"
  /\ profiles \in Libraries
  /\ active \in Loaded \union {NoProfile} /\ variant \in Nat /\ variant >= 1
Chosen ==
  stage \notin {"no_sim", "sim_ready"} =>
    active \in Loaded /\ active.name = MatchProfile(iccid, profiles).name
IsSent(command) == command \notin todo
ToDo ==
  stage = "executing" =>
    todo \subseteq {Command("delete", [cid |-> cid]) : cid \in Cids \ WantedCids}
                   \union {Command(w, c) : w \in {"define", "auth"}, c \in Wanted}
Done ==
  stage = "executing" /\ ~disturbed =>
    /\ \A c \in Wanted :
         /\ IsSent(Command("define", c)) => Matches(contexts[c.cid], c)
         /\ IsSent(Command("auth", c)) => c.auth \in {"none", auth[c.cid]} \/ c.cid \in spared
    /\ listed => \A cid \in Cids \ WantedCids :
         IsSent(Command("delete", [cid |-> cid])) => contexts[cid] = NoContext
PdpInv == PdpTypeOK /\ Chosen /\ ToDo /\ Done /\ ExactlyTheProfile

LEMMA WantedIsSet ==
  ASSUME active \in Loaded, variant \in Nat, variant >= 1
  PROVE  /\ Use \in Nat /\ Use >= 1 /\ Use <= Len(active.sets)
         /\ Wanted \in ContextSet /\ WantedCids \subseteq Cids
<1>1. active.sets \in Seq(ContextSet) /\ active.sets # <<>> BY PdpConstants DEF Loaded
<1>2. Len(active.sets) \in Nat /\ Len(active.sets) >= 1 BY <1>1
<1>3. Use \in Nat /\ Use >= 1 /\ Use <= Len(active.sets) BY <1>2 DEF Use
<1>4. Wanted \in ContextSet
  <2>1. Use \in 1 .. Len(active.sets) BY <1>2, <1>3
  <2>2. QED BY <1>1, <2>1 DEF Wanted
<1>5. WantedCids \subseteq Cids BY <1>4 DEF WantedCids, ContextSet, PdpContext
<1>6. QED BY <1>3, <1>4, <1>5

LEMMA TypesThereAndBack == ASSUME NEW t \in Types PROVE FromAt(ToAt[t]) = t
<1>1. \A s \in Types : ToAt[s] = ToAt[t] => s = t BY DEF Types, ToAt
<1>2. QED BY <1>1 DEF FromAt

LEMMA PdpChooses == ASSUME PdpInv, SimReady PROVE PdpInv'
<1> DEFINE p == MatchProfile(iccid, profiles)
<1>1. /\ p # NoProfile /\ active' = p /\ variant' \in {variant, 1}
      /\ stage = "sim_ready" /\ stage' = "configuring"
      /\ UNCHANGED <<pdpModem, iccid, profiles, todo, listed, spared, disturbed>>
  BY DEF SimReady
<1>2. p \in profiles /\ profiles \in Libraries
  BY <1>1, MatchIsLoaded DEF PdpInv, PdpTypeOK
<1>3. p \in Loaded BY <1>2 DEF Loaded
<1>4. PdpTypeOK' BY <1>1, <1>3 DEF PdpInv, PdpTypeOK, pdpModem
<1>5. Chosen' BY <1>1, <1>3 DEF Chosen
<1>6. ToDo' /\ Done' /\ ExactlyTheProfile' BY <1>1 DEF ToDo, Done, ExactlyTheProfile
<1>7. QED BY <1>4, <1>5, <1>6 DEF PdpInv

LEMMA PdpLists == ASSUME PdpInv, Configure PROVE PdpInv'
<1>1. /\ stage = "configuring" /\ variant' = Use
      /\ UNCHANGED <<pdpModem, iccid, profiles, active>>
  BY DEF Configure
<1>2. active \in Loaded /\ variant \in Nat /\ variant >= 1
  BY <1>1 DEF PdpInv, PdpTypeOK, Chosen
<1>3. /\ Use \in Nat /\ Use >= 1 /\ Use <= Len(active.sets)
      /\ Wanted \in ContextSet /\ WantedCids \subseteq Cids
  BY <1>2, WantedIsSet
<1>4. stage' \in {"degraded", "executing"} BY DEF Configure
<1>5. Wanted' = Wanted /\ WantedCids' = WantedCids
  <2>1. Len(active.sets) \in Nat
    <3>1. active.sets \in Seq(ContextSet) BY <1>2, PdpConstants DEF Loaded
    <3>2. QED BY <3>1
  <2>2. Use' = Use BY <1>1, <1>3, <2>1 DEF Use
  <2>3. Wanted' = Wanted BY <1>1, <2>2 DEF Wanted
  <2>4. QED BY <2>3 DEF WantedCids
<1>6. PdpTypeOK' BY <1>1, <1>3, <1>4 DEF PdpInv, PdpTypeOK, pdpModem
<1>7. Chosen' BY <1>1, <1>2 DEF PdpInv, Chosen
<1>8. ExactlyTheProfile' BY <1>4 DEF ExactlyTheProfile
<1>9. CASE stage' = "degraded" BY <1>6, <1>7, <1>8, <1>9 DEF PdpInv, ToDo, Done
<1>10. CASE stage' = "executing"
  <2>1. /\ listed' \in BOOLEAN /\ spared' = AsWanted(listed')
        /\ todo' = Reconcile(listed')
    BY <1>10 DEF Configure
  <2> DEFINE ok == listed'
  <2>2. ToDo'
    <3>1. Stray(ok) \subseteq Cids \ WantedCids BY DEF Stray, Actual
    <3>2. \A c \in Wanted : Define(c) \subseteq {Command(w, c) : w \in {"define", "auth"}}
      BY DEF Define
    <3>3. QED BY <1>5, <2>1, <3>1, <3>2 DEF ToDo, Reconcile, Deletes, Defines
  <2>3. ASSUME NEW c \in Wanted
        PROVE  \/ c.cid \in AsWanted(ok) /\ Matches(contexts[c.cid], c)
               \/ /\ Command("define", c) \in Reconcile(ok)
                  /\ c.auth # "none" => Command("auth", c) \in Reconcile(ok)
    <3>1. CASE c.cid \in AsWanted(ok)
      <4>1. PICK d \in Wanted : d.cid = c.cid /\ Matches(contexts[c.cid], d)
        BY <3>1 DEF AsWanted
      <4>2. d = c BY <1>3, <4>1 DEF ContextSet
      <4>3. QED BY <3>1, <4>1, <4>2
    <3>2. CASE c.cid \notin AsWanted(ok)
      <4>1. Define(c) \subseteq Reconcile(ok) BY <3>2 DEF Reconcile, Defines
      <4>2. QED BY <4>1 DEF Define
    <3>3. QED BY <3>1, <3>2
  <2>4. ASSUME ok, NEW cid \in Cids \ WantedCids
        PROVE  contexts[cid] = NoContext \/ Command("delete", [cid |-> cid]) \in Reconcile(ok)
    BY <2>4 DEF Reconcile, Deletes, Stray, Actual
  <2>5. Done'
    <3>1. ASSUME NEW c \in Wanted
          PROVE  /\ Command("define", c) \notin todo' => Matches(contexts'[c.cid], c)
                 /\ Command("auth", c) \notin todo' =>
                      c.auth \in {"none", auth'[c.cid]} \/ c.cid \in spared'
      BY <1>1, <2>1, <2>3 DEF pdpModem
    <3>2. ASSUME listed', NEW cid \in Cids \ WantedCids
          PROVE  Command("delete", [cid |-> cid]) \notin todo' => contexts'[cid] = NoContext
      BY <1>1, <2>1, <2>4, <3>2 DEF pdpModem
    <3>3. QED BY <1>5, <3>1, <3>2 DEF Done, IsSent
  <2>6. QED BY <1>6, <1>7, <1>8, <2>2, <2>5 DEF PdpInv
<1>11. QED BY <1>4, <1>9, <1>10

(* What a command does to the modem, for each context that is wanted and   *)
(* each that is not: it brings about its own effect and undoes no other.   *)
LEMMA TakesEffect ==
  ASSUME PdpInv, stage = "executing", NEW command \in todo, Takes(command)
  PROVE  /\ contexts' \in [Cids -> {NoContext} \union FirmwareContexts \union AtContext]
         /\ auth' \in [Cids -> Logins \union {"none"}]
         /\ \A c \in Wanted :
              /\ command = Command("define", c) \/ Matches(contexts[c.cid], c)
                   => Matches(contexts'[c.cid], c)
              /\ command = Command("auth", c) \/ c.auth = auth[c.cid]
                   => c.auth = auth'[c.cid]
         /\ \A cid \in Cids \ WantedCids :
              command = Command("delete", [cid |-> cid]) \/ contexts[cid] = NoContext
                => contexts'[cid] = NoContext
<1>1. /\ contexts \in [Cids -> {NoContext} \union FirmwareContexts \union AtContext]
      /\ auth \in [Cids -> Logins \union {"none"}]
  BY DEF PdpInv, PdpTypeOK
<1>2. Wanted \in ContextSet /\ WantedCids \subseteq Cids
  BY WantedIsSet DEF PdpInv, PdpTypeOK, Chosen
<1>3. ASSUME NEW c \in Wanted
      PROVE  /\ c \in PdpContext /\ c.cid \in Cids /\ c.cid \in WantedCids
             /\ \A d \in Wanted : d.cid = c.cid => d = c
  BY <1>2 DEF ContextSet, PdpContext, WantedCids
<1>4. CASE \E cid \in Cids \ WantedCids : command = Command("delete", [cid |-> cid])
  <2>1. PICK gone \in Cids \ WantedCids : command = Command("delete", [cid |-> gone])
    BY <1>4
  <2>2. contexts' = [contexts EXCEPT ![gone] = NoContext] /\ auth' = auth
    BY <2>1 DEF Takes, Command
  <2>3. ASSUME NEW c \in Wanted
        PROVE  /\ command # Command("define", c) /\ command # Command("auth", c)
               /\ contexts'[c.cid] = contexts[c.cid]
    BY <1>1, <1>3, <2>1, <2>2 DEF Command
  <2>4. ASSUME NEW cid \in Cids,
               command = Command("delete", [cid |-> cid]) \/ contexts[cid] = NoContext
        PROVE  contexts'[cid] = NoContext
    BY <1>1, <2>1, <2>2, <2>4 DEF Command
  <2>5. QED BY <1>1, <2>2, <2>3, <2>4
<1>5. CASE \E c \in Wanted : command = Command("define", c)
  <2>1. PICK new \in Wanted : command = Command("define", new) BY <1>5
  <2>2. PICK apn \in Apns :
          /\ Lower[apn] = Lower[new.apn]
          /\ contexts' = [contexts EXCEPT ![new.cid] = [type |-> ToAt[new.type], apn |-> apn]]
          /\ auth' = auth
    BY <2>1 DEF Takes, Command
  <2>3. new.type \in Types BY <1>3 DEF PdpContext
  <2>4. Matches(contexts'[new.cid], new)
    <3>1. contexts'[new.cid] = [type |-> ToAt[new.type], apn |-> apn] BY <1>1, <1>3, <2>2
    <3>2. QED BY <2>2, <2>3, <3>1, TypesThereAndBack DEF Matches
  <2>5. ASSUME NEW c \in Wanted,
               command = Command("define", c) \/ Matches(contexts[c.cid], c)
        PROVE  Matches(contexts'[c.cid], c)
    <3>1. CASE c = new BY <2>4, <3>1
    <3>2. CASE c # new
      <4>1. c.cid # new.cid /\ c.cid \in Cids BY <1>3, <3>2
      <4>2. contexts'[c.cid] = contexts[c.cid] BY <1>1, <2>2, <4>1
      <4>3. command # Command("define", c) BY <2>1, <3>2 DEF Command
      <4>4. QED BY <2>5, <4>2, <4>3
    <3>3. QED BY <3>1, <3>2
  <2>6. \A c \in Wanted : command # Command("auth", c) BY <2>1 DEF Command
  <2>7. ASSUME NEW cid \in Cids \ WantedCids
        PROVE  command # Command("delete", [cid |-> cid]) /\ contexts'[cid] = contexts[cid]
    <3>1. cid # new.cid BY <1>3
    <3>2. QED BY <1>1, <2>1, <2>2, <3>1 DEF Command
  <2>8. contexts' \in [Cids -> {NoContext} \union FirmwareContexts \union AtContext]
    BY <1>1, <2>2, <2>3 DEF AtContext
  <2>9. QED BY <1>1, <2>2, <2>5, <2>6, <2>7, <2>8
<1>6. CASE \E c \in Wanted : command = Command("auth", c)
  <2>1. PICK new \in Wanted : command = Command("auth", new) BY <1>6
  <2>2. auth' = [auth EXCEPT ![new.cid] = new.auth] /\ contexts' = contexts
    BY <2>1 DEF Takes, Command
  <2>3. ASSUME NEW c \in Wanted, command = Command("auth", c) \/ c.auth = auth[c.cid]
        PROVE  c.auth = auth'[c.cid]
    <3>1. CASE c = new BY <1>1, <1>3, <2>2, <3>1
    <3>2. CASE c # new
      <4>1. c.cid # new.cid BY <1>3, <3>2
      <4>2. auth'[c.cid] = auth[c.cid] BY <1>1, <1>3, <2>2, <4>1
      <4>3. command # Command("auth", c) BY <2>1, <3>2 DEF Command
      <4>4. QED BY <2>3, <4>2, <4>3
    <3>3. QED BY <3>1, <3>2
  <2>4. \A c \in Wanted : command # Command("define", c) BY <2>1 DEF Command
  <2>5. \A cid \in Cids : command # Command("delete", [cid |-> cid]) BY <2>1 DEF Command
  <2>6. new.auth \in Logins \union {"none"} BY <1>3 DEF PdpContext
  <2>7. auth' \in [Cids -> Logins \union {"none"}] BY <1>1, <2>2, <2>6
  <2>8. QED BY <1>1, <2>2, <2>3, <2>4, <2>5, <2>7
<1>7. QED BY <1>4, <1>5, <1>6 DEF PdpInv, ToDo

LEMMA PdpSends == ASSUME PdpInv, SendCommand PROVE PdpInv'
<1>1. /\ stage = "executing" /\ stage' \in {"executing", "degraded"}
      /\ UNCHANGED <<iccid, profiles, active, variant, listed, spared, disturbed>>
  BY DEF SendCommand
<1>2. PICK command \in todo :
        \/ Takes(command) /\ todo' = todo \ {command} /\ stage' = stage
        \/ Takes(command) /\ stage' = "degraded"
        \/ UNCHANGED pdpModem /\ stage' = "degraded"
  BY DEF SendCommand
<1>3. PdpTypeOK' BY <1>1, <1>2, TakesEffect DEF PdpInv, PdpTypeOK, pdpModem
<1>4. Chosen' BY <1>1 DEF PdpInv, Chosen
<1>5. Wanted' = Wanted /\ WantedCids' = WantedCids BY <1>1 DEF Wanted, WantedCids, Use
<1>6. ExactlyTheProfile' BY <1>1 DEF ExactlyTheProfile
<1>7. CASE stage' = "degraded" BY <1>3, <1>4, <1>6, <1>7 DEF PdpInv, ToDo, Done
<1>8. CASE Takes(command) /\ todo' = todo \ {command} /\ stage' = stage
  <2>1. ToDo'
    <3>1. todo \subseteq {Command("delete", [cid |-> cid]) : cid \in Cids \ WantedCids}
                         \union {Command(w, c) : w \in {"define", "auth"}, c \in Wanted}
      BY <1>1 DEF PdpInv, ToDo
    <3>2. todo' \subseteq {Command("delete", [cid |-> cid]) : cid \in Cids \ WantedCids'}
                          \union {Command(w, c) : w \in {"define", "auth"}, c \in Wanted'}
      BY <1>5, <1>8, <3>1
    <3>3. QED BY <3>2 DEF ToDo
  <2>2. Done'
    <3> SUFFICES ASSUME ~disturbed
                 PROVE  /\ \A c \in Wanted :
                             /\ Command("define", c) \notin todo' => Matches(contexts'[c.cid], c)
                             /\ Command("auth", c) \notin todo' =>
                                  c.auth \in {"none", auth'[c.cid]} \/ c.cid \in spared
                        /\ listed => \A cid \in Cids \ WantedCids :
                             Command("delete", [cid |-> cid]) \notin todo'
                               => contexts'[cid] = NoContext
      BY <1>1, <1>5 DEF Done, IsSent
    <3>1. ASSUME NEW c \in Wanted, Command("define", c) \notin todo'
          PROVE  Matches(contexts'[c.cid], c)
      <4>1. command = Command("define", c) \/ Command("define", c) \notin todo BY <1>8, <3>1
      <4>2. command = Command("define", c) \/ Matches(contexts[c.cid], c)
        BY <1>1, <4>1 DEF PdpInv, Done, IsSent
      <4>3. QED BY <1>1, <1>8, <4>2, TakesEffect
    <3>2. ASSUME NEW c \in Wanted, Command("auth", c) \notin todo'
          PROVE  c.auth \in {"none", auth'[c.cid]} \/ c.cid \in spared
      <4>1. command = Command("auth", c) \/ Command("auth", c) \notin todo BY <1>8, <3>2
      <4>2. command = Command("auth", c) \/ c.auth \in {"none", auth[c.cid]} \/ c.cid \in spared
        BY <1>1, <4>1 DEF PdpInv, Done, IsSent
      <4>3. QED BY <1>1, <1>8, <4>2, TakesEffect
    <3>3. ASSUME listed, NEW cid \in Cids \ WantedCids,
                 Command("delete", [cid |-> cid]) \notin todo'
          PROVE  contexts'[cid] = NoContext
      <4>1. \/ command = Command("delete", [cid |-> cid])
            \/ Command("delete", [cid |-> cid]) \notin todo
        BY <1>8, <3>3
      <4>2. command = Command("delete", [cid |-> cid]) \/ contexts[cid] = NoContext
        BY <1>1, <3>3, <4>1 DEF PdpInv, Done, IsSent
      <4>3. QED BY <1>1, <1>8, <4>2, TakesEffect
    <3>4. QED BY <3>1, <3>2, <3>3
  <2>3. QED BY <1>3, <1>4, <1>6, <2>1, <2>2 DEF PdpInv
<1>9. QED BY <1>2, <1>7, <1>8

LEMMA PdpIsConfigured == ASSUME PdpInv, Configured PROVE PdpInv'
<1>1. /\ stage = "executing" /\ todo = {} /\ stage' \in {"configured", "degraded"}
      /\ UNCHANGED <<pdpModem, iccid, profiles, active, variant>>
      /\ UNCHANGED <<todo, listed, spared, disturbed>>
  BY DEF Configured
<1>2. PdpTypeOK' BY <1>1 DEF PdpInv, PdpTypeOK, pdpModem
<1>3. Chosen' BY <1>1 DEF PdpInv, Chosen
<1>4. ToDo' /\ Done' BY <1>1 DEF ToDo, Done
<1>5. ExactlyTheProfile'
  <2>1. Wanted' = Wanted /\ WantedCids' = WantedCids BY <1>1 DEF Wanted, WantedCids, Use
  <2>2. active.name = MatchProfile(iccid, profiles).name BY <1>1 DEF PdpInv, Chosen
  <2>3. ~disturbed =>
          /\ \A c \in Wanted :
               /\ Matches(contexts[c.cid], c)
               /\ c.auth \in {"none", auth[c.cid]} \/ c.cid \in spared
          /\ listed => \A cid \in Cids \ WantedCids : contexts[cid] = NoContext
    BY <1>1 DEF PdpInv, Done, IsSent
  <2>4. QED BY <1>1, <2>1, <2>2, <2>3 DEF ExactlyTheProfile, pdpModem
<1>6. QED BY <1>2, <1>3, <1>4, <1>5 DEF PdpInv

LEMMA PdpReloads == ASSUME PdpInv, ReloadProfiles PROVE PdpInv'
<1>1. /\ stage # "executing" /\ profiles' \in Libraries
      /\ stage' = IF stage # "no_sim" /\ SelectsAnother(MatchProfile(iccid, profiles'))
                  THEN "sim_ready" ELSE stage
      /\ UNCHANGED <<pdpModem, iccid, active, variant, todo, listed, spared, disturbed>>
  BY DEF ReloadProfiles
<1>2. PdpTypeOK' BY <1>1 DEF PdpInv, PdpTypeOK, pdpModem
<1>3. Chosen' BY <1>1 DEF PdpInv, Chosen, SelectsAnother
<1>4. ToDo' /\ Done' BY <1>1 DEF ToDo, Done
<1>5. ExactlyTheProfile'
  <2> SUFFICES ASSUME stage' = "configured" PROVE ExactlyTheProfile'
    BY DEF ExactlyTheProfile
  <2>1. Wanted' = Wanted /\ WantedCids' = WantedCids BY <1>1 DEF Wanted, WantedCids, Use
  <2>2. stage = "configured" BY <1>1
  <2>3. active'.name = MatchProfile(iccid', profiles').name BY <1>3 DEF Chosen
  <2>4. QED BY <1>1, <2>1, <2>2, <2>3 DEF PdpInv, ExactlyTheProfile, pdpModem
<1>6. QED BY <1>2, <1>3, <1>4, <1>5 DEF PdpInv

LEMMA FirmwareKeeps == ASSUME PdpInv, FirmwareActs PROVE PdpInv'
<1>1. /\ \E cid \in Cids, c \in FirmwareContexts : contexts' = [contexts EXCEPT ![cid] = c]
      /\ disturbed'
      /\ UNCHANGED <<auth, stage, iccid, profiles, active, variant, todo, listed, spared>>
  BY DEF FirmwareActs
<1>2. PdpTypeOK' BY <1>1 DEF PdpInv, PdpTypeOK
<1>3. Wanted' = Wanted /\ WantedCids' = WantedCids BY <1>1 DEF Wanted, WantedCids, Use
<1>4. Chosen' /\ ToDo' BY <1>1, <1>3 DEF PdpInv, Chosen, ToDo
<1>5. Done' BY <1>1 DEF Done
<1>6. ExactlyTheProfile' BY <1>1 DEF PdpInv, ExactlyTheProfile
<1>7. QED BY <1>2, <1>4, <1>5, <1>6 DEF PdpInv

(* The steps that do not touch the modem and neither begin nor end the     *)
(* sending of commands.                                                    *)
LEMMA PdpMoves ==
  ASSUME PdpInv, ReadSim \/ ConnectFails \/ Recover \/ UNCHANGED pdpVars PROVE PdpInv'
<1>1. CASE ReadSim
  <2>1. PdpTypeOK' BY <1>1 DEF ReadSim, PdpInv, PdpTypeOK, pdpModem
  <2>2. stage' = "sim_ready" BY <1>1 DEF ReadSim
  <2>3. QED BY <2>1, <2>2 DEF PdpInv, Chosen, ToDo, Done, ExactlyTheProfile
<1>2. CASE ConnectFails
  <2>1. /\ stage = "configured" /\ stage' \in {"configuring", "degraded"}
        /\ variant' \in {variant + 1, 1, variant}
        /\ UNCHANGED <<pdpModem, iccid, profiles, active>>
    BY <1>2 DEF ConnectFails
  <2>2. PdpTypeOK' BY <2>1 DEF PdpInv, PdpTypeOK, pdpModem
  <2>3. Chosen' BY <2>1 DEF PdpInv, Chosen
  <2>4. QED BY <2>1, <2>2, <2>3 DEF PdpInv, ToDo, Done, ExactlyTheProfile
<1>3. CASE Recover
  <2>1. /\ stage = "degraded" /\ stage' \in {"configuring", "no_sim"}
        /\ UNCHANGED <<pdpModem, iccid, profiles, active, variant>>
    BY <1>3 DEF Recover
  <2>2. PdpTypeOK' BY <2>1 DEF PdpInv, PdpTypeOK, pdpModem
  <2>3. Chosen' BY <2>1 DEF PdpInv, Chosen
  <2>4. QED BY <2>1, <2>2, <2>3 DEF PdpInv, ToDo, Done, ExactlyTheProfile
<1>4. CASE UNCHANGED pdpVars
  <2>1. /\ UNCHANGED <<contexts, auth, stage, iccid, profiles, active, variant>>
        /\ UNCHANGED <<todo, listed, spared, disturbed>>
    BY <1>4 DEF pdpVars, pdpModem
  <2>2. Wanted' = Wanted /\ WantedCids' = WantedCids BY <2>1 DEF Wanted, WantedCids, Use
  <2>3. PdpTypeOK' /\ Chosen' BY <2>1 DEF PdpInv, PdpTypeOK, Chosen
  <2>4. ToDo' /\ Done' BY <2>1, <2>2 DEF PdpInv, ToDo, Done, IsSent
  <2>5. ExactlyTheProfile' BY <2>1, <2>2 DEF PdpInv, ExactlyTheProfile
  <2>6. QED BY <2>3, <2>4, <2>5 DEF PdpInv
<1>5. QED BY <1>1, <1>2, <1>3, <1>4

(* "The modem must end up with EXACTLY the profile's contexts", for every  *)
(* library of profiles, SIM and set of contexts, whatever earlier attempts *)
(* left half done and whatever contexts the firmware made before the       *)
(* modem listed them.                                                      *)
THEOREM PdpExactlyTheProfile == PdpSpec => []ExactlyTheProfile
<1>1. PdpInit => PdpInv
  <2> SUFFICES ASSUME PdpInit PROVE PdpInv OBVIOUS
  <2>1. PdpTypeOK BY DEF PdpInit, PdpTypeOK
  <2>2. QED BY <2>1 DEF PdpInit, PdpInv, Chosen, ToDo, Done, ExactlyTheProfile
<1>2. PdpInv /\ [PdpNext]_pdpVars => PdpInv'
  <2> SUFFICES ASSUME PdpInv, [PdpNext]_pdpVars PROVE PdpInv' OBVIOUS
  <2>1. CASE SimReady BY <2>1, PdpChooses
  <2>2. CASE Configure BY <2>2, PdpLists
  <2>3. CASE SendCommand BY <2>3, PdpSends
  <2>4. CASE Configured BY <2>4, PdpIsConfigured
  <2>5. CASE ReloadProfiles BY <2>5, PdpReloads
  <2>6. CASE FirmwareActs BY <2>6, FirmwareKeeps
  <2>7. CASE ReadSim \/ ConnectFails \/ Recover \/ UNCHANGED pdpVars BY <2>7, PdpMoves
  <2>8. QED BY <2>1, <2>2, <2>3, <2>4, <2>5, <2>6, <2>7 DEF PdpNext
<1>3. PdpInv => ExactlyTheProfile BY DEF PdpInv
<1>4. QED BY <1>1, <1>2, <1>3, PTL DEF PdpSpec
=============================================================================
