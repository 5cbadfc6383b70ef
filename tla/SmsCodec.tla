------------------------------ MODULE SmsCodec ------------------------------
(***************************************************************************)
(* How a text becomes PDUs and a text again: encode_submit of modem/pdu.py *)
(* splits it into parts, decode_pdu and reassemble_inbound put the parts   *)
(* together that are stored on the SIM of the unit that receives them.     *)
(*                                                                         *)
(* A text is a sequence of letters.  Letters differ in what they cost: one *)
(* septet of the basic alphabet, an escape pair of the extension table, or *)
(* outside both one UTF-16 unit or a surrogate pair.  The bit packing, the *)
(* address and the time stamp of a PDU are left out.                       *)
(***************************************************************************)
EXTENDS Integers, SequencesExt

CONSTANTS
  Basic, Ext, Bmp, Astral,  \* letters by alphabet
  SingleSeptets, PartSeptets, \* capacity of a PDU: 160 alone, 153 as a part
  SingleUnits, PartUnits,   \* 70 and 67 units of UTF-16
  Texts,        \* texts that may be sent
  MaxTexts      \* bound: texts sent

Letters == Basic \union Ext \union Bmp \union Astral

ASSUME SmsCodecConstants ==
  /\ \A A, B \in {Basic, Ext, Bmp, Astral} : A = B \/ A \intersect B = {}
  /\ {PartSeptets, PartUnits} \subseteq Nat \ {0, 1}
  /\ PartSeptets <= SingleSeptets /\ PartUnits <= SingleUnits
  /\ Texts \subseteq Seq(Letters) \ {<<>>} /\ MaxTexts \in Nat

VARIABLES
  air,          \* parts on their way
  slots,        \* parts stored by the receiver, in the order of their slots
  sent,         \* history: the texts sent
  torn          \* history: a text some part of which could not be sent

smsVars == <<air, slots, sent, torn>>

-----------------------------------------------------------------------------
(* encode_submit.                                                          *)

(* A code is the half of a pair, or a whole letter.                        *)
Code(half, c) == [half |-> half, letter |-> c]
Pair(c) == <<Code("first", c), Code("second", c)>>

InGsm7(text) == ToSet(text) \subseteq Basic \union Ext
Gsm7Septets(text) ==
  FlattenSeq([i \in DOMAIN text |->
    IF text[i] \in Ext THEN Pair(text[i]) ELSE <<Code("whole", text[i])>>])
Utf16Units(text) ==
  FlattenSeq([i \in DOMAIN text |->
    IF text[i] \in Astral THEN Pair(text[i]) ELSE <<Code("whole", text[i])>>])

Least(a, b) == IF a < b THEN a ELSE b
Chunks(codes, size) ==
  [n \in 1 .. (Len(codes) + size - 1) \div size |->
     SubSeq(codes, (n - 1) * size + 1, Least(n * size, Len(codes)))]

(* _encode_parts_gsm7, _encode_parts_ucs2: one PDU without a header, or    *)
(* chunks with one.                                                        *)
Parts(codes, single, size) ==
  IF Len(codes) <= single THEN <<codes>> ELSE Chunks(codes, size)
EncodeSubmit(text) ==
  IF InGsm7(text) THEN Parts(Gsm7Septets(text), SingleSeptets, PartSeptets)
  ELSE Parts(Utf16Units(text), SingleUnits, PartUnits)

(* send_sms never passes another reference than the default.  Which text a *)
(* part is of is history: the receiver does not know.                      *)
Ref == 0
Pdu(of, parts, seq) ==
  [codes |-> parts[seq], total |-> Len(parts), seq |-> seq, ref |-> Ref, of |-> of]

-----------------------------------------------------------------------------
(* decode_pdu: a pair becomes its letter; half of one, alone at an end,    *)
(* decodes to something else, here left as it is.                          *)
Decode(codes) ==
  FlattenSeq([i \in DOMAIN codes |->
    CASE codes[i].half = "first" /\ i < Len(codes) -> <<Code("whole", codes[i].letter)>>
      [] codes[i].half = "second" /\ i > 1 -> <<>>
      [] OTHER -> <<codes[i]>>])

(* reassemble_inbound: every PDU without a header is a row, all those of a *)
(* sender with the same reference are one, in the order of their numbers   *)
(* and then of their slots.  A row is the slots of its parts.              *)
Concatenated == {i \in DOMAIN slots : slots[i].total > 1}
InboxRows ==
  {{i} : i \in DOMAIN slots \ Concatenated}
    \union {{j \in Concatenated : slots[j].ref = slots[i].ref} : i \in Concatenated}

MutEarlier(i, j) == i < j
Earlier(i, j) ==
  \/ slots[i].seq < slots[j].seq
  \/ slots[i].seq = slots[j].seq /\ i < j
InOrder(row) ==
  [n \in 1 .. Cardinality(row) |->
     slots[CHOOSE i \in row : Cardinality({j \in row : Earlier(j, i)}) = n - 1]]
TextOf(row) ==
  FlattenSeq([n \in 1 .. Cardinality(row) |-> Decode(InOrder(row)[n].codes)])

-----------------------------------------------------------------------------
SmsInit == air = {} /\ slots = <<>> /\ sent = <<>> /\ torn = FALSE

(* send_sms: the parts one after the other; when one is refused, the rest  *)
(* is not sent.                                                            *)
SendSms(text) ==
  /\ Len(sent) < MaxTexts
  /\ LET parts == EncodeSubmit(text) IN
       \E accepted \in 1 .. Len(parts) :
         /\ air' = air \union {Pdu(Len(sent) + 1, parts, n) : n \in 1 .. accepted}
         /\ torn' = (torn \/ accepted < Len(parts))
  /\ sent' = Append(sent, text)
  /\ UNCHANGED slots

(* The network delivers in any order.                                      *)
Store(p) ==
  /\ slots' = Append(slots, p)
  /\ air' = air \ {p}
  /\ UNCHANGED <<sent, torn>>

SmsNext == (\E text \in Texts : SendSms(text)) \/ (\E p \in air : Store(p))
SmsSpec == SmsInit /\ [][SmsNext]_smsVars

-----------------------------------------------------------------------------
Halved(text) ==
  \E codes \in ToSet(EncodeSubmit(text)) :
    codes[1].half = "second" \/ Last(codes).half = "first"
Long(n) == Len(EncodeSubmit(sent[n])) > 1
Read(text) == [i \in DOMAIN text |-> Code("whole", text[i])]
AllRead ==
  \E meant \in Bijection(InboxRows, DOMAIN sent) :
    \A row \in InboxRows : TextOf(row) = Read(sent[meant[row]])

(* The module promises that multipart and Unicode messages "all survive    *)
(* intact".  In whatever order the parts arrive, what the receiver reads   *)
(* is what was sent, exactly unless a text was sent in part, was split     *)
(* inside an escape or surrogate pair, or a second long one came from the  *)
(* same number.                                                            *)
Survives ==
  air = {} =>
    (AllRead <=>
       /\ ~torn
       /\ \A n \in DOMAIN sent : ~Halved(sent[n])
       /\ \A m, n \in DOMAIN sent : Long(m) /\ Long(n) => m = n)
=============================================================================
