----------------------------- MODULE MCSmsInbox -----------------------------
(* Instances of SmsInbox for TLC: a message "m" of one piece and a message *)
(* "d" of two, from the same sender.                                       *)
EXTENDS SmsInbox

MCPieces == [x \in Messages |-> IF x = "d" THEN 2 ELSE 1]
MCPeerOf == [x \in Messages |-> "peer"]
MCWants  == {b \in Body : 1 \in b[2]}
=============================================================================
