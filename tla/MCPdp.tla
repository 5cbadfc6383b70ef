------------------------------- MODULE MCPdp -------------------------------
(* Instances of Pdp for TLC: a profile of two context sets, a library that *)
(* changes its login, one with a more specific pattern.                    *)
EXTENDS Pdp
MCLower == [a \in Apns |-> IF a = "NET" THEN "net" ELSE a]
Ctx(cid, type, apn, login) == [cid |-> cid, type |-> type, apn |-> apn, auth |-> login]
Pat(digits, star) == [digits |-> digits, star |-> star]
Prof(name, patterns, priority, sets) ==
  [name |-> name, patterns |-> patterns, priority |-> priority, sets |-> sets]
Net(login) == {Ctx(1, "IPv4", "net", login)}
Two == {Ctx(1, "IPv4v6", "net", "none"), Ctx(2, "IPv4", "ims", "l1")}
MCLibraries ==
  {{Prof(1, {Pat(<<>>, TRUE)}, 2, <<Net("l1"), Two>>)},
   {Prof(1, {Pat(<<>>, TRUE)}, 2, <<Net("l2")>>), Prof(2, {Pat(<<8>>, TRUE)}, 1, <<Two>>)},
   {Prof(2, {Pat(<<8, 9>>, TRUE)}, 1, <<Net("none")>>), Prof(3, {Pat(<<8, 9>>, FALSE)}, 3, <<Two>>)}}
MCIccids == {<<8, 9>>, <<8, 7>>}
MCFirmware == {[type |-> "IP", apn |-> "ims"], [type |-> "PPP", apn |-> "net"]}
=============================================================================
