------------------------------ MODULE MCModem ------------------------------
(* Four parts around the modem that share no state here: the inbox, the    *)
(* texts on the air, the AT port and the PDP contexts.  "part", chosen in  *)
(* the initial state, says which of them a behaviour is about.             *)
EXTENDS MCSmsInbox, MCPdp, AtChannel, SmsCodec

VARIABLE part

(* Texts of one letter to three parts, with a pair at every place.         *)
MCTexts ==
  {<<"a">>, <<"{">>, <<"s">>, <<"a", "{">>, <<"{", "{">>, <<"s", "s">>, <<"w", "s">>,
   <<"a", "b", "a">>, <<"b", "a", "{">>, <<"s", "a", "{">>, <<"a", "b", "a", "b">>,
   <<"b", "a", "{", "b">>, <<"w", "a", "w", "b">>, <<"{", "a", "{", "a">>}

Operation(commands, tolerant, resets) ==
  [commands |-> commands, tolerant |-> tolerant, resets |-> resets]
MCOperations ==
  {Operation(<<"plain", "plain">>, "until one succeeds", FALSE),
   Operation(<<"plain", "plain">>, "all", FALSE),
   Operation(<<"plain">>, "all", TRUE),
   Operation(<<"plain", "prompt">>, "no", FALSE)}

ModemInit ==
  /\ Init /\ SmsInit /\ AtInit /\ PdpInit
  /\ part \in {"inbox", "texts", "port", "contexts"}
  /\ part # "contexts" => profiles = CHOOSE library \in Libraries : TRUE
ModemNext ==
  \/ part = "inbox" /\ Next /\ UNCHANGED <<part, smsVars, atVars, pdpVars>>
  \/ part = "texts" /\ SmsNext /\ UNCHANGED <<part, vars, atVars, pdpVars>>
  \/ part = "port" /\ AtNext /\ UNCHANGED <<part, vars, smsVars, pdpVars>>
  \/ part = "contexts" /\ PdpNext /\ UNCHANGED <<part, vars, smsVars, atVars>>

ModemSpec ==
  /\ ModemInit /\ [][ModemNext]_<<part, vars, smsVars, atVars, pdpVars>>
  /\ WF_vars(part = "inbox" /\ Poll) /\ WF_vars(part = "inbox" /\ Fetch)
  /\ WF_vars(part = "inbox" /\ ConsiderReply)
=============================================================================
