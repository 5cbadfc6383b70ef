----------------------------- MODULE AtChannel -----------------------------
(***************************************************************************)
(* The AT port, modem/at_channel.py, and the operations modem/at_driver.py *)
(* makes of several commands.  The daemon's thread writes one command at a *)
(* time and reads lines up to a final result or its deadline; the modem    *)
(* answers in its own time, in order, and puts unsolicited lines (URCs) in *)
(* between.  A line is its sort and the number of the command it answers.  *)
(***************************************************************************)
EXTENDS Integers, SequencesExt

CONSTANTS
  Operations,   \* of the driver: [commands, tolerant, resets]
  DrainGuard,   \* lines one drain hands over at most: 200
  MaxLines,     \* bound: data lines of an answer
  MaxUrcs,      \* bound: URCs ever sent
  MaxWritten    \* bound: commands ever written

ASSUME AtChannelConstants ==
  /\ \A o \in Operations :
       /\ o.commands \in Seq({"plain", "prompt"}) \ {<<>>}
       /\ o.tolerant \in {"no", "until one succeeds", "all"} /\ o.resets \in BOOLEAN
  /\ DrainGuard \in Nat \ {0} /\ {MaxLines, MaxUrcs, MaxWritten} \subseteq Nat

VARIABLES
  open, buffer, \* the port; lines that arrived and were not read
  phase,        \* the channel is "idle", "drained", "prompting" or "reading"
  payload,      \* what it read of the answer
  op, left,     \* the driver's operation, and its commands from the current one on
  modem,        \* commands the modem still has to answer
  handled,      \* lines handed to the URC handler since the last poll
  written, urcs, \* commands and URCs so far
  abandoned,    \* history: commands given up, or ended by the answer to another
  due,          \* history: another answer was due when the current command was written
  answer        \* history: the latest answer, until the next command

portVars == <<open, buffer>>
callVars == <<phase, payload, op, left>>
atVars   == <<portVars, callVars, modem, handled, written, urcs, abandoned, due, answer>>

Line(what, n) == [what |-> what, n |-> n]
NoOp == [commands |-> <<>>, tolerant |-> "no", resets |-> FALSE]
NoAnswer == [n |-> 0, lines |-> <<>>, due |-> FALSE]

AtInit ==
  /\ open = FALSE /\ buffer = <<>> /\ handled = {}
  /\ phase = "idle" /\ payload = <<>> /\ op = NoOp /\ left = <<>>
  /\ modem = <<>> /\ written = 0 /\ urcs = 0
  /\ abandoned = {} /\ due = FALSE /\ answer = NoAnswer

-----------------------------------------------------------------------------
(* The driver.  The first failing command ends an operation, unless it     *)
(* tries alternatives or does not mind; a reset closes the port at its end *)
(* whatever became of its command.                                         *)

BeginOperation ==
  /\ phase = "idle" /\ left = <<>>
  /\ op' \in Operations /\ left' = op'.commands
  /\ UNCHANGED <<portVars, phase, payload, modem, handled, written, urcs, abandoned, due, answer>>

GoesOn(ok) ==
  \/ op.tolerant = "all"
  \/ op.tolerant = "no" /\ ok
  \/ op.tolerant = "until one succeeds" /\ ~ok

EndCommand(ok) ==
  /\ phase' = "idle" /\ payload' = <<>>
  /\ left' = IF GoesOn(ok) THEN Tail(left) ELSE <<>>
  /\ UNCHANGED op

EndedBy(line) == abandoned' = IF line.n = written THEN abandoned
                              ELSE abandoned \union {written}

(* Closing discards what was not read.                                     *)
Close == open' = FALSE /\ buffer' = <<>>
Keep(rest) == IF op.resets THEN Close ELSE open' = open /\ buffer' = rest

-----------------------------------------------------------------------------
(* execute and send_with_prompt.                                           *)

(* _drain_pending: between commands everything that is buffered goes to    *)
(* the URC handler, as far as the guard allows.                            *)
MutDrained == 0
Drained == IF Len(buffer) < DrainGuard THEN Len(buffer) ELSE DrainGuard
DrainPending ==
  /\ handled' = handled \union ToSet(SubSeq(buffer, 1, Drained))
  /\ buffer' = SubSeq(buffer, Drained + 1, Len(buffer))

Execute ==
  /\ phase = "idle" /\ left # <<>>
  /\ open' = TRUE /\ DrainPending
  /\ phase' = "drained"
  /\ due' = (modem # <<>> \/ Len(buffer) > DrainGuard)
  /\ answer' = NoAnswer
  /\ UNCHANGED <<payload, op, left, modem, written, urcs, abandoned>>

(* The device node is not there.                                           *)
CannotOpen ==
  /\ phase = "idle" /\ left # <<>> /\ ~open
  /\ EndCommand(FALSE)
  /\ UNCHANGED <<portVars, modem, handled, written, urcs, abandoned, due, answer>>

WriteCommand ==
  /\ phase = "drained" /\ written < MaxWritten
  /\ written' = written + 1
  /\ modem' = Append(modem, [n |-> written', lines |-> 0,
                 at |-> IF Head(left) = "prompt" THEN "prompting" ELSE "answering"])
  /\ phase' = IF Head(left) = "prompt" THEN "prompting" ELSE "reading"
  /\ UNCHANGED <<portVars, payload, op, left, handled, urcs, abandoned, due, answer>>

(* _wait_for_prompt looks for ">" or "ERROR" among single characters: what *)
(* comes before is lost, what is left of an error line stays behind.       *)
WaitForPrompt ==
  /\ phase = "prompting" /\ buffer # <<>>
  /\ LET line == Head(buffer) IN
       \/ /\ line.what = "prompt"
          /\ phase' = "reading"
          /\ modem' = [i \in DOMAIN modem |->
               IF modem[i].n = line.n THEN [modem[i] EXCEPT !.at = "answering"] ELSE modem[i]]
          /\ buffer' = Tail(buffer)
          /\ UNCHANGED <<payload, op, left, abandoned>>
       \/ /\ line.what = "error"
          /\ EndCommand(FALSE) /\ EndedBy(line)
          /\ buffer' = <<Line("tail", line.n)>> \o Tail(buffer)
          /\ UNCHANGED modem
       \/ /\ line.what \notin {"prompt", "error"}
          /\ buffer' = Tail(buffer)
          /\ UNCHANGED <<callVars, modem, abandoned>>
  /\ UNCHANGED <<open, handled, written, urcs, due, answer>>

(* _read_response: a final result ends the command, what is always         *)
(* asynchronous is handed over, the rest is the answer.                    *)
Asynchronous == {"urc"}
ReadResponse ==
  /\ phase = "reading" /\ buffer # <<>>
  /\ LET line == Head(buffer) IN
       \/ /\ line.what = "ok"
          /\ EndCommand(TRUE) /\ EndedBy(line) /\ Keep(Tail(buffer))
          /\ answer' = [n |-> written, lines |-> Append(payload, line), due |-> due]
          /\ UNCHANGED handled
       \/ /\ line.what = "error"
          /\ EndCommand(FALSE) /\ EndedBy(line) /\ Keep(Tail(buffer))
          /\ UNCHANGED <<handled, answer>>
       \/ /\ line.what \in Asynchronous
          /\ handled' = handled \union {line}
          /\ buffer' = Tail(buffer)
          /\ UNCHANGED <<open, callVars, abandoned, answer>>
       \/ /\ line.what \notin {"ok", "error"} \union Asynchronous
          /\ payload' = Append(payload, line)
          /\ buffer' = Tail(buffer)
          /\ UNCHANGED <<open, phase, op, left, handled, abandoned, answer>>
  /\ UNCHANGED <<modem, written, urcs, due>>

(* The deadline passes, or the port fails.                                 *)
GiveUp ==
  /\ phase # "idle"
  /\ Close /\ EndCommand(FALSE)
  /\ abandoned' = IF phase = "drained" THEN abandoned ELSE abandoned \union {written}
  /\ UNCHANGED <<modem, handled, written, urcs, due, answer>>

(* poll_events, once per tick.                                             *)
PollEvents ==
  /\ phase = "idle" /\ left = <<>>
  /\ IF open THEN buffer' = SubSeq(buffer, Drained + 1, Len(buffer)) ELSE UNCHANGED buffer
  /\ handled' = {}
  /\ UNCHANGED <<open, callVars, modem, written, urcs, abandoned, due, answer>>

-----------------------------------------------------------------------------
(* The modem.  Nobody may be there to read what it sends.                  *)

Sends(line) == buffer' = Append(buffer, line) \/ (~open /\ UNCHANGED buffer)
Answered == modem' = Tail(modem)

SendsAnswer ==
  /\ modem # <<>>
  /\ LET c == Head(modem) IN
       \/ /\ c.at = "prompting"
          /\ Sends(Line("prompt", c.n))
          /\ modem' = [modem EXCEPT ![1].at = "prompted"]
       \/ /\ c.at = "answering" /\ c.lines < MaxLines
          /\ Sends(Line("data", c.n))
          /\ modem' = [modem EXCEPT ![1].lines = @ + 1]
       \/ /\ c.at = "answering" /\ Answered
          /\ Sends(Line("ok", c.n))
       \/ /\ c.at # "prompted" /\ Answered
          /\ Sends(Line("error", c.n))
       \/ /\ c.n \in abandoned /\ Answered      \* it never answers
          /\ UNCHANGED buffer
  /\ UNCHANGED <<open, callVars, handled, written, urcs, abandoned, due, answer>>

(* Registration URCs look like the answer to a query.                      *)
SendsUrc ==
  /\ urcs < MaxUrcs /\ urcs' = urcs + 1
  /\ \E what \in {"urc", "registration"} : Sends(Line(what, 0))
  /\ UNCHANGED <<open, callVars, modem, handled, written, abandoned, due, answer>>

AtNext ==
  \/ BeginOperation \/ Execute \/ CannotOpen \/ WriteCommand \/ WaitForPrompt
  \/ ReadResponse \/ GiveUp \/ PollEvents \/ SendsAnswer \/ SendsUrc

AtSpec == AtInit /\ [][AtNext]_atVars

-----------------------------------------------------------------------------
(* Every line gets where it belongs.  The lines of an answer up to its OK  *)
(* are those of the command, at most with registration URCs among them,    *)
(* except while the modem still owed the answer to a command given up      *)
(* before.  And as the comment in _drain_pending says, "every complete     *)
(* buffered line is unsolicited" between commands, or late.                *)
LinesInPlace ==
  /\ \A line \in handled :
       line.what \in {"urc", "registration", "tail"} \/ line.n \in abandoned
  /\ ~answer.due => \A i \in DOMAIN answer.lines :
       answer.lines[i].n = answer.n \/ answer.lines[i].what = "registration"
=============================================================================
