# sim-connectivity-monitor: a TLA+ development

The program keeps a cellular modem connected: a daemon thread drives a modem, a SIM and
NetworkManager through a state machine with a recovery ladder, mirrors the SMS inbox and answers
messages; beside it run monitors, listeners, a traffic auditor and a web UI, one thread each.
This directory models its core, checks it with TLC and proves the main results with TLAPS.

## 1. Inventory

| component | state it keeps | operations | talks to | what makes it correct |
|---|---|---|---|---|
| `core/supervisor.py` | failure counter, planned action, start of the stable stretch | `on_failure`, `due`, `consume`, `on_connected`, `reset` | called by the daemon | backoff respected, one plan belonging to the latest failure, ladder cleared only by quiet, no disruptive rung repeated |
| `core/daemon.py` | state, driver, active profile and PDP variant, force, loaded profiles, fallback test and its arm, PPP attempts | one handler per state, one per command, one tick = drain commands + handler + SMS fetch | modem driver, backend, store, database, queue | always recovers when it can; works with the selected profile; never leaves the radio off; restart loses nothing it promised to keep |
| SMS part of the daemon, `modem/sms.py`, `sms` table | pending flag, reply times per peer, inbound rows | poll, fetch, answer, delete, clear, mark read | modem storage, database | the table converges to the modem, read stays read, one reply per message, replies bounded |
| `traffic/` | tracked flows, event queue, rows of `traffic_flows` | tick: start/stop, drain, finalise, checkpoint, prune | kernel conntrack, database | no row lost or reopened, live view truthful, every flow recorded once |
| `modem/` channel, driver, parsers | serial port, URC buffer | command/response, URC dispatch, PDU | modem | an answer belongs to its command |
| `system/` | none | nmcli, mmcli, routes, USB power, subprocesses | host | errors are reported, not hidden |
| `config/` | profiles on disk | load, validate, match | daemon, web | most specific profile wins, deterministic |
| `monitor/` heartbeat, ping, website | last-sent times, rollups | periodic probes, forced probe | store, database | paced per destination, no lost trigger, rollups fold every sample once, windows show it once |
| `monitor/` UDP/TCP listeners | sockets, connections, reply times | sync to configuration, accept, read, reply | database | bound as configured, capped |
| `scan/manager.py` | one scan's progress | launch, cancel, workers | web | one scan at a time |
| `core/state_store.py`, `commands.py`, `events.py` | snapshot, queue, log | replace, submit/drain, append | every thread | the snapshot is truthful |
| `storage/db.py` | SQLite | one locked method per operation | every thread | caps and retention delete only what they may |
| `web/`, `frontend/`, `deploy/` | none | requests | store, queue, database | - |

Threads share only the `StateStore` (immutable snapshots under a lock), the command queue and the
database. The daemon is the only thread that touches the modem, so commands and handlers are
atomic against each other; what moves between them is the world: modem, SIM slot, NetworkManager,
network, clock, kernel, and the process itself dying. That is where the hard behaviours are:
timeouts racing late success, actions that fail half-way, SIM swaps under a running session,
commands in the middle of a test, restarts between two writes, messages arriving in pieces, flows
ending between two reads. `PROJECT.json` lists each at its line under "hazards".

## 2. Modules

| module | models | kind |
|---|---|---|
| `RecoveryLadder` | the rungs and which failure asks for which | operators shared by the next two |
| `Supervisor` | the policy with its clock, and its caller reduced to three modes | specification |
| `Daemon` | the state machine with modem, SIM, NetworkManager, operator and restarts | specification |
| `Uplink` | what the daemon promises to whoever watches it through the store | abstract specification of `Daemon` |
| `SmsInbox` | modem storage, its mirror in the database, the auto-responder | specification |
| `SmsCodec` | a text split into PDUs, delivered in any order, joined again | specification |
| `AtChannel` | commands, answers, late answers and unsolicited lines on one port, under the driver's operations | specification |
| `Pdp` | profile matching and the reconciliation of contexts, command by command | specification |
| `TrafficCollector` | kernel flows, event stream, collector tick, rows | specification |
| `Listener` | one UDP or TCP listener thread | specification |
| `Probes` | samples, hourly and daily rollups, retention of a latency or website monitor, the windows shown of them | specification |
| `Uptime` | the connectivity log and its summary | specification |
| `Heartbeat` | the heartbeat thread: trigger, pacing, schedules, public address | specification |
| `MessageLog` | a capture log with its cap and its unread mark | specification |
| `ScanManager` | launching, stopping and ending of scans | specification |
| `ProfileStore` | profile files under concurrent requests and reloads | specification |
| `MCDaemon`, `MCSmsInbox`, `MCPdp`, `MCModem`, `MCTraffic`, `MCMonitors`, `MCWeb` | instances and compositions | TLC |
| `X_proofs` for `Supervisor`, `Daemon` (with `Uplink`), `TrafficCollector`, `ProfileStore` | section 4 | proofs |
| `Sms_proofs` | of `SmsInbox` and `SmsCodec`, section 4 | proofs |
| `Modem_proofs` | of `AtChannel` and `Pdp`, section 4 | proofs |
| `Monitors_proofs` | of `Listener`, `Probes` and `Uptime`, section 4 | proofs |
| `Web_proofs` | of `MessageLog` and `ScanManager`, section 4 | proofs |

`MCModem` (inbox, texts, port, contexts), `MCTraffic` (auditor, recovery policy), `MCMonitors`
(listener, probes, uptime) and `MCWeb` (messages, scans, profiles, heartbeat) check several
components in one run. Those components share
no state at the level they are modelled at, so an interleaving of them would show nothing new: the
variable `part`, chosen in the initial state, says which one a behaviour is about. Where components
do interact, they are in one module: daemon, ladder, SIM, modem and NetworkManager in `Daemon`;
database, modem storage and responder in `SmsInbox`; matching, driver and firmware in `Pdp`; files,
web threads and the daemon's reload in `ProfileStore`; daemon, web threads and heartbeat in
`Heartbeat`; web threads, workers and cancel flag in `ScanManager`.

### How state and actions correspond to the code

`Supervisor`: `failures`, `planned`, `connectedSince` are the attributes; `Fail`, `Execute`,
`StretchStarts`, `StretchResets`, `SwitchProfile` are the calls the daemon makes of it; `now` is the
monotonic clock. Its `SupInit`, `SupNext`, `SupSpec`, `SupTypeOK` are named so that `MCTraffic` can
extend it beside the auditor. `lastFailure` and `climbed` are history read only by properties.

`Daemon`: `profile`, `variant`, `fallbackActive`, `forced`, `loaded`, `refresh`, `pppAttempts`,
`armed`, `window` are `active_profile`, `_variant_index`, `_fallback_active`, `forced_profile`,
`profiles`, `_sim_refresh_pending`, `_ppp_reset_attempts`, `_fallback_armed`, `_fallback_until`;
`snapSim`, `snapProfile` are the store's copies, `savedArm` the database's. Each handler
`_state_x` is split into one action per way through it, named for what happens; each command is an
action. `elapsed` says that the timer the current state waits for has run out (the policy's clock is
`Supervisor`'s subject). The world is `sim`, `radio`, `link`; a command of the modem or nmcli takes
effect, fails, or fails after having taken effect, as the code cannot tell. `gaveUp` is history: a
radio re-enable was abandoned on this attachment.

`Uplink`: the daemon's eight states are seen as five phases; `known` is the SIM in the store,
`using` the profile in the store while a service lasts, `online` the state CONNECTED. From the
moment a radio re-enable is given up, the mapping shows the phase "recovering", in which nothing is
said of the profile.

`SmsInbox`: the modem's slots are per SIM; a row is its identity (`body`: which pieces of which
message were read), the slots it remembers and whether it was read. `pending` is `_sms_pending`,
`recent` the reply times in the rolling window, `outbox` the new rows `_auto_reply` has still to
consider. `daemon` keeps of the state machine only whether it holds a driver and may fetch.

`SmsCodec`: a letter is known by what it costs (one septet, an escape pair, one UTF-16 unit, a
surrogate pair), a PDU by its half letters and its place in the text. `SendSms` is
`encode_submit` and one `AT+CMGS` per part, any of which may fail; `Store` puts a part into a slot
of the receiver, in any order; what is read is `decode_pdu` and `reassemble_inbound` over the slots:
a row of the inbox is the set of slots `reassemble_inbound` joins (`InboxRows`), its text what they
decode to in the order of their numbers (`TextOf`). The field `of` of a PDU is history: the property
needs it to say which text a part is of, and nothing the receiver does reads it.

`AtChannel`: `BeginOperation` and `EndCommand` are the driver's loop over its commands; `Execute`,
`DrainPending`, `WriteCommand`, `WaitForPrompt`, `ReadResponse` and `GiveUp` the steps of one
command up to its deadline; `PollEvents` the poll between commands; `modem` lists the commands the modem still owes an answer, so that
an answer may come after its command was given up.

`Pdp`: `stage` follows READING_SIM, SIM_READY and CONFIGURING; `todo` is the set of modem commands the
comparison left to do, taken one at a time in the order of the code (`Place`: deletions before
definitions, both by cid, a login after its definition), each of which fails, succeeds, or fails
after its effect. `spared` and `listed` record what the comparison saw.

`TrafficCollector`: `tracked` is `_active`, `queue` the reader thread's queue, `batch` the events of
this tick, `pc` the place in `tick`, so that the kernel moves between the steps of a tick. A row is
"live", "closed", "final" or "gone".

`Listener`: `boundKey` and `status` are `_bound_key` and the status setting, `sockets` the ports
really open; `Iterate` is the head of the loop with `_sync`, the other actions one handler each
(accept, read, end of a connection, datagram). A buffer is its number of fragments and of newlines;
`Read` is one `recv`, `SplitLine` one turn of the loop of `_read` over the newlines and `EndRead` its
end, with `reading` the connection it is at. A row that cannot be written raises out of that loop
into `run`: the line it was about is gone (`unwritten`), the reply, if the row was the reply's, is
out, and the lines behind it stay unsplit in the buffer until the peer sends more or closes, when
they become one message with their newlines in it. `dropped` is text given up with a connection,
`again` text captured a second time. `Heartbeat`: `beat` is the place in the loop; `age` the time since `_last_sent`.
`Probes`: `cycle` is the place in `_iteration`; a rollup is the set of samples folded into it,
and `Shown` the samples behind what a page or an export shows of a window.
`Uptime`: one unit of time is a second; `wasUp` is what really was, `rows` what was written;
`SumsAfter` is the loop of `summarize`, its state after each row as a function.
`MessageLog`: `marking` is the maximum a request has read and not yet stored. `ScanManager`:
`worker` and `left` are a thread and the outcomes it has not taken. `_launch` is three steps
(`Launch` clears the flag, `Display` replaces the state, `StartThread`), since `stop` takes no lock
and may fall between them; an outcome is two, `Count` and `Collect`, with a thread "midway" between
its two holds of the lock, a pool counting first and a trace adding its hop first. `ProfileStore`: `step` is the
place in a request, between the search for a file and the command for the daemon.

## 3. Runs

| run | question | bounds and why they are enough |
|---|---|---|
| `daemon_safety` | what the daemon believes against what it does, and what it shows against `Uplink` | two profiles, two SIMs, every command, faults and restarts without end; two of each is what a swap, a force and a reload need |
| `daemon_recovers` | recovery from every state disturbance can leave | of the commands only the fallback test and its abort; one profile with two variants, a SIM for which only the first works and one for which only the built-in works, PPP links, failing writes, tests |
| `traffic` | the auditor under faults; the recovery policy under every order of calls | auditor: one audited and one local flow: rows of different flows never interact except through one batch. Policy: waits 1, 2, 3 s, clock to 13, six failures: past the last rung, parked, and through two resets |
| `sms` | the modem side: inbox, codec, port, contexts | inbox: a message of one piece and one of two, two SIMs of two slots, so that reordering, redelivery, half messages and full storage happen. Codec: two texts of up to three parts with a pair at every place. Port: three commands, one URC, a drain of two lines: a late answer, the next command, and one more. Contexts: three places, two SIMs, three libraries, firmware contexts of a known and an unknown type |
| `monitors` | the threads beside the daemon | listener: two clients, one connection at most, lines of one fragment at most, two fragments of text, two newlines in a buffer, one reply per window: each cap is met and passed, and a read holds several lines. Its behaviours are of two kinds: "binding", where configuration, device and faults move and settle while clients connect and send newlines only, and "text", where they send text and the device stays as it is. Rollups: hours of 2, days of 4, 10 units of time, windows of up to 2 from samples, to 5 from hours, beyond from days: cycles missed over several buckets and past the retention, and windows of each source inside it. Log: three rows, four seconds: the cap, a restart, a gap and a lost write |
| `web` | requests against each other and against threads | two web threads everywhere; a log of two rows over four ids; two scans of two probes; two profiles in three files; three destinations under two keys and a schedule that wraps |
| `daemon_wedge`, `traffic_rows`, `sms_replies`, `probes_refold`, `pdp_login`, `uptime_gap` | statements of the code's own comments and docs that the code does not keep, section 6 | the smallest instance that shows it |

The properties, by hazard:

* *Beliefs.* `Attached`, `SimKnown`, `ActiveIsSelected`, `SnapshotTruth`, `ArmDurable`,
  `ImplementsUplink` (daemon), `KeyIsBound` (what a listener remembers as bound is), `TrackedIsLive`
  and `LiveIsTracked` (auditor), `UptimeTruthful` (every window of the log, against what really was,
  where the rows were told of it).
* *Nothing lost.* `NothingLeftWaiting`, `TextAccountedFor` (every fragment a peer sent is in the
  database, in its buffer, was given up with a connection that was reset or dropped, or was of the
  one line whose own row could not be written), `WindowsExact` (after a whole cycle,
  whatever cycles before it missed, every window a page asks for shows every sample once, up to the
  buckets at its edges), `NewIsUnread`, `Survives`, `QuietMeansLoaded`, `OthersUntouched`,
  `OneFilePerName`.
* *Nothing twice, nothing late.* `RowAnsweredOnce`, `ReadStaysRead`, `RepliesCapped`,
  `DisruptiveOnce`, `ClosedIsHistory`, `LinesInPlace`, `ResultsBelong`, `OnlyStopsCut`.
* *Something good happens.* `Recovers`, `EveryFlowRecorded`, `EndedFlowsClose`, `InboxConverges`,
  `Converges`, `ScanEnds`, `ForcedServed`, `KeepsUp`.

Some of them hold only up to an exception the code really has. The exception is part of the property
and says what it is: `KeyIsBound` and `Converges` except a status that could not be written,
`Survives` except pairs cut at a part's end and a second long text from one number,
`ExactlyTheProfile` except a refused listing and logins of contexts that matched, `TextAccountedFor`
except the line or datagram whose row is the one that fails, `LiveIsTracked` and `EndedFlowsClose`
except rows a failing write left behind (`unwritten` in `TrafficCollector`), `UptimeTruthful` except
seconds the rows were not told of (`untold`), `OnlyStopsCut` except a stop that falls into the
launch of a scan after the flag was cleared, which cuts that scan whatever it was meant for,
`OneFilePerName` except two requests that save one name at once, `QuietMeansLoaded` except a tick
that dropped its commands, `ForcedServed` and `KeepsUp` except a thread that has died.

Bounds inside the specifications, each named there: `Horizon` and `MaxFailures` (`Supervisor`),
`MaxFailures` (`Daemon`: past the last rung the counter changes nothing), `Enough` (`SmsInbox`),
`MaxRows` (`TrafficCollector`: disturbances stop below it, so that it never blocks the collector),
`MaxTexts` (`SmsCodec`), `MaxWritten`, `MaxUrcs`, `MaxLines` (`AtChannel`), `MaxSent`, `MaxTime`,
`MaxRepeats`, `MaxNewlines` (`Listener`), `MaxClock`, `MaxGap` (`Probes`), `MaxSeconds` (`Uptime`), `MaxId`
(`MessageLog`), `MaxScans` (`ScanManager`), `MaxRequests`, `MaxQueue` (`ProfileStore`).

Deadlock is checked everywhere but in `daemon_recovers`, where a connected daemon in a calm world,
and one stranded in a state only an operator leaves, have nothing more to do, and in `sms`, where
the codec's part is over when its texts are delivered.

### Fairness

Each loop is `while not stop: tick()` with a guard around the tick, so a handler that can do
something does it: weak fairness of `Handler`, of `Poll`, `Fetch`, `ConsiderReply`, of `Collector`,
of the heartbeat's `Thread`; every probe of a scan has a timeout, and a web thread inside `_launch`
goes on, so `Work(s)` is fair. A listener's `Reading` is weakly fair: the loop of a read splits a
buffer that does not grow meanwhile, so it ends. Its `Iterate` is strongly fair: it waits for the
end of a read, and clients may make the thread read again and again, but one `select` names each
socket once, so the head of the loop comes back however much they send. `Snapshot` is strongly fair:
its interval is a timer over ticks, and each tick offers the choice between it and `NoSnapshot`
once. `Elapse`, `SecondsPass` and `Registered` are fair: time passes, and the network answers an
activation it grants. Where a run has parts, a fairness condition is about the behaviours of its
part. No fault, operator command, web request, peer, SIM change or restart is fair. Liveness is
stated for a world that becomes `calm` (or `settled`) at some moment of its own choice, so every
state that disturbances can produce is a starting point. In a calm world an activation the network
grants completes before `registration_timeout_seconds` (`Elapse`): with a network slower than that
the program promises nothing.

## 4. What is proved

For every value of the constants, from the named assumptions on them (`SupervisorConstants`,
`DoublingIsPowers`, `DaemonConstants`, `TrafficConstants`, `SmsConstants`, `MessageLogConstants`,
`SmsCodecConstants`, `ListenerConstants`, `ScanConstants`, `ProfileStoreConstants`,
`AtChannelConstants`, `PdpConstants`, `ProbesConstants`, `UptimeConstants`), which TLC evaluates on
its instances. Every invariant the passing runs check, and every action property, is a theorem. Four
theorems have a hypothesis of their own, named below; the instances of the passing runs satisfy it, so that TLC
checks these statements in the situation the theorems are about.

`Supervisor_proofs`: `SupTypeOK`, `PlanIsCurrent`, `BackoffRespected`, `ResetNeedsQuiet`,
`DisruptiveOnce`. The inductive invariant adds what those need but do not say: a plan waits exactly
the backoff of the latest failure (`PlanWaits`), the measured stretch starts after the latest
failure (`StretchFollowsFailure`), and a disruptive action already executed belongs to a rung the
counter has passed (`ClimbedIsPassed`). The action properties then follow from the invariant at the
state where the step starts.

`Daemon_proofs`: the invariants `daemon_safety` checks, and `TestEndsWithRadioOn`. The inductive
invariant is their conjunction with two facts: the last-ditch flag is only ever set with the
built-in profile (`FallbackIsBuiltin`; without it, keeping the flag over a re-selection of the same
profile would break `ActiveIsSelected`), and a connection is only pursued with a profile
(`LinkHasProfile`). The proof goes group by group: `FlagStep`, `ChoiceStep`, `CountStep`,
`VariantStep`, `LinkStep` for types, `ControlStep`, `ShapeStep`, `SelectionStep` for the rest, one
step per action in each. `ConfiguringAssertion` shows that the assertion at the head of
`_state_configuring` can fail only after an abandoned radio re-enable: the wedge of `daemon_wedge`
is the only one.

In the same module, `DaemonImplementsUplink`: every step of the daemon is a step of `Uplink` or a
stutter. The invariant above is needed: `Seen` is what of it the mapping uses.

`TrafficCollector_proofs`: `TypeOK`, `TrackedIsLive`, `LiveIsTracked`, `ClosedIsHistory`. Each step
of the specification is shown to be, flow by flow, either an edit that keeps the tracked row the
live one and touches no closed row, or an abandonment that leaves every live row untracked; the
invariant adds that before the start, and after a failed write, nothing is claimed of rows that
nobody tracks.

`Sms_proofs`, of the inbox: `TypeOK`, `RowAnsweredOnce`, `ReadStaysRead`. The invariant adds that whatever
still waits for its answer has an unanswered row, and that a body without a row has no answers:
together they are why a fetch that lists a row again cannot answer it again.

Of the codec: `SmsSurvives`, for any alphabet, any texts and number of them, and any capacity of a
part of two or more. The invariant `SmsInv` says of what is on the air or stored that each is a part
of a text sent (`PartsAreOfTexts`), none is there twice (`NoPartTwice`), and those of a text are the
first ones, all of them unless it was torn (`FirstAccepted`, `TornIs`). What the program computes is
in lemmas on the way. The codes of a text are laid out letter by letter (`Laid`, `SpreadLaid`), a
whole letter or two halves; the parts cut them into slices that are not empty and leave nothing out
(`Cut`, `PartsCut`); a slice whose edges are between letters decodes to its letters (`DecodeSlice`),
one whose edge is inside a letter keeps half of it (`DecodeHalves`). So the first parts of a text,
joined, are the text exactly if they are all and none is cut inside a letter (`JoinedIs`). The order
of the slots does not matter, since each number occurs once (`RowInOrder`). One row per text is what
remains when at most one text is long (`RowsAre`); with two of them, or one that cannot be read,
there are fewer readable rows than texts (`NoShrink`, by the pigeonhole principle), so that no
bijection is left, whatever the letters are: `Survives` is an equivalence. What `FlattenSeq` returns is reached
without induction over sequences: the results up to each place exist (`PrefixesExist`), because
among the places up to which they did not there would be a least one (`LeastOfSet`).

`Web_proofs`: `NewIsUnread`, with the fact that the maximum a request has read is covered by what
was seen (`MarkedIsSeen`), which is what makes the two-step marking harmless; `ResultsBelong` and
`OnlyStopsCut`, where the invariant adds that progress and the outcomes left make up the total, but
for the one a thread midway has in hand (`Counted`), that no two threads are active (`OwnWorker`),
and that the cancel flag, while a scan runs or is being launched, was set for it (`CancelIsMeant`).

`ProfileStore_proofs`: `OneFilePerName`, for directories that start without duplicates
(`NoDuplicates`: somebody who copies a file by hand has two files of one name, and nothing repairs
that). `OneSpot` says that each name has at most one place, the file that holds it or the file a
request is about to write it to; only names two requests save at once are exempt. `QuietMeansLoaded`,
with the invariant `Told`: whenever the daemon's profiles differ from the files, a request has still
to tell it, a command is waiting, or one was lost. `OthersUntouched`, for directories in which a file
named for a profile holds no other (`OwnFileNames`). The hypothesis is needed: section 6. All three
rest on lemmas about the search through the sorted directory (`FindFileFinds`, `FindFileSame`).

`Modem_proofs`: `LinesInPlace`. The invariant adds why the lines of different commands cannot mix: a
command has one answer and nothing of it follows its final result, neither unread nor unsent
(`AnsweredOnce`); whatever is still to be answered or read is unsolicited, the current command's, or
that of one given up (`Accounted`), and the current one's alone when no answer was due before
(`OwnAlone`). The lemmas are about what each operation does to the sequences (`SentKeeps`,
`ConsumesKeeps`). `PdpExactlyTheProfile`: the invariant says of every context wanted and of every
stray that it is as it should be once its command was sent (`Done`), and that there are no other
commands (`ToDo`), so none undoes what another did. `MatchIsBest` says that the choice of a profile
is really made: among the patterns that fit there is one that none ranks before, and the profile
is one of the library.

`Monitors_proofs`, of the listeners: `KeyIsBound`; `TextAccountedFor`, a balance per peer over
integer counters (`Books`), kept by each socket action on its own and, in a read, by each line
(`LineKeeps`); `RepliesCapped`, where the invariant relates the times the guard remembers to the
replies really sent (`Guarded`), and any `MaxReplies + 1` consecutive ones of them span more than
the window (`Spaced`), which caps every window and not just the last one.

Of the rollups: `WindowsExact` and `RefoldIdempotent`, both under the hypothesis `MaxGap <= LongestGap`,
that no time without a sample is longer than the raw retention less a day. That is what the folding
relies on: the newest bucket is folded again from the samples that are left, and with a longer gap
some of them have been pruned (`probes_refold`). With it, whatever the retention prunes lies before
the newest bucket that will ever be folded again (`LaterSample`, `PruneIsBeforeNewest`), so each row
is exactly the samples of its bucket (`RowsOver` and the rest of `ProbeInv`). `BucketSame`,
`BucketMonotone` and `GapAligned` are the arithmetic of buckets behind it.

Of the connectivity log: `UptimeTruthful`. `LogInv` says what survives lost writes, doubled rows and
the cap: the rows are in order, and in every second that is not `untold` the last row by then tells
what was. `SumHolds` is the invariant of the loop of `summarize`: the seconds counted are those up to
its cursor, and its outages, with the one under way, are in turn and cover what was down; `Ahead`
says that nothing changes between the cursor and the next row. The induction over the rows is by the
least row at which they would fail (`LeastOfSet`, as in `Sms_proofs`), since the library's induction rules cannot be
used here.

## 5. What is only model-checked

Liveness (all of the fourth group of section 3): temporal reasoning with fairness is beyond the
prover. The statements of section 6 that the code does not keep have no theorem, except
`RefoldIdempotent`, which is true with the hypothesis above.

## 6. Disagreements between the code and what it says of itself

Each of these is a run that finds the statement violated:

* `daemon_wedge`: the assertion of `_state_configuring` fails on every tick after a fallback test
  that began without a profile could not turn the radio on again.
* `traffic_rows`: "its DESTROY event finalises the same row": a flow that ends between the drain
  and the dump of one tick becomes two rows.
* `sms_replies`: "for each genuinely-new inbound message": a message fetched between its parts is
  answered twice.
* `probes_refold`: "idempotent on re-fold": when the retention prunes half of a bucket that is
  folded again, the row loses what was already in it.
* `pdp_login`: "exactly the PDP contexts the profile defines": a context whose login is wrong, or
  was changed in the profile, compares as equal and keeps the login it has.
* `uptime_gap`: "any service-down gap counts as downtime": the down edge is written, and stamped,
  when the service starts again, so after a stop or crash while connected the gap before it counts
  as connected. (After a stop while down the comment holds.)

Met while modelling, and part of the models without a run of their own:

* An interruption of the link without a failure (a SIM refresh, a reconnect) does not restart the
  stable stretch of the supervisor, so time offline can count towards it.
* After the switch to the built-in profile "only once", detaching the modem forgets the switch, so
  the ladder and its resets are climbed again and again on a SIM nothing works for.
* Without a profile that matches, SIM_READY is left only by a command or a SIM change, although the
  built-in profile is described as the answer to a missing one. Manual reconnects can walk the
  ladder past the rungs that would bring the matched profile back; `daemon_recovers` leaves the
  operator's Reconnect out for that reason.
* `HttpMonitor.run` catches nothing around its cycle (http_monitor.py:128): an exception no probe
  names ends heartbeats for good ("dead" in `Heartbeat`). Destinations with the same egress, method
  and URL share one pacing entry, so only one of them may ever be due. A schedule whose start is
  its end is never open, whatever its docstring leaves to read.
* A window of two days or less is read from raw samples, and shows nothing, or its younger half,
  where `raw_retention_days` is over, although the hourly rollups of that time are kept
  (`WindowsExact` speaks of windows within the retention of their source).
* `stop` of a scan takes no lock and the cancel flag is cleared before the new scan is on display: a
  stop that falls in between cuts the new scan, although the display it answers shows no running one
  (`OnlyStopsCut` names that window).
* A row that cannot be written in the middle of a read over TCP leaves the lines behind it in the
  buffer until the peer sends more, and makes them one message with newlines in it if the peer
  closes instead; nothing of them is lost (`TextAccountedFor`), but no rule matches them one by one.
* `StateStore` is described as written by the daemon only; the heartbeat writes `public_ip`.
* A long SMS is cut between the halves of an escape or surrogate pair, and all parts carry the
  reference 0, so two long texts from one unit are joined wrongly.
* A profile that is saved for the first time goes to `<name>.yaml` without a look at what that file
  holds (loader.py:85-92). If it holds a profile of another name, as `find_profile_file` provides for
  ("filename may not equal name"), that profile is gone, although an import says that "other existing
  profiles are left untouched". `OthersUntouched` is therefore stated of directories without such a
  file; the program itself never makes one.
* After a command was given up, its late result may end the next command (`LinesInPlace` says
  exactly when), and the port slips by one.

## 7. Not modelled, and why

* The simulated modem and backend are test doubles; diagnostics, telemetry and the display fields
  of the snapshot are written and shown, never acted upon; wiring fixes only which threads exist;
  frontend and deployment present and start the program (a restart is an action where it matters).
* Modem detection scores ports and probes hardware; the probes of monitors and scans, their
  HTTP exchanges, and the parsing of nmcli, mmcli and AT output are I/O and text. Their
  outcomes appear where they matter: found or not, sent or failed, granted or not.
* Septet packing, addresses and time stamps of PDUs, statistics inside a bucket, rendering of
  templates and validation of fields are pure computation that no property here is about.
* Routes: the routes set at connect and for probes are applied and forgotten, no state follows.
* Deleting SMS by slots remembered from the last fetch, rows pruned by the cap while their message
  is still on the modem, and a crash between storing and answering are in `SmsInbox` or described
  under "hazards"; the program promises nothing there. So is the second write of a USB power cycle,
  whose failure leaves the device unauthorised while the action is only reported as failed.
* Unsolicited result codes of two lines are one line in `AtChannel`. The one the driver asks for is
  `+CDS` with its PDU (`AT+CNMI=2,1,0,1,0`); the channel diverts the line with the code and, during a
  command, takes the PDU line for one of the command's, so `LinesInPlace` is about one-line codes.
* A restart of the service forgets a listener's reply times (`_reply_times` is in memory only):
  `RepliesCapped` is about one life of the listener.
* In `ProfileStore`, a file that has a name but does not validate, which `find_profile_file` would
  find and `load_profiles` skip (loader.py:108-114), and an `open` that fails are left out.
* `--simulate`, whose scans return made-up data.
* Clearing the arm of the fallback test is one step for memory and database (`ConsumeArm`), the
  database's part failing or not: a crash between the two leaves what a crash before them leaves,
  since memory goes with the process.
* Assumed: a database method is all or nothing, and a read of the database succeeds or ends the
  tick. In `Daemon` an exception in the middle of a handler other than the modem's and the
  backend's own errors is not modelled; a batch of commands lost with it is in `ProfileStore`, for
  the one command nobody would notice losing.

## 8. Plan

Done, in this order because the daemon decides whether the device is online at all: ladder and
supervisor; state machine, its safety, its recovery and their proofs; traffic auditor and SMS inbox
with their proofs; the abstract uplink and its refinement; port, codec and contexts; listeners,
rollups and uptime; message logs, scans, profile files and heartbeat; proofs of the logs, the
listener and the scans; proofs of the port, the contexts, the profile files, the reply cap, the
rollups and the connectivity log; proof of the codec.

Next:

1. `Daemon` with `SmsInbox` in one specification: the states in which messages are fetched are
   taken from the daemon's handlers and assumed in `SmsInbox`.
2. An abstract specification of the capture of text (`received` to `captured`) that both
   `Listener` and `SmsInbox` implement.
