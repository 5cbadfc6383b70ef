----------------------------- MODULE Heartbeat -----------------------------
(***************************************************************************)
(* The heartbeat thread, monitor/http_monitor.py, with the schedule windows *)
(* of monitor/schedule.py and the public address it looks up for the        *)
(* status.  The daemon's thread sets the trigger, changes the state and the *)
(* active profile; web threads change the configuration.                    *)
(*                                                                          *)
(* Nothing in HttpMonitor.run catches an exception: what no except clause   *)
(* of a probe names ends the thread for good ("dead").                      *)
(***************************************************************************)
EXTENDS Integers, Sequences, FiniteSets

CONSTANTS
  Configs,      \* heartbeat configurations
  Profiled,     \* those an active profile may bring
  Keys,         \* _dest_key of their destinations
  MaxInterval,  \* no interval is longer
  IpInterval,   \* PUBLIC_IP_INTERVAL
  WeekLength, DayLength     \* length of the schedule's week and of its day

ASSUME HeartbeatConstants ==
  /\ {MaxInterval, IpInterval} \subseteq Nat \ {0}
  /\ Profiled \subseteq Configs
  /\ {WeekLength, DayLength} \subseteq Nat \ {0} /\ WeekLength % DayLength = 0
  /\ \A c \in Configs : \A i \in DOMAIN c.dests :
       c.dests[i].key \in Keys /\ c.dests[i].interval \in 1 .. MaxInterval

VARIABLES
  global, profiled, \* global_monitor; the active profile's config, as a set of <= 1
  connected, paused, \* the snapshot: CONNECTED, monitor_paused
  settled,      \* environment: no more edits, state changes and faults
  trigger,      \* monitor_trigger
  beat, forced, \* where the thread is; the local "forced"
  toFire,       \* keys of the destinations this cycle still has to send to
  age,          \* by key: time since _last_sent, at most MaxInterval
  ipAge,        \* time since the last lookup, at most IpInterval
  publicIp, looking, \* whose address public_ip is, and the one being looked up
  wall,         \* the wall clock within the week
  asked         \* history: a RunMonitorNow no forced cycle has followed yet

givenVars == <<global, profiled, connected, paused, settled>>
cycleVars == <<beat, forced, toFire>>
ipVars    == <<ipAge, publicIp, looking>>
beatVars  == <<givenVars, trigger, cycleVars, age, ipVars, wall, asked>>

BeatInit ==
  /\ global \in Configs /\ profiled = {}
  /\ connected = FALSE /\ paused = FALSE /\ settled = FALSE
  /\ trigger = FALSE /\ beat = "waiting" /\ forced = FALSE /\ toFire = <<>>
  /\ age = [k \in Keys |-> MaxInterval]
  /\ ipAge = IpInterval /\ publicIp = "none" /\ looking = "none"
  /\ wall = 0 /\ asked = FALSE

-----------------------------------------------------------------------------
(* effective_monitor_config: the active profile's configuration when it is *)
(* enabled and has destinations.                                           *)
Overriding == {c \in profiled : c.enabled /\ c.dests # <<>>}
EffectiveConfig == IF Overriding = {} THEN global ELSE CHOOSE c \in Overriding : TRUE

(* is_active: a time zone that is not known leaves the window open.        *)
InWindow(s, t) ==
  LET minute == t % DayLength IN
    /\ (t \div DayLength) \in s.days
    /\ IF s.start <= s.end THEN s.start <= minute /\ minute < s.end
       ELSE s.start <= minute \/ minute < s.end
IsActive(s, t) ==
  \/ s.override = "on"
  \/ s.override = "auto" /\ (s.enabled /\ s.known => InWindow(s, t))

Scheduled(c, i) ==
  LET d == c.dests[i] IN
    c.enabled /\ d.on /\ IsActive(d.schedule, wall) /\ age[d.key] >= d.interval

(* A destination is taken into the cycle by force or by its schedule; the  *)
(* first one of a key is marked as sent before the next is looked at.      *)
Chosen(c, i) ==
  /\ c.dests[i].on
  /\ forced \/ (Scheduled(c, i)
                /\ \A j \in 1 .. i - 1 : c.dests[j].key = c.dests[i].key => ~Scheduled(c, j))

ChosenKeys(c) ==
  LET picked == SelectSeq([i \in DOMAIN c.dests |-> i], LAMBDA i : Chosen(c, i))
  IN  [n \in DOMAIN picked |-> c.dests[picked[n]].key]

MutSent(c) == [k \in Keys |->
  IF \E i \in DOMAIN c.dests : c.dests[i].on /\ c.dests[i].key = k THEN 0 ELSE age[k]]
Sent(c) == [k \in Keys |->
  IF \E i \in DOMAIN c.dests : Chosen(c, i) /\ c.dests[i].key = k THEN 0 ELSE age[k]]

-----------------------------------------------------------------------------
(* The thread: wait for the trigger or a second, clear it, go through a    *)
(* cycle, perhaps look up the public address.                              *)

Wake ==
  /\ beat = "waiting"
  /\ forced' = trigger
  /\ beat' = IF trigger THEN "clearing" ELSE "cycle"
  /\ UNCHANGED <<givenVars, trigger, toFire, age, ipVars, wall, asked>>

Clear ==
  /\ beat = "clearing"
  /\ trigger' = FALSE
  /\ beat' = "cycle"
  /\ UNCHANGED <<givenVars, forced, toFire, age, ipVars, wall, asked>>

(* Paused, or cellular is down and the configuration wants no reports of   *)
(* that: the schedule is left as it is.                                    *)
MutHeld(c) == paused \/ (~connected /\ ~c.degraded /\ ~forced)
Held(c) == ~forced /\ (paused \/ (~connected /\ ~c.degraded))

(* _iteration, up to the decision which destinations to send to.           *)
Decide ==
  LET c == EffectiveConfig IN
    /\ beat = "cycle"
    /\ asked' = (asked /\ (forced => Held(c)))
    /\ IF c.dests = <<>> \/ Held(c)
       THEN /\ \/ beat' = "ip"
               \/ beat' = "dead" /\ forced /\ ~settled  \* its row cannot be written
            /\ UNCHANGED <<toFire, age>>
       ELSE /\ toFire' = ChosenKeys(c)
            /\ age' = Sent(c)
            /\ beat' = IF toFire' = <<>> THEN "ip" ELSE "firing"
    /\ UNCHANGED <<givenVars, trigger, forced, ipVars, wall>>

(* probe: whatever the answer, or a RequestException, is recorded.  Any    *)
(* other exception of the request, or of the recording, is not caught.     *)
Probe ==
  /\ beat = "firing"
  /\ \/ /\ toFire' = Tail(toFire)
        /\ beat' = IF toFire' = <<>> THEN "ip" ELSE "firing"
     \/ /\ ~settled
        /\ toFire' = <<>> /\ beat' = "dead"
  /\ UNCHANGED <<givenVars, trigger, forced, age, ipVars, wall, asked>>

IpDue == ipAge >= IpInterval

(* _maybe_public_ip, before the request; the next lookup is due from here. *)
LookUp ==
  /\ beat = "ip"
  /\ IF IpDue /\ connected
     THEN beat' = "looking" /\ ipAge' = 0 /\ looking' = "current"
     ELSE beat' = "waiting" /\ UNCHANGED <<ipAge, looking>>
  /\ UNCHANGED <<givenVars, trigger, forced, toFire, age, publicIp, wall, asked>>

(* The answer, of the session the request was made in, or none; anything    *)
(* raised but a RequestException is not caught.                            *)
LookedUp ==
  /\ beat = "looking"
  /\ \/ publicIp' = looking /\ beat' = "waiting"
     \/ ~settled /\ UNCHANGED publicIp /\ beat' \in {"waiting", "dead"}
  /\ looking' = "none"
  /\ UNCHANGED <<givenVars, trigger, forced, toFire, age, ipAge, wall, asked>>

Thread == Wake \/ Clear \/ Decide \/ Probe \/ LookUp \/ LookedUp

-----------------------------------------------------------------------------
(* The daemon, the web UI and time.                                        *)

RunMonitorNow ==
  /\ trigger' = TRUE /\ asked' = TRUE
  /\ UNCHANGED <<givenVars, cycleVars, age, ipVars, wall>>

threadState == <<trigger, cycleVars, age, wall, asked, ipAge>>

(* The connection is lost, and the address with it when the modem is       *)
(* dropped, or a new session begins.                                       *)
Outdated(ip) == IF ip = "current" THEN "stale" ELSE ip
ConnectionChanges ==
  /\ ~settled
  /\ connected' = ~connected
  /\ publicIp' \in {Outdated(publicIp)} \union (IF connected THEN {"none"} ELSE {})
  /\ looking' = Outdated(looking)
  /\ UNCHANGED <<threadState, global, profiled, paused, settled>>

Configure ==
  /\ ~settled
  /\ \/ /\ global' \in Configs
        /\ UNCHANGED <<profiled, paused>>
     \/ /\ profiled' \in {{}} \union {{c} : c \in Profiled}
        /\ UNCHANGED <<global, paused>>
     \/ /\ paused' \in BOOLEAN
        /\ UNCHANGED <<global, profiled>>
  /\ UNCHANGED <<threadState, connected, settled, publicIp, looking>>

BeatSettles ==
  /\ ~settled /\ settled' = TRUE
  /\ UNCHANGED <<threadState, global, profiled, connected, paused, publicIp, looking>>

Older(a, limit) == IF a < limit THEN a + 1 ELSE a
SecondsPass ==
  /\ age' = [k \in Keys |-> Older(age[k], MaxInterval)]
  /\ ipAge' = Older(ipAge, IpInterval)
  /\ wall' = (wall + 1) % WeekLength
  /\ UNCHANGED <<givenVars, trigger, cycleVars, publicIp, looking, asked>>

BeatNext ==
  \/ Wake \/ Clear \/ Decide \/ Probe \/ LookUp \/ LookedUp
  \/ RunMonitorNow \/ ConnectionChanges \/ Configure \/ BeatSettles \/ SecondsPass

-----------------------------------------------------------------------------
(* A RunMonitorNow is followed by a cycle that sends to every destination, *)
(* no matter when in a cycle it arrives, in which window, paused or        *)
(* degraded, unless the thread has died.                                   *)
ForcedServed == asked ~> (~asked \/ beat = "dead")

(* There is something to send under a key all the time.                    *)
Owed(k) ==
  LET c == EffectiveConfig IN
    /\ c.enabled /\ ~paused /\ (connected \/ c.degraded)
    /\ \E i \in DOMAIN c.dests :
         c.dests[i].on /\ c.dests[i].key = k /\ IsActive(c.dests[i].schedule, wall)
Sending(k) == beat = "firing" /\ Head(toFire) = k
Fires == \A k \in Keys : <>[]Owed(k) => []<>Sending(k)

(* As long as the thread lives, a destination whose window is open gets a  *)
(* heartbeat again and again, whatever edits, pauses, losses of the        *)
(* connection and forced cycles came before; and an address measured on an *)
(* earlier session does not stay on display for good.                      *)
KeepsUp ==
  <>(beat = "dead") \/ (Fires /\ (<>[](settled /\ connected) => <>[](publicIp # "stale")))
=============================================================================
