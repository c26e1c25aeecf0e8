---------------------------- MODULE SigmaRunner ----------------------------
(***************************************************************************)
(* SigmaRuleRunner.evaluate (rule_engine/runner.py) and the persistence of *)
(* what fires (persist_fire, called from _process_sigma_one in             *)
(* detectors/runner.py), for one dedup key.  Every Redis command is a step *)
(* of its own; the runners of several server processes share the sorted    *)
(* sets and the cooldown keys.                                             *)
(*                                                                         *)
(* The expiry of a sorted set (at least ten timeframes after the last      *)
(* ZADD) drops only what the next trim would drop, and is left out.        *)
(***************************************************************************)
EXTENDS Naturals, FiniteSets, FiniteSetsExt

CONSTANTS
  Workers,      \* runners, one per server process
  NumRules,     \* rules of the directory, in the order they are evaluated
  Count,        \* rule.count, per rule
  Timeframe,    \* rule.timeframe_sec, per rule
  CooldownSec,  \* rule.cooldown_sec, per rule
  MaxEvent,     \* bound: events
  MaxClock,     \* bound: seconds
  MaxFaults     \* bound: failing Redis commands and transactions

Rules  == 1..NumRules
Events == 1..MaxEvent
NoEvent == 0

ASSUME SigmaAssumption ==
  /\ {NumRules, MaxEvent, MaxClock, MaxFaults} \subseteq Nat
  /\ Count \in [Rules -> Nat \ {0}]
  /\ Timeframe \in [Rules -> Nat]
  /\ CooldownSec \in [Rules -> Nat \ {0}]

VARIABLES
  clock, arrived,   \* seconds since the start; events handed to runners
  time,             \* event_time of each: the clock when evaluate began
  window,           \* the sorted set of each rule
  coolUntil,        \* when the cooldown key of each rule expires
  pc, ev,           \* where each runner stands, and with which event
  todo,             \* rules that match the event and are not done yet
  count,            \* ZCARD + 1
  fired,            \* RuleFires to return, by rule
  alerts,           \* rows of the alerts table: <<rule, event>>
  seen,             \* history: <<rule, event>> that matched outside the cooldown
  muted,            \* history: <<rule, event>> that matched inside it
  recorded,         \* history: <<rule, event>> added to the sorted set
  beside,           \* history: <<x, y>>: y began while a runner worked on x
  sets, asked,      \* history: cooldowns set so far; as of each runner's EXISTS
  fires,            \* history: [rule, ev, at, by, no, asked] of each RuleFire:
                    \* its time, runner, SET and the sets before its EXISTS
  lost,             \* history: events whose evaluation raised
  faults

vars == <<clock, arrived, time, window, coolUntil, pc, ev, todo, count, fired, alerts,
          seen, muted, recorded, beside, sets, asked, fires, lost, faults>>

TypeOK ==
  /\ clock \in 0..MaxClock
  /\ arrived \in 0..MaxEvent
  /\ time \in [Events -> 0..MaxClock]
  /\ window \in [Rules -> SUBSET (1..arrived)]
  /\ coolUntil \in [Rules -> Nat]
  /\ pc \in [Workers -> {"idle", "cooldown", "trim", "card", "add", "set", "persist"}]
  /\ ev \in [Workers -> 0..arrived]
  /\ todo \in [Workers -> SUBSET Rules]
  /\ \A w \in Workers : todo[w] # {} <=> pc[w] \notin {"idle", "persist"}
  /\ count \in [Workers -> 0..(MaxEvent + 1)]
  /\ fired \in [Workers -> SUBSET Rules]
  /\ {alerts, seen, muted, recorded} \subseteq SUBSET (Rules \X Events)
  /\ beside \subseteq Events \X Events
  /\ sets \in Nat /\ asked \in [Workers -> Nat]
  /\ fires \subseteq [rule : Rules, ev : Events, at : 0..MaxClock,
                      by : Workers, no : Nat, asked : Nat]
  /\ lost \subseteq Events
  /\ faults \in Nat

Init ==
  /\ clock = 0 /\ arrived = 0
  /\ time = [e \in Events |-> 0]
  /\ window = [r \in Rules |-> {}]
  /\ coolUntil = [r \in Rules |-> 0]
  /\ pc = [w \in Workers |-> "idle"]
  /\ ev = [w \in Workers |-> NoEvent]
  /\ todo = [w \in Workers |-> {}]
  /\ count = [w \in Workers |-> 0]
  /\ fired = [w \in Workers |-> {}]
  /\ sets = 0 /\ asked = [w \in Workers |-> 0]
  /\ alerts = {} /\ seen = {} /\ muted = {} /\ recorded = {} /\ beside = {} /\ fires = {} /\ lost = {}
  /\ faults = 0

Fault == faults < MaxFaults /\ faults' = faults + 1

SecondPasses ==
  /\ clock < MaxClock
  /\ clock' = clock + 1
  /\ UNCHANGED <<arrived, time, window, coolUntil, pc, ev, todo, count, fired, alerts,
                 seen, muted, recorded, beside, sets, asked, fires, lost, faults>>

\* evaluate begins; rules that do not match are passed over.
Begin(w) ==
  /\ pc[w] = "idle"
  /\ arrived < MaxEvent
  /\ arrived' = arrived + 1
  /\ time' = [time EXCEPT ![arrived + 1] = clock]
  /\ ev' = [ev EXCEPT ![w] = arrived + 1]
  /\ \E matching \in (SUBSET Rules) \ {{}} : todo' = [todo EXCEPT ![w] = matching]
  /\ pc' = [pc EXCEPT ![w] = "cooldown"]
  /\ beside' = beside \cup {<<ev[v], arrived + 1>> : v \in {u \in Workers : ev[u] # NoEvent}}
  /\ UNCHANGED <<clock, window, coolUntil, count, fired, alerts, seen, muted, recorded,
                 sets, asked, fires, lost, faults>>

Rule(w) == Min(todo[w])

\* The next rule of the loop, or the end of evaluate.
NextRule(w) ==
  /\ todo' = [todo EXCEPT ![w] = @ \ {Rule(w)}]
  /\ pc' = [pc EXCEPT ![w] = IF todo[w] = {Rule(w)} THEN "persist" ELSE "cooldown"]

\* Mutant of InCooldown: the key is looked at a second early.
InCooldownShort(r) == clock + 1 < coolUntil[r]

InCooldown(r) == clock < coolUntil[r]

\* _is_in_cooldown: an event inside the cooldown is not recorded.
CheckCooldown(w) ==
  /\ pc[w] = "cooldown"
  /\ IF InCooldown(Rule(w))
     THEN /\ NextRule(w)
          /\ muted' = muted \cup {<<Rule(w), ev[w]>>}
          /\ UNCHANGED <<seen, asked>>
     ELSE /\ pc' = [pc EXCEPT ![w] = "trim"]
          /\ seen' = seen \cup {<<Rule(w), ev[w]>>}
          /\ asked' = [asked EXCEPT ![w] = sets]
          /\ UNCHANGED <<todo, muted>>
  /\ UNCHANGED <<clock, arrived, time, window, coolUntil, ev, count, fired, alerts, recorded,
                 beside, sets, fires, lost, faults>>

\* Mutant of Outside: the boundary stays.
OutsideOpen(r, x, t) == time[x] + Timeframe[r] < t

\* ZREMRANGEBYSCORE key 0 (t - timeframe_sec).
Outside(r, x, t) == time[x] + Timeframe[r] <= t

TrimEffect(w) ==
  window' = [window EXCEPT ![Rule(w)] = {x \in @ : ~Outside(Rule(w), x, time[ev[w]])}]

\* _count_in_window, first command.
Trim(w) ==
  /\ pc[w] = "trim"
  /\ TrimEffect(w)
  /\ pc' = [pc EXCEPT ![w] = "card"]
  /\ UNCHANGED <<clock, arrived, time, coolUntil, ev, todo, count, fired, alerts, seen, muted,
                 recorded, beside, sets, asked, fires, lost, faults>>

\* _count_in_window, second command; the event itself is the + 1.
Card(w) ==
  /\ pc[w] = "card"
  /\ count' = [count EXCEPT ![w] = Cardinality(window[Rule(w)]) + 1]
  /\ pc' = [pc EXCEPT ![w] = "add"]
  /\ UNCHANGED <<clock, arrived, time, window, coolUntil, ev, todo, fired, alerts, seen, muted,
                 recorded, beside, sets, asked, fires, lost, faults>>

RecordEffect(w) ==
  /\ window' = [window EXCEPT ![Rule(w)] = @ \cup {ev[w]}]
  /\ recorded' = recorded \cup {<<Rule(w), ev[w]>>}

\* Mutant of Below: off by one.
BelowOrAt(w) == count[w] <= Count[Rule(w)]

Below(w) == count[w] < Count[Rule(w)]

\* _record_event, and the comparison with rule.count.
Record(w) ==
  /\ pc[w] = "add"
  /\ RecordEffect(w)
  /\ IF Below(w)
     THEN NextRule(w)
     ELSE /\ pc' = [pc EXCEPT ![w] = "set"]
          /\ UNCHANGED todo
  /\ UNCHANGED <<clock, arrived, time, coolUntil, ev, count, fired, alerts, seen, muted,
                 beside, sets, asked, fires, lost, faults>>

SetEffect(w) ==
  /\ sets' = sets + 1
  /\ coolUntil' = [coolUntil EXCEPT ![Rule(w)] = clock + CooldownSec[Rule(w)]]

\* _set_cooldown: a plain SET, whoever else has set it meanwhile.
SetCooldown(w) ==
  /\ pc[w] = "set"
  /\ SetEffect(w)
  /\ fires' = fires \cup {[rule |-> Rule(w), ev |-> ev[w], at |-> clock,
                           by |-> w, no |-> sets + 1, asked |-> asked[w]]}
  /\ fired' = [fired EXCEPT ![w] = @ \cup {Rule(w)}]
  /\ NextRule(w)
  /\ UNCHANGED <<clock, arrived, time, window, ev, count, alerts, seen, muted, recorded,
                 beside, asked, lost, faults>>

\* A Redis command raises, before or after Redis has run it.  Nothing in
\* evaluate catches it: the RuleFires collected so far go with it, and run()
\* logs the error.
Raises(w) ==
  /\ Fault
  /\ todo[w] # {}
  /\ \/ UNCHANGED <<window, recorded, coolUntil, sets>>
     \/ pc[w] = "trim" /\ TrimEffect(w) /\ UNCHANGED <<recorded, coolUntil, sets>>
     \/ pc[w] = "add" /\ RecordEffect(w) /\ UNCHANGED <<coolUntil, sets>>
     \/ pc[w] = "set" /\ SetEffect(w) /\ UNCHANGED <<window, recorded>>
  /\ pc' = [pc EXCEPT ![w] = "idle"]
  /\ ev' = [ev EXCEPT ![w] = NoEvent]
  /\ todo' = [todo EXCEPT ![w] = {}]
  /\ fired' = [fired EXCEPT ![w] = {}]
  /\ lost' = lost \cup {ev[w]}
  /\ UNCHANGED <<clock, arrived, time, count, alerts, seen, muted, beside, asked, fires>>

\* persist_fire and commit, one transaction per RuleFire.
Persist(w) ==
  /\ pc[w] = "persist"
  /\ fired[w] # {}
  /\ \/ /\ alerts' = alerts \cup {<<Min(fired[w]), ev[w]>>}
        /\ UNCHANGED faults
     \/ /\ Fault                     \* logged, the next fire is tried
        /\ UNCHANGED alerts
  /\ fired' = [fired EXCEPT ![w] = @ \ {Min(@)}]
  /\ UNCHANGED <<clock, arrived, time, window, coolUntil, pc, ev, todo, count, seen, muted,
                 recorded, beside, sets, asked, fires, lost>>

Finish(w) ==
  /\ pc[w] = "persist"
  /\ fired[w] = {}
  /\ pc' = [pc EXCEPT ![w] = "idle"]
  /\ ev' = [ev EXCEPT ![w] = NoEvent]
  /\ UNCHANGED <<clock, arrived, time, window, coolUntil, todo, count, fired, alerts, seen,
                 muted, recorded, beside, sets, asked, fires, lost, faults>>

Next ==
  \/ SecondPasses
  \/ \E w \in Workers :
       \/ Begin(w) \/ CheckCooldown(w) \/ Trim(w) \/ Card(w) \/ Record(w)
       \/ SetCooldown(w) \/ Raises(w) \/ Persist(w) \/ Finish(w)

Spec == Init /\ [][Next]_vars
--------------------------------------------------------------------------
(* Properties.                                                             *)

\* Two events that two runners worked on at the same time.
Beside(x, e) == <<x, e>> \in beside \/ <<e, x>> \in beside

\* Events of S (pairs of rule and event) inside rule r's timeframe that ends
\* at event e; e itself is inside, though the timeframe be zero.
InTimeframe(S, r, e) ==
  {x \in 1..e : <<r, x>> \in S /\ (x = e \/ time[x] + Timeframe[r] > time[e])}

\* A rule fires only on rule.count matching events: of its timeframe or, their
\* commands being mixed with those of the firing runner, worked on beside it.
FiresOnlyOnBurst ==
  \A f \in fires :
    Cardinality(InTimeframe(seen, f.rule, f.ev)
                  \cup {x \in Events : <<f.rule, x>> \in seen /\ Beside(x, f.ev)})
      >= Count[f.rule]

\* Two fires of a rule less than cooldown_sec apart are of two runners of which
\* each asked for the cooldown key before the other one had set it.
DebouncedUnlessRaced ==
  \A f, g \in fires :
    f.rule = g.rule /\ f # g =>
      \/ f.at + CooldownSec[f.rule] <= g.at \/ g.at + CooldownSec[f.rule] <= f.at
      \/ f.by # g.by /\ f.asked < g.no /\ g.asked < f.no

Evaluated(r, e) == e \notin lost /\ \A w \in Workers : ev[w] = e => r \notin todo[w]

\* The burst of rule r that e completes: recorded events of the timeframe that
\* no runner worked on beside e, and that none which did may have trimmed.
BurstOf(r, e) ==
  {x \in InTimeframe(recorded, r, e) :
     x = e \/ (~Beside(x, e)
               /\ \A y \in Events : <<e, y>> \in beside => time[x] + Timeframe[r] > time[y])}

\* An event that was recorded and completes a burst of recorded events fires
\* the rule, however the events of other rules failed.
RecordedBurstFires ==
  \A p \in recorded :
    Evaluated(p[1], p[2]) /\ Cardinality(BurstOf(p[1], p[2])) >= Count[p[1]]
      => \E f \in fires : f.rule = p[1] /\ f.ev = p[2]

--------------------------------------------------------------------------
(* What the documentation says and TLC refutes on a small instance: the    *)
(* README gives the counterexamples.                                       *)

\* Condition (3) of the module's header, not in cooldown: two fires of a rule
\* for one dedup key are at least cooldown_sec apart.  EXISTS and SET are two
\* commands, and a second runner may ask in between.
Debounced ==
  \A f, g \in fires :
    f.rule = g.rule /\ f # g =>
      f.at + CooldownSec[f.rule] <= g.at \/ g.at + CooldownSec[f.rule] <= f.at

\* Conditions (1) to (3) of the module's header: a rule fires on an event
\* outside the cooldown when the matching events of the timeframe reach
\* rule.count.  The code leaves the events of a cooldown out of the count.
AllMatchesCount ==
  \A p \in seen :
    Evaluated(p[1], p[2]) /\ Cardinality(InTimeframe(seen \cup muted, p[1], p[2])) >= Count[p[1]]
      => \E f \in fires : f.rule = p[1] /\ f.ev = p[2]

\* "When a rule fires, the runner inserts a row in alerts": once no runner
\* works on the event, a fire has its alert.  The cooldown is set first, and
\* a later failure loses the fire for as long as the cooldown lasts.
FireIsPersisted ==
  \A f \in fires : <<f.rule, f.ev>> \in alerts \/ \E w \in Workers : ev[w] = f.ev
=============================================================================
