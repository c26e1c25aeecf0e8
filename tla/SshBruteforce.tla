--------------------------- MODULE SshBruteforce ---------------------------
(***************************************************************************)
(* The SSH brute-force detector (detectors/ssh_bruteforce.py) for one host *)
(* and one source address: a sorted set of event times in Redis, and a     *)
(* cooldown key that is set with NX.  Runners of several server processes  *)
(* may share the Redis state; each handles one event at a time, and their  *)
(* Redis commands interleave.                                              *)
(***************************************************************************)
EXTENDS Naturals, FiniteSets

CONSTANTS
  Workers,         \* runners, one per server process
  Threshold,       \* ssh_bruteforce_threshold
  Window,          \* ssh_bruteforce_window_sec
  CooldownSetting, \* ssh_bruteforce_cooldown_sec
  Skew,            \* bound: how far an event's own time is from the runner's clock
  MaxEvent,        \* bound: failed logins
  MaxClock,        \* bound: seconds
  MaxFaults        \* bound: failing Redis calls

ASSUME SshAssumption ==
  /\ {Threshold, Window, CooldownSetting} \subseteq Nat \ {0}
  /\ {Skew, MaxEvent, MaxClock, MaxFaults} \subseteq Nat

\* cooldown_sec, which is also the time to live of the window's key.
Cooldown == IF CooldownSetting < Window * 5 THEN Window * 5 ELSE CooldownSetting

\* A key that ZADD creates does not expire until EXPIRE says so.
NoExpiry == MaxClock + Cooldown + 1

Events == 1..MaxEvent
NoEvent == 0

VARIABLES
  clock,            \* seconds since the start; also Redis' clock
  arrived,          \* failed logins handed to runners so far
  ts,               \* occurred_at of each: the sender's time
  came,             \* history: when each was added
  zset, zUntil,     \* the window's sorted set, and when its key expires
  coolUntil,        \* when the cooldown key expires
  pc, ev,           \* where each runner stands, and with which event
  counted,          \* history: events that were added
  lost,             \* history: events whose pipeline raised
  fires,            \* history: [ev, at] of each result
  faults

vars == <<clock, arrived, ts, came, zset, zUntil, coolUntil, pc, ev, counted, lost, fires, faults>>

TypeOK ==
  /\ clock \in 0..MaxClock
  /\ arrived \in 0..MaxEvent
  /\ ts \in [Events -> 0..(MaxClock + Skew)]
  /\ came \in [Events -> 0..MaxClock]
  /\ zset \subseteq Events
  /\ zUntil \in Nat
  /\ coolUntil \in Nat
  /\ pc \in [Workers -> {"idle", "added", "hit"}]
  /\ ev \in [Workers -> Events \cup {NoEvent}]
  /\ \A w \in Workers : ev[w] = NoEvent <=> pc[w] = "idle"
  /\ counted \subseteq 1..arrived
  /\ lost \subseteq 1..arrived
  /\ fires \subseteq [ev : Events, at : 0..MaxClock]
  /\ faults \in Nat

Init ==
  /\ clock = 0
  /\ arrived = 0
  /\ ts = [e \in Events |-> 0]
  /\ came = [e \in Events |-> 0]
  /\ zset = {} /\ zUntil = 0 /\ coolUntil = 0
  /\ pc = [w \in Workers |-> "idle"]
  /\ ev = [w \in Workers |-> NoEvent]
  /\ counted = {} /\ lost = {} /\ fires = {}
  /\ faults = 0

Fault == faults < MaxFaults /\ faults' = faults + 1

\* The commands of a pipeline reach Redis in one go: no time passes between
\* them, though commands of other runners may.
SecondPasses ==
  /\ clock < MaxClock
  /\ \A w \in Workers : pc[w] # "added"
  /\ clock' = clock + 1
  /\ UNCHANGED <<arrived, ts, came, zset, zUntil, coolUntil, pc, ev, counted, lost, fires, faults>>

\* The set as Redis sees it: an expired key is empty.
Live == IF clock < zUntil THEN zset ELSE {}

\* Mutant of Kept: the boundary is kept.
KeptBoundary(t) == {e \in Live : ts[e] + Window >= t}

\* ZREMRANGEBYSCORE key 0 (t - window_sec): the boundary goes, too.
Kept(t) == {e \in Live : ts[e] + Window > t}

\* ZREMRANGEBYSCORE and ZADD of a failed login.  Its score, and the end of the
\* window, is its own time, which the sender set: late or ahead of the clock.
Enter(expiry) ==
  \E t \in 0..(MaxClock + Skew) :
    LET e == arrived + 1 IN
    /\ clock <= t + Skew /\ t <= clock + Skew
    /\ ts' = [ts EXCEPT ![e] = t]
    /\ came' = [came EXCEPT ![e] = clock]
    /\ zset' = Kept(t) \cup {e}
    /\ zUntil' = IF Kept(t) = {} \/ expiry # NoExpiry THEN expiry ELSE zUntil
    /\ counted' = counted \cup {e}

\* The next failed login is handed to idle runner w.
Arrives(w) ==
  /\ pc[w] = "idle"
  /\ arrived < MaxEvent
  /\ arrived' = arrived + 1

\* The first two commands of the pipeline.
Add(w) ==
  /\ Arrives(w)
  /\ Enter(NoExpiry)
  /\ ev' = [ev EXCEPT ![w] = arrived + 1]
  /\ pc' = [pc EXCEPT ![w] = "added"]
  /\ UNCHANGED <<clock, coolUntil, lost, fires, faults>>

\* The pipeline raises: fail-open, no result.  Redis has run the commands if
\* only the answer was lost.
AddRaises(w) ==
  /\ Fault
  /\ Arrives(w)
  /\ \/ UNCHANGED <<ts, came, zset, zUntil, counted>>
     \/ Enter(clock + Cooldown)
  /\ lost' = lost \cup {arrived + 1}
  /\ UNCHANGED <<clock, coolUntil, pc, ev, fires>>

\* Mutant of Below: off by one.
BelowOrAt(n) == n <= Threshold

Below(n) == n < Threshold

\* ZCARD and EXPIRE; below the threshold there is no result.
Count(w) ==
  /\ pc[w] = "added"
  /\ zUntil' = IF Live = {} THEN zUntil ELSE clock + Cooldown
  /\ IF Below(Cardinality(Live))
     THEN /\ pc' = [pc EXCEPT ![w] = "idle"]
          /\ ev' = [ev EXCEPT ![w] = NoEvent]
     ELSE /\ pc' = [pc EXCEPT ![w] = "hit"]
          /\ UNCHANGED ev
  /\ UNCHANGED <<clock, arrived, ts, came, zset, coolUntil, counted, lost, fires, faults>>

\* Mutant of CooldownFree: the key is never looked at.
CooldownFreeAlways == TRUE

\* SET NX succeeds only if the key is absent or has expired.
CooldownFree == clock >= coolUntil

Done(w) ==
  /\ pc' = [pc EXCEPT ![w] = "idle"]
  /\ ev' = [ev EXCEPT ![w] = NoEvent]

\* SET cooldown NX EX: the first one fires, the others are throttled.
Cool(w) ==
  /\ pc[w] = "hit"
  /\ Done(w)
  /\ \/ /\ CooldownFree
        /\ coolUntil' = clock + Cooldown
        /\ fires' = fires \cup {[ev |-> ev[w], at |-> clock]}
     \/ /\ ~CooldownFree
        /\ UNCHANGED <<coolUntil, fires>>
  /\ UNCHANGED <<clock, arrived, ts, came, zset, zUntil, counted, lost, faults>>

\* The SET fails: treated as "fire".
CoolRaises(w) ==
  /\ Fault
  /\ pc[w] = "hit"
  /\ Done(w)
  /\ fires' = fires \cup {[ev |-> ev[w], at |-> clock]}
  /\ UNCHANGED <<clock, arrived, ts, came, zset, zUntil, coolUntil, counted, lost>>

Next ==
  \/ SecondPasses
  \/ \E w \in Workers : Add(w) \/ AddRaises(w) \/ Count(w) \/ Cool(w) \/ CoolRaises(w)

Spec == Init /\ [][Next]_vars
--------------------------------------------------------------------------
(* Properties.                                                             *)

\* What ZCARD may count for event e: failed logins handled up to e that do not
\* precede it by a window, and those of other runners in the same second.
InWindow(e) ==
  {x \in counted : IF x <= e THEN ts[x] + Window > ts[e] ELSE came[x] = came[e]}

\* A result stands for a burst: at least Threshold failed logins inside the
\* window of the event it was returned for, whatever times the senders set.
FiresOnlyOnBurst ==
  \A f \in fires : Cardinality(InWindow(f.ev)) >= Threshold

\* What a result says (count failed logins within window_sec of one another,
\* up to the event's time) holds if no event is late: see README, section 6.
FiresOnlyInWindow ==
  \A f \in fires :
    Cardinality({x \in counted : ts[x] <= ts[f.ev] /\ ts[x] + Window > ts[f.ev]}) >= Threshold

\* Two results are at least the cooldown apart, whichever runners returned
\* them, as long as Redis answers.
Debounced ==
  faults = 0 => \A f, g \in fires : f # g => f.at + Cooldown <= g.at \/ g.at + Cooldown <= f.at

\* A login whose time is a window or more after x's came after x, and not
\* later than e: its runner has trimmed x away.
Outrun(x, e) ==
  \E y \in counted : x < y /\ came[y] <= came[e] /\ ts[x] + Window <= ts[y]

\* The burst that event e completes: the failed logins up to e inside its
\* window, handled within the cooldown (the key's time to live) before e and
\* not trimmed by one whose own time is ahead of theirs.
BurstOf(e) ==
  {x \in InWindow(e) : x <= e /\ came[e] < came[x] + Cooldown /\ ~Outrun(x, e)}

\* A burst is not missed: an event whose pipeline Redis answered and that
\* completes a burst is followed by a result, or one was returned within the
\* cooldown before, by the time its runner is done with it.
BurstFires ==
  \A e \in counted \ lost :
    Cardinality(BurstOf(e)) >= Threshold /\ (\A w \in Workers : ev[w] # e)
      => \E f \in fires : came[e] < f.at + Cooldown
=============================================================================
