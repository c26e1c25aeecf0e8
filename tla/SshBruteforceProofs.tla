------------------------ MODULE SshBruteforceProofs ------------------------
(***************************************************************************)
(* Proofs about SshBruteforce: however many runners share the Redis state, *)
(* whatever the settings, SET NX spaces the results out.                   *)
(***************************************************************************)
EXTENDS SshBruteforce, FiniteSetTheorems, TLAPS

\* The cooldown is a positive number of seconds.
LEMMA CooldownPositive == Cooldown \in Nat /\ Cooldown > 0
  BY SshAssumption DEF Cooldown

\* TypeOK holds before the first event.
LEMMA TypeInit == Init => TypeOK
  BY SshAssumption DEF Init, TypeOK, Events, NoEvent

\* Every step keeps TypeOK: one case per Redis call, answered or not.
LEMMA TypeStep == TypeOK /\ [Next]_vars => TypeOK'
  <1> SUFFICES ASSUME TypeOK, [Next]_vars PROVE TypeOK'
    OBVIOUS
  <1> USE SshAssumption, CooldownPositive
  <1>1. CASE SecondPasses
    BY <1>1 DEF SecondPasses, TypeOK
  <1>2. ASSUME NEW w \in Workers, Arrives(w) PROVE arrived + 1 \in Events /\ arrived + 1 # NoEvent
    BY <1>2 DEF Arrives, TypeOK, Events, NoEvent
  <1>3. ASSUME NEW expiry \in Nat, Enter(expiry), arrived + 1 \in Events, arrived' = arrived + 1
        PROVE  /\ ts' \in [Events -> 0..(MaxClock + Skew)]
               /\ came' \in [Events -> 0..MaxClock]
               /\ zset' \subseteq Events
               /\ zUntil' \in Nat
               /\ counted' \subseteq 1..arrived'
    <2>1. PICK t \in 0..(MaxClock + Skew) :
            /\ ts' = [ts EXCEPT ![arrived + 1] = t]
            /\ came' = [came EXCEPT ![arrived + 1] = clock]
            /\ zset' = Kept(t) \cup {arrived + 1}
            /\ zUntil' = IF Kept(t) = {} \/ expiry # NoExpiry THEN expiry ELSE zUntil
            /\ counted' = counted \cup {arrived + 1}
      BY <1>3 DEF Enter
    <2>2. came' \in [Events -> 0..MaxClock]
      BY <2>1 DEF TypeOK
    <2>3. ts' \in [Events -> 0..(MaxClock + Skew)]
      BY <2>1 DEF TypeOK
    <2>4. zset' \subseteq Events
      BY <1>3, <2>1 DEF Kept, Live, TypeOK
    <2>5. zUntil' \in Nat
      BY <2>1 DEF TypeOK
    <2>6. counted' \subseteq 1..arrived'
      BY <1>3, <2>1 DEF TypeOK
    <2> QED
      BY <2>2, <2>3, <2>4, <2>5, <2>6
  <1>4. ASSUME NEW w \in Workers, Add(w) PROVE TypeOK'
    <2>1. /\ ts' \in [Events -> 0..(MaxClock + Skew)]
          /\ came' \in [Events -> 0..MaxClock]
          /\ zset' \subseteq Events
          /\ zUntil' \in Nat
          /\ counted' \subseteq 1..arrived'
      <3>1. NoExpiry \in Nat
        BY DEF NoExpiry
      <3> QED
        BY <1>2, <1>3, <1>4, <3>1 DEF Add, Arrives
    <2>2. /\ arrived' = arrived + 1 /\ arrived' \in 0..MaxEvent /\ arrived + 1 \in Events
          /\ arrived + 1 # NoEvent
          /\ ev' = [ev EXCEPT ![w] = arrived + 1]
          /\ pc' = [pc EXCEPT ![w] = "added"]
          /\ UNCHANGED <<clock, coolUntil, lost, fires, faults>>
      BY <1>2, <1>4 DEF Add, Arrives, TypeOK
    <2>3. /\ pc' \in [Workers -> {"idle", "added", "hit"}]
          /\ ev' \in [Workers -> Events \cup {NoEvent}]
          /\ \A v \in Workers : ev'[v] = NoEvent <=> pc'[v] = "idle"
      BY <2>2 DEF TypeOK
    <2>4. lost' \subseteq 1..arrived'
      BY <2>2 DEF TypeOK
    <2> QED
      BY <2>1, <2>2, <2>3, <2>4 DEF TypeOK
  <1>5. ASSUME NEW w \in Workers, AddRaises(w) PROVE TypeOK'
    <2>1. /\ ts' \in [Events -> 0..(MaxClock + Skew)]
          /\ came' \in [Events -> 0..MaxClock]
          /\ zset' \subseteq Events
          /\ zUntil' \in Nat
          /\ counted' \subseteq 1..arrived'
      <3>1. clock + Cooldown \in Nat
        BY DEF TypeOK
      <3>2. CASE Enter(clock + Cooldown)
        BY <1>2, <1>3, <1>5, <3>1, <3>2 DEF AddRaises, Arrives
      <3>3. CASE UNCHANGED <<ts, came, zset, zUntil, counted>>
        BY <1>5, <3>3 DEF AddRaises, Arrives, TypeOK
      <3> QED
        BY <1>5, <3>2, <3>3 DEF AddRaises
    <2>2. /\ arrived' = arrived + 1 /\ arrived' \in 0..MaxEvent
          /\ lost' = lost \cup {arrived + 1}
          /\ faults' = faults + 1
          /\ UNCHANGED <<clock, coolUntil, pc, ev, fires>>
      BY <1>5 DEF AddRaises, Arrives, Fault, TypeOK
    <2>3. lost' \subseteq 1..arrived'
      BY <2>2 DEF TypeOK
    <2> QED
      BY <2>1, <2>2, <2>3 DEF TypeOK
  <1>6. ASSUME NEW w \in Workers, Count(w) PROVE TypeOK'
    <2>1. zUntil' \in Nat
      BY <1>6 DEF Count, TypeOK
    <2>2. /\ pc' \in [Workers -> {"idle", "added", "hit"}]
          /\ ev' \in [Workers -> Events \cup {NoEvent}]
          /\ \A v \in Workers : ev'[v] = NoEvent <=> pc'[v] = "idle"
      BY <1>6 DEF Count, TypeOK
    <2>3. UNCHANGED <<clock, arrived, ts, came, zset, coolUntil, counted, lost, fires, faults>>
      BY <1>6 DEF Count
    <2> QED
      BY <2>1, <2>2, <2>3 DEF TypeOK
  <1>7. ASSUME NEW w \in Workers, Cool(w) PROVE TypeOK'
    <2>1. ev[w] \in Events
      BY <1>7 DEF Cool, TypeOK
    <2>2. /\ pc' \in [Workers -> {"idle", "added", "hit"}]
          /\ ev' \in [Workers -> Events \cup {NoEvent}]
          /\ \A v \in Workers : ev'[v] = NoEvent <=> pc'[v] = "idle"
      BY <1>7 DEF Cool, Done, TypeOK
    <2>3. [ev |-> ev[w], at |-> clock] \in [ev : Events, at : 0..MaxClock]
      BY <2>1 DEF TypeOK
    <2>4. fires' \subseteq [ev : Events, at : 0..MaxClock]
      BY <1>7, <2>3 DEF Cool, TypeOK
    <2>5. coolUntil' \in Nat /\ faults' \in Nat
      BY <1>7 DEF Cool, Fault, TypeOK
    <2>6. UNCHANGED <<clock, arrived, ts, came, zset, zUntil, counted, lost>>
      BY <1>7 DEF Cool
    <2> QED
      BY <2>2, <2>4, <2>5, <2>6 DEF TypeOK
  <1>8. ASSUME NEW w \in Workers, CoolRaises(w) PROVE TypeOK'
    <2>1. ev[w] \in Events
      BY <1>8 DEF CoolRaises, TypeOK
    <2>2. /\ pc' \in [Workers -> {"idle", "added", "hit"}]
          /\ ev' \in [Workers -> Events \cup {NoEvent}]
          /\ \A v \in Workers : ev'[v] = NoEvent <=> pc'[v] = "idle"
      BY <1>8 DEF CoolRaises, Done, TypeOK
    <2>3. [ev |-> ev[w], at |-> clock] \in [ev : Events, at : 0..MaxClock]
      BY <2>1 DEF TypeOK
    <2>4. fires' \subseteq [ev : Events, at : 0..MaxClock]
      BY <1>8, <2>3 DEF CoolRaises, TypeOK
    <2>5. coolUntil' \in Nat /\ faults' \in Nat
      BY <1>8 DEF CoolRaises, Fault, TypeOK
    <2>6. UNCHANGED <<clock, arrived, ts, came, zset, zUntil, counted, lost>>
      BY <1>8 DEF CoolRaises
    <2> QED
      BY <2>2, <2>4, <2>5, <2>6 DEF TypeOK
  <1>9. CASE UNCHANGED vars
    BY <1>9 DEF vars, TypeOK
  <1> QED
    BY <1>1, <1>4, <1>5, <1>6, <1>7, <1>8, <1>9 DEF Next

\* Type correctness of the detector's state, for any number of runners: a
\* runner holds an event exactly while it works, and only events that arrived
\* are counted.
THEOREM TypeCorrect == Spec => []TypeOK
  BY TypeInit, TypeStep, PTL DEF Spec

\* While Redis answers, the cooldown key outlives every result by the whole
\* cooldown: this is what makes Debounced inductive.
CooldownGuards == faults = 0 => \A f \in fires : f.at + Cooldown <= coolUntil

IInv == TypeOK /\ CooldownGuards /\ Debounced

\* Only SET NX disturbs the two parts; it fires when the key has expired, so
\* every earlier result is a cooldown old.
LEMMA CooldownStep == IInv /\ [Next]_vars => (CooldownGuards /\ Debounced)'
  <1> SUFFICES ASSUME IInv, [Next]_vars PROVE (CooldownGuards /\ Debounced)'
    OBVIOUS
  <1> USE CooldownPositive
  <1>1. CASE UNCHANGED <<fires, coolUntil, faults>>
    BY <1>1 DEF IInv, CooldownGuards, Debounced
  <1>2. ASSUME Fault PROVE faults' # 0
    BY <1>2 DEF Fault, IInv, TypeOK
  <1>3. ASSUME NEW w \in Workers, Cool(w) PROVE (CooldownGuards /\ Debounced)'
    <2>1. CASE ~CooldownFree
      BY <1>1, <1>3, <2>1 DEF Cool
    <2>2. CASE CooldownFree
      <3> DEFINE new == [ev |-> ev[w], at |-> clock]
      <3>1. /\ coolUntil' = clock + Cooldown
            /\ fires' = fires \cup {new}
            /\ faults' = faults
        BY <1>3, <2>2 DEF Cool
      <3>2. clock \in Nat /\ coolUntil \in Nat /\ coolUntil <= clock /\ new.at = clock
        BY <2>2 DEF CooldownFree, IInv, TypeOK
      <3>3. \A f \in fires : f.at \in Nat
        BY DEF IInv, TypeOK
      <3>4. faults = 0 => \A f \in fires : f.at + Cooldown <= clock
        BY <3>2, <3>3 DEF IInv, CooldownGuards
      <3>5. CooldownGuards'
        BY <3>1, <3>2, <3>3, <3>4 DEF CooldownGuards
      <3>6. Debounced'
        BY <3>1, <3>2, <3>4 DEF IInv, Debounced
      <3> QED
        BY <3>5, <3>6
    <2> QED
      BY <2>1, <2>2
  <1>4. ASSUME NEW w \in Workers, CoolRaises(w) PROVE (CooldownGuards /\ Debounced)'
    BY <1>2, <1>4 DEF CoolRaises, CooldownGuards, Debounced
  <1>5. ASSUME NEW w \in Workers, AddRaises(w) PROVE (CooldownGuards /\ Debounced)'
    BY <1>2, <1>5 DEF AddRaises, CooldownGuards, Debounced
  <1>6. CASE SecondPasses \/ (\E w \in Workers : Add(w) \/ Count(w)) \/ UNCHANGED vars
    BY <1>1, <1>6 DEF SecondPasses, Add, Count, vars
  <1> QED
    BY <1>3, <1>4, <1>5, <1>6 DEF Next

\* Results of the detector are at least the cooldown apart while Redis
\* answers, for any number of runners, any threshold, window and cooldown
\* setting and any skew of the events' times.
THEOREM ResultsDebounced == Spec => []Debounced
  <1>1. Init => IInv
    <2>1. Init => CooldownGuards /\ Debounced
      BY DEF Init, CooldownGuards, Debounced
    <2> QED
      BY <2>1, TypeInit DEF IInv
  <1>2. IInv /\ [Next]_vars => IInv'
    BY TypeStep, CooldownStep DEF IInv
  <1>3. IInv => Debounced
    BY DEF IInv
  <1> QED
    BY <1>1, <1>2, <1>3, PTL DEF Spec
--------------------------------------------------------------------------
(* Results and bursts, whatever times the senders set.                     *)

\* InWindow, Outrun and BurstOf over given events, times and arrivals.
Win(cs, t, c, e) == {x \in cs : IF x <= e THEN t[x] + Window > t[e] ELSE c[x] = c[e]}
Trimmed(cs, t, c, x, e) == \E y \in cs : x < y /\ c[y] <= c[e] /\ t[x] + Window <= t[y]
Upto(cs, t, c, e) ==
  {x \in Win(cs, t, c, e) : x <= e /\ c[e] < c[x] + Cooldown /\ ~Trimmed(cs, t, c, x, e)}

\* Nothing that was counted came in the future; the sorted set holds counted
\* events; a working runner's event and the event of a result are counted.
Counted ==
  /\ zset \subseteq counted
  /\ \A x \in counted : came[x] <= clock
  /\ \A w \in Workers : pc[w] # "idle" => ev[w] \in counted
  /\ \A f \in fires : f.ev \in counted

\* Between ZADD and ZCARD no time passes, and what is in the sorted set is
\* inside the window or was put there by another runner meanwhile.
AddedNow ==
  \A w \in Workers : pc[w] = "added" =>
    /\ came[ev[w]] = clock
    /\ \A x \in zset : IF x <= ev[w] THEN ts[x] + Window > ts[ev[w]] ELSE came[x] = clock

\* A runner that has seen the threshold has a burst.
HitIsBurst ==
  \A w \in Workers : pc[w] = "hit" => Cardinality(Win(counted, ts, came, ev[w])) >= Threshold

\* What came within the cooldown and no later event has trimmed is in the
\* sorted set, and its key outlives it: until EXPIRE is sent, a runner is
\* between the two commands.
RecentLive ==
  \A x \in counted :
    clock < came[x] + Cooldown /\ (\A y \in counted : x < y => ts[y] < ts[x] + Window) =>
      /\ x \in zset /\ clock < zUntil
      /\ came[x] + Cooldown <= zUntil \/ \E w \in Workers : pc[w] = "added"

\* The cooldown key was set by a result.
CoolFired == coolUntil = 0 \/ \E f \in fires : f.at + Cooldown = coolUntil

BInv ==
  /\ TypeOK /\ Counted /\ AddedNow /\ HitIsBurst /\ RecentLive /\ CoolFired
  /\ FiresOnlyOnBurst /\ BurstFires

LEMMA Numbers ==
  /\ Threshold \in Nat \ {0} /\ Window \in Nat \ {0} /\ MaxEvent \in Nat /\ MaxClock \in Nat
  /\ Skew \in Nat /\ Cooldown \in Nat /\ Cooldown > 0
  BY SshAssumption DEF Cooldown

LEMMA CountedEvents == TypeOK => arrived \in Nat /\ 1..arrived \subseteq Events /\ counted \subseteq Events
  BY Numbers DEF TypeOK, Events

\* The windows of what was counted before keep their events when one more is
\* counted, and the bursts that it completes lose some at most.
LEMMA WindowGrows ==
  ASSUME NEW n \in Nat, NEW cs \in SUBSET (1..n), NEW t, NEW u, NEW c, NEW d, NEW y \in cs,
         \A x \in 1..n : u[x] = t[x] /\ d[x] = c[x]
  PROVE  /\ Win(cs, t, c, y) \subseteq Win(cs \cup {n + 1}, u, d, y)
         /\ Upto(cs \cup {n + 1}, u, d, y) \subseteq Upto(cs, t, c, y)
  <1>1. y \in 1..n /\ u[y] = t[y] /\ d[y] = c[y]
    OBVIOUS
  <1>2. \A x \in cs : x \in 1..n /\ u[x] = t[x] /\ d[x] = c[x]
    OBVIOUS
  <1>3. ~(n + 1 <= y)
    BY <1>1
  <1>4. Win(cs, t, c, y) \subseteq Win(cs \cup {n + 1}, u, d, y)
    BY <1>1, <1>2 DEF Win
  <1>5. ASSUME NEW x \in Upto(cs \cup {n + 1}, u, d, y) PROVE x \in Upto(cs, t, c, y)
    <2>1. /\ x \in Win(cs \cup {n + 1}, u, d, y) /\ x <= y /\ d[y] < d[x] + Cooldown
          /\ ~Trimmed(cs \cup {n + 1}, u, d, x, y)
      BY <1>5 DEF Upto
    <2>2. x \in cs /\ u[x] + Window > u[y]
      BY <1>3, <2>1 DEF Win
    <2>3. ~Trimmed(cs, t, c, x, y)
      BY <1>1, <1>2, <2>1, <2>2 DEF Trimmed
    <2>4. t[x] + Window > t[y] /\ c[y] < c[x] + Cooldown
      BY <1>1, <1>2, <2>1, <2>2
    <2> QED
      BY <2>1, <2>2, <2>3, <2>4 DEF Upto, Win
  <1> QED
    BY <1>4, <1>5

\* Sets of counted events are finite.
LEMMA FiniteEvents ==
  ASSUME NEW n \in Nat, NEW S \in SUBSET (1..n)
  PROVE  IsFiniteSet(S) /\ Cardinality(S) \in Nat
  <1>1. IsFiniteSet(1..n)
    BY FS_Interval
  <1>2. IsFiniteSet(S)
    BY <1>1, FS_Subset
  <1> QED
    BY <1>2, FS_CardinalityType

LEMMA WinCards ==
  ASSUME NEW n \in Nat, NEW A, NEW B \in SUBSET (1..n), A \subseteq B
  PROVE  Cardinality(A) \in Nat /\ Cardinality(B) \in Nat /\ Cardinality(A) <= Cardinality(B)
  <1>1. A \in SUBSET (1..n)
    OBVIOUS
  <1>2. IsFiniteSet(B) /\ Cardinality(A) \in Nat /\ Cardinality(B) \in Nat
    BY <1>1, FiniteEvents
  <1> QED
    BY <1>2, FS_Subset

\* The two properties, and the burst of a runner, over given events and times.
Burst(cs, t, c, e) == Cardinality(Win(cs, t, c, e)) >= Threshold
Completes(cs, t, c, e) == Cardinality(Upto(cs, t, c, e)) >= Threshold
Answered(fs, c, e) == \E f \in fs : c[e] < f.at + Cooldown

LEMMA Parts ==
  /\ FiresOnlyOnBurst <=> \A f \in fires : Burst(counted, ts, came, f.ev)
  /\ HitIsBurst <=> \A w \in Workers : pc[w] = "hit" => Burst(counted, ts, came, ev[w])
  /\ BurstFires <=> \A e \in counted \ lost :
                       Completes(counted, ts, came, e) /\ (\A w \in Workers : ev[w] # e)
                         => Answered(fires, came, e)
  <1>1. \A e : InWindow(e) = Win(counted, ts, came, e)
    BY DEF InWindow, Win
  <1>2. \A e : BurstOf(e) = Upto(counted, ts, came, e)
    BY DEF BurstOf, InWindow, Win, Outrun, Trimmed, Upto
  <1> QED
    BY <1>1, <1>2 DEF FiresOnlyOnBurst, HitIsBurst, BurstFires, Burst, Completes, Answered

LEMMA PartsPrimed ==
  /\ FiresOnlyOnBurst' <=> \A f \in fires' : Burst(counted', ts', came', f.ev)
  /\ HitIsBurst' <=> \A w \in Workers : pc'[w] = "hit" => Burst(counted', ts', came', ev'[w])
  /\ BurstFires' <=> \A e \in counted' \ lost' :
                       Completes(counted', ts', came', e) /\ (\A w \in Workers : ev'[w] # e)
                         => Answered(fires', came', e)
  <1>1. FiresOnlyOnBurst' <=> \A f \in fires' : Burst(counted', ts', came', f.ev)
    BY DEF FiresOnlyOnBurst, InWindow, Win, Burst
  <1>2. HitIsBurst' <=> \A w \in Workers : pc'[w] = "hit" => Burst(counted', ts', came', ev'[w])
    BY DEF HitIsBurst, Win, Burst
  <1>3. BurstFires' <=> \A e \in counted' \ lost' :
                       Completes(counted', ts', came', e) /\ (\A w \in Workers : ev'[w] # e)
                         => Answered(fires', came', e)
    BY DEF BurstFires, BurstOf, InWindow, Outrun, Win, Trimmed, Upto, Completes, Answered
  <1> QED
    BY <1>1, <1>2, <1>3

\* Another event is counted: the sorted set holds what its window keeps and no
\* later event has trimmed, its key is alive, and the earlier windows are as
\* good as before.
LEMMA EnterEffect ==
  ASSUME BInv, arrived < MaxEvent, NEW expiry \in Nat, expiry > clock, Enter(expiry)
  PROVE  /\ counted' = counted \cup {arrived + 1} /\ came'[arrived + 1] = clock
         /\ \A x \in counted : ts'[x] = ts[x] /\ came'[x] = came[x] /\ x < arrived + 1
         /\ arrived + 1 \in zset' /\ zset' \subseteq zset \cup {arrived + 1}
         /\ \A x \in zset' : ts'[x] + Window > ts'[arrived + 1]
         /\ \A x \in counted' :
              /\ clock < came'[x] + Cooldown
              /\ \A y \in counted' : x < y => ts'[y] < ts'[x] + Window
              => x \in zset'
         /\ clock < zUntil'
         /\ expiry # NoExpiry => zUntil' = expiry
         /\ \A y \in counted : Burst(counted, ts, came, y) => Burst(counted', ts', came', y)
         /\ \A y \in counted : Completes(counted', ts', came', y) => Completes(counted, ts, came, y)
  <1> USE Numbers
  <1>0. /\ arrived \in 0..MaxEvent /\ clock \in 0..MaxClock /\ zset \subseteq Events
        /\ ts \in [Events -> 0..(MaxClock + Skew)] /\ came \in [Events -> 0..MaxClock]
        /\ counted \subseteq 1..arrived /\ zUntil \in Nat
    BY DEF BInv, TypeOK
  <1>1. /\ arrived \in Nat /\ clock \in Nat /\ arrived + 1 \in Events
        /\ 1..arrived \subseteq Events /\ arrived + 1 \notin 1..arrived
    BY <1>0 DEF Events
  <1>2. PICK t \in 0..(MaxClock + Skew) :
          /\ ts' = [ts EXCEPT ![arrived + 1] = t]
          /\ came' = [came EXCEPT ![arrived + 1] = clock]
          /\ zset' = Kept(t) \cup {arrived + 1}
          /\ zUntil' = IF Kept(t) = {} \/ expiry # NoExpiry THEN expiry ELSE zUntil
          /\ counted' = counted \cup {arrived + 1}
    BY DEF Enter
  <1>3. t \in Nat
    BY <1>2
  <1>4. /\ ts'[arrived + 1] = t /\ came'[arrived + 1] = clock
        /\ \A x \in 1..arrived : ts'[x] = ts[x] /\ came'[x] = came[x] /\ x < arrived + 1
    BY <1>0, <1>1, <1>2
  <1>5. Kept(t) = {x \in Live : ts[x] + Window > t} /\ Live \subseteq zset
        /\ (Live # {} => clock < zUntil /\ Live = zset)
    BY DEF Kept, Live
  <1>7. zset \subseteq counted
    BY DEF BInv, Counted
  <1>8. \A x \in counted : ts'[x] = ts[x] /\ came'[x] = came[x] /\ x < arrived + 1
    BY <1>0, <1>4
  <1>9. arrived + 1 \in zset' /\ zset' \subseteq zset \cup {arrived + 1}
    BY <1>2, <1>5
  <1>10. ASSUME NEW x \in zset' PROVE ts'[x] + Window > ts'[arrived + 1]
    <2>1. CASE x = arrived + 1
      BY <1>3, <1>4, <2>1
    <2>2. CASE x \in Kept(t)
      <3>1. x \in counted /\ ts[x] + Window > t
        BY <1>5, <1>7, <2>2
      <3> QED
        BY <1>4, <1>8, <3>1
    <2> QED
      BY <1>2, <2>1, <2>2
  <1>11. ASSUME NEW x \in counted', clock < came'[x] + Cooldown,
                \A y \in counted' : x < y => ts'[y] < ts'[x] + Window
         PROVE  x \in zset'
    <2>1. CASE x = arrived + 1
      BY <1>9, <2>1
    <2>2. CASE x \in counted
      <3>1. clock < came[x] + Cooldown /\ x < arrived + 1
        BY <1>8, <1>11, <2>2
      <3>2. \A y \in counted : x < y => ts[y] < ts[x] + Window
        BY <1>2, <1>8, <1>11, <2>2
      <3>3. x \in zset /\ clock < zUntil
        BY <2>2, <3>1, <3>2 DEF BInv, RecentLive
      <3>4. t < ts[x] + Window
        BY <1>2, <1>4, <1>8, <1>11, <2>2, <3>1
      <3>5. ts[x] \in Nat
        BY <1>0, <1>1, <2>2
      <3>6. x \in Kept(t)
        BY <1>3, <3>3, <3>4, <3>5 DEF Kept, Live
      <3> QED
        BY <1>2, <3>6
    <2> QED
      BY <1>2, <2>1, <2>2
  <1>12. clock < zUntil'
    <2>2. Kept(t) # {} => clock < zUntil
      BY <1>5
    <2> QED
      BY <1>2, <2>2
  <1>13. expiry # NoExpiry => zUntil' = expiry
    BY <1>2
  <1>14. ASSUME NEW y \in counted
         PROVE  /\ Burst(counted, ts, came, y) => Burst(counted', ts', came', y)
                /\ Completes(counted', ts', came', y) => Completes(counted, ts, came, y)
    <2>0. counted \in SUBSET (1..arrived)
      BY <1>0
    <2>1. /\ Win(counted, ts, came, y) \subseteq Win(counted', ts', came', y)
          /\ Upto(counted', ts', came', y) \subseteq Upto(counted, ts, came, y)
      <3>1. PICK cs, tt, u, c, d, n :
              cs = counted /\ tt = ts /\ u = ts' /\ c = came /\ d = came' /\ n = arrived
        OBVIOUS
      <3>2. n \in Nat /\ cs \in SUBSET (1..n) /\ y \in cs
            /\ \A x \in 1..n : u[x] = tt[x] /\ d[x] = c[x]
        BY <1>1, <1>4, <2>0, <3>1
      <3>3. /\ Win(cs, tt, c, y) \subseteq Win(cs \cup {n + 1}, u, d, y)
            /\ Upto(cs \cup {n + 1}, u, d, y) \subseteq Upto(cs, tt, c, y)
        BY <3>2, WindowGrows
      <3>4. counted' = cs \cup {n + 1}
        BY <1>2, <3>1
      <3> QED
        BY <3>1, <3>3, <3>4
    <2>2. counted' \subseteq 1..arrived + 1 /\ arrived + 1 \in Nat
      BY <1>0, <1>1, <1>2
    <2>3. Win(counted', ts', came', y) \in SUBSET (1..arrived + 1)
      BY <2>2 DEF Win
    <2>4. /\ Cardinality(Win(counted, ts, came, y)) \in Nat
          /\ Cardinality(Win(counted', ts', came', y)) \in Nat
          /\ Cardinality(Win(counted, ts, came, y)) <= Cardinality(Win(counted', ts', came', y))
      BY <2>1, <2>2, <2>3, WinCards
    <2>5. Upto(counted, ts, came, y) \in SUBSET (1..arrived)
      BY <2>0 DEF Upto, Win
    <2>6. /\ Cardinality(Upto(counted, ts, came, y)) \in Nat
          /\ Cardinality(Upto(counted', ts', came', y)) \in Nat
          /\ Cardinality(Upto(counted', ts', came', y)) <= Cardinality(Upto(counted, ts, came, y))
      BY <1>1, <2>1, <2>5, WinCards
    <2> QED
      BY <2>4, <2>6 DEF Burst, Completes
  <1> QED
    BY <1>2, <1>4, <1>8, <1>9, <1>10, <1>11, <1>12, <1>13, <1>14

\* What EnterEffect leaves for AddedNow: the runners that were between their
\* commands, and one that is now, see the new event as one of this second.
LEMMA EnterAdded ==
  ASSUME BInv, arrived < MaxEvent, NEW expiry \in Nat, expiry > clock, Enter(expiry),
         NEW v \in Workers, pc[v] = "added"
  PROVE  /\ came'[ev[v]] = clock
         /\ \A x \in zset' : IF x <= ev[v] THEN ts'[x] + Window > ts'[ev[v]] ELSE came'[x] = clock
  <1>0. arrived \in Nat /\ counted \subseteq 1..arrived
    BY Numbers DEF BInv, TypeOK
  <1>1. /\ came'[arrived + 1] = clock
        /\ \A x \in counted : ts'[x] = ts[x] /\ came'[x] = came[x] /\ x < arrived + 1
        /\ zset' \subseteq zset \cup {arrived + 1}
    BY EnterEffect
  <1>2. ev[v] \in counted /\ zset \subseteq counted
    BY DEF BInv, Counted
  <1>3. came[ev[v]] = clock
        /\ \A x \in zset : IF x <= ev[v] THEN ts[x] + Window > ts[ev[v]] ELSE came[x] = clock
    BY DEF BInv, AddedNow
  <1>4. \A x \in counted : x \in Nat /\ ~(arrived + 1 <= x)
    BY <1>0
  <1> QED
    BY <1>1, <1>2, <1>3, <1>4

\* The pipeline's first two commands.
LEMMA AddStep ==
  ASSUME BInv, TypeOK', NEW w \in Workers, Add(w)
  PROVE  BInv'
  <1> USE Numbers
  <1> DEFINE e == arrived + 1
  <1>0. /\ arrived \in 0..MaxEvent /\ clock \in 0..MaxClock /\ counted \subseteq 1..arrived
        /\ pc \in [Workers -> {"idle", "added", "hit"}] /\ ev \in [Workers -> Events \cup {NoEvent}]
        /\ \A v \in Workers : ev[v] = NoEvent <=> pc[v] = "idle"
    BY DEF BInv, TypeOK
  <1>1. /\ pc[w] = "idle" /\ arrived < MaxEvent /\ Enter(NoExpiry)
        /\ ev' = [ev EXCEPT ![w] = e] /\ pc' = [pc EXCEPT ![w] = "added"]
        /\ UNCHANGED <<clock, coolUntil, lost, fires, faults>>
    BY DEF Add, Arrives
  <1>2. NoExpiry \in Nat /\ NoExpiry > clock
    BY <1>0 DEF NoExpiry
  <1>3. /\ counted' = counted \cup {e} /\ came'[e] = clock
        /\ \A x \in counted : ts'[x] = ts[x] /\ came'[x] = came[x] /\ x < e
        /\ e \in zset' /\ zset' \subseteq zset \cup {e}
        /\ \A x \in zset' : ts'[x] + Window > ts'[e]
        /\ \A x \in counted' :
             /\ clock < came'[x] + Cooldown
             /\ \A y \in counted' : x < y => ts'[y] < ts'[x] + Window
             => x \in zset'
        /\ clock < zUntil'
        /\ \A y \in counted : Burst(counted, ts, came, y) => Burst(counted', ts', came', y)
        /\ \A y \in counted : Completes(counted', ts', came', y) => Completes(counted, ts, came, y)
    BY <1>1, <1>2, EnterEffect
  <1>31. \A v \in Workers : pc[v] = "added" =>
           /\ came'[ev[v]] = clock
           /\ \A x \in zset' : IF x <= ev[v] THEN ts'[x] + Window > ts'[ev[v]] ELSE came'[x] = clock
    BY <1>1, <1>2, EnterAdded
  <1>32. e \in Nat
    BY <1>0
  <1> HIDE DEF e
  <1>33. zset \subseteq counted /\ \A x \in counted : came[x] <= clock
    BY DEF BInv, Counted
  <1>4. /\ pc'[w] = "added" /\ ev'[w] = e
        /\ \A v \in Workers \ {w} : pc'[v] = pc[v] /\ ev'[v] = ev[v]
    BY <1>0, <1>1
  <1>5. Counted'
    <2>1. \A x \in counted' : came'[x] <= clock
      BY <1>0, <1>3, <1>33
    <2>2. \A v \in Workers : pc'[v] # "idle" => ev'[v] \in counted'
      BY <1>3, <1>4 DEF BInv, Counted
    <2>3. \A f \in fires : f.ev \in counted'
      BY <1>3 DEF BInv, Counted
    <2> QED
      BY <1>1, <1>3, <1>33, <2>1, <2>2, <2>3 DEF Counted
  <1>6. AddedNow'
    <2>1. ASSUME NEW v \in Workers, pc'[v] = "added"
          PROVE  /\ came'[ev'[v]] = clock
                 /\ \A x \in zset' : IF x <= ev'[v] THEN ts'[x] + Window > ts'[ev'[v]]
                                                    ELSE came'[x] = clock
      <3>1. CASE v = w
        <4>1. \A x \in zset' : x <= e
          BY <1>0, <1>3, <1>32, <1>33
        <4> QED
          BY <1>3, <1>4, <3>1, <4>1
      <3>2. CASE v # w
        <4>1. pc[v] = "added" /\ ev'[v] = ev[v]
          BY <1>4, <2>1, <3>2
        <4> QED
          BY <1>31, <4>1
      <3> QED
        BY <3>1, <3>2
    <2> QED
      BY <1>1, <2>1 DEF AddedNow
  <1>7. RecentLive'
    BY <1>1, <1>3, <1>4 DEF RecentLive
  <1>8. CoolFired'
    BY <1>1 DEF BInv, CoolFired
  <1>9. HitIsBurst'
    <2>1. ASSUME NEW v \in Workers, pc'[v] = "hit" PROVE Burst(counted', ts', came', ev'[v])
      <3>1. v # w /\ pc[v] = "hit" /\ ev'[v] = ev[v] /\ ev[v] \in counted
        BY <1>4, <2>1 DEF BInv, Counted
      <3>2. Burst(counted, ts, came, ev[v])
        BY <3>1, Parts DEF BInv
      <3> QED
        BY <1>3, <3>1, <3>2
    <2> QED
      BY <2>1, PartsPrimed
  <1>10. FiresOnlyOnBurst'
    <2>1. ASSUME NEW f \in fires PROVE Burst(counted', ts', came', f.ev)
      <3>1. f.ev \in counted
        BY DEF BInv, Counted
      <3>2. Burst(counted, ts, came, f.ev)
        BY Parts DEF BInv
      <3> QED
        BY <1>3, <3>1, <3>2
    <2> QED
      BY <1>1, <2>1, PartsPrimed
  <1>11. BurstFires'
    <2>1. ASSUME NEW y \in counted' \ lost', Completes(counted', ts', came', y),
                 \A v \in Workers : ev'[v] # y
          PROVE  Answered(fires', came', y)
      <3>1. y \in counted \ lost
        BY <1>1, <1>3, <1>4, <2>1
      <3>2. \A v \in Workers : ev[v] # y
        <4>1. y # NoEvent
          BY <1>0, <3>1 DEF NoEvent
        <4>2. ev[w] = NoEvent
          BY <1>0, <1>1
        <4> QED
          BY <1>4, <2>1, <4>1, <4>2
      <3>3. Completes(counted, ts, came, y)
        BY <1>3, <2>1, <3>1
      <3>4. Answered(fires, came, y)
        BY <3>1, <3>2, <3>3, Parts DEF BInv
      <3> QED
        BY <1>1, <1>3, <3>1, <3>4 DEF Answered
    <2> QED
      BY <2>1, PartsPrimed
  <1> QED
    BY <1>5, <1>6, <1>7, <1>8, <1>9, <1>10, <1>11 DEF BInv

\* A step that changes neither times nor sets, and forgets no lost event.
LEMMA SameStep ==
  ASSUME BInv, TypeOK', lost \subseteq lost',
         UNCHANGED <<clock, ts, came, zset, zUntil, coolUntil, pc, ev, counted, fires>>
  PROVE  BInv'
  <1>1. Counted' /\ AddedNow' /\ RecentLive' /\ CoolFired'
    BY DEF BInv, Counted, AddedNow, RecentLive, CoolFired
  <1>2. HitIsBurst' /\ FiresOnlyOnBurst' /\ BurstFires'
    BY Parts, PartsPrimed DEF BInv
  <1> QED
    BY <1>1, <1>2 DEF BInv

\* The pipeline raises: what Redis did, it did with the key's time to live.
LEMMA AddRaisesStep ==
  ASSUME BInv, TypeOK', NEW w \in Workers, AddRaises(w)
  PROVE  BInv'
  <1> USE Numbers
  <1> DEFINE e == arrived + 1
  <1>0. /\ arrived \in 0..MaxEvent /\ clock \in 0..MaxClock /\ counted \subseteq 1..arrived
        /\ came \in [Events -> 0..MaxClock]
    BY DEF BInv, TypeOK
  <1>1. /\ arrived < MaxEvent /\ lost' = lost \cup {e}
        /\ UNCHANGED <<clock, coolUntil, pc, ev, fires>>
        /\ (UNCHANGED <<ts, came, zset, zUntil, counted>> \/ Enter(clock + Cooldown))
    BY DEF AddRaises, Arrives
  <1>2. CASE UNCHANGED <<ts, came, zset, zUntil, counted>>
    BY <1>1, <1>2, SameStep
  <1>3. CASE Enter(clock + Cooldown)
    <2>1. clock + Cooldown \in Nat /\ clock + Cooldown > clock /\ clock + Cooldown # NoExpiry
      BY <1>0 DEF NoExpiry
    <2>2. /\ counted' = counted \cup {e} /\ came'[e] = clock
          /\ \A x \in counted : ts'[x] = ts[x] /\ came'[x] = came[x] /\ x < e
          /\ e \in zset' /\ zset' \subseteq zset \cup {e}
          /\ \A x \in counted' :
               /\ clock < came'[x] + Cooldown
               /\ \A y \in counted' : x < y => ts'[y] < ts'[x] + Window
               => x \in zset'
          /\ clock < zUntil' /\ zUntil' = clock + Cooldown
          /\ \A y \in counted : Burst(counted, ts, came, y) => Burst(counted', ts', came', y)
          /\ \A y \in counted :
               Completes(counted', ts', came', y) => Completes(counted, ts, came, y)
      BY <1>1, <1>3, <2>1, EnterEffect
    <2>21. \A v \in Workers : pc[v] = "added" =>
             /\ came'[ev[v]] = clock
             /\ \A x \in zset' : IF x <= ev[v] THEN ts'[x] + Window > ts'[ev[v]]
                                               ELSE came'[x] = clock
      BY <1>1, <1>3, <2>1, EnterAdded
    <2> HIDE DEF e
    <2>22. zset \subseteq counted /\ \A x \in counted : came[x] <= clock
      BY DEF BInv, Counted
    <2>3. \A x \in counted' : came'[x] <= clock
      BY <1>0, <2>2, <2>22
    <2>4. \A x \in counted' : came'[x] \in Nat
      <3>1. \A x \in counted : came[x] \in Nat
        BY <1>0 DEF Events
      <3> QED
        BY <1>0, <2>2, <3>1
    <2>5. \A v \in Workers : pc[v] # "idle" => ev[v] \in counted
      BY DEF BInv, Counted
    <2>6. Counted'
      BY <1>1, <2>2, <2>22, <2>3, <2>5 DEF BInv, Counted
    <2>7. AddedNow'
      BY <1>1, <2>21 DEF AddedNow
    <2>8. RecentLive'
      <3>1. \A x \in counted' : came'[x] + Cooldown <= clock + Cooldown
        BY <1>0, <2>3, <2>4
      <3> QED
        BY <1>1, <2>2, <3>1 DEF RecentLive
    <2>9. CoolFired'
      BY <1>1 DEF BInv, CoolFired
    <2>10. HitIsBurst' /\ FiresOnlyOnBurst'
      <3>1. \A f \in fires : f.ev \in counted
        BY DEF BInv, Counted
      <3> QED
        BY <1>1, <2>2, <2>5, <3>1, Parts, PartsPrimed DEF BInv
    <2>11. BurstFires'
      <3>1. ASSUME NEW y \in counted' \ lost', Completes(counted', ts', came', y),
                   \A v \in Workers : ev'[v] # y
            PROVE  Answered(fires', came', y)
        <4>1. y \in counted \ lost
          BY <1>1, <2>2, <3>1
        <4>2. Completes(counted, ts, came, y) /\ \A v \in Workers : ev[v] # y
          BY <1>1, <2>2, <3>1, <4>1
        <4>3. Answered(fires, came, y)
          BY <4>1, <4>2, Parts DEF BInv
        <4> QED
          BY <1>1, <2>2, <4>1, <4>3 DEF Answered
      <3> QED
        BY <3>1, PartsPrimed
    <2> QED
      BY <2>6, <2>7, <2>8, <2>9, <2>10, <2>11 DEF BInv
  <1> QED
    BY <1>1, <1>2, <1>3

\* ZCARD counts the window, and everything that is still inside: a hit is a
\* burst, and an event that completes a burst is a hit.
LEMMA CountStep ==
  ASSUME BInv, TypeOK', NEW w \in Workers, Count(w)
  PROVE  BInv'
  <1> USE Numbers
  <1> DEFINE e == ev[w]
  <1>0. /\ arrived \in 0..MaxEvent /\ clock \in 0..MaxClock /\ counted \subseteq 1..arrived
        /\ came \in [Events -> 0..MaxClock] /\ 1..arrived \subseteq Events
        /\ pc \in [Workers -> {"idle", "added", "hit"}] /\ ev \in [Workers -> Events \cup {NoEvent}]
        /\ ts \in [Events -> 0..(MaxClock + Skew)] /\ zUntil \in Nat
    BY CountedEvents DEF BInv, TypeOK
  <1>1. \A x \in counted : came[x] \in Nat /\ came[x] <= clock /\ ts[x] \in Nat
    BY <1>0 DEF BInv, Counted
  <1>2. pc[w] = "added" /\ e \in counted /\ zset \subseteq counted
    BY DEF Count, BInv, Counted
  <1>3. /\ came[e] = clock
        /\ \A x \in zset : IF x <= e THEN ts[x] + Window > ts[e] ELSE came[x] = clock
    BY <1>2 DEF BInv, AddedNow
  <1>4. \A x \in counted :
          clock < came[x] + Cooldown /\ (\A y \in counted : x < y => ts[y] < ts[x] + Window)
            => x \in zset /\ clock < zUntil
    BY DEF BInv, RecentLive
  <1>5. /\ Live \subseteq zset
        /\ \A x \in zset : clock < zUntil => x \in Live
    BY DEF Live
  <1>7. /\ zUntil' = IF Live = {} THEN zUntil ELSE clock + Cooldown
        /\ UNCHANGED <<clock, ts, came, zset, coolUntil, counted, lost, fires>>
        /\ \A v \in Workers \ {w} : pc'[v] = pc[v] /\ ev'[v] = ev[v]
        /\ \/ Cardinality(Live) < Threshold /\ pc'[w] = "idle"
           \/ ~(Cardinality(Live) < Threshold) /\ pc'[w] = "hit" /\ ev'[w] = e
    BY <1>0 DEF Count, Below
  <1>8. arrived \in Nat /\ Live \in SUBSET (1..arrived)
    BY <1>0, <1>2, <1>5
  <1>9. Cardinality(Live) \in Nat
    BY <1>8, FiniteEvents
  <1> HIDE DEF e
  <1>10. Counted'
    BY <1>2, <1>7 DEF BInv, Counted
  <1>11. AddedNow'
    BY <1>7 DEF BInv, AddedNow
  <1>12. RecentLive'
    <2>1. ASSUME NEW x \in counted, clock < came[x] + Cooldown,
                 \A y \in counted : x < y => ts[y] < ts[x] + Window
          PROVE  x \in zset /\ clock < zUntil' /\ came[x] + Cooldown <= zUntil'
      <3>1. x \in zset /\ clock < zUntil
        BY <1>4, <2>1
      <3>2. zUntil' = clock + Cooldown
        BY <1>5, <1>7, <3>1
      <3> QED
        BY <1>0, <1>1, <3>1, <3>2
    <2> QED
      BY <1>7, <2>1 DEF RecentLive
  <1>13. CoolFired'
    BY <1>7 DEF BInv, CoolFired
  <1>14. FiresOnlyOnBurst'
    BY <1>7, Parts, PartsPrimed DEF BInv
  <1>15. HitIsBurst'
    <2>1. ASSUME ~(Cardinality(Live) < Threshold) PROVE Burst(counted, ts, came, e)
      <3>1. Live \subseteq Win(counted, ts, came, e)
        BY <1>2, <1>3, <1>5 DEF Win
      <3>2. Win(counted, ts, came, e) \in SUBSET (1..arrived)
        BY <1>0 DEF Win
      <3>3. /\ Cardinality(Win(counted, ts, came, e)) \in Nat
            /\ Cardinality(Live) <= Cardinality(Win(counted, ts, came, e))
        BY <1>8, <3>1, <3>2, WinCards
      <3> QED
        BY <1>9, <2>1, <3>3 DEF Burst
    <2>2. ASSUME NEW v \in Workers, pc'[v] = "hit" PROVE Burst(counted', ts', came', ev'[v])
      <3>1. CASE v = w
        BY <1>7, <2>1, <2>2, <3>1
      <3>2. CASE v # w
        BY <1>7, <2>2, <3>2, Parts DEF BInv
      <3> QED
        BY <3>1, <3>2
    <2> QED
      BY <2>2, PartsPrimed
  <1>16. BurstFires'
    <2>1. ASSUME Completes(counted, ts, came, e) PROVE ~(Cardinality(Live) < Threshold)
      <3>0. ASSUME NEW x \in Upto(counted, ts, came, e) PROVE x \in Live
        <4>1. /\ x \in counted /\ clock < came[x] + Cooldown
              /\ ~Trimmed(counted, ts, came, x, e)
          BY <1>3 DEF Win, Upto
        <4>2. \A y \in counted : x < y => ts[y] < ts[x] + Window
          BY <1>1, <1>3, <4>1 DEF Trimmed
        <4> QED
          BY <1>4, <1>5, <4>1, <4>2
      <3>1. Upto(counted, ts, came, e) \subseteq Live
        BY <3>0
      <3>2. /\ Cardinality(Upto(counted, ts, came, e)) \in Nat
            /\ Cardinality(Upto(counted, ts, came, e)) <= Cardinality(Live)
        BY <1>8, <3>1, WinCards
      <3> QED
        BY <1>9, <2>1, <3>2 DEF Completes
    <2>2. ASSUME NEW y \in counted' \ lost', Completes(counted', ts', came', y),
                 \A v \in Workers : ev'[v] # y
          PROVE  Answered(fires', came', y)
      <3>1. y \in counted \ lost /\ Completes(counted, ts, came, y)
        BY <1>7, <2>2
      <3>2. y # e
        BY <1>7, <2>1, <2>2, <3>1
      <3>3. \A v \in Workers : ev[v] # y
        BY <1>7, <2>2, <3>2 DEF e
      <3>4. Answered(fires, came, y)
        BY <3>1, <3>3, Parts DEF BInv
      <3> QED
        BY <1>7, <3>4
    <2> QED
      BY <2>2, PartsPrimed
  <1> QED
    BY <1>10, <1>11, <1>12, <1>13, <1>14, <1>15, <1>16 DEF BInv

\* A runner with a hit is done with its event: a result is recorded now, or
\* one within the cooldown before.
LEMMA HitStep ==
  ASSUME BInv, TypeOK', NEW w \in Workers, pc[w] = "hit", Done(w), CoolFired',
         UNCHANGED <<clock, ts, came, zset, zUntil, counted, lost>>,
         fires \subseteq fires', \A f \in fires' : f \in fires \/ f.ev = ev[w],
         Answered(fires', came, ev[w])
  PROVE  BInv'
  <1>1. pc \in [Workers -> {"idle", "added", "hit"}] /\ ev \in [Workers -> Events \cup {NoEvent}]
    BY DEF BInv, TypeOK
  <1>2. /\ pc'[w] = "idle"
        /\ \A v \in Workers \ {w} : pc'[v] = pc[v] /\ ev'[v] = ev[v]
    BY <1>1 DEF Done
  <1>3. ev[w] \in counted
    BY DEF BInv, Counted
  <1>4. Counted'
    BY <1>2, <1>3 DEF BInv, Counted
  <1>5. AddedNow'
    BY <1>2 DEF BInv, AddedNow
  <1>6. RecentLive'
    BY <1>2 DEF BInv, RecentLive
  <1>7. HitIsBurst'
    BY <1>2, Parts, PartsPrimed DEF BInv
  <1>8. FiresOnlyOnBurst'
    <2>1. Burst(counted, ts, came, ev[w])
      BY Parts DEF BInv
    <2>2. \A f \in fires : Burst(counted, ts, came, f.ev)
      BY Parts DEF BInv
    <2> QED
      BY <2>1, <2>2, PartsPrimed
  <1>9. BurstFires'
    <2>1. ASSUME NEW y \in counted' \ lost', Completes(counted', ts', came', y),
                 \A v \in Workers : ev'[v] # y
          PROVE  Answered(fires', came', y)
      <3>1. CASE y = ev[w]
        BY <3>1
      <3>2. CASE y # ev[w]
        <4>1. /\ y \in counted \ lost /\ Completes(counted, ts, came, y)
              /\ \A v \in Workers : ev[v] # y
          BY <1>2, <2>1, <3>2
        <4>2. Answered(fires, came, y)
          BY <4>1, Parts DEF BInv
        <4> QED
          BY <4>2 DEF Answered
      <3> QED
        BY <3>1, <3>2
    <2> QED
      BY <2>1, PartsPrimed
  <1> QED
    BY <1>4, <1>5, <1>6, <1>7, <1>8, <1>9 DEF BInv

\* SET NX, answered or not.
LEMMA CoolStep ==
  ASSUME BInv, TypeOK', NEW w \in Workers, Cool(w) \/ CoolRaises(w)
  PROVE  BInv'
  <1> USE Numbers
  <1> DEFINE new == [ev |-> ev[w], at |-> clock]
  <1>0. /\ clock \in Nat /\ coolUntil \in Nat /\ \A f \in fires : f.at \in Nat
        /\ counted \subseteq Events /\ came \in [Events -> 0..MaxClock]
    BY CountedEvents DEF BInv, TypeOK
  <1>1. pc[w] = "hit" /\ Done(w) /\ UNCHANGED <<clock, ts, came, zset, zUntil, counted, lost>>
    BY DEF Cool, CoolRaises
  <1>2. ev[w] \in counted /\ came[ev[w]] <= clock
    BY <1>1 DEF BInv, Counted
  <1>3. came[ev[w]] \in Nat
    BY <1>0, <1>2
  <1>4. new.ev = ev[w] /\ new.at = clock
    OBVIOUS
  <1>5. CASE fires' = fires \cup {new}
    <2>1. Answered(fires', came, ev[w])
      <3>1. came[ev[w]] < clock + Cooldown
        BY <1>0, <1>2, <1>3
      <3> QED
        BY <1>4, <1>5, <3>1 DEF Answered
    <2>2. CoolFired'
      <3>1. coolUntil' = clock + Cooldown \/ coolUntil' = coolUntil
        BY DEF Cool, CoolRaises
      <3> QED
        BY <1>4, <1>5, <3>1 DEF BInv, CoolFired
    <2>3. fires \subseteq fires' /\ \A f \in fires' : f \in fires \/ f.ev = ev[w]
      BY <1>4, <1>5
    <2> HIDE DEF new
    <2> QED
      BY <1>1, <2>1, <2>2, <2>3, HitStep
  <1>6. CASE ~CooldownFree /\ UNCHANGED <<coolUntil, fires>>
    <2>1. clock < coolUntil /\ coolUntil # 0
      BY <1>0, <1>6 DEF CooldownFree
    <2>2. PICK f \in fires : f.at + Cooldown = coolUntil
      BY <2>1 DEF BInv, CoolFired
    <2>3. came[ev[w]] < f.at + Cooldown
      BY <1>0, <1>2, <1>3, <2>1, <2>2
    <2>4. Answered(fires', came, ev[w])
      BY <1>6, <2>2, <2>3 DEF Answered
    <2>5. CoolFired'
      BY <1>6 DEF BInv, CoolFired
    <2>6. fires \subseteq fires' /\ \A g \in fires' : g \in fires \/ g.ev = ev[w]
      BY <1>6
    <2> QED
      BY <1>1, <2>4, <2>5, <2>6, HitStep
  <1> QED
    BY <1>5, <1>6 DEF Cool, CoolRaises

\* A second passes only when no runner is between ZADD and EXPIRE.
LEMMA SecondStep ==
  ASSUME BInv, TypeOK', SecondPasses
  PROVE  BInv'
  <1> USE Numbers
  <1>0. /\ clock \in Nat /\ zUntil \in Nat /\ counted \subseteq Events
        /\ came \in [Events -> 0..MaxClock]
    BY CountedEvents DEF BInv, TypeOK
  <1>1. /\ clock' = clock + 1 /\ \A w \in Workers : pc[w] # "added"
        /\ UNCHANGED <<ts, came, zset, zUntil, coolUntil, pc, ev, counted, lost, fires>>
    BY DEF SecondPasses
  <1>2. \A x \in counted : came[x] \in Nat /\ came[x] <= clock
    BY <1>0 DEF BInv, Counted
  <1>3. \A x \in counted : came[x] <= clock + 1
    BY <1>0, <1>2
  <1>4. Counted'
    BY <1>1, <1>3 DEF BInv, Counted
  <1>5. AddedNow' /\ CoolFired'
    BY <1>1 DEF BInv, AddedNow, CoolFired
  <1>6. RecentLive'
    <2>1. ASSUME NEW x \in counted, clock + 1 < came[x] + Cooldown,
                 \A y \in counted : x < y => ts[y] < ts[x] + Window
          PROVE  x \in zset /\ clock + 1 < zUntil /\ came[x] + Cooldown <= zUntil
      <3>1. clock < came[x] + Cooldown
        BY <1>0, <1>2, <2>1
      <3>2. x \in zset /\ came[x] + Cooldown <= zUntil
        BY <1>1, <2>1, <3>1 DEF BInv, RecentLive
      <3> QED
        BY <1>0, <1>2, <2>1, <3>2
    <2> QED
      BY <1>1, <2>1 DEF RecentLive
  <1>7. HitIsBurst' /\ FiresOnlyOnBurst' /\ BurstFires'
    BY <1>1, Parts, PartsPrimed DEF BInv
  <1> QED
    BY <1>4, <1>5, <1>6, <1>7 DEF BInv

\* BInv is inductive.
LEMMA BurstStep == BInv /\ [Next]_vars => BInv'
  <1> SUFFICES ASSUME BInv, [Next]_vars PROVE BInv'
    OBVIOUS
  <1>1. TypeOK'
    BY TypeStep DEF BInv
  <1>2. CASE UNCHANGED vars
    BY <1>1, <1>2, SameStep DEF vars
  <1> QED
    BY <1>1, <1>2, SecondStep, AddStep, AddRaisesStep, CountStep, CoolStep DEF Next

LEMMA BurstInit == Init => BInv
  <1> SUFFICES ASSUME Init PROVE BInv
    OBVIOUS
  <1>1. Counted /\ AddedNow /\ HitIsBurst /\ RecentLive /\ CoolFired
    BY DEF Init, Counted, AddedNow, HitIsBurst, RecentLive, CoolFired
  <1>2. FiresOnlyOnBurst /\ BurstFires
    BY DEF Init, FiresOnlyOnBurst, BurstFires
  <1> QED
    BY <1>1, <1>2, TypeInit DEF BInv

\* A result of the detector stands for a burst, for any number of runners
\* that share the window, whatever Redis calls fail, whatever times the senders
\* set and whatever the threshold, the window and the cooldown.
THEOREM ResultsAreBursts == Spec => []FiresOnlyOnBurst
  <1>1. BInv => FiresOnlyOnBurst
    BY DEF BInv
  <1> QED
    BY <1>1, BurstInit, BurstStep, PTL DEF Spec

\* A burst whose pipeline Redis answered is followed by a result, or one was
\* returned within the cooldown before: an event leaves the sorted set early
\* only if a later one's own time is a window or more ahead of its own, and
\* neither the commands of other runners nor the expiry of the key hide it.
THEOREM BurstsAreResults == Spec => []BurstFires
  <1>1. BInv => BurstFires
    BY DEF BInv
  <1> QED
    BY <1>1, BurstInit, BurstStep, PTL DEF Spec
=============================================================================
