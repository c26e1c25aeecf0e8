------------------------- MODULE SigmaRunnerProofs -------------------------
(***************************************************************************)
(* Proofs about SigmaRunner: its types and its three properties, for any   *)
(* number of runners, every set of rules, every count, timeframe and       *)
(* cooldown, and whatever Redis commands fail.  Then, of the files those   *)
(* rules come from, the properties of RuleStudio, which shares no variable *)
(* with SigmaRunner.                                                       *)
(***************************************************************************)
EXTENDS SigmaRunner, RuleStudio, FiniteSetTheorems, NaturalsInduction, TLAPS

\* A runner that works has an event.
Working == \A w \in Workers : pc[w] # "idle" => ev[w] # NoEvent

TInv == TypeOK /\ Working
--------------------------------------------------------------------------
(* Type correctness, for any number of runners.                            *)

LEMMA Numbers ==
  /\ NumRules \in Nat /\ MaxEvent \in Nat /\ MaxClock \in Nat /\ MaxFaults \in Nat
  /\ Count \in [Rules -> Nat \ {0}] /\ Timeframe \in [Rules -> Nat]
  /\ CooldownSec \in [Rules -> Nat \ {0}]
  BY SigmaAssumption

\* A nonempty set of natural numbers has a least element.
LEMMA LeastNatural ==
  ASSUME NEW S, S \subseteq Nat, S # {}
  PROVE  \E m \in S : \A y \in S : m <= y
  <1> DEFINE R == OpToRel(<, Nat)
  <1>1. IsWellFoundedOn(R, Nat)
    BY NatLessThanWellFounded
  <1>2. PICK m \in S : \A y \in S : ~(<<y, m>> \in R)
    <2> HIDE DEF R
    <2> QED
      BY <1>1, WFMin
  <1>3. ASSUME NEW y \in S PROVE m <= y
    <2>1. y \in Nat /\ m \in Nat
      OBVIOUS
    <2>2. ~(<<y, m>> \in {ss \in Nat \X Nat : ss[1] < ss[2]})
      BY <1>2 DEF OpToRel
    <2> QED
      BY <2>1, <2>2
  <1> QED
    BY <1>3

\* The first rule of the list, or the first fire, is a member of it.
LEMMA MinIn ==
  ASSUME NEW S, S \subseteq Rules, S # {}
  PROVE  Min(S) \in S
  <1>1. S \subseteq Nat
    BY Numbers DEF Rules
  <1>2. \E m \in S : \A y \in S : m <= y
    BY <1>1, LeastNatural
  <1> QED
    BY <1>2 DEF Min

\* Sets of events that arrived are finite, and no larger than their number.
LEMMA FiniteEvents ==
  ASSUME NEW n \in Nat, NEW S \in SUBSET (1..n)
  PROVE  IsFiniteSet(S) /\ Cardinality(S) \in Nat /\ Cardinality(S) <= n
  <1>1. IsFiniteSet(1..n) /\ Cardinality(1..n) = n
    <2>1. 1 \in Int /\ n \in Int
      OBVIOUS
    <2>2. IsFiniteSet(1..n) /\ Cardinality(1..n) = IF 1 > n THEN 0 ELSE n - 1 + 1
      BY <2>1, FS_Interval
    <2> QED
      BY <2>2
  <1>2. IsFiniteSet(S) /\ Cardinality(S) <= Cardinality(1..n)
    BY <1>1, FS_Subset
  <1> QED
    BY <1>1, <1>2, FS_CardinalityType

\* The rule a runner with something to do is at.
LEMMA AtRule ==
  ASSUME TInv, NEW w \in Workers, pc[w] \notin {"idle", "persist"}
  PROVE  /\ Rule(w) \in todo[w] /\ Rule(w) \in Rules
         /\ ev[w] \in 1..arrived /\ ev[w] \in Events
  <1>1. todo[w] # {} /\ todo[w] \subseteq Rules
    BY DEF TInv, TypeOK
  <1>2. Rule(w) \in todo[w]
    BY <1>1, MinIn DEF Rule
  <1>3. ev[w] \in 0..arrived /\ ev[w] # 0 /\ arrived \in 0..MaxEvent
    BY DEF TInv, TypeOK, Working, NoEvent
  <1> QED
    BY <1>1, <1>2, <1>3, Numbers DEF Events

\* NextRule leaves a runner with rules to do, or at the end of the loop.
LEMMA NextRuleTypes ==
  ASSUME TInv, NEW w \in Workers, pc[w] \notin {"idle", "persist"}, NextRule(w)
  PROVE  /\ pc' \in [Workers -> {"idle", "cooldown", "trim", "card", "add", "set", "persist"}]
         /\ todo' \in [Workers -> SUBSET Rules]
         /\ \A v \in Workers : todo'[v] # {} <=> pc'[v] \notin {"idle", "persist"}
         /\ pc'[w] \in {"cooldown", "persist"} /\ todo'[w] = todo[w] \ {Rule(w)}
         /\ \A v \in Workers \ {w} : pc'[v] = pc[v] /\ todo'[v] = todo[v]
  <1>1. /\ pc \in [Workers -> {"idle", "cooldown", "trim", "card", "add", "set", "persist"}]
        /\ todo \in [Workers -> SUBSET Rules]
        /\ \A v \in Workers : todo[v] # {} <=> pc[v] \notin {"idle", "persist"}
    BY DEF TInv, TypeOK
  <1>2. Rule(w) \in todo[w]
    BY AtRule
  <1>3. /\ pc'[w] = (IF todo[w] = {Rule(w)} THEN "persist" ELSE "cooldown")
        /\ todo'[w] = todo[w] \ {Rule(w)}
        /\ \A v \in Workers \ {w} : pc'[v] = pc[v] /\ todo'[v] = todo[v]
        /\ pc' \in [Workers -> {"idle", "cooldown", "trim", "card", "add", "set", "persist"}]
        /\ todo' \in [Workers -> SUBSET Rules]
    BY <1>1 DEF NextRule
  <1>4. todo'[w] # {} <=> pc'[w] \notin {"idle", "persist"}
    BY <1>2, <1>3
  <1> QED
    BY <1>1, <1>3, <1>4

\* What the three effects on Redis leave behind.
LEMMA EffectTypes ==
  ASSUME TInv, NEW w \in Workers, pc[w] \notin {"idle", "persist"}
  PROVE  /\ TrimEffect(w) => window' \in [Rules -> SUBSET (1..arrived)]
         /\ RecordEffect(w) => /\ window' \in [Rules -> SUBSET (1..arrived)]
                               /\ recorded' \subseteq Rules \X Events
         /\ SetEffect(w) => coolUntil' \in [Rules -> Nat] /\ sets' \in Nat
  <1>1. /\ Rule(w) \in Rules /\ ev[w] \in 1..arrived /\ ev[w] \in Events
        /\ window \in [Rules -> SUBSET (1..arrived)] /\ recorded \subseteq Rules \X Events
        /\ coolUntil \in [Rules -> Nat] /\ clock \in Nat /\ sets \in Nat
    BY AtRule, Numbers DEF TInv, TypeOK
  <1>2. CooldownSec[Rule(w)] \in Nat
    BY <1>1, Numbers
  <1>3. TrimEffect(w) => window' \in [Rules -> SUBSET (1..arrived)]
    BY <1>1 DEF TrimEffect
  <1>4. RecordEffect(w) => /\ window' \in [Rules -> SUBSET (1..arrived)]
                           /\ recorded' \subseteq Rules \X Events
    BY <1>1 DEF RecordEffect
  <1>5. SetEffect(w) => coolUntil' \in [Rules -> Nat] /\ sets' \in Nat
    BY <1>1, <1>2 DEF SetEffect
  <1> QED
    BY <1>3, <1>4, <1>5

LEMMA TypeInit == Init => TInv
  BY Numbers DEF Init, TInv, TypeOK, Working, NoEvent, Events

LEMMA TypeStep == TInv /\ [Next]_vars => TInv'
  <1> SUFFICES ASSUME TInv, [Next]_vars PROVE TInv'
    OBVIOUS
  <1> USE Numbers
  <1>1. CASE SecondPasses
    BY <1>1 DEF SecondPasses, TInv, TypeOK, Working
  <1>2. CASE UNCHANGED vars
    BY <1>2 DEF vars, TInv, TypeOK, Working
  <1>3. ASSUME NEW w \in Workers, Begin(w) PROVE TInv'
    <2>1. /\ arrived \in 0..MaxEvent /\ arrived < MaxEvent /\ arrived' = arrived + 1
          /\ clock \in 0..MaxClock
      BY <1>3 DEF Begin, TInv, TypeOK
    <2>2. /\ arrived' \in 0..MaxEvent /\ arrived + 1 \in Events /\ arrived + 1 # NoEvent
          /\ 1..arrived \subseteq 1..arrived' /\ 0..arrived \subseteq 0..arrived'
          /\ arrived + 1 \in 0..arrived'
      BY <2>1 DEF Events, NoEvent
    <2>3. time' \in [Events -> 0..MaxClock]
      BY <1>3, <2>1, <2>2 DEF Begin, TInv, TypeOK
    <2>4. PICK matching \in (SUBSET Rules) \ {{}} : todo' = [todo EXCEPT ![w] = matching]
      BY <1>3 DEF Begin
    <2>5. /\ pc' = [pc EXCEPT ![w] = "cooldown"] /\ ev' = [ev EXCEPT ![w] = arrived + 1]
          /\ UNCHANGED <<clock, window, coolUntil, count, fired, alerts, seen, muted, recorded,
                         sets, asked, fires, lost, faults>>
      BY <1>3 DEF Begin
    <2>51. beside' \subseteq Events \X Events
      <3>1. \A v \in Workers : ev[v] # NoEvent => ev[v] \in Events
        BY SMTT(30) DEF TInv, TypeOK, NoEvent, Events
      <3>2. beside' = beside \cup {<<ev[v], arrived + 1>> : v \in {u \in Workers : ev[u] # NoEvent}}
        BY <1>3 DEF Begin
      <3> QED
        BY <2>2, <3>1, <3>2 DEF TInv, TypeOK
    <2>6. /\ pc' \in [Workers -> {"idle", "cooldown", "trim", "card", "add", "set", "persist"}]
          /\ todo' \in [Workers -> SUBSET Rules]
          /\ \A v \in Workers : todo'[v] # {} <=> pc'[v] \notin {"idle", "persist"}
      BY <2>4, <2>5 DEF TInv, TypeOK
    <2>7. ev' \in [Workers -> 0..arrived']
      BY <2>2, <2>5 DEF TInv, TypeOK
    <2>8. window' \in [Rules -> SUBSET (1..arrived')]
      BY <2>2, <2>5 DEF TInv, TypeOK
    <2>9. Working'
      BY <2>2, <2>5 DEF TInv, TypeOK, Working
    <2> QED
      BY <2>2, <2>3, <2>5, <2>51, <2>6, <2>7, <2>8, <2>9 DEF TInv, TypeOK
  <1>4. ASSUME NEW w \in Workers, CheckCooldown(w) PROVE TInv'
    <2>0. pc[w] = "cooldown" /\ Rule(w) \in Rules /\ ev[w] \in Events
      BY <1>4, AtRule DEF CheckCooldown
    <2>1. UNCHANGED <<clock, arrived, time, window, coolUntil, ev, count, fired, alerts, recorded,
                      beside, sets, fires, lost, faults>>
      BY <1>4 DEF CheckCooldown
    <2>11. asked' \in [Workers -> Nat]
      BY <1>4 DEF CheckCooldown, TInv, TypeOK
    <2>2. muted' \subseteq Rules \X Events /\ seen' \subseteq Rules \X Events
      BY <1>4, <2>0 DEF CheckCooldown, TInv, TypeOK
    <2>3. /\ pc' \in [Workers -> {"idle", "cooldown", "trim", "card", "add", "set", "persist"}]
          /\ todo' \in [Workers -> SUBSET Rules]
          /\ \A v \in Workers : todo'[v] # {} <=> pc'[v] \notin {"idle", "persist"}
          /\ \A v \in Workers : pc'[v] # "idle" => pc[v] # "idle"
      <3>1. CASE NextRule(w)
        BY <2>0, <3>1, NextRuleTypes
      <3>2. CASE pc' = [pc EXCEPT ![w] = "trim"] /\ UNCHANGED todo
        BY <2>0, <3>2 DEF TInv, TypeOK
      <3> QED
        BY <1>4, <3>1, <3>2 DEF CheckCooldown
    <2>4. Working'
      BY <2>1, <2>3 DEF TInv, Working
    <2> QED
      BY <2>1, <2>11, <2>2, <2>3, <2>4 DEF TInv, TypeOK
  <1>5. ASSUME NEW w \in Workers, Trim(w) PROVE TInv'
    <2>0. pc[w] = "trim" /\ pc' = [pc EXCEPT ![w] = "card"] /\ TrimEffect(w)
          /\ UNCHANGED <<clock, arrived, time, coolUntil, ev, todo, count, fired, alerts, seen,
                         muted, recorded, beside, sets, asked, fires, lost, faults>>
      BY <1>5 DEF Trim
    <2>1. window' \in [Rules -> SUBSET (1..arrived)]
      BY <2>0, EffectTypes
    <2> HIDE DEF TrimEffect
    <2>2. /\ pc' \in [Workers -> {"idle", "cooldown", "trim", "card", "add", "set", "persist"}]
          /\ \A v \in Workers : todo'[v] # {} <=> pc'[v] \notin {"idle", "persist"}
          /\ Working'
      BY <2>0 DEF TInv, TypeOK, Working
    <2> QED
      BY <2>0, <2>1, <2>2 DEF TInv, TypeOK
  <1>6. ASSUME NEW w \in Workers, Card(w) PROVE TInv'
    <2>0. pc[w] = "card" /\ pc' = [pc EXCEPT ![w] = "add"]
          /\ count' = [count EXCEPT ![w] = Cardinality(window[Rule(w)]) + 1]
          /\ UNCHANGED <<clock, arrived, time, window, coolUntil, ev, todo, fired, alerts, seen,
                         muted, recorded, beside, sets, asked, fires, lost, faults>>
      BY <1>6 DEF Card
    <2>1. arrived \in Nat /\ arrived <= MaxEvent /\ window[Rule(w)] \in SUBSET (1..arrived)
      BY <2>0, AtRule DEF TInv, TypeOK
    <2>2. Cardinality(window[Rule(w)]) \in Nat /\ Cardinality(window[Rule(w)]) <= arrived
      BY <2>1, FiniteEvents
    <2>3. Cardinality(window[Rule(w)]) + 1 \in 0..(MaxEvent + 1)
      BY <2>1, <2>2
    <2>4. count' \in [Workers -> 0..(MaxEvent + 1)]
      BY <2>0, <2>3 DEF TInv, TypeOK
    <2>5. /\ pc' \in [Workers -> {"idle", "cooldown", "trim", "card", "add", "set", "persist"}]
          /\ \A v \in Workers : todo'[v] # {} <=> pc'[v] \notin {"idle", "persist"}
          /\ Working'
      BY <2>0 DEF TInv, TypeOK, Working
    <2> QED
      BY <2>0, <2>4, <2>5 DEF TInv, TypeOK
  <1>7. ASSUME NEW w \in Workers, Record(w) PROVE TInv'
    <2>0. pc[w] = "add" /\ RecordEffect(w)
          /\ UNCHANGED <<clock, arrived, time, coolUntil, ev, count, fired, alerts, seen, muted,
                         beside, sets, asked, fires, lost, faults>>
      BY <1>7 DEF Record
    <2>1. window' \in [Rules -> SUBSET (1..arrived)] /\ recorded' \subseteq Rules \X Events
      BY <2>0, EffectTypes
    <2>3. /\ pc' \in [Workers -> {"idle", "cooldown", "trim", "card", "add", "set", "persist"}]
          /\ todo' \in [Workers -> SUBSET Rules]
          /\ \A v \in Workers : todo'[v] # {} <=> pc'[v] \notin {"idle", "persist"}
          /\ \A v \in Workers : pc'[v] # "idle" => pc[v] # "idle"
      <3>1. CASE NextRule(w)
        BY <2>0, <3>1, NextRuleTypes
      <3>2. CASE pc' = [pc EXCEPT ![w] = "set"] /\ UNCHANGED todo
        BY <2>0, <3>2 DEF TInv, TypeOK
      <3> QED
        BY <1>7, <3>1, <3>2 DEF Record
    <2>4. Working'
      BY <2>0, <2>3 DEF TInv, Working
    <2> QED
      BY <2>0, <2>1, <2>3, <2>4 DEF TInv, TypeOK
  <1>8. ASSUME NEW w \in Workers, SetCooldown(w) PROVE TInv'
    <2> DEFINE new == [rule |-> Rule(w), ev |-> ev[w], at |-> clock,
                       by |-> w, no |-> sets + 1, asked |-> asked[w]]
    <2>0. pc[w] = "set" /\ SetEffect(w) /\ NextRule(w)
          /\ fires' = fires \cup {new}
          /\ fired' = [fired EXCEPT ![w] = @ \cup {Rule(w)}]
          /\ UNCHANGED <<clock, arrived, time, window, ev, count, alerts, seen, muted, recorded,
                         beside, asked, lost, faults>>
      BY <1>8 DEF SetCooldown
    <2>1. Rule(w) \in Rules /\ ev[w] \in Events /\ coolUntil' \in [Rules -> Nat] /\ sets' \in Nat
      BY <2>0, AtRule, EffectTypes
    <2>2. /\ pc' \in [Workers -> {"idle", "cooldown", "trim", "card", "add", "set", "persist"}]
          /\ todo' \in [Workers -> SUBSET Rules]
          /\ \A v \in Workers : todo'[v] # {} <=> pc'[v] \notin {"idle", "persist"}
          /\ \A v \in Workers : pc'[v] # "idle" => pc[v] # "idle"
      BY <2>0, NextRuleTypes
    <2>3. new \in [rule : Rules, ev : Events, at : 0..MaxClock, by : Workers, no : Nat, asked : Nat]
      BY <2>1 DEF TInv, TypeOK
    <2> HIDE DEF new
    <2>4. fires' \subseteq [rule : Rules, ev : Events, at : 0..MaxClock,
                            by : Workers, no : Nat, asked : Nat]
      BY <2>0, <2>3 DEF TInv, TypeOK
    <2>5. fired' \in [Workers -> SUBSET Rules]
      BY <2>0, <2>1 DEF TInv, TypeOK
    <2>6. Working'
      BY <2>0, <2>2 DEF TInv, Working
    <2> QED
      BY <2>0, <2>1, <2>2, <2>4, <2>5, <2>6 DEF TInv, TypeOK
  <1>9. ASSUME NEW w \in Workers, Raises(w) PROVE TInv'
    <2>0. /\ todo[w] # {} /\ faults' = faults + 1
          /\ pc' = [pc EXCEPT ![w] = "idle"] /\ ev' = [ev EXCEPT ![w] = NoEvent]
          /\ todo' = [todo EXCEPT ![w] = {}] /\ fired' = [fired EXCEPT ![w] = {}]
          /\ lost' = lost \cup {ev[w]}
          /\ UNCHANGED <<clock, arrived, time, count, alerts, seen, muted, beside, asked, fires>>
      BY <1>9 DEF Raises, Fault
    <2>1. pc[w] \notin {"idle", "persist"}
      BY <2>0 DEF TInv, TypeOK
    <2>2. ev[w] \in Events
      BY <2>1, AtRule
    <2>3. /\ window' \in [Rules -> SUBSET (1..arrived)] /\ recorded' \subseteq Rules \X Events
          /\ coolUntil' \in [Rules -> Nat] /\ sets' \in Nat
      <3>1. /\ window \in [Rules -> SUBSET (1..arrived)] /\ recorded \subseteq Rules \X Events
            /\ coolUntil \in [Rules -> Nat] /\ sets \in Nat
        BY DEF TInv, TypeOK
      <3> QED
        BY <1>9, <2>1, <3>1, EffectTypes DEF Raises
    <2>4. /\ pc' \in [Workers -> {"idle", "cooldown", "trim", "card", "add", "set", "persist"}]
          /\ todo' \in [Workers -> SUBSET Rules]
          /\ \A v \in Workers : todo'[v] # {} <=> pc'[v] \notin {"idle", "persist"}
          /\ fired' \in [Workers -> SUBSET Rules]
      BY <2>0 DEF TInv, TypeOK
    <2>5. ev' \in [Workers -> 0..arrived] /\ Working'
      BY <2>0 DEF TInv, TypeOK, Working, NoEvent
    <2>6. lost' \subseteq Events /\ faults' \in Nat
      BY <2>0, <2>2 DEF TInv, TypeOK
    <2> QED
      BY <2>0, <2>3, <2>4, <2>5, <2>6 DEF TInv, TypeOK
  <1>10. ASSUME NEW w \in Workers, Persist(w) PROVE TInv'
    <2>0. /\ pc[w] = "persist" /\ fired[w] # {} /\ fired' = [fired EXCEPT ![w] = @ \ {Min(@)}]
          /\ UNCHANGED <<clock, arrived, time, window, coolUntil, pc, ev, todo, count, seen, muted,
                         recorded, beside, sets, asked, fires, lost>>
      BY <1>10 DEF Persist
    <2>1. fired[w] \subseteq Rules /\ ev[w] \in 0..arrived /\ ev[w] # 0 /\ arrived \in 0..MaxEvent
      BY <2>0 DEF TInv, TypeOK, Working, NoEvent
    <2>2. Min(fired[w]) \in Rules /\ ev[w] \in Events
      BY <2>0, <2>1, MinIn DEF Events
    <2>3. alerts' \subseteq Rules \X Events /\ faults' \in Nat
      BY <1>10, <2>2 DEF Persist, Fault, TInv, TypeOK
    <2>4. fired' \in [Workers -> SUBSET Rules]
      BY <2>0 DEF TInv, TypeOK
    <2> QED
      BY <2>0, <2>3, <2>4 DEF TInv, TypeOK, Working
  <1>11. ASSUME NEW w \in Workers, Finish(w) PROVE TInv'
    <2>0. /\ pc[w] = "persist" /\ pc' = [pc EXCEPT ![w] = "idle"]
          /\ ev' = [ev EXCEPT ![w] = NoEvent]
          /\ UNCHANGED <<clock, arrived, time, window, coolUntil, todo, count, fired, alerts, seen,
                         muted, recorded, beside, sets, asked, fires, lost, faults>>
      BY <1>11 DEF Finish
    <2>1. /\ pc' \in [Workers -> {"idle", "cooldown", "trim", "card", "add", "set", "persist"}]
          /\ \A v \in Workers : todo'[v] # {} <=> pc'[v] \notin {"idle", "persist"}
          /\ ev' \in [Workers -> 0..arrived] /\ Working'
      BY <2>0 DEF TInv, TypeOK, Working, NoEvent
    <2> QED
      BY <2>0, <2>1 DEF TInv, TypeOK
  <1> QED
    BY <1>1, <1>2, <1>3, <1>4, <1>5, <1>6, <1>7, <1>8, <1>9, <1>10, <1>11 DEF Next

\* Type correctness, for any number of runners and rules: a runner has rules
\* to do exactly while it is inside the loop, and its event has arrived.
THEOREM TypeCorrect == Spec => []TypeOK
  <1>1. TInv => TypeOK
    BY DEF TInv
  <1> QED
    BY <1>1, TypeInit, TypeStep, PTL DEF Spec
--------------------------------------------------------------------------
(* Cooldowns.                                                              *)

AtWorkSteps == {"trim", "card", "add", "set"}

\* The cooldown key outlives every fire by the cooldown; a runner that has
\* found it gone knows of the fires whose SET came before that it is as old.
Cooled ==
  \A f \in fires : /\ f.no <= sets /\ f.asked < f.no /\ f.at <= clock
                   /\ f.at + CooldownSec[f.rule] <= coolUntil[f.rule]

Asked ==
  \A w \in Workers : pc[w] \in AtWorkSteps =>
    /\ asked[w] <= sets
    /\ \A f \in fires : /\ f.by = w => f.no <= asked[w]
                        /\ f.rule = Rule(w) /\ f.no <= asked[w]
                             => f.at + CooldownSec[f.rule] <= clock

CInv == TInv /\ Cooled /\ Asked /\ DebouncedUnlessRaced

\* What the steps below start from.
LEMMA CoolTypes ==
  ASSUME CInv
  PROVE  /\ clock \in Nat /\ sets \in Nat /\ asked \in [Workers -> Nat]
         /\ \A r \in Rules : coolUntil[r] \in Nat /\ CooldownSec[r] \in Nat
         /\ \A f \in fires : /\ f.rule \in Rules /\ f.at \in Nat /\ f.no \in Nat /\ f.asked \in Nat
                             /\ CooldownSec[f.rule] \in Nat /\ coolUntil[f.rule] \in Nat
  <1>1. /\ clock \in Nat /\ sets \in Nat /\ asked \in [Workers -> Nat]
        /\ \A r \in Rules : coolUntil[r] \in Nat /\ CooldownSec[r] \in Nat
    BY Numbers DEF CInv, TInv, TypeOK
  <1>2. fires \subseteq [rule : Rules, ev : Events, at : 0..MaxClock, by : Workers, no : Nat, asked : Nat]
    BY DEF CInv, TInv, TypeOK
  <1>3. \A f \in fires : f.rule \in Rules /\ f.at \in Nat /\ f.no \in Nat /\ f.asked \in Nat
    BY <1>2, Numbers
  <1> QED
    BY <1>1, <1>3

\* A step that sets no cooldown and asks for none.
LEMMA CoolSame ==
  ASSUME CInv, TInv', UNCHANGED <<clock, coolUntil, sets, asked, fires>>,
         \A w \in Workers : pc'[w] \in AtWorkSteps => pc[w] \in AtWorkSteps /\ todo'[w] = todo[w]
  PROVE  CInv'
  <1>1. Cooled' /\ DebouncedUnlessRaced'
    BY DEF CInv, Cooled, DebouncedUnlessRaced
  <1>2. Asked'
    BY DEF CInv, Asked, Rule
  <1> QED
    BY <1>1, <1>2 DEF CInv

\* Time passes.
LEMMA CoolSecond ==
  ASSUME CInv, TInv', SecondPasses
  PROVE  CInv'
  <1>1. clock' = clock + 1 /\ UNCHANGED <<coolUntil, sets, asked, fires, pc, todo>>
    BY DEF SecondPasses
  <1>2. /\ clock \in Nat
        /\ \A f \in fires : f.at \in Nat /\ CooldownSec[f.rule] \in Nat
    BY CoolTypes
  <1>3. Cooled'
    BY <1>1, <1>2 DEF CInv, Cooled
  <1>4. Asked'
    <2>1. ASSUME NEW w \in Workers, pc[w] \in AtWorkSteps, NEW f \in fires,
                 f.rule = Rule(w), f.no <= asked[w]
          PROVE  f.at + CooldownSec[f.rule] <= clock + 1
      <3>1. f.at + CooldownSec[f.rule] <= clock
        BY <2>1 DEF CInv, Asked
      <3> QED
        BY <1>2, <3>1
    <2> QED
      BY <1>1, <2>1 DEF CInv, Asked, Rule
  <1>5. DebouncedUnlessRaced'
    BY <1>1 DEF CInv, DebouncedUnlessRaced
  <1> QED
    BY <1>3, <1>4, <1>5 DEF CInv

\* EXISTS: the key is gone, so every fire whose SET came before is old.
LEMMA CoolCheck ==
  ASSUME CInv, TInv', NEW w \in Workers, CheckCooldown(w)
  PROVE  CInv'
  <1>0. pc[w] = "cooldown" /\ UNCHANGED <<clock, coolUntil, sets, fires>>
    BY DEF CheckCooldown
  <1>1. Rule(w) \in Rules
    BY <1>0, AtRule DEF CInv
  <1>2. CASE InCooldown(Rule(w))
    <2>1. /\ NextRule(w) /\ asked' = asked
      BY <1>2 DEF CheckCooldown
    <2>2. /\ pc'[w] \in {"cooldown", "persist"}
          /\ \A v \in Workers \ {w} : pc'[v] = pc[v] /\ todo'[v] = todo[v]
      BY <1>0, <2>1, NextRuleTypes DEF CInv
    <2>3. \A v \in Workers : pc'[v] \in AtWorkSteps => pc[v] \in AtWorkSteps /\ todo'[v] = todo[v]
      BY <2>2 DEF AtWorkSteps
    <2> QED
      BY <1>0, <2>1, <2>3, CoolSame
  <1>3. CASE ~InCooldown(Rule(w))
    <2>1. /\ pc' = [pc EXCEPT ![w] = "trim"] /\ asked' = [asked EXCEPT ![w] = sets] /\ todo' = todo
      BY <1>3 DEF CheckCooldown
    <2>2. /\ clock \in Nat /\ sets \in Nat /\ asked \in [Workers -> Nat] /\ coolUntil[Rule(w)] \in Nat
          /\ \A f \in fires : f.rule \in Rules /\ f.at \in Nat /\ CooldownSec[f.rule] \in Nat
      BY <1>1, CoolTypes
    <2>3. coolUntil[Rule(w)] <= clock
      BY <1>3, <2>2 DEF InCooldown
    <2>4. /\ asked'[w] = sets /\ \A v \in Workers \ {w} : asked'[v] = asked[v] /\ pc'[v] = pc[v]
      BY <2>1, <2>2 DEF CInv, TInv, TypeOK
    <2>5. Asked'
      <3>1. ASSUME NEW v \in Workers, pc'[v] \in AtWorkSteps
            PROVE  /\ asked'[v] <= sets
                   /\ \A f \in fires : /\ f.by = v => f.no <= asked'[v]
                                       /\ f.rule = Rule(v) /\ f.no <= asked'[v]
                                            => f.at + CooldownSec[f.rule] <= clock
        <4>1. CASE v = w
          <5>1. \A f \in fires : f.no <= sets /\ f.at + CooldownSec[f.rule] <= coolUntil[f.rule]
            BY DEF CInv, Cooled
          <5>2. ASSUME NEW f \in fires, f.rule = Rule(w) PROVE f.at + CooldownSec[f.rule] <= clock
            BY <2>2, <2>3, <5>1, <5>2
          <5> QED
            BY <2>2, <2>4, <4>1, <5>1, <5>2
        <4>2. CASE v # w
          BY <2>4, <3>1, <4>2 DEF CInv, Asked
        <4> QED
          BY <4>1, <4>2
      <3> QED
        BY <1>0, <2>1, <3>1 DEF Asked, Rule
    <2>6. Cooled' /\ DebouncedUnlessRaced'
      BY <1>0 DEF CInv, Cooled, DebouncedUnlessRaced
    <2> QED
      BY <2>5, <2>6 DEF CInv
  <1> QED
    BY <1>2, <1>3

\* SET never shortens a cooldown, whoever has set the key meanwhile.
LEMMA SetCools ==
  ASSUME CInv, NEW w \in Workers, pc[w] = "set", SetEffect(w)
  PROVE  /\ sets' = sets + 1
         /\ coolUntil'[Rule(w)] = clock + CooldownSec[Rule(w)]
         /\ \A f \in fires : f.no <= sets' /\ f.at + CooldownSec[f.rule] <= coolUntil'[f.rule]
  <1>1. /\ clock \in Nat /\ sets \in Nat
        /\ \A r \in Rules : coolUntil[r] \in Nat /\ CooldownSec[r] \in Nat
        /\ \A f \in fires : f.rule \in Rules /\ f.at \in Nat /\ f.no \in Nat
    BY CoolTypes
  <1>2. Rule(w) \in Rules
    BY AtRule DEF CInv
  <1>3. /\ sets' = sets + 1 /\ coolUntil'[Rule(w)] = clock + CooldownSec[Rule(w)]
        /\ \A r \in Rules \ {Rule(w)} : coolUntil'[r] = coolUntil[r]
    BY <1>2 DEF SetEffect, CInv, TInv, TypeOK
  <1>4. ASSUME NEW f \in fires
        PROVE  f.no <= sets' /\ f.at + CooldownSec[f.rule] <= coolUntil'[f.rule]
    <2>1. f.no <= sets /\ f.at <= clock /\ f.at + CooldownSec[f.rule] <= coolUntil[f.rule]
      BY DEF CInv, Cooled
    <2>2. f.no <= sets'
      BY <1>1, <1>3, <2>1
    <2>3. CASE f.rule = Rule(w)
      BY <1>1, <1>3, <2>1, <2>2, <2>3
    <2>4. CASE f.rule # Rule(w)
      BY <1>1, <1>3, <2>1, <2>2, <2>4
    <2> QED
      BY <2>3, <2>4
  <1> QED
    BY <1>3, <1>4

\* A fire: the earlier ones of the rule are old, or their SET came after this
\* runner's EXISTS.
LEMMA CoolSet ==
  ASSUME CInv, TInv', NEW w \in Workers, SetCooldown(w)
  PROVE  CInv'
  <1> DEFINE new == [rule |-> Rule(w), ev |-> ev[w], at |-> clock,
                     by |-> w, no |-> sets + 1, asked |-> asked[w]]
  <1>0. /\ pc[w] = "set" /\ SetEffect(w) /\ NextRule(w) /\ fires' = fires \cup {new}
        /\ UNCHANGED <<clock, asked>>
    BY DEF SetCooldown
  <1>1. /\ clock \in Nat /\ sets \in Nat /\ asked \in [Workers -> Nat]
        /\ \A f \in fires : /\ f.rule \in Rules /\ f.at \in Nat /\ f.no \in Nat /\ f.asked \in Nat
                            /\ CooldownSec[f.rule] \in Nat
    BY CoolTypes
  <1>2. /\ sets' = sets + 1
        /\ coolUntil'[Rule(w)] = clock + CooldownSec[Rule(w)]
        /\ \A f \in fires : f.no <= sets' /\ f.at + CooldownSec[f.rule] <= coolUntil'[f.rule]
    BY <1>0, SetCools
  <1>3. Rule(w) \in Rules /\ CooldownSec[Rule(w)] \in Nat
    BY <1>0, AtRule, Numbers DEF CInv
  <1>4. /\ pc'[w] \in {"cooldown", "persist"}
        /\ \A v \in Workers \ {w} : pc'[v] = pc[v] /\ todo'[v] = todo[v]
    BY <1>0, NextRuleTypes DEF CInv
  <1>5. /\ new.rule = Rule(w) /\ new.at = clock /\ new.by = w /\ new.no = sets + 1
        /\ new.asked = asked[w]
    OBVIOUS
  <1> HIDE DEF new
  <1>6. /\ asked[w] <= sets
        /\ \A f \in fires : /\ f.by = w => f.no <= asked[w]
                            /\ f.rule = Rule(w) /\ f.no <= asked[w]
                                 => f.at + CooldownSec[f.rule] <= clock
    BY <1>0 DEF CInv, Asked, AtWorkSteps
  <1>61. asked[w] \in Nat
    BY <1>1
  <1>7. Cooled'
    <2>1. \A f \in fires : f.asked < f.no /\ f.at <= clock
      BY DEF CInv, Cooled
    <2>2. new.no <= sets + 1 /\ new.asked < new.no /\ new.at <= clock
      BY <1>1, <1>5, <1>6, <1>61
    <2>3. new.at + CooldownSec[new.rule] <= coolUntil'[new.rule]
      BY <1>1, <1>2, <1>3, <1>5
    <2> QED
      BY <1>0, <1>2, <2>1, <2>2, <2>3 DEF Cooled
  <1>8. Asked'
    <2>1. ASSUME NEW v \in Workers, pc'[v] \in AtWorkSteps
          PROVE  /\ asked[v] <= sets + 1
                 /\ \A f \in fires' : /\ f.by = v => f.no <= asked[v]
                                      /\ f.rule = Rule(v) /\ f.no <= asked[v]
                                           => f.at + CooldownSec[f.rule] <= clock
      <3>1. v # w /\ pc[v] \in AtWorkSteps
        BY <1>4, <2>1 DEF AtWorkSteps
      <3>2. /\ asked[v] <= sets
            /\ \A f \in fires : /\ f.by = v => f.no <= asked[v]
                                /\ f.rule = Rule(v) /\ f.no <= asked[v]
                                     => f.at + CooldownSec[f.rule] <= clock
        BY <3>1 DEF CInv, Asked
      <3>3. asked[v] \in Nat
        BY <1>1
      <3>4. new.by # v /\ ~(new.no <= asked[v])
        BY <1>1, <1>5, <3>1, <3>2, <3>3
      <3> QED
        BY <1>0, <1>1, <3>2, <3>3, <3>4
    <2>2. \A v \in Workers : pc'[v] \in AtWorkSteps => todo'[v] = todo[v]
      BY <1>4 DEF AtWorkSteps
    <2> QED
      BY <1>0, <1>2, <2>1, <2>2 DEF Asked, Rule
  <1>9. DebouncedUnlessRaced'
    <2>1. ASSUME NEW f \in fires, f.rule = Rule(w)
          PROVE  \/ f.at + CooldownSec[f.rule] <= clock
                 \/ f.by # w /\ f.asked < sets + 1 /\ asked[w] < f.no
      <3>1. CASE f.no <= asked[w]
        BY <1>6, <2>1, <3>1
      <3>2. CASE ~(f.no <= asked[w])
        <4>1. f.asked < f.no /\ f.no <= sets
          BY DEF CInv, Cooled
        <4> QED
          BY <1>1, <1>6, <1>61, <3>2, <4>1
      <3> QED
        BY <3>1, <3>2
    <2>2. ASSUME NEW f \in fires', NEW g \in fires', f.rule = g.rule, f # g
          PROVE  \/ f.at + CooldownSec[f.rule] <= g.at \/ g.at + CooldownSec[f.rule] <= f.at
                 \/ f.by # g.by /\ f.asked < g.no /\ g.asked < f.no
      <3>1. CASE f \in fires /\ g \in fires
        BY <2>2, <3>1 DEF CInv, DebouncedUnlessRaced
      <3>2. CASE f \in fires /\ g = new
        BY <1>5, <2>1, <2>2, <3>2
      <3>3. CASE f = new /\ g \in fires
        BY <1>5, <2>1, <2>2, <3>3
      <3> QED
        BY <1>0, <2>2, <3>1, <3>2, <3>3
    <2> QED
      BY <2>2 DEF DebouncedUnlessRaced
  <1> QED
    BY <1>7, <1>8, <1>9 DEF CInv

\* A command raises; the SET of the key may have been run.
LEMMA CoolRaises ==
  ASSUME CInv, TInv', NEW w \in Workers, Raises(w)
  PROVE  CInv'
  <1>0. pc' = [pc EXCEPT ![w] = "idle"] /\ todo' = [todo EXCEPT ![w] = {}]
        /\ UNCHANGED <<clock, asked, fires>>
    BY DEF Raises
  <1>1. pc'[w] = "idle" /\ \A v \in Workers \ {w} : pc'[v] = pc[v] /\ todo'[v] = todo[v]
    BY <1>0 DEF CInv, TInv, TypeOK
  <1>2. \A v \in Workers : pc'[v] \in AtWorkSteps =>
           pc[v] \in AtWorkSteps /\ todo'[v] = todo[v] /\ v # w
    BY <1>1 DEF AtWorkSteps
  <1>3. CASE UNCHANGED <<coolUntil, sets>>
    BY <1>0, <1>2, <1>3, CoolSame
  <1>4. CASE pc[w] = "set" /\ SetEffect(w)
    <2>1. /\ sets' = sets + 1
          /\ \A f \in fires : f.no <= sets' /\ f.at + CooldownSec[f.rule] <= coolUntil'[f.rule]
      BY <1>4, SetCools
    <2>2. sets \in Nat /\ asked \in [Workers -> Nat]
      BY CoolTypes
    <2>3. Cooled' /\ DebouncedUnlessRaced'
      BY <1>0, <2>1 DEF CInv, Cooled, DebouncedUnlessRaced
    <2>4. Asked'
      <3>1. ASSUME NEW v \in Workers, pc[v] \in AtWorkSteps PROVE asked[v] <= sets + 1
        <4>1. asked[v] <= sets /\ asked[v] \in Nat
          BY <2>2, <3>1 DEF CInv, Asked
        <4> QED
          BY <2>2, <4>1
      <3> QED
        BY <1>0, <1>2, <2>1, <3>1 DEF CInv, Asked, Rule
    <2> QED
      BY <2>3, <2>4 DEF CInv
  <1> QED
    BY <1>3, <1>4 DEF Raises

LEMMA CoolInit == Init => CInv
  <1> SUFFICES ASSUME Init PROVE CInv
    OBVIOUS
  <1>1. Cooled /\ Asked /\ DebouncedUnlessRaced
    BY DEF Init, Cooled, Asked, AtWorkSteps, DebouncedUnlessRaced
  <1> QED
    BY <1>1, TypeInit DEF CInv

LEMMA CoolStep == CInv /\ [Next]_vars => CInv'
  <1> SUFFICES ASSUME CInv, [Next]_vars PROVE CInv'
    OBVIOUS
  <1>1. TInv'
    BY TypeStep DEF CInv
  <1>2. pc \in [Workers -> {"idle", "cooldown", "trim", "card", "add", "set", "persist"}]
        /\ todo \in [Workers -> SUBSET Rules]
    BY DEF CInv, TInv, TypeOK
  <1>3. CASE UNCHANGED vars
    BY <1>1, <1>3, CoolSame DEF vars
  <1>4. ASSUME NEW w \in Workers, Begin(w) PROVE CInv'
    <2>1. /\ pc' = [pc EXCEPT ![w] = "cooldown"]
          /\ \A v \in Workers \ {w} : todo'[v] = todo[v]
          /\ UNCHANGED <<clock, coolUntil, sets, asked, fires>>
      BY <1>2, <1>4 DEF Begin
    <2>2. \A v \in Workers : pc'[v] \in AtWorkSteps => pc[v] \in AtWorkSteps /\ todo'[v] = todo[v]
      BY <1>2, <2>1 DEF AtWorkSteps
    <2> QED
      BY <1>1, <2>1, <2>2, CoolSame
  <1>5. ASSUME NEW w \in Workers, Trim(w) \/ Card(w) PROVE CInv'
    <2>1. UNCHANGED <<clock, coolUntil, sets, asked, fires, todo>>
      BY <1>5 DEF Trim, Card
    <2>2. \A v \in Workers : pc'[v] \in AtWorkSteps => pc[v] \in AtWorkSteps
      BY <1>2, <1>5 DEF Trim, Card, AtWorkSteps
    <2> QED
      BY <1>1, <2>1, <2>2, CoolSame
  <1>6. ASSUME NEW w \in Workers, Record(w) PROVE CInv'
    <2>1. pc[w] = "add" /\ UNCHANGED <<clock, coolUntil, sets, asked, fires>>
      BY <1>6 DEF Record
    <2>2. CASE NextRule(w)
      <3>1. /\ pc'[w] \in {"cooldown", "persist"}
            /\ \A v \in Workers \ {w} : pc'[v] = pc[v] /\ todo'[v] = todo[v]
        BY <2>1, <2>2, NextRuleTypes DEF CInv
      <3>2. \A v \in Workers : pc'[v] \in AtWorkSteps => pc[v] \in AtWorkSteps /\ todo'[v] = todo[v]
        BY <3>1 DEF AtWorkSteps
      <3> QED
        BY <1>1, <2>1, <3>2, CoolSame
    <2>3. CASE pc' = [pc EXCEPT ![w] = "set"] /\ UNCHANGED todo
      <3>1. \A v \in Workers : pc'[v] \in AtWorkSteps => pc[v] \in AtWorkSteps /\ todo'[v] = todo[v]
        BY <1>2, <2>1, <2>3 DEF AtWorkSteps
      <3> QED
        BY <1>1, <2>1, <3>1, CoolSame
    <2> QED
      BY <1>6, <2>2, <2>3 DEF Record
  <1>7. ASSUME NEW w \in Workers, Persist(w) \/ Finish(w) PROVE CInv'
    <2>1. UNCHANGED <<clock, coolUntil, sets, asked, fires, todo>>
      BY <1>7 DEF Persist, Finish
    <2>2. \A v \in Workers : pc'[v] \in AtWorkSteps => pc[v] \in AtWorkSteps
      BY <1>2, <1>7 DEF Persist, Finish, AtWorkSteps
    <2> QED
      BY <1>1, <2>1, <2>2, CoolSame
  <1> QED
    BY <1>1, <1>3, <1>4, <1>5, <1>6, <1>7, CoolSecond, CoolCheck, CoolSet, CoolRaises DEF Next

\* Two fires of a rule less than its cooldown apart come from two runners that
\* raced between EXISTS and SET, for any number of runners and also when a SET
\* raised after Redis had run it: one runner alone never fires twice in a
\* cooldown, and a SET by another one never shortens it.
THEOREM FiresDebounced == Spec => []DebouncedUnlessRaced
  <1>1. CInv => DebouncedUnlessRaced
    BY DEF CInv
  <1> QED
    BY <1>1, CoolInit, CoolStep, PTL DEF Spec
--------------------------------------------------------------------------
(* Bursts.                                                                 *)

\* Beside, InTimeframe, the events of FiresOnlyOnBurst and BurstOf, over given
\* pairs, times and overlaps.
Bes(b, x, e) == <<x, e>> \in b \/ <<e, x>> \in b
Tf(S, t, r, e) == {x \in 1..e : <<r, x>> \in S /\ (x = e \/ t[x] + Timeframe[r] > t[e])}
Near(S, t, b, r, e) == Tf(S, t, r, e) \cup {x \in Events : <<r, x>> \in S /\ Bes(b, x, e)}
Clear(S, t, b, r, e) ==
  {x \in Tf(S, t, r, e) :
     x = e \/ (~Bes(b, x, e)
               /\ \A y \in Events : <<e, y>> \in b => t[x] + Timeframe[r] > t[y])}
Many(S, t, b, r, e) == Cardinality(Near(S, t, b, r, e)) >= Count[r]
Complete(S, t, b, r, e) == Cardinality(Clear(S, t, b, r, e)) >= Count[r]

\* Events come in the order of their times, and none is of the future.
Ordered ==
  \A x, y \in 1..arrived : time[x] <= clock /\ (x <= y => time[x] <= time[y])

\* Two runners work on two events, and beside has what began meanwhile.
Overlaps ==
  /\ \A p \in beside : p[1] \in 1..arrived /\ p[2] \in 1..arrived /\ p[1] < p[2]
  /\ \A w \in Workers : pc[w] = "idle" => ev[w] = NoEvent
  /\ \A w \in Workers : pc[w] # "idle" =>
       /\ \A x \in 1..arrived : ev[w] < x => <<ev[w], x>> \in beside
       /\ \A v \in Workers : v # w => ev[v] # ev[w]

\* A sorted set holds recorded events, which were seen; it has lost only what
\* was outside the timeframe of some event.
Windows ==
  /\ \A p \in seen : p[2] \in 1..arrived
  /\ recorded \subseteq seen
  /\ \A r \in Rules : \A x \in window[r] : <<r, x>> \in recorded
  /\ \A r \in Rules, x \in 1..arrived :
       <<r, x>> \in recorded =>
         x \in window[r] \/ \E y \in 1..arrived : time[x] + Timeframe[r] <= time[y]

\* What a runner knows about its rule between two Redis commands; p, q, e, n
\* stand for its pc, todo, ev and count.
StepsOf(p, q, e, n, se, rec, win, t, b) ==
  /\ p \in AtWorkSteps => <<Min(q), e>> \in se
  /\ p = "card" => \A x \in win[Min(q)] : x \in Near(se, t, b, Min(q), e)
  /\ p = "add" => /\ n <= Cardinality(Near(se, t, b, Min(q), e))
                  /\ Cardinality(Clear(rec \cup {<<Min(q), e>>}, t, b, Min(q), e)) <= n
  /\ p = "set" => Many(se, t, b, Min(q), e)
  /\ \A r \in q : <<r, e>> \in rec => p = "set" /\ r = Min(q)

Steps ==
  \A w \in Workers :
    StepsOf(pc[w], todo[w], ev[w], count[w], seen, recorded, window, time, beside)

FiredEvents == \A f \in fires : f.ev \in 1..arrived

BInv ==
  /\ TInv /\ Ordered /\ Overlaps /\ Windows /\ Steps /\ FiredEvents
  /\ FiresOnlyOnBurst /\ RecordedBurstFires

Evald(lo, es, td, r, e) == e \notin lo /\ \A w \in Workers : es[w] = e => r \notin td[w]
FiredFor(fs, r, e) == \E f \in fs : f.rule = r /\ f.ev = e

LEMMA Parts ==
  /\ FiresOnlyOnBurst <=> \A f \in fires : Many(seen, time, beside, f.rule, f.ev)
  /\ RecordedBurstFires <=> \A p \in recorded :
       Evald(lost, ev, todo, p[1], p[2]) /\ Complete(recorded, time, beside, p[1], p[2])
         => FiredFor(fires, p[1], p[2])
  <1>1. FiresOnlyOnBurst <=> \A f \in fires : Many(seen, time, beside, f.rule, f.ev)
    BY DEF FiresOnlyOnBurst, InTimeframe, Beside, Bes, Tf, Near, Many
  <1>2. RecordedBurstFires <=> \A p \in recorded :
          Evald(lost, ev, todo, p[1], p[2]) /\ Complete(recorded, time, beside, p[1], p[2])
            => FiredFor(fires, p[1], p[2])
    BY DEF RecordedBurstFires, BurstOf, InTimeframe, Beside, Bes, Tf, Clear, Complete, Evaluated,
           Evald, FiredFor
  <1> QED
    BY <1>1, <1>2

LEMMA PartsPrimed ==
  /\ FiresOnlyOnBurst' <=> \A f \in fires' : Many(seen', time', beside', f.rule, f.ev)
  /\ RecordedBurstFires' <=> \A p \in recorded' :
       Evald(lost', ev', todo', p[1], p[2]) /\ Complete(recorded', time', beside', p[1], p[2])
         => FiredFor(fires', p[1], p[2])
  <1>1. FiresOnlyOnBurst' <=> \A f \in fires' : Many(seen', time', beside', f.rule, f.ev)
    BY DEF FiresOnlyOnBurst, InTimeframe, Beside, Bes, Tf, Near, Many
  <1>2. RecordedBurstFires' <=> \A p \in recorded' :
          Evald(lost', ev', todo', p[1], p[2]) /\ Complete(recorded', time', beside', p[1], p[2])
            => FiredFor(fires', p[1], p[2])
    BY DEF RecordedBurstFires, BurstOf, InTimeframe, Beside, Bes, Tf, Clear, Complete, Evaluated,
           Evald, FiredFor
  <1> QED
    BY <1>1, <1>2

\* Sets of events, and one inside another.
LEMMA EventCards ==
  ASSUME NEW A \in SUBSET Events, NEW B \in SUBSET Events, A \subseteq B
  PROVE  Cardinality(A) \in Nat /\ Cardinality(B) \in Nat /\ Cardinality(A) <= Cardinality(B)
  <1>1. IsFiniteSet(A) /\ IsFiniteSet(B) /\ Cardinality(A) \in Nat /\ Cardinality(B) \in Nat
    BY Numbers, FiniteEvents DEF Events
  <1> QED
    BY <1>1, FS_Subset

\* More pairs and overlaps: more events count for a fire.
LEMMA NearGrows ==
  ASSUME NEW r \in Rules, NEW e \in Events, NEW S, NEW T, S \subseteq T, NEW t, NEW u,
         NEW b, NEW d, b \subseteq d, \A x \in 1..e : u[x] = t[x]
  PROVE  /\ Near(S, t, b, r, e) \subseteq Near(T, u, d, r, e)
         /\ Cardinality(Near(S, t, b, r, e)) \in Nat /\ Cardinality(Near(T, u, d, r, e)) \in Nat
         /\ Cardinality(Near(S, t, b, r, e)) <= Cardinality(Near(T, u, d, r, e))
         /\ Many(S, t, b, r, e) => Many(T, u, d, r, e)
  <1>1. e \in 1..e /\ 1..e \subseteq Events /\ u[e] = t[e]
    BY Numbers DEF Events
  <1>2. Near(S, t, b, r, e) \subseteq Near(T, u, d, r, e)
    BY <1>1 DEF Near, Tf, Bes
  <1>3. Near(S, t, b, r, e) \in SUBSET Events /\ Near(T, u, d, r, e) \in SUBSET Events
    BY <1>1 DEF Near, Tf
  <1>4. /\ Cardinality(Near(S, t, b, r, e)) \in Nat /\ Cardinality(Near(T, u, d, r, e)) \in Nat
        /\ Cardinality(Near(S, t, b, r, e)) <= Cardinality(Near(T, u, d, r, e))
    BY <1>2, <1>3, EventCards
  <1>5. Count[r] \in Nat
    BY Numbers
  <1> QED
    BY <1>2, <1>4, <1>5 DEF Many

\* Pairs of events beside e, and more overlaps, complete no burst of e.
LEMMA ClearShrinks ==
  ASSUME NEW r \in Rules, NEW e \in Events, NEW S, NEW T, NEW t, NEW u, NEW b, NEW d, b \subseteq d,
         \A x \in 1..e : u[x] = t[x], \A y \in Events : <<e, y>> \in b => u[y] = t[y],
         \A x \in 1..e : <<r, x>> \in T => <<r, x>> \in S \/ (x # e /\ Bes(d, x, e))
  PROVE  /\ Cardinality(Clear(S, t, b, r, e)) \in Nat /\ Cardinality(Clear(T, u, d, r, e)) \in Nat
         /\ Cardinality(Clear(T, u, d, r, e)) <= Cardinality(Clear(S, t, b, r, e))
         /\ Complete(T, u, d, r, e) => Complete(S, t, b, r, e)
  <1>1. e \in 1..e /\ 1..e \subseteq Events /\ u[e] = t[e]
    BY Numbers DEF Events
  <1>2. ASSUME NEW x \in Clear(T, u, d, r, e) PROVE x \in Clear(S, t, b, r, e)
    <2>1. /\ x \in 1..e /\ <<r, x>> \in T /\ (x = e \/ u[x] + Timeframe[r] > u[e])
          /\ x = e \/ (~Bes(d, x, e)
                       /\ \A y \in Events : <<e, y>> \in d => u[x] + Timeframe[r] > u[y])
      BY <1>2 DEF Clear, Tf
    <2>2. <<r, x>> \in S
      BY <2>1
    <2>3. x = e \/ t[x] + Timeframe[r] > t[e]
      BY <1>1, <2>1
    <2>4. x = e \/ (~Bes(b, x, e)
                    /\ \A y \in Events : <<e, y>> \in b => t[x] + Timeframe[r] > t[y])
      <3>1. ~Bes(d, x, e) => ~Bes(b, x, e)
        BY DEF Bes
      <3> QED
        BY <2>1, <3>1
    <2> QED
      BY <2>1, <2>2, <2>3, <2>4 DEF Clear, Tf
  <1>3. Clear(S, t, b, r, e) \in SUBSET Events /\ Clear(T, u, d, r, e) \in SUBSET Events
    BY <1>1 DEF Clear, Tf
  <1>4. /\ Cardinality(Clear(S, t, b, r, e)) \in Nat /\ Cardinality(Clear(T, u, d, r, e)) \in Nat
        /\ Cardinality(Clear(T, u, d, r, e)) <= Cardinality(Clear(S, t, b, r, e))
    BY <1>2, <1>3, EventCards
  <1>5. Count[r] \in Nat
    BY Numbers
  <1> QED
    BY <1>4, <1>5 DEF Complete

\* What every step starts from.
LEMMA Here ==
  ASSUME BInv
  PROVE  /\ arrived \in Nat /\ clock \in Nat /\ 1..arrived \subseteq Events
         /\ \A x \in 1..arrived : time[x] \in Nat /\ time[x] <= clock
         /\ \A r \in Rules : /\ window[r] \subseteq 1..arrived
                             /\ Timeframe[r] \in Nat /\ Count[r] \in Nat
         /\ \A p \in recorded : p[1] \in Rules /\ p[2] \in 1..arrived /\ p = <<p[1], p[2]>>
         /\ \A f \in fires : f.rule \in Rules /\ f.ev \in 1..arrived
         /\ \A p \in beside : p[1] \in 1..arrived /\ p[2] \in 1..arrived /\ p[1] < p[2]
         /\ \A w \in Workers : count[w] \in Nat
         /\ \A w \in Workers : pc[w] # "idle" => ev[w] \in 1..arrived
         /\ \A w \in Workers : pc[w] \notin {"idle", "persist"} =>
              Rule(w) \in todo[w] /\ Rule(w) \in Rules /\ Rule(w) = Min(todo[w])
  <1> USE Numbers
  <1>2. arrived \in Nat /\ clock \in Nat /\ 1..arrived \subseteq Events
    BY DEF BInv, TInv, TypeOK, Events
  <1>3. \A x \in 1..arrived : time[x] \in Nat /\ time[x] <= clock
    BY <1>2 DEF BInv, TInv, TypeOK, Ordered
  <1>4. \A r \in Rules : window[r] \subseteq 1..arrived /\ Timeframe[r] \in Nat /\ Count[r] \in Nat
    BY DEF BInv, TInv, TypeOK
  <1>5. \A p \in recorded : p[1] \in Rules /\ p[2] \in 1..arrived /\ p = <<p[1], p[2]>>
    <2>1. recorded \subseteq Rules \X Events /\ \A p \in recorded : p[2] \in 1..arrived
      BY DEF BInv, TInv, TypeOK, Windows
    <2> QED
      BY <2>1
  <1>6. \A f \in fires : f.rule \in Rules /\ f.ev \in 1..arrived
    BY DEF BInv, TInv, TypeOK, FiredEvents
  <1>7. \A p \in beside : p[1] \in 1..arrived /\ p[2] \in 1..arrived /\ p[1] < p[2]
    BY DEF BInv, Overlaps
  <1>8. \A w \in Workers : count[w] \in Nat
    BY DEF BInv, TInv, TypeOK
  <1>9. \A w \in Workers : pc[w] # "idle" => ev[w] \in 1..arrived
    BY <1>2 DEF BInv, TInv, TypeOK, Working, NoEvent
  <1>10. \A w \in Workers : pc[w] \notin {"idle", "persist"} =>
              Rule(w) \in todo[w] /\ Rule(w) \in Rules /\ Rule(w) = Min(todo[w])
    BY AtRule DEF BInv, Rule
  <1> QED
    BY <1>2, <1>3, <1>4, <1>5, <1>6, <1>7, <1>8, <1>9, <1>10

\* Of two runners, the event of one is beside that of the other.
LEMMA Neighbours ==
  ASSUME BInv, NEW v \in Workers, NEW w \in Workers, v # w, pc[v] # "idle", pc[w] # "idle"
  PROVE  Bes(beside, ev[w], ev[v]) /\ ev[w] # ev[v]
  <1>1. ev[v] \in 1..arrived /\ ev[w] \in 1..arrived /\ arrived \in Nat
    BY Here
  <1>2. /\ ev[w] # ev[v]
        /\ ev[v] < ev[w] => <<ev[v], ev[w]>> \in beside
        /\ ev[w] < ev[v] => <<ev[w], ev[v]>> \in beside
    BY <1>1 DEF BInv, Overlaps
  <1> QED
    BY <1>1, <1>2 DEF Bes

\* What a runner knows stays true while others work: they add events that are
\* beside its own, and take some away.
LEMMA OtherSteps ==
  ASSUME BInv, NEW v \in Workers,
         pc'[v] = pc[v], todo'[v] = todo[v], ev'[v] = ev[v], count'[v] = count[v],
         seen \subseteq seen', beside \subseteq beside', \A x \in 1..arrived : time'[x] = time[x],
         \A p \in beside' : p[1] \in Nat /\ p[2] \in Nat /\ p[1] < p[2],
         pc[v] # "idle" =>
           /\ \A r \in Rules : \A x \in window'[r] :
                x \in window[r] \/ (x \in Events /\ <<r, x>> \in seen' /\ Bes(beside', x, ev[v]))
           /\ \A p \in recorded' : p \in recorded \/ Bes(beside', p[2], ev[v])
  PROVE  StepsOf(pc'[v], todo'[v], ev'[v], count'[v], seen', recorded', window', time', beside')
  <1> DEFINE r0 == Min(todo[v])
             e0 == ev[v]
  <1>0. StepsOf(pc[v], todo[v], ev[v], count[v], seen, recorded, window, time, beside)
    BY DEF BInv, Steps
  <1>1. CASE pc[v] \in {"idle", "persist"}
    <2>1. todo[v] = {}
      BY <1>1 DEF BInv, TInv, TypeOK
    <2> QED
      BY <1>1, <2>1 DEF StepsOf, AtWorkSteps
  <1>2. CASE pc[v] \notin {"idle", "persist"}
    <2>1. /\ r0 \in Rules /\ e0 \in 1..arrived /\ arrived \in Nat /\ 1..arrived \subseteq Events
          /\ \A p \in beside : p[1] \in 1..arrived /\ p[2] \in 1..arrived
          /\ count[v] \in Nat /\ Timeframe[r0] \in Nat
      BY <1>2, Here
    <2> HIDE DEF r0, e0
    <2>2. /\ e0 \in Events /\ \A x \in 1..e0 : time'[x] = time[x]
          /\ \A y \in Events : <<e0, y>> \in beside => time'[y] = time[y]
      <3>1. 1..e0 \subseteq 1..arrived
        BY <2>1
      <3>2. \A y : <<e0, y>> \in beside => y \in 1..arrived
        BY <2>1
      <3> QED
        BY <2>1, <3>1, <3>2
    <2>3. \A x : Bes(beside', x, e0) => x # e0
      <3>1. <<e0, e0>> \notin beside'
        <4>1. SUFFICES ASSUME <<e0, e0>> \in beside' PROVE FALSE
          OBVIOUS
        <4>2. e0 \in Nat /\ e0 < e0
          BY <4>1
        <4> QED
          BY <4>2
      <3> QED
        BY <3>1 DEF Bes
    <2>4. /\ Near(seen, time, beside, r0, e0) \subseteq Near(seen', time', beside', r0, e0)
          /\ Cardinality(Near(seen, time, beside, r0, e0)) \in Nat
          /\ Cardinality(Near(seen', time', beside', r0, e0)) \in Nat
          /\ Cardinality(Near(seen, time, beside, r0, e0)) <= Cardinality(Near(seen', time', beside', r0, e0))
          /\ Many(seen, time, beside, r0, e0) => Many(seen', time', beside', r0, e0)
      <3>1. PICK S, T, t, u, b, d : S = seen /\ T = seen' /\ t = time /\ u = time' /\ b = beside /\ d = beside'
        OBVIOUS
      <3>2. S \subseteq T /\ b \subseteq d /\ \A x \in 1..e0 : u[x] = t[x]
        BY <2>2, <3>1
      <3> QED
        BY <2>1, <2>2, <3>1, <3>2, NearGrows
    <2>5. pc[v] = "card" => \A x \in window'[r0] : x \in Near(seen', time', beside', r0, e0)
      <3> SUFFICES ASSUME pc[v] = "card", NEW x \in window'[r0]
                   PROVE  x \in Near(seen', time', beside', r0, e0)
        OBVIOUS
      <3>1. CASE x \in window[r0]
        <4>1. x \in Near(seen, time, beside, r0, e0)
          BY <1>0, <3>1 DEF StepsOf, r0, e0
        <4> QED
          BY <2>4, <4>1
      <3>2. CASE x \in Events /\ <<r0, x>> \in seen' /\ Bes(beside', x, e0)
        BY <3>2 DEF Near
      <3> QED
        BY <1>2, <2>1, <3>1, <3>2 DEF e0
    <2>6. /\ Cardinality(Clear(recorded' \cup {<<r0, e0>>}, time', beside', r0, e0)) \in Nat
          /\ Cardinality(Clear(recorded \cup {<<r0, e0>>}, time, beside, r0, e0)) \in Nat
          /\ Cardinality(Clear(recorded' \cup {<<r0, e0>>}, time', beside', r0, e0))
               <= Cardinality(Clear(recorded \cup {<<r0, e0>>}, time, beside, r0, e0))
      <3>1. PICK S, T, t, u, b, d : /\ S = recorded \cup {<<r0, e0>>} /\ T = recorded' \cup {<<r0, e0>>}
                                    /\ t = time /\ u = time' /\ b = beside /\ d = beside'
        OBVIOUS
      <3>2. \A x \in 1..e0 : <<r0, x>> \in T => <<r0, x>> \in S \/ (x # e0 /\ Bes(d, x, e0))
        <4>1. \A p \in recorded' : p \in recorded \/ Bes(beside', p[2], e0)
          BY <1>2 DEF e0
        <4>2. ASSUME NEW x \in 1..e0, <<r0, x>> \in recorded'
              PROVE  <<r0, x>> \in recorded \/ Bes(beside', x, e0)
          BY <4>1, <4>2
        <4> QED
          BY <2>3, <3>1, <4>2
      <3>3. /\ b \subseteq d /\ \A x \in 1..e0 : u[x] = t[x]
            /\ \A y \in Events : <<e0, y>> \in b => u[y] = t[y]
        BY <2>2, <3>1
      <3> QED
        BY <2>1, <2>2, <3>1, <3>2, <3>3, ClearShrinks
    <2>7. pc[v] = "add" =>
            /\ count[v] <= Cardinality(Near(seen', time', beside', r0, e0))
            /\ Cardinality(Clear(recorded' \cup {<<r0, e0>>}, time', beside', r0, e0)) <= count[v]
      <3> SUFFICES ASSUME pc[v] = "add"
                   PROVE  /\ count[v] <= Cardinality(Near(seen', time', beside', r0, e0))
                          /\ Cardinality(Clear(recorded' \cup {<<r0, e0>>}, time', beside', r0, e0)) <= count[v]
        OBVIOUS
      <3>1. /\ count[v] <= Cardinality(Near(seen, time, beside, r0, e0))
            /\ Cardinality(Clear(recorded \cup {<<r0, e0>>}, time, beside, r0, e0)) <= count[v]
        BY <1>0 DEF StepsOf, r0, e0
      <3> QED
        BY <2>1, <2>4, <2>6, <3>1
    <2>8. \A r \in todo[v] : <<r, e0>> \in recorded' => <<r, e0>> \in recorded
      <3>1. ASSUME NEW r, <<r, e0>> \in recorded' PROVE <<r, e0>> \in recorded
        <4>1. <<r, e0>> \in recorded \/ Bes(beside', <<r, e0>>[2], e0)
          BY <1>2, <3>1 DEF e0
        <4> QED
          BY <2>3, <4>1
      <3> QED
        BY <3>1
    <2>9. pc[v] \in AtWorkSteps => <<r0, e0>> \in seen'
      BY <1>0 DEF StepsOf, r0, e0
    <2>10. pc[v] = "set" => Many(seen', time', beside', r0, e0)
      BY <1>0, <2>4 DEF StepsOf, r0, e0
    <2>11. \A r \in todo[v] : <<r, e0>> \in recorded' => pc[v] = "set" /\ r = r0
      BY <1>0, <2>8 DEF StepsOf, r0, e0
    <2> QED
      BY <2>5, <2>7, <2>9, <2>10, <2>11 DEF StepsOf, r0, e0
  <1> QED
    BY <1>1, <1>2

\* Fires keep their bursts.
LEMMA FiresKept ==
  ASSUME BInv, seen \subseteq seen', beside \subseteq beside', \A x \in 1..arrived : time'[x] = time[x]
  PROVE  \A f \in fires : Many(seen', time', beside', f.rule, f.ev)
  <1> SUFFICES ASSUME NEW f \in fires PROVE Many(seen', time', beside', f.rule, f.ev)
    OBVIOUS
  <1>1. PICK S, T, t, u, b, d, r, e :
          /\ S = seen /\ T = seen' /\ t = time /\ u = time' /\ b = beside /\ d = beside'
          /\ r = f.rule /\ e = f.ev
    OBVIOUS
  <1>2. r \in Rules /\ e \in 1..arrived /\ arrived \in Nat /\ 1..arrived \subseteq Events
    BY <1>1, Here
  <1>3. e \in Events /\ S \subseteq T /\ b \subseteq d /\ \A x \in 1..e : u[x] = t[x]
    BY <1>1, <1>2
  <1>4. Many(S, t, b, r, e)
    BY <1>1, Parts DEF BInv
  <1>5. Many(T, u, d, r, e)
    BY <1>2, <1>3, <1>4, NearGrows
  <1> QED
    BY <1>1, <1>5

\* No burst of an event that is done with is completed later.
LEMMA BurstKept ==
  ASSUME BInv, NEW p \in recorded, beside \subseteq beside', \A x \in 1..arrived : time'[x] = time[x],
         \A x \in 1..p[2] : <<p[1], x>> \in recorded' =>
           <<p[1], x>> \in recorded \/ (x # p[2] /\ Bes(beside', x, p[2])),
         Complete(recorded', time', beside', p[1], p[2])
  PROVE  Complete(recorded, time, beside, p[1], p[2])
  <1>1. PICK S, T, t, u, b, d, r, e :
          /\ S = recorded /\ T = recorded' /\ t = time /\ u = time' /\ b = beside /\ d = beside'
          /\ r = p[1] /\ e = p[2]
    OBVIOUS
  <1>2. /\ r \in Rules /\ e \in 1..arrived /\ arrived \in Nat /\ 1..arrived \subseteq Events
        /\ \A q \in b : q[2] \in 1..arrived
    BY <1>1, Here
  <1>3. e \in Events /\ b \subseteq d /\ \A x \in 1..e : u[x] = t[x]
    BY <1>1, <1>2
  <1>4. \A y \in Events : <<e, y>> \in b => u[y] = t[y]
    BY <1>1, <1>2
  <1>5. \A x \in 1..e : <<r, x>> \in T => <<r, x>> \in S \/ (x # e /\ Bes(d, x, e))
    BY <1>1
  <1>6. Complete(T, u, d, r, e)
    BY <1>1
  <1>7. Complete(S, t, b, r, e)
    BY <1>2, <1>3, <1>4, <1>5, <1>6, ClearShrinks
  <1> QED
    BY <1>1, <1>7

\* Nothing but clock, alerts, fired, muted and the cooldowns may change.
LEMMA SameStep ==
  ASSUME BInv, TInv', Ordered',
         UNCHANGED <<arrived, time, window, pc, ev, todo, count, seen, recorded, beside, fires, lost>>
  PROVE  BInv'
  <1>1. Overlaps' /\ Windows' /\ FiredEvents'
    BY DEF BInv, Overlaps, Windows, FiredEvents
  <1>2. Steps'
    BY DEF BInv, Steps
  <1>3. FiresOnlyOnBurst' /\ RecordedBurstFires'
    BY Parts, PartsPrimed DEF BInv
  <1> QED
    BY <1>1, <1>2, <1>3 DEF BInv

\* Time passes.
LEMMA SecondStep ==
  ASSUME BInv, TInv', SecondPasses
  PROVE  BInv'
  <1>1. /\ clock' = clock + 1
        /\ UNCHANGED <<arrived, time, window, pc, ev, todo, count, seen, recorded, beside, fires, lost>>
    BY DEF SecondPasses
  <1>2. clock \in Nat /\ \A x \in 1..arrived : time[x] \in Nat
    BY Here
  <1>4. Ordered'
    BY <1>1, <1>2 DEF BInv, Ordered
  <1> QED
    BY <1>1, <1>4, SameStep

\* A new event, newer than all the others, beside those that are worked on.
LEMMA BeginStep ==
  ASSUME BInv, TInv', NEW w \in Workers, Begin(w)
  PROVE  BInv'
  <1> DEFINE n == arrived
  <1>0. /\ pc[w] = "idle" /\ arrived < MaxEvent /\ arrived' = n + 1
        /\ time' = [time EXCEPT ![n + 1] = clock]
        /\ ev' = [ev EXCEPT ![w] = n + 1] /\ pc' = [pc EXCEPT ![w] = "cooldown"]
        /\ beside' = beside \cup {<<ev[v], n + 1>> : v \in {u \in Workers : ev[u] # NoEvent}}
        /\ UNCHANGED <<clock, window, count, seen, recorded, fires, lost>>
    BY DEF Begin
  <1>1. /\ n \in Nat /\ clock \in Nat /\ 1..n \subseteq Events
        /\ \A x \in 1..n : time[x] \in Nat /\ time[x] <= clock
        /\ \A p \in recorded : p[1] \in Rules /\ p[2] \in 1..n /\ p = <<p[1], p[2]>>
        /\ \A f \in fires : f.rule \in Rules /\ f.ev \in 1..n
        /\ \A p \in beside : p[1] \in 1..n /\ p[2] \in 1..n /\ p[1] < p[2]
        /\ \A v \in Workers : pc[v] # "idle" => ev[v] \in 1..n
    BY Here
  <1>2. n + 1 \in Events /\ time \in [Events -> 0..MaxClock]
    BY <1>0, <1>1, Numbers DEF Events, BInv, TInv, TypeOK
  <1>3. time'[n + 1] = clock /\ \A x \in 1..n : time'[x] = time[x]
    BY <1>0, <1>1, <1>2
  <1>4. /\ ev[w] = NoEvent /\ todo[w] = {} /\ pc'[w] = "cooldown" /\ ev'[w] = n + 1
        /\ \A v \in Workers \ {w} : pc'[v] = pc[v] /\ ev'[v] = ev[v] /\ todo'[v] = todo[v]
    <2>1. \A v \in Workers \ {w} : todo'[v] = todo[v]
      BY DEF Begin, BInv, TInv, TypeOK
    <2> QED
      BY <1>0, <2>1 DEF BInv, TInv, TypeOK, Overlaps
  <1>41. \A v \in Workers : IF pc[v] = "idle" THEN ev[v] = NoEvent ELSE ev[v] \in 1..n /\ ev[v] # NoEvent
    BY <1>1 DEF BInv, Overlaps, NoEvent
  <1>5. Ordered'
    <2>1. ASSUME NEW x \in 1..n + 1, NEW y \in 1..n + 1
          PROVE  time'[x] <= clock /\ (x <= y => time'[x] <= time'[y])
      <3>1. CASE x \in 1..n /\ y \in 1..n
        BY <1>1, <1>3, <3>1 DEF BInv, Ordered
      <3>2. CASE x \in 1..n /\ y = n + 1
        BY <1>1, <1>3, <3>2
      <3>3. CASE x = n + 1
        BY <1>1, <1>3, <3>3
      <3> QED
        BY <1>1, <3>1, <3>2, <3>3
    <2> QED
      BY <1>0, <2>1 DEF Ordered
  <1>6. Overlaps'
    <2>1. \A p \in beside' : p[1] \in 1..n + 1 /\ p[2] \in 1..n + 1 /\ p[1] < p[2]
      <3>1. ASSUME NEW v \in Workers, ev[v] # NoEvent
            PROVE  ev[v] \in 1..n + 1 /\ n + 1 \in 1..n + 1 /\ ev[v] < n + 1
        BY <1>1, <1>41, <3>1
      <3>2. ASSUME NEW p \in beside PROVE p[1] \in 1..n + 1 /\ p[2] \in 1..n + 1 /\ p[1] < p[2]
        BY <1>1
      <3> QED
        BY <1>0, <3>1, <3>2
    <2>2. \A v \in Workers : pc'[v] = "idle" => ev'[v] = NoEvent
      BY <1>4, <1>41
    <2>3. ASSUME NEW v \in Workers, pc'[v] # "idle"
          PROVE  /\ \A x \in 1..n + 1 : ev'[v] < x => <<ev'[v], x>> \in beside'
                 /\ \A u \in Workers : u # v => ev'[u] # ev'[v]
      <3>1. CASE v = w
        <4>1. \A x \in 1..n + 1 : ~(n + 1 < x)
          BY <1>1
        <4>2. ASSUME NEW u \in Workers, u # w PROVE ev'[u] # n + 1
          <5>1. ev[u] = NoEvent \/ ev[u] \in 1..n
            BY <1>41
          <5> QED
            BY <1>1, <1>4, <4>2, <5>1 DEF NoEvent
        <4> QED
          BY <1>4, <3>1, <4>1, <4>2
      <3>2. CASE v # w
        <4>1. pc[v] # "idle" /\ ev'[v] = ev[v] /\ ev[v] \in 1..n /\ ev[v] # NoEvent
          BY <1>4, <1>41, <2>3, <3>2
        <4>2. ASSUME NEW x \in 1..n + 1, ev[v] < x PROVE <<ev[v], x>> \in beside'
          <5>1. CASE x \in 1..n
            BY <1>0, <4>1, <4>2, <5>1 DEF BInv, Overlaps
          <5>2. CASE x = n + 1
            BY <1>0, <4>1, <5>2
          <5> QED
            BY <1>1, <5>1, <5>2
        <4>3. ASSUME NEW u \in Workers, u # v PROVE ev'[u] # ev[v]
          <5>1. CASE u = w
            BY <1>1, <1>4, <4>1, <5>1
          <5>2. CASE u # w
            BY <1>4, <4>1, <4>3, <5>2 DEF BInv, Overlaps
          <5> QED
            BY <5>1, <5>2
        <4> QED
          BY <4>1, <4>2, <4>3
      <3> QED
        BY <3>1, <3>2
    <2> QED
      BY <1>0, <2>1, <2>2, <2>3 DEF Overlaps
  <1>7. Windows'
    <2>1. /\ \A p \in seen : p[2] \in 1..n + 1
          /\ recorded \subseteq seen
          /\ \A r \in Rules : \A x \in window[r] : <<r, x>> \in recorded
      BY <1>1 DEF BInv, Windows
    <2>2. ASSUME NEW r \in Rules, NEW x \in 1..n + 1, <<r, x>> \in recorded
          PROVE  x \in window[r] \/ \E y \in 1..n + 1 : time'[x] + Timeframe[r] <= time'[y]
      <3>1. x \in 1..n
        BY <1>1, <2>2
      <3>2. CASE x \in window[r]
        BY <3>2
      <3>3. CASE \E y \in 1..n : time[x] + Timeframe[r] <= time[y]
        <4>1. PICK y \in 1..n : time[x] + Timeframe[r] <= time[y]
          BY <3>3
        <4>2. y \in 1..n + 1 /\ time'[y] = time[y] /\ time'[x] = time[x]
          BY <1>1, <1>3, <3>1
        <4> QED
          BY <4>1, <4>2
      <3> QED
        BY <2>2, <3>1, <3>2, <3>3 DEF BInv, Windows
    <2> QED
      BY <1>0, <2>1, <2>2 DEF Windows
  <1>71. /\ seen \subseteq seen' /\ beside \subseteq beside' /\ \A x \in 1..arrived : time'[x] = time[x]
         /\ \A p \in beside' : p[1] \in Nat /\ p[2] \in Nat /\ p[1] < p[2]
    <2>1. \A p \in beside' : p[1] \in 1..n + 1 /\ p[2] \in 1..n + 1 /\ p[1] < p[2]
      BY <1>0, <1>6 DEF Overlaps
    <2> QED
      BY <1>0, <1>1, <1>3, <2>1
  <1>8. Steps'
    <2>1. StepsOf(pc'[w], todo'[w], ev'[w], count'[w], seen', recorded', window', time', beside')
      <3>1. \A r \in todo'[w] : <<r, n + 1>> \notin recorded
        <4>1. n + 1 \notin 1..n
          BY <1>1
        <4> QED
          BY <1>1, <4>1
      <3> QED
        BY <1>0, <1>4, <3>1 DEF StepsOf, AtWorkSteps
    <2>2. ASSUME NEW v \in Workers, v # w
          PROVE  StepsOf(pc'[v], todo'[v], ev'[v], count'[v], seen', recorded', window', time', beside')
      BY <1>0, <1>4, <1>71, <2>2, OtherSteps
    <2> QED
      BY <2>1, <2>2 DEF Steps
  <1>9. FiredEvents'
    BY <1>0, <1>1 DEF FiredEvents
  <1>10. FiresOnlyOnBurst'
    <2>1. \A f \in fires : Many(seen', time', beside', f.rule, f.ev)
      BY <1>71, FiresKept
    <2> QED
      BY <1>0, <2>1, PartsPrimed
  <1>11. RecordedBurstFires'
    <2>1. ASSUME NEW p \in recorded, Evald(lost, ev', todo', p[1], p[2]),
                 Complete(recorded', time', beside', p[1], p[2])
          PROVE  FiredFor(fires, p[1], p[2])
      <3>1. Evald(lost, ev, todo, p[1], p[2])
        BY <1>4, <2>1 DEF Evald
      <3>2. Complete(recorded, time, beside, p[1], p[2])
        BY <1>0, <1>71, <2>1, BurstKept
      <3> QED
        BY <3>1, <3>2, Parts DEF BInv
    <2> QED
      BY <1>0, <2>1, PartsPrimed
  <1> QED
    BY <1>5, <1>6, <1>7, <1>8, <1>9, <1>10, <1>11 DEF BInv

\* Steps of a runner that keeps its event: Overlaps and Ordered are kept.
LEMMA SameEvents ==
  ASSUME BInv, NEW w \in Workers, pc[w] # "idle", pc'[w] # "idle",
         \A v \in Workers \ {w} : pc'[v] = pc[v], UNCHANGED <<clock, arrived, time, ev, beside>>
  PROVE  Ordered' /\ Overlaps'
  BY DEF BInv, Ordered, Overlaps

\* An event inside the cooldown is passed over, one outside it is seen.
LEMMA CheckStep ==
  ASSUME BInv, TInv', NEW w \in Workers, CheckCooldown(w)
  PROVE  BInv'
  <1>0. /\ pc[w] = "cooldown"
        /\ UNCHANGED <<clock, arrived, time, window, ev, count, recorded, beside, fires, lost>>
    BY DEF CheckCooldown
  <1>1. /\ Rule(w) \in todo[w] /\ Rule(w) \in Rules /\ Rule(w) = Min(todo[w])
        /\ ev[w] \in 1..arrived /\ arrived \in Nat
        /\ \A p \in recorded : p = <<p[1], p[2]>>
        /\ \A p \in beside : p[1] \in 1..arrived /\ p[2] \in 1..arrived /\ p[1] < p[2]
    BY <1>0, Here
  <1>2. \A r \in todo[w] : <<r, ev[w]>> \notin recorded
    BY <1>0 DEF BInv, Steps, StepsOf
  <1>4. /\ seen \subseteq seen' /\ \A p \in seen' : p[2] \in 1..arrived
        /\ pc'[w] \in {"cooldown", "persist", "trim"} /\ todo'[w] \subseteq todo[w]
        /\ pc'[w] = "trim" => todo'[w] = todo[w] /\ <<Rule(w), ev[w]>> \in seen'
        /\ \A v \in Workers \ {w} : pc'[v] = pc[v] /\ todo'[v] = todo[v]
    <2>1. CASE InCooldown(Rule(w))
      BY <1>0, <2>1, NextRuleTypes DEF CheckCooldown, BInv, Windows
    <2>2. CASE ~InCooldown(Rule(w))
      <3>1. pc' = [pc EXCEPT ![w] = "trim"] /\ seen' = seen \cup {<<Rule(w), ev[w]>>} /\ todo' = todo
        BY <2>2 DEF CheckCooldown
      <3> QED
        BY <1>1, <3>1 DEF BInv, TInv, TypeOK, Windows
    <2> QED
      BY <2>1, <2>2
  <1>5. Ordered' /\ Overlaps' /\ FiredEvents'
    BY <1>0, <1>4, SameEvents DEF BInv, FiredEvents
  <1>6. Windows'
    BY <1>0, <1>4 DEF BInv, Windows
  <1>61. /\ \A x \in 1..arrived : time'[x] = time[x]
         /\ \A p \in beside' : p[1] \in Nat /\ p[2] \in Nat /\ p[1] < p[2]
    BY <1>0, <1>1
  <1>7. Steps'
    <2>1. StepsOf(pc'[w], todo'[w], ev'[w], count'[w], seen', recorded', window', time', beside')
      BY <1>0, <1>1, <1>2, <1>4 DEF StepsOf, AtWorkSteps
    <2>2. ASSUME NEW v \in Workers, v # w
          PROVE  StepsOf(pc'[v], todo'[v], ev'[v], count'[v], seen', recorded', window', time', beside')
      BY <1>0, <1>4, <1>61, <2>2, OtherSteps
    <2> QED
      BY <2>1, <2>2 DEF Steps
  <1>8. FiresOnlyOnBurst'
    <2>1. \A f \in fires : Many(seen', time', beside', f.rule, f.ev)
      BY <1>0, <1>4, <1>61, FiresKept
    <2> QED
      BY <1>0, <2>1, PartsPrimed
  <1>9. RecordedBurstFires'
    <2>1. ASSUME NEW p \in recorded, Evald(lost, ev, todo', p[1], p[2])
          PROVE  Evald(lost, ev, todo, p[1], p[2])
      BY <1>1, <1>2, <1>4, <2>1 DEF Evald
    <2> QED
      BY <1>0, <2>1, Parts, PartsPrimed DEF BInv
  <1> QED
    BY <1>5, <1>6, <1>7, <1>8, <1>9 DEF BInv

\* What ZREMRANGEBYSCORE leaves: of this rule nothing that is outside the
\* event's timeframe, other than events of runners beside it.
LEMMA TrimWindows ==
  ASSUME BInv, NEW w \in Workers, pc[w] = "trim", TrimEffect(w),
         UNCHANGED <<arrived, time, seen, recorded>>
  PROVE  /\ Windows'
         /\ \A r \in Rules : window'[r] \subseteq window[r]
         /\ \A x \in window'[Rule(w)] : x \in Near(seen, time, beside, Rule(w), ev[w])
  <1>1. /\ Rule(w) \in Rules /\ ev[w] \in 1..arrived /\ arrived \in Nat
        /\ \A x \in 1..arrived : time[x] \in Nat
        /\ 1..arrived \subseteq Events
        /\ \A r \in Rules : window[r] \subseteq 1..arrived /\ Timeframe[r] \in Nat
    BY Here
  <1>2. window \in [Rules -> SUBSET (1..arrived)]
    BY DEF BInv, TInv, TypeOK
  <1>3. /\ window'[Rule(w)] = {x \in window[Rule(w)] : ~(time[x] + Timeframe[Rule(w)] <= time[ev[w]])}
        /\ \A r \in Rules \ {Rule(w)} : window'[r] = window[r]
    BY <1>1, <1>2 DEF TrimEffect, Outside
  <1>31. \A r \in Rules : window'[r] \subseteq window[r]
    BY <1>3
  <1>4. ASSUME NEW x \in window'[Rule(w)] PROVE x \in Near(seen, time, beside, Rule(w), ev[w])
    <2>1. x \in 1..arrived /\ <<Rule(w), x>> \in seen
      BY <1>1, <1>31 DEF BInv, Windows
    <2>2. time[x] + Timeframe[Rule(w)] > time[ev[w]]
      BY <1>1, <1>3, <2>1
    <2>3. CASE x <= ev[w]
      <3>1. x \in 1..ev[w]
        BY <1>1, <2>1, <2>3
      <3> QED
        BY <2>1, <2>2, <3>1 DEF Near, Tf
    <2>4. CASE ev[w] < x
      <3>1. <<ev[w], x>> \in beside
        BY <2>1, <2>4 DEF BInv, Overlaps
      <3> QED
        BY <1>1, <2>1, <3>1 DEF Near, Bes
    <2> QED
      BY <1>1, <2>1, <2>3, <2>4
  <1>5. \A r \in Rules : \A x \in window'[r] : <<r, x>> \in recorded
    BY <1>31 DEF BInv, Windows
  <1>6. ASSUME NEW r \in Rules, NEW x \in 1..arrived, <<r, x>> \in recorded
        PROVE  x \in window'[r] \/ \E y \in 1..arrived : time[x] + Timeframe[r] <= time[y]
    <2>1. x \in window[r] \/ \E y \in 1..arrived : time[x] + Timeframe[r] <= time[y]
      BY <1>6 DEF BInv, Windows
    <2>2. CASE x \in window[r] /\ x \notin window'[r]
      <3>1. time[x] + Timeframe[r] <= time[ev[w]]
        BY <1>3, <2>2
      <3> QED
        BY <1>1, <3>1
    <2> QED
      BY <2>1, <2>2
  <1>7. Windows'
    BY <1>5, <1>6 DEF BInv, Windows
  <1> QED
    BY <1>31, <1>4, <1>7

LEMMA TrimStep ==
  ASSUME BInv, TInv', NEW w \in Workers, Trim(w)
  PROVE  BInv'
  <1>0. /\ pc[w] = "trim" /\ TrimEffect(w) /\ pc' = [pc EXCEPT ![w] = "card"]
        /\ UNCHANGED <<clock, arrived, time, ev, todo, count, seen, recorded, beside, fires, lost>>
    BY DEF Trim
  <1>1. /\ Windows'
        /\ \A r \in Rules : window'[r] \subseteq window[r]
        /\ \A x \in window'[Rule(w)] : x \in Near(seen, time, beside, Rule(w), ev[w])
    BY <1>0, TrimWindows
  <1>2. /\ Rule(w) = Min(todo[w])
        /\ \A p \in beside : p[1] \in 1..arrived /\ p[2] \in 1..arrived /\ p[1] < p[2]
    BY <1>0, Here
  <1>3. pc'[w] = "card" /\ \A v \in Workers \ {w} : pc'[v] = pc[v]
    BY <1>0 DEF BInv, TInv, TypeOK
  <1>4. StepsOf(pc[w], todo[w], ev[w], count[w], seen, recorded, window, time, beside)
    BY DEF BInv, Steps
  <1>5. StepsOf(pc'[w], todo'[w], ev'[w], count'[w], seen', recorded', window', time', beside')
    BY <1>0, <1>1, <1>2, <1>3, <1>4 DEF StepsOf, AtWorkSteps
  <1>6. Steps'
    <2>1. /\ \A x \in 1..arrived : time'[x] = time[x]
          /\ \A p \in beside' : p[1] \in Nat /\ p[2] \in Nat /\ p[1] < p[2]
      BY <1>0, <1>2
    <2>2. ASSUME NEW v \in Workers, v # w
          PROVE  StepsOf(pc'[v], todo'[v], ev'[v], count'[v], seen', recorded', window', time', beside')
      <3> HIDE DEF TrimEffect
      <3> QED
        BY <1>0, <1>1, <1>3, <2>1, <2>2, OtherSteps
    <2> QED
      BY <1>5, <2>2 DEF Steps
  <1>7. Ordered' /\ Overlaps' /\ FiredEvents'
    BY <1>0, <1>3, SameEvents DEF BInv, FiredEvents
  <1>9. FiresOnlyOnBurst' /\ RecordedBurstFires'
    BY <1>0, Parts, PartsPrimed DEF BInv
  <1> QED
    BY <1>1, <1>6, <1>7, <1>9 DEF BInv

\* ZCARD counts what is near, and all of a burst that is clear of the others.
LEMMA CardCounts ==
  ASSUME BInv, NEW w \in Workers, pc[w] = "card"
  PROVE  LET n == Cardinality(window[Rule(w)]) + 1
             r == Rule(w)
             e == ev[w]
         IN  /\ n <= Cardinality(Near(seen, time, beside, r, e))
             /\ Cardinality(Clear(recorded \cup {<<r, e>>}, time, beside, r, e)) <= n
  <1> DEFINE r == Rule(w)
             e == ev[w]
             W == window[r]
             N == Near(seen, time, beside, r, e)
             K == Clear(recorded \cup {<<r, e>>}, time, beside, r, e)
  <1>1. /\ r \in Rules /\ e \in 1..arrived /\ arrived \in Nat /\ r = Min(todo[w]) /\ r \in todo[w]
        /\ 1..arrived \subseteq Events /\ W \subseteq 1..arrived /\ Timeframe[r] \in Nat
        /\ \A x \in 1..arrived : time[x] \in Nat
    BY Here
  <1>2. /\ <<r, e>> \in seen /\ \A x \in W : x \in N
        /\ <<r, e>> \notin recorded
    BY <1>1 DEF BInv, Steps, StepsOf, AtWorkSteps
  <1>3. e \notin W
    BY <1>1, <1>2 DEF BInv, Windows
  <1>4. W \cup {e} \subseteq N
    <2>1. e \in 1..e
      BY <1>1
    <2>2. e \in N
      BY <1>2, <2>1 DEF Near, Tf
    <2> QED
      BY <1>2, <2>2
  <1>5. ASSUME NEW x \in K PROVE x \in W \cup {e}
    <2>1. /\ x \in 1..e /\ <<r, x>> \in recorded \cup {<<r, e>>}
          /\ x = e \/ time[x] + Timeframe[r] > time[e]
          /\ x = e \/ \A y \in Events : <<e, y>> \in beside => time[x] + Timeframe[r] > time[y]
      BY <1>5 DEF Clear, Tf
    <2> SUFFICES ASSUME x # e PROVE x \in W
      OBVIOUS
    <2>2. <<r, x>> \in recorded /\ x \in 1..arrived
      BY <1>1, <2>1
    <2>3. ASSUME NEW y \in 1..arrived, time[x] + Timeframe[r] <= time[y] PROVE FALSE
      <3>1. ~(y <= e)
        <4>1. y <= e => time[y] <= time[e]
          BY <1>1 DEF BInv, Ordered
        <4>2. time[x] \in Nat /\ time[y] \in Nat /\ time[e] \in Nat
          BY <1>1, <2>2
        <4> QED
          BY <1>1, <2>1, <2>3, <4>1, <4>2
      <3>2. e < y
        BY <1>1, <3>1
      <3>3. <<e, y>> \in beside
        BY <3>2 DEF BInv, Overlaps
      <3>4. time[x] + Timeframe[r] > time[y]
        BY <1>1, <2>1, <3>3
      <3>5. time[x] \in Nat /\ time[y] \in Nat
        BY <1>1, <2>2
      <3> QED
        BY <1>1, <2>3, <3>4, <3>5
    <2> QED
      BY <1>1, <2>2, <2>3 DEF BInv, Windows
  <1>6. W \in SUBSET Events /\ W \cup {e} \in SUBSET Events /\ N \in SUBSET Events /\ K \in SUBSET Events
    <2>1. 1..e \subseteq Events
      BY <1>1
    <2> QED
      BY <1>1, <2>1 DEF Near, Clear, Tf
  <1>7. IsFiniteSet(W) /\ Cardinality(W) \in Nat
    <2> HIDE DEF W
    <2> QED
      BY <1>1, FiniteEvents
  <1>8. Cardinality(W \cup {e}) = Cardinality(W) + 1
    <2> HIDE DEF W, e
    <2> QED
      BY <1>3, <1>7, FS_AddElement
  <1>9. /\ Cardinality(W \cup {e}) <= Cardinality(N)
        /\ Cardinality(K) <= Cardinality(W \cup {e})
    <2>1. K \subseteq W \cup {e}
      BY <1>5
    <2> HIDE DEF W, e, N, K
    <2> QED
      BY <1>4, <1>6, <2>1, EventCards
  <1> QED
    BY <1>8, <1>9

LEMMA CardStep ==
  ASSUME BInv, TInv', NEW w \in Workers, Card(w)
  PROVE  BInv'
  <1>0. /\ pc[w] = "card" /\ pc' = [pc EXCEPT ![w] = "add"]
        /\ count' = [count EXCEPT ![w] = Cardinality(window[Rule(w)]) + 1]
        /\ UNCHANGED <<clock, arrived, time, window, ev, todo, seen, recorded, beside, fires, lost>>
    BY DEF Card
  <1>2. /\ Rule(w) = Min(todo[w])
        /\ \A p \in beside : p[1] \in 1..arrived /\ p[2] \in 1..arrived /\ p[1] < p[2]
    BY <1>0, Here
  <1>3. /\ pc'[w] = "add" /\ count'[w] = Cardinality(window[Rule(w)]) + 1
        /\ \A v \in Workers \ {w} : pc'[v] = pc[v] /\ count'[v] = count[v]
    BY <1>0 DEF BInv, TInv, TypeOK
  <1>4. StepsOf(pc[w], todo[w], ev[w], count[w], seen, recorded, window, time, beside)
    BY DEF BInv, Steps
  <1>41. /\ count'[w] <= Cardinality(Near(seen, time, beside, Rule(w), ev[w]))
         /\ Cardinality(Clear(recorded \cup {<<Rule(w), ev[w]>>}, time, beside, Rule(w), ev[w])) <= count'[w]
    BY <1>0, <1>3, CardCounts
  <1>5. StepsOf(pc'[w], todo'[w], ev'[w], count'[w], seen', recorded', window', time', beside')
    BY <1>0, <1>2, <1>3, <1>4, <1>41 DEF StepsOf, AtWorkSteps
  <1>6. Steps'
    <2>1. /\ \A x \in 1..arrived : time'[x] = time[x]
          /\ \A p \in beside' : p[1] \in Nat /\ p[2] \in Nat /\ p[1] < p[2]
      BY <1>0, <1>2
    <2>2. ASSUME NEW v \in Workers, v # w
          PROVE  StepsOf(pc'[v], todo'[v], ev'[v], count'[v], seen', recorded', window', time', beside')
      BY <1>0, <1>3, <2>1, <2>2, OtherSteps
    <2> QED
      BY <1>5, <2>2 DEF Steps
  <1>7. Ordered' /\ Overlaps' /\ FiredEvents' /\ Windows'
    BY <1>0, <1>3, SameEvents DEF BInv, FiredEvents, Windows
  <1>9. FiresOnlyOnBurst' /\ RecordedBurstFires'
    BY <1>0, Parts, PartsPrimed DEF BInv
  <1> QED
    BY <1>6, <1>7, <1>9 DEF BInv

\* ZADD: for every other runner, and every event that is done with, the event
\* is one beside theirs.
LEMMA RecordWindows ==
  ASSUME BInv, NEW w \in Workers, pc[w] = "add", RecordEffect(w),
         UNCHANGED <<arrived, time, seen, beside>>
  PROVE  /\ Windows'
         /\ recorded' = recorded \cup {<<Rule(w), ev[w]>>}
         /\ \A r \in todo[w] : <<r, ev[w]>> \notin recorded
         /\ \A v \in Workers : v # w /\ pc[v] # "idle" =>
              /\ \A r \in Rules : \A x \in window'[r] :
                   x \in window[r] \/ (x \in Events /\ <<r, x>> \in seen' /\ Bes(beside', x, ev[v]))
              /\ \A p \in recorded' : p \in recorded \/ Bes(beside', p[2], ev[v])
         /\ \A p \in recorded : Complete(recorded', time', beside', p[1], p[2])
                                  => Complete(recorded, time, beside, p[1], p[2])
  <1> DEFINE r0 == Rule(w)
             e0 == ev[w]
  <1>1. /\ r0 \in Rules /\ r0 \in todo[w] /\ r0 = Min(todo[w])
        /\ e0 \in 1..arrived /\ arrived \in Nat /\ 1..arrived \subseteq Events
        /\ \A p \in recorded : p[1] \in Rules /\ p[2] \in 1..arrived /\ p = <<p[1], p[2]>>
    BY Here
  <1>2. window \in [Rules -> SUBSET (1..arrived)]
    BY DEF BInv, TInv, TypeOK
  <1>3. /\ window'[r0] = window[r0] \cup {e0} /\ \A r \in Rules \ {r0} : window'[r] = window[r]
        /\ recorded' = recorded \cup {<<r0, e0>>}
    BY <1>1, <1>2 DEF RecordEffect
  <1>4. <<r0, e0>> \in seen /\ \A r \in todo[w] : <<r, e0>> \notin recorded
    BY <1>1 DEF BInv, Steps, StepsOf, AtWorkSteps
  <1>5. /\ recorded \subseteq seen /\ \A r \in Rules : \A x \in window[r] : <<r, x>> \in recorded
        /\ \A r \in Rules, x \in 1..arrived :
             <<r, x>> \in recorded =>
               x \in window[r] \/ \E y \in 1..arrived : time[x] + Timeframe[r] <= time[y]
    BY DEF BInv, Windows
  <1>51. \A v \in Workers : v # w /\ pc[v] # "idle" => Bes(beside, e0, ev[v])
    BY Neighbours
  <1>52. \A x \in 1..arrived : e0 < x => <<e0, x>> \in beside
    BY DEF BInv, Overlaps
  <1> HIDE DEF r0, e0
  <1>6. \A r \in Rules : window[r] \subseteq window'[r]
    BY <1>3
  <1>7. Windows'
    <2>1. \A r \in Rules : \A x \in window'[r] : <<r, x>> \in recorded'
      BY <1>3, <1>5
    <2>2. ASSUME NEW r \in Rules, NEW x \in 1..arrived, <<r, x>> \in recorded'
          PROVE  x \in window'[r] \/ \E y \in 1..arrived : time[x] + Timeframe[r] <= time[y]
      <3>1. CASE <<r, x>> \in recorded
        BY <1>5, <1>6, <3>1
      <3>2. CASE r = r0 /\ x = e0
        BY <1>3, <3>2
      <3> QED
        BY <1>3, <2>2, <3>1, <3>2
    <2> QED
      BY <1>3, <1>4, <1>5, <2>1, <2>2 DEF BInv, Windows
  <1>8. ASSUME NEW v \in Workers, v # w, pc[v] # "idle"
        PROVE  /\ \A r \in Rules : \A x \in window'[r] :
                    x \in window[r] \/ (x \in Events /\ <<r, x>> \in seen' /\ Bes(beside', x, ev[v]))
               /\ \A p \in recorded' : p \in recorded \/ Bes(beside', p[2], ev[v])
    <2>1. Bes(beside', e0, ev[v]) /\ e0 \in Events /\ <<r0, e0>> \in seen'
      BY <1>1, <1>4, <1>51, <1>8
    <2> QED
      BY <1>3, <2>1
  <1>9. ASSUME NEW p \in recorded, Complete(recorded', time', beside', p[1], p[2])
        PROVE  Complete(recorded, time, beside, p[1], p[2])
    <2>1. p[2] \in 1..arrived /\ p = <<p[1], p[2]>>
      BY <1>1
    <2>2. ~(p[1] = r0 /\ p[2] = e0)
      BY <1>1, <1>4, <2>1
    <2>3. ASSUME NEW x \in 1..p[2], <<p[1], x>> \in recorded'
          PROVE  <<p[1], x>> \in recorded \/ (x # p[2] /\ Bes(beside', x, p[2]))
      <3>1. CASE <<p[1], x>> \in recorded
        BY <3>1
      <3>2. CASE p[1] = r0 /\ x = e0
        <4>1. x # p[2]
          BY <2>2, <3>2
        <4>2. e0 < p[2]
          BY <1>1, <2>1, <2>3, <3>2, <4>1
        <4>3. <<e0, p[2]>> \in beside'
          BY <1>52, <2>1, <4>2
        <4> QED
          BY <3>2, <4>1, <4>3 DEF Bes
      <3> QED
        BY <1>3, <2>3, <3>1, <3>2
    <2> QED
      BY <1>9, <2>3, BurstKept
  <1> QED
    BY <1>3, <1>4, <1>7, <1>8, <1>9 DEF r0, e0

\* The comparison with rule.count is right, both ways.
LEMMA RecordStep ==
  ASSUME BInv, TInv', NEW w \in Workers, Record(w)
  PROVE  BInv'
  <1>0. /\ pc[w] = "add" /\ RecordEffect(w)
        /\ UNCHANGED <<clock, arrived, time, ev, count, seen, beside, fires, lost>>
    BY DEF Record
  <1>1. /\ Rule(w) \in todo[w] /\ Rule(w) \in Rules /\ Rule(w) = Min(todo[w])
        /\ ev[w] \in 1..arrived /\ arrived \in Nat /\ Count[Rule(w)] \in Nat /\ count[w] \in Nat
        /\ 1..arrived \subseteq Events
        /\ \A p \in recorded : p = <<p[1], p[2]>>
        /\ \A p \in beside : p[1] \in 1..arrived /\ p[2] \in 1..arrived /\ p[1] < p[2]
    BY <1>0, Here
  <1>2. /\ Windows'
        /\ recorded' = recorded \cup {<<Rule(w), ev[w]>>}
        /\ \A r \in todo[w] : <<r, ev[w]>> \notin recorded
        /\ \A v \in Workers : v # w /\ pc[v] # "idle" =>
              /\ \A r \in Rules : \A x \in window'[r] :
                   x \in window[r] \/ (x \in Events /\ <<r, x>> \in seen' /\ Bes(beside', x, ev[v]))
              /\ \A p \in recorded' : p \in recorded \/ Bes(beside', p[2], ev[v])
        /\ \A p \in recorded : Complete(recorded', time', beside', p[1], p[2])
                                 => Complete(recorded, time, beside, p[1], p[2])
    BY <1>0, RecordWindows
  <1>3. /\ count[w] <= Cardinality(Near(seen, time, beside, Rule(w), ev[w]))
        /\ Cardinality(Clear(recorded', time, beside, Rule(w), ev[w])) <= count[w]
        /\ <<Rule(w), ev[w]>> \in seen
    BY <1>0, <1>1, <1>2 DEF BInv, Steps, StepsOf, AtWorkSteps
  <1>31. /\ Cardinality(Near(seen, time, beside, Rule(w), ev[w])) \in Nat
         /\ Cardinality(Clear(recorded', time, beside, Rule(w), ev[w])) \in Nat
    <2>1. Near(seen, time, beside, Rule(w), ev[w]) \in SUBSET Events
          /\ Clear(recorded', time, beside, Rule(w), ev[w]) \in SUBSET Events
      <3>1. 1..ev[w] \subseteq Events
        BY <1>1
      <3> QED
        BY <3>1 DEF Near, Clear, Tf
    <2> QED
      BY <2>1, EventCards
  <1>4. /\ ~Below(w) => Many(seen, time, beside, Rule(w), ev[w])
        /\ Complete(recorded', time, beside, Rule(w), ev[w]) => ~Below(w)
    BY <1>1, <1>3, <1>31 DEF Many, Complete, Below
  <1>5. /\ \/ Below(w) /\ pc'[w] \in {"cooldown", "persist"} /\ todo'[w] = todo[w] \ {Rule(w)}
           \/ ~Below(w) /\ pc'[w] = "set" /\ todo'[w] = todo[w]
        /\ \A v \in Workers \ {w} : pc'[v] = pc[v] /\ todo'[v] = todo[v]
    <2>1. CASE Below(w)
      BY <1>0, <2>1, NextRuleTypes DEF Record, BInv
    <2>2. CASE ~Below(w)
      BY <2>2 DEF Record, BInv, TInv, TypeOK
    <2> QED
      BY <2>1, <2>2
  <1>6. Steps'
    <2>1. CASE Below(w)
      <3>1. \A r \in todo'[w] : <<r, ev[w]>> \notin recorded'
        BY <1>2, <1>5, <2>1
      <3> QED
        <4>1. StepsOf(pc'[w], todo'[w], ev'[w], count'[w], seen', recorded', window', time', beside')
          BY <1>0, <1>5, <2>1, <3>1 DEF StepsOf, AtWorkSteps
        <4>2. ASSUME NEW v \in Workers, v # w
              PROVE  StepsOf(pc'[v], todo'[v], ev'[v], count'[v], seen', recorded', window', time', beside')
          <5>1. /\ \A x \in 1..arrived : time'[x] = time[x]
                /\ \A p \in beside' : p[1] \in Nat /\ p[2] \in Nat /\ p[1] < p[2]
            BY <1>0, <1>1
          <5> QED
            BY <1>0, <1>2, <1>5, <4>2, <5>1, OtherSteps
        <4> QED
          BY <4>1, <4>2 DEF Steps
    <2>2. CASE ~Below(w)
      <3>1. pc'[w] = "set" /\ todo'[w] = todo[w]
        BY <1>5, <2>2
      <3>2. \A r \in todo[w] : <<r, ev[w]>> \in recorded' => r = Rule(w)
        BY <1>2
      <3>3. StepsOf(pc'[w], todo'[w], ev'[w], count'[w], seen', recorded', window', time', beside')
        BY <1>0, <1>1, <1>3, <1>4, <2>2, <3>1, <3>2 DEF StepsOf, AtWorkSteps
      <3>4. ASSUME NEW v \in Workers, v # w
            PROVE  StepsOf(pc'[v], todo'[v], ev'[v], count'[v], seen', recorded', window', time', beside')
        <4>1. /\ \A x \in 1..arrived : time'[x] = time[x]
              /\ \A p \in beside' : p[1] \in Nat /\ p[2] \in Nat /\ p[1] < p[2]
          BY <1>0, <1>1
        <4> QED
          BY <1>0, <1>2, <1>5, <3>4, <4>1, OtherSteps
      <3> QED
        BY <3>3, <3>4 DEF Steps
    <2> QED
      BY <2>1, <2>2
  <1>7. Ordered' /\ Overlaps' /\ FiredEvents'
    BY <1>0, <1>5, SameEvents DEF BInv, FiredEvents
  <1>9. FiresOnlyOnBurst'
    BY <1>0, Parts, PartsPrimed DEF BInv
  <1>10. RecordedBurstFires'
    <2>1. ASSUME NEW p \in recorded', Evald(lost, ev, todo', p[1], p[2]),
                 Complete(recorded', time', beside', p[1], p[2])
          PROVE  FiredFor(fires, p[1], p[2])
      <3>1. CASE p = <<Rule(w), ev[w]>>
        <4>1. p[1] = Rule(w) /\ p[2] = ev[w]
          BY <3>1
        <4>2. Rule(w) \notin todo'[w]
          BY <2>1, <4>1 DEF Evald
        <4>3. ~Below(w)
          BY <1>0, <1>4, <2>1, <4>1
        <4> QED
          BY <1>1, <1>5, <4>2, <4>3
      <3>2. CASE p \in recorded
        <4>1. Evald(lost, ev, todo, p[1], p[2])
          BY <1>1, <1>2, <1>5, <2>1, <3>2 DEF Evald
        <4>2. Complete(recorded, time, beside, p[1], p[2])
          BY <1>2, <2>1, <3>2
        <4> QED
          BY <3>2, <4>1, <4>2, Parts DEF BInv
      <3> QED
        BY <1>2, <3>1, <3>2
    <2> QED
      BY <1>0, <2>1, PartsPrimed
  <1> QED
    BY <1>2, <1>6, <1>7, <1>9, <1>10 DEF BInv

\* SET of the cooldown key: the fire has its burst.
LEMMA SetStep ==
  ASSUME BInv, TInv', NEW w \in Workers, SetCooldown(w)
  PROVE  BInv'
  <1> DEFINE new == [rule |-> Rule(w), ev |-> ev[w], at |-> clock,
                     by |-> w, no |-> sets + 1, asked |-> asked[w]]
  <1>0. /\ pc[w] = "set" /\ NextRule(w)
        /\ fires' = fires \cup {new}
        /\ UNCHANGED <<clock, arrived, time, window, ev, count, seen, recorded, beside, lost>>
    BY DEF SetCooldown
  <1>1. /\ Rule(w) \in todo[w] /\ Rule(w) \in Rules /\ Rule(w) = Min(todo[w])
        /\ ev[w] \in 1..arrived /\ arrived \in Nat
        /\ \A p \in recorded : p = <<p[1], p[2]>>
        /\ \A f \in fires : f.rule \in Rules /\ f.ev \in 1..arrived
        /\ \A p \in beside : p[1] \in 1..arrived /\ p[2] \in 1..arrived /\ p[1] < p[2]
    BY <1>0, Here
  <1>3. /\ pc'[w] \in {"cooldown", "persist"} /\ todo'[w] = todo[w] \ {Rule(w)}
        /\ \A v \in Workers \ {w} : pc'[v] = pc[v] /\ todo'[v] = todo[v]
    BY <1>0, NextRuleTypes DEF BInv
  <1>4. /\ Many(seen, time, beside, Rule(w), ev[w])
        /\ \A r \in todo[w] : <<r, ev[w]>> \in recorded => r = Rule(w)
    BY <1>0, <1>1 DEF BInv, Steps, StepsOf
  <1>5. new.rule = Rule(w) /\ new.ev = ev[w]
    OBVIOUS
  <1> HIDE DEF new
  <1>7. Ordered' /\ Overlaps' /\ Windows'
    BY <1>0, <1>3, SameEvents DEF BInv, Windows
  <1>9. FiredEvents'
    BY <1>0, <1>1, <1>5 DEF FiredEvents
  <1>11. Steps'
    <2>1. \A r \in todo'[w] : <<r, ev[w]>> \notin recorded
      BY <1>3, <1>4
    <2>2. StepsOf(pc'[w], todo'[w], ev'[w], count'[w], seen', recorded', window', time', beside')
      BY <1>0, <1>3, <2>1 DEF StepsOf, AtWorkSteps
    <2>3. /\ \A x \in 1..arrived : time'[x] = time[x]
          /\ \A p \in beside' : p[1] \in Nat /\ p[2] \in Nat /\ p[1] < p[2]
      BY <1>0, <1>1
    <2>4. ASSUME NEW v \in Workers, v # w
          PROVE  StepsOf(pc'[v], todo'[v], ev'[v], count'[v], seen', recorded', window', time', beside')
      BY <1>0, <1>3, <2>3, <2>4, OtherSteps
    <2> QED
      BY <2>2, <2>4 DEF Steps
  <1>12. FiresOnlyOnBurst'
    <2>1. \A f \in fires : Many(seen, time, beside, f.rule, f.ev)
      BY Parts DEF BInv
    <2> QED
      BY <1>0, <1>4, <1>5, <2>1, PartsPrimed
  <1>13. RecordedBurstFires'
    <2>1. ASSUME NEW p \in recorded, Evald(lost, ev, todo', p[1], p[2]),
                 Complete(recorded, time, beside, p[1], p[2])
          PROVE  FiredFor(fires', p[1], p[2])
      <3>1. CASE p[1] = Rule(w) /\ p[2] = ev[w]
        BY <1>0, <1>5, <3>1 DEF FiredFor
      <3>2. CASE ~(p[1] = Rule(w) /\ p[2] = ev[w])
        <4>1. Evald(lost, ev, todo, p[1], p[2])
          BY <1>1, <1>3, <1>4, <2>1, <3>2 DEF Evald
        <4>2. FiredFor(fires, p[1], p[2])
          BY <2>1, <4>1, Parts DEF BInv
        <4> QED
          BY <1>0, <4>2 DEF FiredFor
      <3> QED
        BY <3>1, <3>2
    <2> QED
      BY <1>0, <2>1, PartsPrimed
  <1> QED
    BY <1>7, <1>9, <1>11, <1>12, <1>13 DEF BInv

\* A runner lets its event go: those that are beside it stay so.
LEMMA LetGo ==
  ASSUME BInv, NEW w \in Workers, pc' = [pc EXCEPT ![w] = "idle"], ev' = [ev EXCEPT ![w] = NoEvent],
         UNCHANGED <<clock, arrived, time, beside>>
  PROVE  /\ Ordered' /\ Overlaps'
         /\ pc'[w] = "idle" /\ ev'[w] = NoEvent
         /\ \A v \in Workers \ {w} : pc'[v] = pc[v] /\ ev'[v] = ev[v]
  <1>1. /\ pc'[w] = "idle" /\ ev'[w] = NoEvent
        /\ \A v \in Workers \ {w} : pc'[v] = pc[v] /\ ev'[v] = ev[v]
    BY DEF BInv, TInv, TypeOK
  <1>2. \A v \in Workers : pc[v] # "idle" => ev[v] # NoEvent
    BY DEF BInv, TInv, Working
  <1>3. Ordered'
    BY DEF BInv, Ordered
  <1>4. Overlaps'
    BY <1>1, <1>2 DEF BInv, Overlaps
  <1> QED
    BY <1>1, <1>3, <1>4

\* A command raises, wherever: the event is lost, the rest stays in order.
LEMMA RaisesStep ==
  ASSUME BInv, TInv', NEW w \in Workers, Raises(w)
  PROVE  BInv'
  <1>0. /\ todo[w] # {} /\ lost' = lost \cup {ev[w]}
        /\ pc' = [pc EXCEPT ![w] = "idle"] /\ ev' = [ev EXCEPT ![w] = NoEvent]
        /\ todo' = [todo EXCEPT ![w] = {}]
        /\ UNCHANGED <<clock, arrived, time, count, seen, beside, fires>>
    BY DEF Raises
  <1>1. /\ Ordered' /\ Overlaps'
        /\ pc'[w] = "idle" /\ ev'[w] = NoEvent
        /\ \A v \in Workers \ {w} : pc'[v] = pc[v] /\ ev'[v] = ev[v]
    BY <1>0, LetGo
  <1>11. pc[w] \notin {"idle", "persist"} /\ todo'[w] = {} /\ \A v \in Workers \ {w} : todo'[v] = todo[v]
    BY <1>0 DEF BInv, TInv, TypeOK
  <1>2. /\ \A p \in recorded : p = <<p[1], p[2]>>
        /\ arrived \in Nat
        /\ \A p \in beside : p[1] \in 1..arrived /\ p[2] \in 1..arrived /\ p[1] < p[2]
    BY Here
  <1>3. /\ Windows'
        /\ \A p \in recorded' : p \in recorded \/ p[2] = ev[w]
        /\ \A v \in Workers : v # w /\ pc[v] # "idle" =>
              /\ \A r \in Rules : \A x \in window'[r] :
                   x \in window[r] \/ (x \in Events /\ <<r, x>> \in seen' /\ Bes(beside', x, ev[v]))
              /\ \A p \in recorded' : p \in recorded \/ Bes(beside', p[2], ev[v])
        /\ \A p \in recorded : Complete(recorded', time', beside', p[1], p[2])
                                 => Complete(recorded, time, beside, p[1], p[2])
    <2>1. CASE UNCHANGED <<window, recorded>>
      BY <1>0, <2>1 DEF BInv, Windows
    <2>2. CASE pc[w] = "trim" /\ TrimEffect(w) /\ UNCHANGED recorded
      <3>1. Windows' /\ \A r \in Rules : window'[r] \subseteq window[r]
        BY <1>0, <2>2, TrimWindows
      <3> QED
        BY <1>0, <2>2, <3>1
    <2>3. CASE pc[w] = "add" /\ RecordEffect(w)
      <3>1. /\ Windows'
            /\ recorded' = recorded \cup {<<Rule(w), ev[w]>>}
            /\ \A v \in Workers : v # w /\ pc[v] # "idle" =>
                 /\ \A r \in Rules : \A x \in window'[r] :
                      x \in window[r] \/ (x \in Events /\ <<r, x>> \in seen' /\ Bes(beside', x, ev[v]))
                 /\ \A p \in recorded' : p \in recorded \/ Bes(beside', p[2], ev[v])
            /\ \A p \in recorded : Complete(recorded', time', beside', p[1], p[2])
                                     => Complete(recorded, time, beside, p[1], p[2])
        BY <1>0, <2>3, RecordWindows
      <3> QED
        BY <3>1, SMTT(30)
    <2> QED
      BY <2>1, <2>2, <2>3 DEF Raises
  <1>4. FiredEvents'
    BY <1>0 DEF BInv, FiredEvents
  <1>7. Steps'
    <2>1. StepsOf(pc'[w], todo'[w], ev'[w], count'[w], seen', recorded', window', time', beside')
      BY <1>1, <1>11 DEF StepsOf, AtWorkSteps
    <2>2. /\ \A x \in 1..arrived : time'[x] = time[x]
          /\ \A p \in beside' : p[1] \in Nat /\ p[2] \in Nat /\ p[1] < p[2]
      BY <1>0, <1>2
    <2>3. ASSUME NEW v \in Workers, v # w
          PROVE  StepsOf(pc'[v], todo'[v], ev'[v], count'[v], seen', recorded', window', time', beside')
      BY <1>0, <1>1, <1>11, <1>3, <2>2, <2>3, OtherSteps
    <2> QED
      BY <2>1, <2>3 DEF Steps
  <1>8. FiresOnlyOnBurst'
    BY <1>0, Parts, PartsPrimed DEF BInv
  <1>9. RecordedBurstFires'
    <2>1. ASSUME NEW p \in recorded', Evald(lost', ev', todo', p[1], p[2]),
                 Complete(recorded', time', beside', p[1], p[2])
          PROVE  FiredFor(fires, p[1], p[2])
      <3>1. p[2] \notin lost /\ p[2] # ev[w]
        BY <1>0, <2>1 DEF Evald
      <3>2. p \in recorded /\ Evald(lost, ev, todo, p[1], p[2])
        BY <1>1, <1>11, <1>3, <2>1, <3>1 DEF Evald
      <3>3. Complete(recorded, time, beside, p[1], p[2])
        BY <1>3, <2>1, <3>2
      <3> QED
        BY <3>2, <3>3, Parts DEF BInv
    <2> QED
      BY <1>0, <2>1, PartsPrimed
  <1> QED
    BY <1>1, <1>3, <1>4, <1>7, <1>8, <1>9 DEF BInv

LEMMA FinishStep ==
  ASSUME BInv, TInv', NEW w \in Workers, Finish(w)
  PROVE  BInv'
  <1>0. /\ pc[w] = "persist" /\ pc' = [pc EXCEPT ![w] = "idle"] /\ ev' = [ev EXCEPT ![w] = NoEvent]
        /\ UNCHANGED <<clock, arrived, time, window, todo, count, seen, recorded, beside, fires, lost>>
    BY DEF Finish
  <1>1. /\ Ordered' /\ Overlaps'
        /\ pc'[w] = "idle" /\ ev'[w] = NoEvent
        /\ \A v \in Workers \ {w} : pc'[v] = pc[v] /\ ev'[v] = ev[v]
    BY <1>0, LetGo
  <1>2. todo[w] = {}
    BY <1>0 DEF BInv, TInv, TypeOK
  <1>3. Windows' /\ FiredEvents'
    BY <1>0 DEF BInv, Windows, FiredEvents
  <1>5. Steps'
    BY <1>0, <1>1, <1>2, SMTT(30) DEF BInv, Steps, StepsOf, AtWorkSteps
  <1>6. FiresOnlyOnBurst'
    BY <1>0, Parts, PartsPrimed DEF BInv
  <1>7. RecordedBurstFires'
    <2>1. ASSUME NEW p \in recorded, Evald(lost, ev', todo, p[1], p[2])
          PROVE  Evald(lost, ev, todo, p[1], p[2])
      BY <1>1, <1>2, <2>1 DEF Evald
    <2> QED
      BY <1>0, <2>1, Parts, PartsPrimed DEF BInv
  <1> QED
    BY <1>1, <1>3, <1>5, <1>6, <1>7 DEF BInv

LEMMA BurstInit == Init => BInv
  <1> SUFFICES ASSUME Init PROVE BInv
    OBVIOUS
  <1>1. Ordered /\ Overlaps /\ Windows /\ FiredEvents
    BY Numbers DEF Init, Ordered, Overlaps, Windows, FiredEvents, NoEvent
  <1>2. Steps
    BY DEF Init, Steps, StepsOf, AtWorkSteps
  <1>3. FiresOnlyOnBurst /\ RecordedBurstFires
    BY DEF Init, FiresOnlyOnBurst, RecordedBurstFires
  <1> QED
    BY <1>1, <1>2, <1>3, TypeInit DEF BInv

\* BInv is inductive, however many runners evaluate the rules.
LEMMA BurstStep == BInv /\ [Next]_vars => BInv'
  <1> SUFFICES ASSUME BInv, [Next]_vars PROVE BInv'
    OBVIOUS
  <1>1. TInv'
    BY TypeStep DEF BInv
  <1>2. CASE UNCHANGED vars
    <2>1. Ordered'
      BY <1>2 DEF vars, BInv, Ordered
    <2> QED
      BY <1>1, <1>2, <2>1, SameStep DEF vars
  <1>3. ASSUME NEW w \in Workers, Persist(w) PROVE BInv'
    <2>1. Ordered'
      BY <1>3 DEF Persist, BInv, Ordered
    <2> QED
      BY <1>1, <1>3, <2>1, SameStep DEF Persist
  <1> QED
    BY <1>1, <1>2, <1>3, SecondStep, BeginStep, CheckStep, TrimStep, CardStep, RecordStep, SetStep,
       RaisesStep, FinishStep DEF Next

\* A rule fires only on rule.count matching events of its timeframe or of
\* runners that worked beside the firing one, for any number of runners,
\* whatever the rules and whichever commands failed, half-done or not, before.
THEOREM FiresAreBursts == Spec => []FiresOnlyOnBurst
  <1>1. BInv => FiresOnlyOnBurst
    BY DEF BInv
  <1> QED
    BY <1>1, BurstInit, BurstStep, PTL DEF Spec

\* A recorded event that completes a burst of recorded events fires its rule:
\* a trim loses an event of the timeframe only if it is for an event whose
\* evaluation overlaps.
THEOREM BurstsFire == Spec => []RecordedBurstFires
  <1>1. BInv => RecordedBurstFires
    BY DEF BInv
  <1> QED
    BY <1>1, BurstInit, BurstStep, PTL DEF Spec
-----------------------------------------------------------------------------
(* The rule studio, whose files the runner's rules come from.              *)

USE StudioAssumption

\* No file is half-written.
NoTornFiles == \A d \in Dirs, i \in Ids : disk[d][i] # Torn

\* A worker at work has a request of its own, not yet answered; one that writes
\* has a document from the API and is about to rename that document.
AtWork ==
  \A w \in Processes : studioPc[w] # "idle" =>
    /\ req[w] \in 1..reqs /\ verdict[req[w]] = "open"
    /\ studioPc[w] # "unlink" => body[req[w]] \in Bodies
    /\ studioPc[w] = "replace" => temp[w] = body[req[w]]
    /\ studioPc[w] \in {"mkstemp", "write", "replace", "unlink"} => course[req[w]] = "before"
OneWorkerEach ==
  \A v, w \in Processes :
    studioPc[v] # "idle" /\ studioPc[w] # "idle" /\ req[v] = req[w] => v = w

\* The documents that compile.
Compiles == {d \in Docs : Compile(d) = "ok"}

\* A custom file with a writer is what that request submitted.  It compiles
\* once its worker has been through the loader, hence when it was accepted.
Written ==
  \A i \in Ids : writer[i] # 0 =>
    /\ writer[i] \in 1..reqs
    /\ disk["custom"][i] = body[writer[i]]
    /\ \A w \in Processes : studioPc[w] # "idle" /\ req[w] = writer[i] =>
         /\ studioPc[w] \in {"parse", "read"} /\ rule[w] = i
         /\ studioPc[w] = "read" => disk["custom"][i] \in Compiles
    /\ verdict[writer[i]] = "accepted" => disk["custom"][i] \in Compiles

\* The file of a worker that nobody crossed is still the one it wrote, and
\* compiles once it has been through the loader.
Alone ==
  \A w \in Processes :
    studioPc[w] \in {"parse", "read"} /\ course[req[w]] = "alone" =>
      /\ disk["custom"][rule[w]] = body[req[w]]
      /\ studioPc[w] = "read" => body[req[w]] \in Compiles
Unasked == \A r \in Requests : r > reqs => course[r] = "before"

StudioInv ==
  /\ StudioTypeOK /\ NoTornFiles /\ AtWork /\ OneWorkerEach /\ Written
  /\ Alone /\ Unasked /\ AnswerIsOwn

\* A document is neither a missing file nor a torn one.
LEMMA DocumentsAreFiles ==
  /\ \A d \in Docs : d # NoFile /\ d # Torn
  /\ NoFile # Torn
  <1>1. ASSUME NEW d \in Docs PROVE "blocks" \in DOMAIN d
    BY DEF StudioConstants, IsDocument
  <1>2. "blocks" \notin DOMAIN NoFile /\ "blocks" \notin DOMAIN Torn
    BY DEF NoFile, Torn
  <1>3. NoFile.file # Torn.file
    BY DEF NoFile, Torn
  <1> QED
    BY <1>1, <1>2, <1>3

LEMMA StudioStart ==
  ASSUME StudioInit
  PROVE  StudioInv
  <1> USE DEF StudioInit
  <1>1. PICK b \in [Ids -> HandWritten \cup {NoFile}] :
          disk = [d \in Dirs |->
                    [i \in Ids |-> IF d = "builtin" THEN b[i] ELSE NoFile]]
    OBVIOUS
  <1>2. disk \in [Dirs -> [Ids -> HandWritten \cup {NoFile}]]
    BY <1>1
  <1>3. NoTornFiles
    BY <1>2, DocumentsAreFiles DEF NoTornFiles, Docs
  <1>4. (CHOOSE i \in Ids : TRUE) \in Ids
    BY DEF StudioConstants
  <1>5. StudioTypeOK
    BY <1>2, <1>4 DEF StudioTypeOK, Docs, StudioConstants, NoRequest
  <1>6. /\ AtWork /\ OneWorkerEach /\ Written
        /\ Alone /\ Unasked /\ AnswerIsOwn
    BY DEF AtWork, OneWorkerEach, Written, NoRequest, Alone, Unasked, AnswerIsOwn
  <1> QED
    BY <1>3, <1>5, <1>6 DEF StudioInv

\* A change of a custom file crosses exactly the requests at work on it.
Crosses(cs, others, i) ==
  /\ cs \in [Requests -> {"before", "alone", "crossed"}]
  /\ \A r \in Requests :
       \/ cs[r] = course[r]
       \/ /\ cs[r] = "crossed"
          /\ \E v \in others : studioPc[v] \in {"parse", "read"} /\ req[v] = r
  /\ \A v \in others :
       studioPc[v] \in {"parse", "read"} /\ rule[v] = i /\ req[v] \in Requests =>
         cs[req[v]] = "crossed"

LEMMA CrossingCourses ==
  ASSUME StudioTypeOK
  PROVE  \A others, i : Crosses(Crossing(others, i), others, i)
  BY DEF Crosses, Crossing, StudioTypeOK

\* What that means for the requests at work, those to come and those answered.
Keeps(cs, others, i) ==
  /\ cs \in [Requests -> {"before", "alone", "crossed"}]
  /\ \A v \in Processes :
       studioPc[v] \in {"mkstemp", "write", "replace", "unlink"} => cs[req[v]] = "before"
  /\ \A v \in others :
       studioPc[v] \in {"parse", "read"} /\ cs[req[v]] = "alone" => rule[v] # i
  /\ \A r \in Requests : r > reqs => cs[r] = "before"
  /\ \A r \in Requests : cs[r] = "alone" => course[r] = "alone"

LEMMA CrossingKeeps ==
  ASSUME StudioInv
  PROVE  \A others \in SUBSET Processes : \A i, cs :
           Crosses(cs, others, i) => Keeps(cs, others, i)
  <1> SUFFICES ASSUME NEW others \in SUBSET Processes, NEW i, NEW cs, Crosses(cs, others, i)
               PROVE  Keeps(cs, others, i)
    OBVIOUS
  <1> USE DEF StudioInv, Requests
  <1>0. MaxRequests \in Nat
    BY DEF StudioConstants
  <1>1. \A v \in Processes : studioPc[v] # "idle" => req[v] \in Requests /\ req[v] <= reqs
    BY <1>0 DEF AtWork, StudioTypeOK
  <1>2. \A v \in Processes :
          studioPc[v] \in {"mkstemp", "write", "replace", "unlink"} => cs[req[v]] = "before"
    BY <1>1 DEF Crosses, AtWork, OneWorkerEach
  <1>3. \A v \in others :
          studioPc[v] \in {"parse", "read"} /\ cs[req[v]] = "alone" => rule[v] # i
    BY <1>1 DEF Crosses
  <1>4. \A r \in Requests : r > reqs => cs[r] = "before"
    <2> SUFFICES ASSUME NEW r \in Requests, r > reqs PROVE cs[r] = "before"
      OBVIOUS
    <2>1. \A v \in Processes : studioPc[v] \in {"parse", "read"} => req[v] # r
      BY <1>0, <1>1 DEF AtWork, StudioTypeOK
    <2> QED
      BY <2>1 DEF Crosses, Unasked
  <1> QED
    BY <1>2, <1>3, <1>4 DEF Crosses, Keeps

LEMMA StudioStep ==
  ASSUME StudioInv, [StudioNext]_studioVars
  PROVE  StudioInv'
  <1> USE DEF StudioInv, Requests, NoRequest
  <1>0. MaxRequests \in Nat /\ MaxFileFaults \in Nat
    BY DEF StudioConstants
  <1>1. ASSUME NEW w \in Processes, NEW i \in Ids, NEW d \in Bodies,
               NEW l \in {"mkstemp", "idle"}, Arrive(w, i, d, l)
        PROVE  StudioInv'
    <2> USE <1>0, <1>1 DEF Arrive, Goto
    <2>1. StudioTypeOK'
      BY DEF StudioTypeOK, Docs
    <2>2. NoTornFiles'
      BY DEF NoTornFiles
    <2>3. AtWork'
      BY DEF AtWork, Unasked, StudioTypeOK
    <2>4. OneWorkerEach'
      BY DEF OneWorkerEach, AtWork, StudioTypeOK
    <2>5. Written'
      BY DEF Written, AtWork, StudioTypeOK
    <2>9. Alone' /\ Unasked'
      BY DEF Alone, Unasked, AtWork, OneWorkerEach, StudioTypeOK
    <2>10. AnswerIsOwn'
      BY DEF AnswerIsOwn, AtWork, Unasked, StudioTypeOK
    <2> QED
      BY <2>1, <2>2, <2>3, <2>4, <2>5, <2>9, <2>10
  <1>2. ASSUME NEW w \in Processes, MakeTemp(w)
        PROVE  StudioInv'
    <2> USE <1>0, <1>2 DEF MakeTemp, Goto
    <2>1. StudioTypeOK'
      BY DEF StudioTypeOK
    <2>2. NoTornFiles' /\ AtWork'
      BY DEF NoTornFiles, AtWork, StudioTypeOK
    <2>4. OneWorkerEach'
      BY DEF OneWorkerEach, AtWork, StudioTypeOK
    <2>5. Written'
      BY DEF Written, AtWork, StudioTypeOK
    <2>9. Alone' /\ Unasked'
      BY DEF Alone, Unasked, AtWork, OneWorkerEach, StudioTypeOK
    <2>10. AnswerIsOwn'
      BY DEF AnswerIsOwn, AtWork, Unasked, StudioTypeOK
    <2> QED
      BY <2>1, <2>2, <2>4, <2>5, <2>9, <2>10
  <1>3. ASSUME NEW w \in Processes, WriteTemp(w)
        PROVE  StudioInv'
    <2> USE <1>0, <1>3 DEF WriteTemp, Goto
    <2>1. StudioTypeOK'
      BY DEF StudioTypeOK, AtWork, Docs
    <2>2. NoTornFiles' /\ AtWork'
      BY DEF NoTornFiles, AtWork, StudioTypeOK
    <2>4. OneWorkerEach'
      BY DEF OneWorkerEach, AtWork, StudioTypeOK
    <2>5. Written'
      BY DEF Written, AtWork, StudioTypeOK
    <2>9. Alone' /\ Unasked'
      BY DEF Alone, Unasked, AtWork, OneWorkerEach, StudioTypeOK
    <2>10. AnswerIsOwn'
      BY DEF AnswerIsOwn, AtWork, Unasked, StudioTypeOK
    <2> QED
      BY <2>1, <2>2, <2>4, <2>5, <2>9, <2>10
  <1>4. ASSUME NEW w \in Processes, WriteRaises(w)
        PROVE  StudioInv'
    <2> USE <1>0, <1>4 DEF WriteRaises, Judge, Goto, FileFault
    <2>1. StudioTypeOK'
      BY DEF StudioTypeOK, AtWork
    <2>2. NoTornFiles' /\ AtWork'
      BY DEF NoTornFiles, AtWork, OneWorkerEach, StudioTypeOK
    <2>4. OneWorkerEach'
      BY DEF OneWorkerEach, AtWork, StudioTypeOK
    <2>5. Written'
      BY DEF Written, AtWork, StudioTypeOK
    <2>9. Alone' /\ Unasked'
      BY DEF Alone, Unasked, AtWork, OneWorkerEach, StudioTypeOK
    <2>10. AnswerIsOwn'
      BY DEF AnswerIsOwn, AtWork, Unasked, StudioTypeOK
    <2> QED
      BY <2>1, <2>2, <2>4, <2>5, <2>9, <2>10
  <1>5. ASSUME NEW w \in Processes, Replace(w)
        PROVE  StudioInv'
    <2> USE <1>0, <1>5 DEF Replace, Goto
    <2>0. PICK cs : cs = Crossing(Processes \ {w}, rule[w])
      OBVIOUS
    <2>a. /\ req[w] \in Requests /\ rule[w] \in Ids
          /\ course' = [cs EXCEPT ![req[w]] = "alone"]
      BY <2>0 DEF AtWork, StudioTypeOK
    <2>b. Keeps(cs, Processes \ {w}, rule[w])
      <3>1. Crosses(cs, Processes \ {w}, rule[w])
        BY <2>0, CrossingCourses
      <3>2. Processes \ {w} \in SUBSET Processes
        OBVIOUS
      <3> QED
        BY <3>1, <3>2, CrossingKeeps
    <2>d. /\ course' \in [Requests -> {"before", "alone", "crossed"}]
          /\ course'[req[w]] = "alone"
          /\ \A r \in Requests : r # req[w] => course'[r] = cs[r]
      BY <2>a, <2>b DEF Keeps
    <2>e. \A v \in Processes \ {w} : studioPc[v] # "idle" => req[v] # req[w] /\ req[v] \in Requests
      BY DEF OneWorkerEach, AtWork, StudioTypeOK
    <2>1. StudioTypeOK'
      BY <2>d DEF StudioTypeOK, AtWork, Dirs
    <2>2. temp[w] = body[req[w]] /\ temp[w] \in Docs /\ temp[w] # Torn
      BY DocumentsAreFiles DEF AtWork, Docs
    <2>3. NoTornFiles'
      BY <2>2 DEF NoTornFiles, StudioTypeOK, Dirs
    <2>c. AtWork'
      <3> SUFFICES ASSUME NEW v \in Processes, v # w, studioPc[v] # "idle",
                          studioPc[v] \in {"mkstemp", "write", "replace", "unlink"}
                   PROVE  course'[req[v]] = "before"
        BY ZenonT(30) DEF AtWork, StudioTypeOK
      <3> QED
        BY <2>b, <2>d, <2>e DEF Keeps
    <2>4. OneWorkerEach'
      BY DEF OneWorkerEach, AtWork, StudioTypeOK
    <2>5. Written'
      BY <2>2 DEF Written, AtWork, OneWorkerEach, StudioTypeOK, Dirs
    <2>9. Alone' /\ Unasked'
      <3>1. Unasked'
        <4>1. ~(req[w] > reqs)
          BY DEF AtWork, StudioTypeOK
        <4> QED
          BY <4>1, <2>b, <2>d DEF Unasked, Keeps
      <3>2. ASSUME NEW v \in Processes, v # w, studioPc[v] \in {"parse", "read"},
                   course'[req[v]] = "alone"
            PROVE  rule[v] # rule[w] /\ course[req[v]] = "alone"
        BY <2>b, <2>d, <2>e, <3>2 DEF Keeps
      <3>3. Alone'
        BY <2>2, <2>a, <3>2, ZenonT(30) DEF Alone, StudioTypeOK, Dirs
      <3> QED
        BY <3>1, <3>3
    <2>10. AnswerIsOwn'
      <3>1. verdict[req[w]] = "open"
        BY DEF AtWork
      <3> QED
        BY <2>b, <2>d, <3>1 DEF AnswerIsOwn, Keeps
    <2> QED
      BY <2>1, <2>3, <2>4, <2>5, <2>c, <2>9, <2>10
  <1>6. ASSUME NEW w \in Processes, Parse(w)
        PROVE  StudioInv'
    <2> USE <1>0, <1>6 DEF Parse, Judge, Goto
    <2>1. StudioTypeOK'
      BY DEF StudioTypeOK, AtWork
    <2>2. NoTornFiles' /\ AtWork'
      BY DEF NoTornFiles, AtWork, OneWorkerEach, StudioTypeOK
    <2>4. OneWorkerEach'
      BY DEF OneWorkerEach, AtWork, StudioTypeOK
    <2>5. studioPc'[w] = "read" => disk["custom"][rule[w]] \in Compiles
      BY DEF ParseVerdict, Compiles, StudioTypeOK, Dirs, NoTornFiles
    <2>6. Written'
      BY <2>5 DEF Written, AtWork, StudioTypeOK
    <2>9. Alone' /\ Unasked'
      BY <2>5 DEF Alone, Unasked, AtWork, OneWorkerEach, StudioTypeOK
    <2>10. AnswerIsOwn'
      <3>1. verdict'[req[w]] = "rejected" /\ course[req[w]] = "alone"
              => Compile(body[req[w]]) # "ok"
        <4>1. body[req[w]] # NoFile
          BY DocumentsAreFiles DEF AtWork, Docs
        <4> QED
          BY <4>1 DEF Alone, ParseVerdict, AtWork, StudioTypeOK
      <3>2. \A r \in Requests : r # req[w] => verdict'[r] = verdict[r]
        BY DEF StudioTypeOK
      <3>a. req[w] \in Requests
        BY DEF AtWork, StudioTypeOK
      <3>3. verdict'[req[w]] \in {"open", "rejected"}
        BY <3>a DEF AtWork, StudioTypeOK
      <3> QED
        BY <3>1, <3>2, <3>3 DEF AnswerIsOwn
    <2> QED
      BY <2>1, <2>2, <2>4, <2>6, <2>9, <2>10
  <1>7. ASSUME NEW w \in Processes, Answer(w)
        PROVE  StudioInv'
    <2> USE <1>0, <1>7 DEF Answer, Judge, Goto
    <2>0. rule[w] \in Ids /\ Detail(rule[w]) \in Docs \cup {NoFile, Torn}
      BY DEF Detail, StudioTypeOK, Dirs
    <2>1. StudioTypeOK'
      <3>1. shown' \in [Requests -> Docs \cup {NoFile, Torn}]
        BY <2>0 DEF StudioTypeOK
      <3> QED
        BY <3>1 DEF StudioTypeOK, AtWork
    <2>2. NoTornFiles' /\ AtWork'
      BY DEF NoTornFiles, AtWork, OneWorkerEach, StudioTypeOK
    <2>4. OneWorkerEach'
      BY DEF OneWorkerEach, AtWork, StudioTypeOK
    <2>5. Written'
      BY DEF Written, AtWork, StudioTypeOK
    <2>9. Alone' /\ Unasked'
      BY DEF Alone, Unasked, AtWork, OneWorkerEach, StudioTypeOK
    <2>10. AnswerIsOwn'
      <3>1. course[req[w]] = "alone" => Detail(rule[w]) = body[req[w]]
        BY DocumentsAreFiles DEF Alone, AtWork, Docs, Detail, Exists
      <3>2. course[req[w]] = "alone" => Compile(body[req[w]]) = "ok"
        BY DEF Alone, Compiles
      <3>a. req[w] \in Requests
        BY DEF AtWork, StudioTypeOK
      <3>b. body[req[w]] # NoFile
        BY DocumentsAreFiles DEF AtWork, Docs
      <3>3. body[req[w]] # NoFile /\ req[w] \in Requests
        BY <3>a, <3>b
      <3>4. \A r \in Requests : r # req[w] => verdict'[r] = verdict[r] /\ shown'[r] = shown[r]
        BY DEF StudioTypeOK
      <3>5. course[req[w]] = "alone" =>
              /\ verdict'[req[w]] = "accepted" <=> body[req[w]].defects \cap Unshowable = {}
              /\ verdict'[req[w]] = "accepted" => shown'[req[w]] = body[req[w]]
        BY <3>1, <3>3 DEF StudioTypeOK
      <3> QED
        BY <3>2, <3>3, <3>4, <3>5 DEF AnswerIsOwn
    <2> QED
      BY <2>1, <2>2, <2>4, <2>5, <2>9, <2>10
  <1>8. ASSUME NEW w \in Processes, NEW i \in Ids,
               NEW l \in {"unlink", "idle"}, Arrive(w, i, NoFile, l)
        PROVE  StudioInv'
    <2> USE <1>0, <1>8 DEF Arrive, Goto
    <2>1. StudioTypeOK'
      BY DEF StudioTypeOK
    <2>2. NoTornFiles' /\ AtWork'
      BY DEF NoTornFiles, AtWork, Unasked, StudioTypeOK
    <2>4. OneWorkerEach'
      BY DEF OneWorkerEach, AtWork, StudioTypeOK
    <2>5. Written'
      BY DEF Written, AtWork, StudioTypeOK
    <2>9. Alone' /\ Unasked'
      BY DEF Alone, Unasked, AtWork, OneWorkerEach, StudioTypeOK
    <2>10. AnswerIsOwn'
      BY DEF AnswerIsOwn, AtWork, Unasked, StudioTypeOK
    <2> QED
      BY <2>1, <2>2, <2>4, <2>5, <2>9, <2>10
  <1>12. ASSUME NEW w \in Processes, Unlink(w)
         PROVE  StudioInv'
    <2> USE <1>0, <1>12 DEF Unlink, Judge, Goto
    <2>a. req[w] \in Requests /\ rule[w] \in Ids
      BY DEF AtWork, StudioTypeOK
    <2>b. Keeps(course', Processes, rule[w])
      <3>1. Crosses(course', Processes, rule[w])
        BY CrossingCourses
      <3> QED
        BY <3>1, CrossingKeeps
    <2>1. StudioTypeOK'
      BY <2>b DEF Keeps, StudioTypeOK, AtWork, Dirs
    <2>2. NoTornFiles'
      BY DocumentsAreFiles DEF NoTornFiles, StudioTypeOK, Dirs
    <2>3. AtWork'
      BY <2>b DEF Keeps, AtWork, OneWorkerEach, StudioTypeOK
    <2>4. OneWorkerEach'
      BY DEF OneWorkerEach, AtWork, StudioTypeOK
    <2>5. Written'
      BY DEF Written, AtWork, StudioTypeOK, Dirs
    <2>9. Alone' /\ Unasked'
      <3>1. ASSUME NEW v \in Processes, studioPc[v] \in {"parse", "read"}
            PROVE  req[v] \in Requests
        BY <3>1 DEF AtWork, StudioTypeOK
      <3>2. ASSUME NEW v \in Processes, studioPc[v] \in {"parse", "read"},
                   course'[req[v]] = "alone"
            PROVE  rule[v] # rule[w] /\ course[req[v]] = "alone"
        BY <2>b, <3>1, <3>2 DEF Keeps
      <3>3. Alone'
        BY <2>a, <3>2 DEF Alone, StudioTypeOK, Dirs
      <3> QED
        BY <2>b, <3>3 DEF Keeps, Unasked
    <2>10. AnswerIsOwn'
      <3>1. course'[req[w]] # "alone"
        BY <2>a, <2>b DEF Keeps, AtWork
      <3> QED
        BY <2>b, <3>1 DEF Keeps, AnswerIsOwn, AtWork, StudioTypeOK
    <2> QED
      BY <2>1, <2>2, <2>3, <2>4, <2>5, <2>9, <2>10
  <1>13. ASSUME NEW w \in Processes, UnlinkRaises(w)
         PROVE  StudioInv'
    <2> USE <1>0, <1>13 DEF UnlinkRaises, Judge, Goto, FileFault
    <2>1. StudioTypeOK'
      BY DEF StudioTypeOK, AtWork
    <2>2. NoTornFiles' /\ AtWork'
      BY DEF NoTornFiles, AtWork, OneWorkerEach, StudioTypeOK
    <2>4. OneWorkerEach'
      BY DEF OneWorkerEach, AtWork, StudioTypeOK
    <2>5. Written'
      BY DEF Written, AtWork, StudioTypeOK
    <2>9. Alone' /\ Unasked'
      BY DEF Alone, Unasked, AtWork, OneWorkerEach, StudioTypeOK
    <2>10. AnswerIsOwn'
      BY DEF AnswerIsOwn, AtWork, Unasked, StudioTypeOK
    <2> QED
      BY <2>1, <2>2, <2>4, <2>5, <2>9, <2>10
  <1>9. ASSUME NEW w \in Processes, Kill(w)
        PROVE  StudioInv'
    <2> USE <1>0, <1>9 DEF Kill, Judge, Goto, FileFault
    <2>1. StudioTypeOK'
      BY DEF StudioTypeOK, AtWork
    <2>2. NoTornFiles' /\ AtWork'
      BY DEF NoTornFiles, AtWork, OneWorkerEach, StudioTypeOK
    <2>4. OneWorkerEach'
      BY DEF OneWorkerEach, AtWork, StudioTypeOK
    <2>5. Written'
      BY DEF Written, AtWork, StudioTypeOK
    <2>9. Alone' /\ Unasked'
      BY DEF Alone, Unasked, AtWork, OneWorkerEach, StudioTypeOK
    <2>10. AnswerIsOwn'
      BY DEF AnswerIsOwn, AtWork, Unasked, StudioTypeOK
    <2> QED
      BY <2>1, <2>2, <2>4, <2>5, <2>9, <2>10
  <1>10. ASSUME Edit
         PROVE  StudioInv'
    <2> USE <1>0, <1>10 DEF Edit, FileFault
    <2>0. PICK dir \in Dirs, i \in Ids, d \in HandWritten \cup {NoFile} :
            /\ disk' = [disk EXCEPT ![dir][i] = d]
            /\ writer' = IF dir = "custom" THEN [writer EXCEPT ![i] = NoRequest] ELSE writer
            /\ course' = IF dir = "custom" THEN Crossing(Processes, i) ELSE course
      OBVIOUS
    <2>b. Keeps(course', IF dir = "custom" THEN Processes ELSE {}, i)
      <3>0. {} \in SUBSET Processes /\ Processes \in SUBSET Processes
        OBVIOUS
      <3>1. CASE dir = "custom"
        <4>1. Crosses(course', Processes, i)
          BY <2>0, <3>1, CrossingCourses
        <4> QED
          BY <4>1, <3>0, <3>1, CrossingKeeps
      <3>2. CASE dir # "custom"
        <4>1. Crosses(course', {}, i)
          BY <2>0, <3>2 DEF StudioTypeOK, Crosses
        <4> QED
          BY <4>1, <3>0, <3>2, CrossingKeeps
      <3> QED
        BY <3>1, <3>2
    <2>1. StudioTypeOK'
      BY <2>0, <2>b DEF Keeps, Crosses, StudioTypeOK, Dirs, Docs
    <2>2. NoTornFiles'
      BY <2>0, DocumentsAreFiles DEF NoTornFiles, StudioTypeOK, Dirs, Docs
    <2>3. AtWork'
      BY <2>b DEF Keeps, AtWork, OneWorkerEach, StudioTypeOK
    <2>4. OneWorkerEach'
      BY DEF OneWorkerEach
    <2>5. Written'
      BY <2>0 DEF Written, AtWork, StudioTypeOK, Dirs
    <2>9. Alone' /\ Unasked'
      <3>1. ASSUME NEW v \in Processes, studioPc[v] \in {"parse", "read"}
            PROVE  req[v] \in Requests
        BY <3>1 DEF AtWork, StudioTypeOK
      <3>2. ASSUME NEW v \in Processes, studioPc[v] \in {"parse", "read"},
                   course'[req[v]] = "alone"
            PROVE  (dir = "custom" => rule[v] # i) /\ course[req[v]] = "alone"
        BY <2>b, <3>1, <3>2 DEF Keeps
      <3>3. Alone'
        BY <2>0, <3>2 DEF Alone, StudioTypeOK, Dirs
      <3> QED
        BY <2>b, <3>3 DEF Keeps, Unasked
    <2>10. AnswerIsOwn'
      BY <2>b DEF Keeps, AnswerIsOwn
    <2> QED
      BY <2>1, <2>2, <2>3, <2>4, <2>5, <2>9, <2>10
  <1>11. ASSUME UNCHANGED studioVars
         PROVE  StudioInv'
    BY <1>11 DEF studioVars, StudioTypeOK, NoTornFiles, AtWork, OneWorkerEach, Written,
                 Alone, Unasked, AnswerIsOwn
  <1> QED
    BY <1>1, <1>2, <1>3, <1>4, <1>5, <1>6, <1>7, <1>8, <1>9, <1>10, <1>11, <1>12, <1>13
    DEF StudioNext, Create, Update, Delete

\* A loop that ends at the first answer it does not pass over gives that answer.
LEMMA FirstAnswers ==
  ASSUME NEW D, D \subseteq Nat, NEW a, DOMAIN a = D, NEW passed
  PROVE  \/ First(a, passed) = passed /\ \A i \in D : a[i] = passed
         \/ \E i \in D : First(a, passed) = a[i] /\ a[i] # passed
  <1> DEFINE ends == {i \in D : a[i] # passed}
             first == CHOOSE i \in ends : \A j \in ends : i <= j
  <1>1. CASE ends = {}
    BY <1>1 DEF First
  <1>2. CASE ends # {}
    <2>1. ends \subseteq Nat
      OBVIOUS
    <2>2. \E i \in ends : \A j \in ends : i <= j
      <3> HIDE DEF ends
      <3> QED
        BY <1>2, <2>1, LeastNatural
    <2>3. first \in ends
      <3> HIDE DEF ends
      <3> QED
        BY <2>2
    <2>4. First(a, passed) = a[first]
      BY <1>2 DEF First
    <2>5. first \in D /\ a[first] # passed
      BY <2>3
    <2> HIDE DEF first
    <2> QED
      BY <2>4, <2>5
  <1> QED
    BY <1>1, <1>2

\* A block answers "yes" exactly where the event has and meets all of its keys,
\* and raises only with a key that can.
LEMMA SelectionAnswers ==
  ASSUME NEW e, NEW b, DOMAIN b \subseteq Nat
  PROVE  /\ MatchSelection(e, b) \in {"yes", "no", "raises"}
         /\ MatchSelection(e, b) = "yes" <=>
              \A i \in DOMAIN b : HasKey(e, b[i].key) /\ Meets(e, b[i])
         /\ MatchSelection(e, b) = "raises" => \E i \in DOMAIN b : b[i].kind \in Raising
  <1> DEFINE a == [i \in DOMAIN b |-> KeyAnswer(e, b[i])]
  <1>1. MatchSelection(e, b) = First(a, "yes")
    BY DEF MatchSelection
  <1>2. ASSUME NEW c
        PROVE  /\ KeyAnswer(e, c) \in {"yes", "no", "raises"}
               /\ KeyAnswer(e, c) = "raises" => c.kind \in Raising
               /\ KeyAnswer(e, c) = "yes" => HasKey(e, c.key) /\ Meets(e, c)
               /\ HasKey(e, c.key) /\ Meets(e, c) /\ c.kind \notin Raising
                    => KeyAnswer(e, c) = "yes"
    BY DEF KeyAnswer
  <1>3. ASSUME NEW c, c.kind \in Raising
        PROVE  ~Meets(e, c)
    BY <1>3 DEF Meets, Raising
  <1>4. DOMAIN a = DOMAIN b /\ \A i \in DOMAIN b : a[i] = KeyAnswer(e, b[i])
    OBVIOUS
  <1>5. \/ First(a, "yes") = "yes" /\ \A i \in DOMAIN b : a[i] = "yes"
        \/ \E i \in DOMAIN b : First(a, "yes") = a[i] /\ a[i] # "yes"
    <2> HIDE DEF a
    <2> QED
      BY <1>4, FirstAnswers
  <1> HIDE DEF a
  <1>6. CASE First(a, "yes") = "yes" /\ \A i \in DOMAIN b : a[i] = "yes"
    BY <1>1, <1>2, <1>4, <1>6
  <1>7. CASE \E i \in DOMAIN b : First(a, "yes") = a[i] /\ a[i] # "yes"
    <2>1. PICK i \in DOMAIN b : First(a, "yes") = a[i] /\ a[i] # "yes"
      BY <1>7
    <2>2. PICK c : c = b[i]
      OBVIOUS
    <2>3. ~(HasKey(e, c.key) /\ Meets(e, c))
      BY <2>1, <2>2, <1>2, <1>3, <1>4
    <2>4. MatchSelection(e, b) = KeyAnswer(e, c) /\ KeyAnswer(e, c) # "yes"
      BY <1>1, <1>4, <2>1, <2>2
    <2> QED
      BY <2>2, <2>3, <2>4, <1>2
  <1> QED
    BY <1>5, <1>6, <1>7

\* The first alternative that matches or raises decides what any() answers.
LEMMA AnyOfAnswers ==
  ASSUME NEW d, NEW e, d.ors \in Seq(STRING),
         \A i \in DOMAIN d.ors : DOMAIN d.blocks[d.ors[i]] \subseteq Nat
  PROVE  /\ AnyOf(d, e) \in {"yes", "no", "raises"}
         /\ AnyOf(d, e) # "raises" =>
              (AnyOf(d, e) = "yes" <=>
                 \E i \in DOMAIN d.ors : MatchSelection(e, d.blocks[d.ors[i]]) = "yes")
         /\ AnyOf(d, e) = "raises" =>
              \E i \in DOMAIN d.ors : MatchSelection(e, d.blocks[d.ors[i]]) = "raises"
  <1> DEFINE a == [i \in DOMAIN d.ors |-> MatchSelection(e, d.blocks[d.ors[i]])]
  <1>1. AnyOf(d, e) = First(a, "no")
    BY DEF AnyOf
  <1>2. DOMAIN a = DOMAIN d.ors /\ DOMAIN d.ors \subseteq Nat
        /\ \A i \in DOMAIN d.ors : a[i] = MatchSelection(e, d.blocks[d.ors[i]])
    OBVIOUS
  <1>3. ASSUME NEW i \in DOMAIN d.ors PROVE a[i] \in {"yes", "no", "raises"}
    BY <1>2, SelectionAnswers
  <1> HIDE DEF a
  <1>4. \/ First(a, "no") = "no" /\ \A i \in DOMAIN d.ors : a[i] = "no"
        \/ \E i \in DOMAIN d.ors : First(a, "no") = a[i] /\ a[i] # "no"
    BY <1>2, FirstAnswers
  <1>5. CASE First(a, "no") = "no" /\ \A i \in DOMAIN d.ors : a[i] = "no"
    BY <1>1, <1>2, <1>5
  <1>6. CASE \E i \in DOMAIN d.ors : First(a, "no") = a[i] /\ a[i] # "no"
    BY <1>1, <1>2, <1>3, <1>6
  <1> QED
    BY <1>4, <1>5, <1>6

\* matches() decides the formula its condition stands for, and raises only where
\* a named block can.
LEMMA MatchesDecides ==
  ASSUME NEW d, NEW e, IsDocument(d)
  PROVE  /\ Matches(d, e) # "raises" => (Matches(d, e) = "yes" <=> Reference(d, e))
         /\ Matches(d, e) = "raises" => MayRaise(d)
  <1> DEFINE Said(n) == MatchSelection(e, d.blocks[n])
             Yes(n) == Said(n) = "yes"
             Unmet == \/ \E k \in d.required : k \notin DOMAIN e.metadata
                      \/ ~d.known
                      \/ \E n \in Names(d) : n \notin DOMAIN d.blocks
  <1>0. /\ d.known \in BOOLEAN /\ d.ors \in Seq(STRING) /\ d.nots \in Seq(STRING)
        /\ "selection" \in DOMAIN d.blocks
        /\ \A n \in DOMAIN d.blocks : DOMAIN d.blocks[n] \subseteq Nat
    BY DEF IsDocument
  <1>2. CASE Unmet
    <2>1. Matches(d, e) = "no"
      BY <1>2 DEF Matches
    <2>2. ~Reference(d, e)
      BY <1>2 DEF Reference
    <2> QED
      BY <2>1, <2>2
  <1>3. CASE ~Unmet
    <2>0. /\ \A n \in Names(d) \cup {"selection"} : n \in DOMAIN d.blocks
          /\ \A i \in DOMAIN d.ors : d.ors[i] \in Names(d)
          /\ d.nots # <<>> => d.nots[1] \in Names(d)
      BY <1>0, <1>3 DEF Names
    <2>1. ASSUME NEW n \in DOMAIN d.blocks
          PROVE  /\ Said(n) \in {"yes", "no", "raises"}
                 /\ Yes(n) <=> \A i \in DOMAIN d.blocks[n] :
                      HasKey(e, d.blocks[n][i].key) /\ Meets(e, d.blocks[n][i])
                 /\ Said(n) = "raises" =>
                      \E i \in DOMAIN d.blocks[n] : d.blocks[n][i].kind \in Raising
      BY <1>0, SelectionAnswers
    <2>2. ASSUME NEW n \in Names(d) \cup {"selection"}, Said(n) = "raises"
          PROVE  MayRaise(d)
      BY <2>0, <2>1, <2>2 DEF MayRaise
    <2>3. Reference(d, e) <=>
            /\ Yes("selection")
            /\ (d.ors # <<>> => \E i \in DOMAIN d.ors : Yes(d.ors[i]))
            /\ (d.nots # <<>> => ~Yes(d.nots[1]))
      <3> HIDE DEF Yes
      <3> QED
        BY <1>3, <2>0, <2>1 DEF Reference
    <2> DEFINE sel == Said("selection")
               neg == IF d.nots = <<>> THEN "no" ELSE Said(d.nots[1])
               alt == IF d.ors = <<>> THEN "yes" ELSE AnyOf(d, e)
    <2>4. Matches(d, e) =
            CASE sel # "yes" -> sel
              [] sel = "yes" /\ neg = "raises" -> "raises"
              [] sel = "yes" /\ neg = "yes" -> "no"
              [] OTHER -> alt
      BY <1>3 DEF Matches
    <2>5. /\ sel \in {"yes", "no", "raises"} /\ neg \in {"yes", "no", "raises"}
          /\ sel = "raises" => MayRaise(d)
          /\ neg = "raises" => MayRaise(d)
      BY <2>0, <2>1, <2>2
    <2>6. /\ alt = "raises" => MayRaise(d)
          /\ alt # "raises" /\ d.ors # <<>> =>
               (alt = "yes" <=> \E i \in DOMAIN d.ors : Yes(d.ors[i]))
      <3>1. \A i \in DOMAIN d.ors : DOMAIN d.blocks[d.ors[i]] \subseteq Nat
        BY <1>0, <2>0
      <3> QED
        BY <1>0, <2>0, <2>2, <3>1, AnyOfAnswers
    <2>7. CASE sel # "yes"
      BY <2>3, <2>4, <2>5, <2>7
    <2>8. CASE sel = "yes" /\ neg # "no"
      BY <2>3, <2>4, <2>5, <2>8
    <2>9. CASE sel = "yes" /\ neg = "no"
      <3>1. Matches(d, e) = alt
        <4> HIDE DEF sel, neg, alt
        <4> QED
          BY <2>4, <2>9
      <3>2. d.nots # <<>> => ~Yes(d.nots[1])
        BY <2>9
      <3> QED
        BY <3>1, <3>2, <2>3, <2>6, <2>9
    <2> QED
      BY <2>5, <2>7, <2>8, <2>9
  <1> QED
    BY <1>2, <1>3

\* The studio keeps its invariant, whatever its workers, an operator or a kill
\* interleave.
THEOREM StudioTypes ==
  StudioSpec => []StudioTypeOK
  <1>1. StudioInit => StudioInv
    BY StudioStart
  <1>2. StudioInv /\ [StudioNext]_studioVars => StudioInv'
    BY StudioStep
  <1>3. StudioInv => StudioTypeOK
    BY DEF StudioInv
  <1> QED
    BY <1>1, <1>2, <1>3, PTL DEF StudioSpec

\* _atomic_write_text: whatever fails or is killed, no walk of the rule
\* directories picks up a half-written file.
THEOREM StudioFilesAreWhole ==
  StudioSpec => []WholeFiles
  <1>1. StudioInit => StudioInv
    BY StudioStart
  <1>2. StudioInv /\ [StudioNext]_studioVars => StudioInv'
    BY StudioStep
  <1>3. StudioInv => WholeFiles
    BY DEF StudioInv, NoTornFiles, WholeFiles, Walked, Files
  <1> QED
    BY <1>1, <1>2, <1>3, PTL DEF StudioSpec

\* create_rule and update_rule: what was accepted is on disk as submitted, and
\* compiles, for any number of workers and rule ids.
THEOREM StudioAcceptsWhatCompiles ==
  StudioSpec => []AcceptedCompiles
  <1>1. StudioInit => StudioInv
    BY StudioStart
  <1>2. StudioInv /\ [StudioNext]_studioVars => StudioInv'
    BY StudioStep
  <1>3. StudioInv => AcceptedCompiles
    BY DEF StudioInv, Written, Compiles, AcceptedCompiles, NoRequest
  <1> QED
    BY <1>1, <1>2, <1>3, PTL DEF StudioSpec

\* CompiledSigmaRule.matches answers as the formula of ADR-010, for every
\* document a walk can load and every event.
THEOREM StudioMatchesReference ==
  StudioSpec => []MatchIsReference
  <1>1. StudioInit => StudioInv
    BY StudioStart
  <1>2. StudioInv /\ [StudioNext]_studioVars => StudioInv'
    BY StudioStep
  <1>3. StudioInv => MatchIsReference
    <2> SUFFICES ASSUME StudioInv, NEW f \in Walked(Dirs), NEW e \in SampleEvents
                 PROVE  /\ Matches(f.doc, e) # "raises" =>
                             (Matches(f.doc, e) = "yes" <=> Reference(f.doc, e))
                        /\ Matches(f.doc, e) = "raises" => MayRaise(f.doc)
      BY DEF MatchIsReference, Loaded
    <2>1. f.doc \in Docs
      BY DEF StudioInv, NoTornFiles, Walked, Files
    <2>2. IsDocument(f.doc)
      BY <2>1 DEF StudioConstants
    <2> QED
      BY <2>2, MatchesDecides
  <1> QED
    BY <1>1, <1>2, <1>3, PTL DEF StudioSpec

\* create_rule and update_rule answer for the document they were given: unless
\* its file changes once more before the answer, it is accepted exactly when it
\* compiles and can be shown, and is what the answer shows.
THEOREM StudioAnswersItsOwn ==
  StudioSpec => []AnswerIsOwn
  <1>1. StudioInit => StudioInv
    BY StudioStart
  <1>2. StudioInv /\ [StudioNext]_studioVars => StudioInv'
    BY StudioStep
  <1>3. StudioInv => AnswerIsOwn
    BY DEF StudioInv
  <1> QED
    BY <1>1, <1>2, <1>3, PTL DEF StudioSpec
=============================================================================
