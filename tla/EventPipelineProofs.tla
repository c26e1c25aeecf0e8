------------------------ MODULE EventPipelineProofs ------------------------
(***************************************************************************)
(* Proofs about EventPipeline, for any number of events, connections,      *)
(* detectors and faults, and any lengths of the stream and of a batch;     *)
(* then, of the endpoints that put batches into the same stream over HTTP, *)
(* the properties of BatchIngest, which shares no variable with            *)
(* EventPipeline.                                                          *)
(***************************************************************************)
EXTENDS EventPipeline, BatchIngest, SequenceTheorems, FiniteSetTheorems, TLAPS

\* The event a handler publishes, when it does; a connection has a handler
\* only once it was dialled.
Publishing ==
  \A c \in Conns : /\ handler[c] = "publishing" <=> current[c] # NoEvent
                   /\ c > dials => handler[c] = "none"

\* Only stored events get beyond persist_event.
OnlyStored ==
  /\ \A c \in Conns : current[c] # NoEvent => current[c] \in stored
  /\ Elements(backlog) \cup pel \cup acked \cup gone \subseteq stored

\* Of a stored event there is one copy: being published, in the stream, in the
\* hands of a consumer, or acknowledged.
NoRepeat(s) == \A i, j \in 1..Len(s) : s[i] = s[j] => i = j

OneCopy ==
  /\ \A c, d \in Conns : current[c] = current[d] /\ current[c] # NoEvent => c = d
  /\ NoRepeat(backlog)
  /\ \A e \in Elements(backlog) : e \notin pel /\ e \notin acked /\ e \notin gone
  /\ \A c \in Conns : /\ current[c] \notin Elements(backlog)
                      /\ current[c] \notin pel /\ current[c] \notin acked /\ current[c] \notin gone
  /\ pel \cap acked = {}

NoneForgotten ==
  stored \subseteq {current[c] : c \in Conns} \cup Elements(backlog) \cup pel \cup acked \cup gone

\* The runner's batch: distinct entries, pending until acknowledged; only the
\* entry whose Sigma pass is due has been.
BatchPending ==
  /\ stage # "load" => batch # <<>>
  /\ NoRepeat(batch)
  /\ stage = "sigma" => batch[1] \in acked
  /\ \A i \in 1..Len(batch) : i # 1 \/ stage # "sigma" => batch[i] \in pel

\* An alert is of an entry that the runner has at hand or had before, and of a
\* detector it has come to.
AlertsBehind ==
  \A e \in Events, d \in Detectors : alerts[<<e, d>>] # 0 =>
    /\ e \in pel \cup acked
    /\ e \in Elements(batch) => /\ e = batch[1] /\ stage # "load"
                                /\ stage = "detect" => d < at
                                /\ stage = "act" => d <= at

\* What has become of the results of the entry at hand.
Settled(e, d) ==
  <<e, d>> \in Fires /\ <<e, d>> \notin skipped =>
    alerts[<<e, d>>] # 0 /\ (<<e, d>> \in Acts => <<e, d>> \in actions)

HeadSettled ==
  /\ stage \in {"detect", "act"} => \A d \in 1..(at - 1) : Settled(batch[1], d)
  /\ stage = "act" => at <= NumDetectors /\ alerts[<<batch[1], at>>] # 0

AckedSettled == \A e \in acked, d \in Detectors : Settled(e, d)

AtMostOne ==
  \A e \in Events, d \in Detectors :
    alerts[<<e, d>>] <= 1 /\ (<<e, d>> \in actions => alerts[<<e, d>>] = 1)

StorageInv == OnlyStored /\ OneCopy /\ NoneForgotten

RunnerInv == BatchPending /\ AlertsBehind /\ HeadSettled /\ AckedSettled /\ AtMostOne

IInv == TypeOK /\ Publishing /\ StorageInv /\ RunnerInv

LEMMA Constants ==
  /\ MaxEvent \in Nat /\ MaxDial \in Nat /\ NumDetectors \in Nat /\ MaxFaults \in Nat
  /\ StreamMax \in Nat \ {0} /\ BatchMax \in Nat \ {0}
  BY PipelineAssumption

LEMMA InitInv == Init => IInv
  <1> SUFFICES ASSUME Init PROVE IInv
    OBVIOUS
  <1> USE DEF Init
  <1>1. TypeOK
    <2>1. /\ up \in [Conns -> BOOLEAN] /\ wire \in [Conns -> Seq(Events \cup {Hello})]
          /\ firstFrame \in [Conns -> {"none", "hello", "event"}]
      OBVIOUS
    <2>2. /\ handler \in [Conns -> {"none", "await", "serving", "publishing"}]
          /\ current \in [Conns -> Events \cup {NoEvent}]
      OBVIOUS
    <2>3. alerts \in [Results -> Nat]
      OBVIOUS
    <2>4. at \in 1..(NumDetectors + 1) /\ sent \in 0..MaxEvent /\ dials \in 0..MaxDial /\ faults \in Nat
      BY Constants
    <2>5. greeted \in BOOLEAN /\ running \in BOOLEAN /\ agentConn \in Conns \cup {NoConn}
      OBVIOUS
    <2>6. /\ backlog \in Seq(Events) /\ batch \in Seq(Events)
          /\ stage \in {"load", "detect", "act", "sigma"}
      OBVIOUS
    <2>7. /\ stored \subseteq Events /\ pel \subseteq Events /\ acked \subseteq Events
          /\ actions \subseteq Results /\ sigmaAlerts \subseteq Events
          /\ gone \subseteq Events /\ skipped \subseteq Results
      OBVIOUS
    <2> QED
      BY <2>1, <2>2, <2>3, <2>4, <2>5, <2>6, <2>7 DEF TypeOK
  <1>2. Publishing /\ OnlyStored /\ OneCopy /\ NoneForgotten
    BY DEF Publishing, OnlyStored, OneCopy, NoneForgotten, NoRepeat, Elements
  <1>3. BatchPending
    BY DEF BatchPending, NoRepeat
  <1>4. \A e \in Events, d \in Detectors : alerts[<<e, d>>] = 0
    BY DEF Results
  <1>5. AlertsBehind /\ HeadSettled /\ AckedSettled /\ AtMostOne
    BY <1>4 DEF AlertsBehind, HeadSettled, AckedSettled, AtMostOne
  <1> QED
    BY <1>1, <1>2, <1>3, <1>5 DEF IInv, StorageInv, RunnerInv
--------------------------------------------------------------------------
(* Sequences.                                                              *)

LEMMA AppendElements ==
  ASSUME NEW S, NEW s \in Seq(S), NEW x \in S
  PROVE  /\ Append(s, x) \in Seq(S)
         /\ Elements(Append(s, x)) = Elements(s) \cup {x}
         /\ NoRepeat(s) /\ x \notin Elements(s) => NoRepeat(Append(s, x))
  <1>1. /\ Append(s, x) \in Seq(S) /\ Len(Append(s, x)) = Len(s) + 1 /\ Len(s) \in Nat
        /\ \A i \in 1..Len(s) : Append(s, x)[i] = s[i]
        /\ Append(s, x)[Len(s) + 1] = x
    OBVIOUS
  <1>2. 1..(Len(s) + 1) = 1..Len(s) \cup {Len(s) + 1}
    BY <1>1
  <1>3. Elements(Append(s, x)) = Elements(s) \cup {x}
    BY <1>1, <1>2 DEF Elements
  <1>4. ASSUME NoRepeat(s), x \notin Elements(s) PROVE NoRepeat(Append(s, x))
    BY <1>1, <1>2, <1>4 DEF NoRepeat, Elements
  <1> QED
    BY <1>1, <1>3, <1>4

\* The sequence s cut in two at position k.
Parts(s, k, a, b) == a = SubSeq(s, 1, k) /\ b = SubSeq(s, k + 1, Len(s))

LEMMA Cut ==
  ASSUME NEW S, NEW s \in Seq(S), NEW k \in 0..Len(s), NEW a, NEW b, Parts(s, k, a, b)
  PROVE  /\ a \in Seq(S) /\ b \in Seq(S)
         /\ Len(a) = k /\ Len(b) = Len(s) - k
         /\ Elements(a) = {s[i] : i \in 1..k}
         /\ Elements(s) = Elements(a) \cup Elements(b)
         /\ NoRepeat(s) => NoRepeat(a) /\ NoRepeat(b) /\ Elements(a) \cap Elements(b) = {}
  <1>1. /\ Len(s) \in Nat /\ k \in Nat
        /\ \A i \in 1..Len(s) : s[i] \in S
    OBVIOUS
  <1>2. /\ a \in Seq(S) /\ Len(a) = k
        /\ \A i \in 1..k : a[i] = s[i]
    BY <1>1, SubSeqProperties DEF Parts
  <1>3. /\ b \in Seq(S) /\ Len(b) = Len(s) - k
        /\ \A i \in 1..(Len(s) - k) : b[i] = s[k + i]
    BY <1>1, SubSeqProperties DEF Parts
  <1>4. Elements(a) = {s[i] : i \in 1..k}
    BY <1>2 DEF Elements
  <1>5. Elements(b) = {s[i] : i \in (k + 1)..Len(s)}
    <2>1. ASSUME NEW i \in (k + 1)..Len(s) PROVE \E j \in 1..Len(b) : b[j] = s[i]
      <3>1. i - k \in 1..(Len(s) - k) /\ k + (i - k) = i
        BY <1>1
      <3> QED
        BY <1>3, <3>1
    <2>2. ASSUME NEW j \in 1..Len(b) PROVE \E i \in (k + 1)..Len(s) : b[j] = s[i]
      BY <1>1, <1>3
    <2>3. ASSUME NEW x PROVE x \in Elements(b) <=> x \in {s[i] : i \in (k + 1)..Len(s)}
      <3>1. x \in Elements(b) <=> \E j \in 1..Len(b) : x = b[j]
        BY DEF Elements
      <3> QED
        BY <2>1, <2>2, <3>1
    <2> QED
      BY <2>3
  <1>6. Elements(s) = Elements(a) \cup Elements(b)
    <2>1. 1..Len(s) = 1..k \cup (k + 1)..Len(s)
      BY <1>1
    <2>2. Elements(s) = {s[i] : i \in 1..k} \cup {s[i] : i \in (k + 1)..Len(s)}
      BY <2>1 DEF Elements
    <2> QED
      BY <1>4, <1>5, <2>2
  <1>7. ASSUME NoRepeat(s) PROVE NoRepeat(a) /\ NoRepeat(b) /\ Elements(a) \cap Elements(b) = {}
    <2>1. NoRepeat(a)
      BY <1>1, <1>2, <1>7 DEF NoRepeat
    <2>2. NoRepeat(b)
      <3> SUFFICES ASSUME NEW i \in 1..Len(b), NEW j \in 1..Len(b), b[i] = b[j] PROVE i = j
        BY DEF NoRepeat
      <3>1. s[k + i] = s[k + j] /\ k + i \in 1..Len(s) /\ k + j \in 1..Len(s)
        BY <1>1, <1>3
      <3> QED
        BY <1>1, <1>3, <1>7, <3>1 DEF NoRepeat
    <2>3. Elements(a) \cap Elements(b) = {}
      BY <1>1, <1>4, <1>5, <1>7 DEF NoRepeat
    <2> QED
      BY <2>1, <2>2, <2>3
  <1> QED
    BY <1>2, <1>3, <1>4, <1>6, <1>7

\* Taking the first element off.
LEMMA TailElements ==
  ASSUME NEW S, NEW s \in Seq(S), s # <<>>
  PROVE  /\ Tail(s) \in Seq(S) /\ Head(s) = s[1] /\ s[1] \in S
         /\ s[1] \in Elements(s)
         /\ Len(Tail(s)) = Len(s) - 1
         /\ \A i \in 1..Len(Tail(s)) : Tail(s)[i] = s[i + 1] /\ i + 1 \in 1..Len(s)
         /\ Elements(Tail(s)) \subseteq Elements(s)
         /\ NoRepeat(s) => NoRepeat(Tail(s)) /\ s[1] \notin Elements(Tail(s))
  <1>1. /\ Tail(s) \in Seq(S) /\ Head(s) = s[1] /\ s[1] \in S /\ Len(s) \in Nat /\ Len(s) >= 1
        /\ Len(Tail(s)) = Len(s) - 1
        /\ \A i \in 1..Len(Tail(s)) : Tail(s)[i] = s[i + 1] /\ i + 1 \in 1..Len(s)
    OBVIOUS
  <1>2. s[1] \in Elements(s) /\ Elements(Tail(s)) \subseteq Elements(s)
    BY <1>1 DEF Elements
  <1>3. ASSUME NoRepeat(s) PROVE NoRepeat(Tail(s)) /\ s[1] \notin Elements(Tail(s))
    BY <1>1, <1>3 DEF NoRepeat, Elements
  <1> QED
    BY <1>1, <1>2, <1>3
--------------------------------------------------------------------------
(* Types.                                                                  *)

AgentType ==
  /\ sent \in 0..MaxEvent /\ dials \in 0..MaxDial
  /\ agentConn \in Conns \cup {NoConn}
  /\ greeted \in BOOLEAN
  /\ faults \in Nat

NetType ==
  /\ up \in [Conns -> BOOLEAN]
  /\ wire \in [Conns -> Seq(Events \cup {Hello})]
  /\ firstFrame \in [Conns -> {"none", "hello", "event"}]

ServerType ==
  /\ handler \in [Conns -> {"none", "await", "serving", "publishing"}]
  /\ current \in [Conns -> Events \cup {NoEvent}]
  /\ running \in BOOLEAN
  /\ stored \subseteq Events

RunnerType ==
  /\ backlog \in Seq(Events) /\ batch \in Seq(Events)
  /\ pel \subseteq Events /\ acked \subseteq Events /\ gone \subseteq Events
  /\ stage \in {"load", "detect", "act", "sigma"}
  /\ at \in 1..(NumDetectors + 1)

TableType ==
  /\ alerts \in [Results -> Nat]
  /\ actions \subseteq Results /\ skipped \subseteq Results
  /\ sigmaAlerts \subseteq Events

LEMMA TypeParts ==
  /\ TypeOK <=> AgentType /\ NetType /\ ServerType /\ RunnerType /\ TableType
  /\ TypeOK' <=> AgentType' /\ NetType' /\ ServerType' /\ RunnerType' /\ TableType'
  BY DEF TypeOK, AgentType, NetType, ServerType, RunnerType, TableType

\* A part whose variables do not change keeps its types.
LEMMA TypeFrame ==
  /\ AgentType /\ UNCHANGED <<sent, dials, agentConn, greeted, faults>> => AgentType'
  /\ NetType /\ UNCHANGED <<up, wire, firstFrame>> => NetType'
  /\ ServerType /\ UNCHANGED <<handler, current, running, stored>> => ServerType'
  /\ RunnerType /\ UNCHANGED <<backlog, batch, pel, acked, gone, stage, at>> => RunnerType'
  /\ TableType /\ UNCHANGED <<alerts, actions, skipped, sigmaAlerts>> => TableType'
  BY DEF AgentType, NetType, ServerType, RunnerType, TableType

\* Writing a frame.
LEMMA WriteType ==
  ASSUME NetType, NEW c \in Conns, NEW f \in Events \cup {Hello}, Write(c, f), UNCHANGED up
  PROVE  NetType'
  <1>1. (IF up[c] THEN Append(wire[c], f) ELSE wire[c]) \in Seq(Events \cup {Hello})
    BY DEF NetType
  <1>2. wire' \in [Conns -> Seq(Events \cup {Hello})]
    BY <1>1 DEF NetType, Write
  <1>3. firstFrame' \in [Conns -> {"none", "hello", "event"}]
    BY DEF NetType, Write
  <1> QED
    BY <1>2, <1>3 DEF NetType

\* The steps of the agent and of the network, and what ws_agent does besides
\* storing and publishing an event.
Outside ==
  UNCHANGED <<current, stored, backlog, batch, pel, acked, gone, stage, at,
              alerts, actions, skipped, sigmaAlerts>>

LEMMA AgentSteps ==
  ASSUME TypeOK, Publishing,
         Dial \/ SendHello \/ Send \/ AgentNotices
         \/ (\E e \in Events : Redeliver(e)) \/ (\E c \in Conns : LinkLoss(c))
  PROVE  TypeOK' /\ Publishing' /\ Outside
  <1>0. AgentType /\ NetType /\ ServerType /\ RunnerType /\ TableType
    BY TypeParts
  <1> USE Constants
  <1> USE DEF Outside
  <1>1. CASE Dial
    <2>1. dials + 1 \in Conns
      BY <1>0, <1>1 DEF Dial, AgentType, Conns
    <2>2. AgentType'
      <3>1. dials' \in 0..MaxDial
        BY <1>0, <1>1 DEF Dial, AgentType
      <3> QED
        BY <1>0, <1>1, <2>1, <3>1 DEF Dial, AgentType
    <2>3. NetType'
      BY <1>0, <1>1, <2>1 DEF Dial, NetType
    <2>4. ServerType'
      BY <1>0, <1>1, <2>1 DEF Dial, ServerType
    <2>5. RunnerType' /\ TableType'
      BY <1>0, <1>1, TypeFrame DEF Dial, redis, runner, tables
    <2>6. Publishing'
      <3>1. dials \in Nat /\ dials' = dials + 1 /\ handler[dials + 1] = "none"
        BY <1>0, <1>1, <2>1 DEF Dial, AgentType, Publishing, Conns
      <3> QED
        BY <1>0, <1>1, <2>1, <3>1 DEF Dial, Publishing, ServerType, Conns
    <2> QED
      BY <1>1, <2>2, <2>3, <2>4, <2>5, <2>6, TypeParts DEF Dial, redis, runner, tables
  <1>2. CASE SendHello
    <2>1. AgentType'
      BY <1>0, <1>2 DEF SendHello, AgentType
    <2>2. NetType'
      BY <1>0, <1>2, WriteType DEF SendHello, AgentType
    <2> QED
      BY <1>0, <1>2, <2>1, <2>2, TypeFrame, TypeParts DEF Publishing, SendHello, agent, server, redis, runner, tables
  <1>3. CASE Send
    <2>1. sent + 1 \in Events
      BY <1>0, <1>3 DEF Send, AgentType, Events
    <2>2. AgentType'
      BY <1>0, <1>3, <2>1 DEF Send, AgentType, Events
    <2>3. NetType'
      BY <1>0, <1>3, <2>1, WriteType, TypeFrame DEF Send, AgentType
    <2> QED
      BY <1>0, <1>3, <2>2, <2>3, TypeFrame, TypeParts DEF Publishing, Send, agent, server, redis, runner, tables
  <1>4. CASE AgentNotices
    <2>1. AgentType'
      BY <1>0, <1>4 DEF AgentNotices, AgentType
    <2> QED
      BY <1>0, <1>4, <2>1, TypeFrame, TypeParts DEF Publishing, AgentNotices, agent, net, server, redis, runner, tables
  <1>5. ASSUME NEW e \in Events, Redeliver(e) PROVE TypeOK' /\ Publishing' /\ Outside
    <2>1. AgentType'
      BY <1>0, <1>5 DEF Redeliver, AgentType, agent, Fault
    <2>2. NetType'
      BY <1>0, <1>5, WriteType DEF Redeliver, AgentType
    <2> QED
      BY <1>0, <1>5, <2>1, <2>2, TypeFrame, TypeParts DEF Publishing, Redeliver, agent, server, redis, runner, tables
  <1>6. ASSUME NEW c \in Conns, LinkLoss(c) PROVE TypeOK' /\ Publishing' /\ Outside
    <2>1. AgentType'
      BY <1>0, <1>6 DEF LinkLoss, AgentType, agent, Fault
    <2>2. NetType'
      BY <1>0, <1>6 DEF LinkLoss, NetType
    <2> QED
      BY <1>0, <1>6, <2>1, <2>2, TypeFrame, TypeParts DEF Publishing, LinkLoss, agent, server, redis, runner, tables
  <1> QED
    BY <1>1, <1>2, <1>3, <1>4, <1>5, <1>6

\* persist_event commits a new event.
Stores(c) ==
  /\ handler[c] = "serving"
  /\ current' = [current EXCEPT ![c] = Head(wire[c])]
  /\ Head(wire[c]) \in Events \ stored
  /\ stored' = stored \cup {Head(wire[c])}
  /\ UNCHANGED <<backlog, batch, pel, acked, gone, stage, at, alerts, actions, skipped, sigmaAlerts>>

\* A commit that raised was carried out: the event is stored and lost.
StoresUnpublished ==
  \E e \in Events \ stored :
    /\ stored' = stored \cup {e} /\ gone' = gone \cup {e}
    /\ UNCHANGED <<current, backlog, batch, pel, acked, stage, at, alerts, actions, skipped,
                   sigmaAlerts>>

LEMMA HandlerSteps ==
  ASSUME TypeOK, Publishing, NEW c \in Conns,
         ReadHello(c) \/ HandlerEnds(c) \/ PersistRaises(c) \/ PersistEvent(c)
  PROVE  TypeOK' /\ Publishing' /\ (Outside \/ Stores(c) \/ StoresUnpublished)
  <1>0. AgentType /\ NetType /\ ServerType /\ RunnerType /\ TableType
    BY TypeParts
  <1> USE DEF Outside
  <1>1. CASE ReadHello(c)
    <2>1. AgentType' /\ RunnerType' /\ TableType'
      BY <1>0, <1>1, TypeFrame DEF ReadHello, agent, redis, runner, tables
    <2>2. NetType'
      <3>1. wire' \in [Conns -> Seq(Events \cup {Hello})]
        BY <1>0, <1>1 DEF ReadHello, NetType
      <3> QED
        BY <1>0, <1>1, <3>1 DEF ReadHello, NetType
    <2>3. ServerType'
      BY <1>0, <1>1 DEF ReadHello, ServerType
    <2>4. Publishing'
      BY <1>0, <1>1 DEF ReadHello, Publishing, ServerType, agent
    <2> QED
      BY <1>1, <2>1, <2>2, <2>3, <2>4, TypeParts DEF ReadHello, redis, runner, tables
  <1>2. CASE HandlerEnds(c)
    <2>1. AgentType' /\ RunnerType' /\ TableType'
      BY <1>0, <1>2, TypeFrame DEF HandlerEnds, agent, redis, runner, tables
    <2>2. NetType'
      BY <1>0, <1>2 DEF HandlerEnds, NetType
    <2>3. ServerType'
      BY <1>0, <1>2 DEF HandlerEnds, ServerType
    <2>4. Publishing'
      BY <1>0, <1>2 DEF HandlerEnds, Publishing, ServerType, agent
    <2> QED
      BY <1>2, <2>1, <2>2, <2>3, <2>4, TypeParts DEF HandlerEnds, redis, runner, tables
  <1>3. CASE PersistRaises(c)
    <2>1. PICK e \in Events :
            /\ wire[c] # <<>> /\ e = Head(wire[c])
            /\ \/ UNCHANGED <<stored, gone>>
               \/ e \notin stored /\ stored' = stored \cup {e} /\ gone' = gone \cup {e}
      <3>1. wire[c] \in Seq(Events \cup {Hello}) /\ wire[c] # <<>>
        BY <1>0, <1>3 DEF PersistRaises, NetType
      <3>2. Head(wire[c]) \in Events
        BY <1>3, <3>1 DEF PersistRaises
      <3> QED
        BY <1>3, <3>1, <3>2 DEF PersistRaises, IsDuplicate
    <2>2. AgentType' /\ NetType' /\ TableType'
      <3>1. TableType'
        BY <1>0, <1>3, TypeFrame DEF PersistRaises, tables
      <3>2. AgentType'
        BY <1>0, <1>3 DEF PersistRaises, Fault, AgentType, agent
      <3>3. NetType'
        BY <1>0, <1>3 DEF PersistRaises, NetType
      <3> QED
        BY <3>1, <3>2, <3>3
    <2>3. RunnerType'
      BY <1>0, <1>3, <2>1 DEF PersistRaises, RunnerType, redis, runner
    <2>4. ServerType'
      BY <1>0, <1>3, <2>1 DEF PersistRaises, ServerType
    <2>5. Publishing'
      BY <1>0, <1>3 DEF PersistRaises, Publishing, ServerType, agent
    <2>6. Outside \/ StoresUnpublished
      <3>1. UNCHANGED <<current, backlog, batch, pel, acked, stage, at, alerts, actions, skipped,
                        sigmaAlerts>>
        BY <1>3 DEF PersistRaises, redis, runner, tables
      <3> QED
        BY <1>3, <2>1, <3>1 DEF StoresUnpublished, PersistRaises
    <2> QED
      BY <2>2, <2>3, <2>4, <2>5, <2>6, TypeParts
  <1>4. CASE PersistEvent(c)
    <2>1. AgentType' /\ RunnerType' /\ TableType'
      BY <1>0, <1>4, TypeFrame DEF PersistEvent, agent, redis, runner, tables
    <2>2. wire[c] \in Seq(Events \cup {Hello}) /\ wire[c] # <<>>
      BY <1>0, <1>4 DEF PersistEvent, NetType
    <2>3. Tail(wire[c]) \in Seq(Events \cup {Hello}) /\ Head(wire[c]) \in Events \cup {Hello}
      BY <2>2
    <2>4. NetType'
      BY <1>0, <1>4, <2>3 DEF PersistEvent, NetType
    <2>5. CASE Head(wire[c]) # Hello /\ ~IsDuplicate(Head(wire[c]))
      <3>1. /\ stored' = stored \cup {Head(wire[c])} /\ Head(wire[c]) \in Events \ stored
            /\ current' = [current EXCEPT ![c] = Head(wire[c])]
            /\ handler' = [handler EXCEPT ![c] = "publishing"]
            /\ handler[c] = "serving" /\ dials' = dials /\ running' = running
        BY <1>4, <2>3, <2>5 DEF PersistEvent, IsDuplicate, agent
      <3>2. ServerType'
        BY <1>0, <3>1 DEF ServerType
      <3>3. Head(wire[c]) # NoEvent
        BY <3>1, Constants DEF Events, NoEvent
      <3>4. Publishing'
        BY <1>0, <3>1, <3>3 DEF Publishing, ServerType
      <3>5. Stores(c)
        BY <1>4, <3>1 DEF PersistEvent, Stores, redis, runner, tables
      <3> QED
        BY <2>1, <2>4, <3>2, <3>4, <3>5, TypeParts
    <2>6. CASE Head(wire[c]) = Hello \/ IsDuplicate(Head(wire[c]))
      <3>1. UNCHANGED <<stored, current, handler, running, dials>>
        BY <1>4, <2>6 DEF PersistEvent, agent
      <3>2. ServerType' /\ Publishing'
        BY <1>0, <3>1 DEF ServerType, Publishing
      <3> QED
        BY <1>4, <2>1, <2>4, <3>1, <3>2, TypeParts DEF PersistEvent, redis, runner, tables
    <2> QED
      BY <2>5, <2>6
  <1> QED
    BY <1>1, <1>2, <1>3, <1>4

\* What Publish and PublishRaises have in common.
LEMMA PublishSteps ==
  ASSUME TypeOK, Publishing, NEW c \in Conns, Publish(c) \/ PublishRaises(c)
  PROVE  TypeOK' /\ Publishing' /\ current[c] \in Events
  <1>0. AgentType /\ NetType /\ ServerType /\ RunnerType /\ TableType
    BY TypeParts
  <1>1. /\ handler[c] = "publishing" /\ handler' = [handler EXCEPT ![c] = "serving"]
        /\ current' = [current EXCEPT ![c] = NoEvent]
        /\ UNCHANGED <<sent, dials, agentConn, greeted, up, wire, firstFrame, running, stored,
                       batch, pel, acked, stage, at, alerts, actions, skipped, sigmaAlerts>>
    BY DEF Publish, PublishRaises, agent, net, redis, runner, tables
  <1>2. AgentType'
    <2>1. faults' \in Nat
      BY <1>0 DEF Publish, PublishRaises, AgentType, Fault
    <2> QED
      BY <1>0, <1>1, <2>1 DEF AgentType
  <1>3. NetType' /\ TableType'
    BY <1>0, <1>1, TypeFrame
  <1>4. ServerType'
    BY <1>0, <1>1 DEF ServerType
  <1>5. current[c] \in Events
    BY <1>0, <1>1 DEF Publishing, ServerType
  <1>6. backlog' \in Seq(Events) /\ gone' \subseteq Events
    <2>1. CASE PublishRaises(c)
      BY <1>0, <1>5, <2>1 DEF PublishRaises, redis, RunnerType
    <2>2. CASE Publish(c)
      <3> DEFINE full == Append(backlog, current[c])
      <3>1. full \in Seq(Events) /\ Len(full) \in Nat
        BY <1>0, <1>5 DEF RunnerType
      <3>2. PICK s \in Trimmed(full) :
              backlog' = s /\ gone' = gone \cup {full[i] : i \in 1..(Len(full) - Len(s))}
        BY <2>2 DEF Publish
      <3> HIDE DEF full
      <3>3. s \in Seq(Events) /\ Len(s) \in Nat
        <4>1. CASE s = full
          BY <3>1, <4>1
        <4>2. CASE Len(full) > StreamMax /\ s = SubSeq(full, Len(full) - StreamMax + 1, Len(full))
          BY <3>1, <4>2, Constants, SubSeqProperties
        <4> QED
          BY <3>2, <4>1, <4>2 DEF Trimmed
      <3>4. \A i \in 1..(Len(full) - Len(s)) : full[i] \in Events
        BY <3>1, <3>3
      <3> QED
        BY <1>0, <3>2, <3>3, <3>4 DEF RunnerType
    <2> QED
      BY <2>1, <2>2
  <1>7. RunnerType'
    BY <1>0, <1>1, <1>6 DEF RunnerType
  <1>8. Publishing'
    BY <1>0, <1>1 DEF Publishing, ServerType
  <1> QED
    BY <1>2, <1>3, <1>4, <1>5, <1>7, <1>8, TypeParts

\* The steps of the runner, the failing ones included.
RunnerStep ==
  ReadBatch \/ Load \/ LoadFails \/ Quiet \/ WriteAlert \/ DetectorFails
  \/ WriteAction \/ AckEntry \/ Sigma

\* The result at hand is one.
LEMMA ResultTyped ==
  ASSUME RunnerType, BatchPending, AtDetector \/ (stage = "act" /\ at <= NumDetectors)
  PROVE  /\ batch # <<>> /\ Head(batch) = batch[1] /\ batch[1] \in Events /\ at \in Detectors
         /\ Result = <<batch[1], at>> /\ Result \in Results
  <1>1. batch # <<>> /\ at <= NumDetectors
    BY DEF AtDetector, BatchPending
  <1>2. Head(batch) = batch[1] /\ batch[1] \in Events
    BY <1>1 DEF RunnerType
  <1>3. at \in Detectors
    BY <1>1, Constants DEF RunnerType, Detectors
  <1> QED
    BY <1>1, <1>2, <1>3 DEF Result, Results

\* XREADGROUP cuts the backlog in two.
LEMMA ReadBatchCuts ==
  ASSUME RunnerType, ReadBatch
  PROVE  /\ Taken \in 0..Len(backlog)
         /\ batch' = SubSeq(backlog, 1, Taken)
         /\ backlog' = SubSeq(backlog, Taken + 1, Len(backlog))
         /\ batch' \in Seq(Events) /\ backlog' \in Seq(Events)
         /\ Elements(batch') = {backlog[i] : i \in 1..Taken}
         /\ Elements(backlog) = Elements(batch') \cup Elements(backlog')
         /\ pel' = pel \cup Elements(batch')
         /\ Elements(batch') \subseteq Events
         /\ NoRepeat(backlog) => /\ NoRepeat(batch') /\ NoRepeat(backlog')
                                 /\ Elements(batch') \cap Elements(backlog') = {}
  <1>1. Taken \in 0..Len(backlog) /\ backlog \in Seq(Events)
    BY Constants DEF Taken, RunnerType
  <1>2. /\ batch' = SubSeq(backlog, 1, Taken)
        /\ backlog' = SubSeq(backlog, Taken + 1, Len(backlog))
        /\ pel' = pel \cup {backlog[i] : i \in 1..Taken}
    BY DEF ReadBatch
  <1>3. \A i \in 1..Taken : backlog[i] \in Events
    BY <1>1
  <1>4. PICK k, a, b : k = Taken /\ a = batch' /\ b = backlog'
    OBVIOUS
  <1>5. /\ batch' \in Seq(Events) /\ backlog' \in Seq(Events)
        /\ Elements(batch') = {backlog[i] : i \in 1..Taken}
        /\ Elements(backlog) = Elements(batch') \cup Elements(backlog')
        /\ NoRepeat(backlog) => /\ NoRepeat(batch') /\ NoRepeat(backlog')
                                /\ Elements(batch') \cap Elements(backlog') = {}
    <2>1. k \in 0..Len(backlog) /\ Parts(backlog, k, a, b)
      BY <1>1, <1>2, <1>4 DEF Parts
    <2>2. /\ a \in Seq(Events) /\ b \in Seq(Events)
          /\ Elements(a) = {backlog[i] : i \in 1..k}
          /\ Elements(backlog) = Elements(a) \cup Elements(b)
          /\ NoRepeat(backlog) => NoRepeat(a) /\ NoRepeat(b) /\ Elements(a) \cap Elements(b) = {}
      BY <1>1, <2>1, Cut
    <2> QED
      BY <1>4, <2>2, Zenon
  <1>6. Elements(batch') \subseteq Events
    BY <1>3, <1>5
  <1> QED
    BY <1>1, <1>2, <1>5, <1>6

LEMMA RunnerTypes ==
  ASSUME TypeOK, BatchPending, HeadSettled, RunnerStep
  PROVE  TypeOK' /\ UNCHANGED <<handler, current, stored, gone, dials>>
  <1>0. AgentType /\ NetType /\ ServerType /\ RunnerType /\ TableType
    BY TypeParts
  <1>1. UNCHANGED <<sent, dials, agentConn, greeted, up, wire, firstFrame,
                    handler, current, running, stored, gone>>
    BY DEF RunnerStep, ReadBatch, Load, AckUnseen, LoadFails, Quiet, WriteAlert, DetectorFails, WriteAction,
           AckEntry, Sigma, agent, net, server
  <1>2. NetType' /\ ServerType'
    BY <1>0, <1>1, TypeFrame
  <1>3. AgentType'
    <2>1. faults' = faults \/ faults' = faults + 1
      BY DEF RunnerStep, ReadBatch, Load, AckUnseen, LoadFails, Quiet, WriteAlert, DetectorFails, WriteAction,
             AckEntry, Sigma, Fault
    <2> QED
      BY <1>0, <1>1, <2>1 DEF AgentType
  <1>4. RunnerType'
    <2> USE Constants
    <2>1. CASE ReadBatch
      BY <1>0, <1>1, <2>1, ReadBatchCuts DEF ReadBatch, RunnerType
    <2>2. CASE Load
      BY <1>0, <1>1, <2>2 DEF Load, RunnerType, redis
    <2>3. CASE LoadFails \/ AckEntry \/ Sigma
      <3>1. batch # <<>>
        BY <2>3 DEF AckUnseen, LoadFails, AckEntry, Sigma, BatchPending
      <3>2. Head(batch) \in Events /\ Tail(batch) \in Seq(Events)
        BY <1>0, <3>1 DEF RunnerType
      <3>3. pel' \subseteq pel /\ acked' \subseteq acked \cup {Head(batch)} /\ backlog' = backlog
        BY <2>3 DEF AckUnseen, LoadFails, AckEntry, Sigma, Ack, redis
      <3>4. batch' \in Seq(Events)
        BY <1>0, <2>3, <3>2 DEF AckUnseen, LoadFails, AckEntry, Sigma, RunnerType
      <3>5. stage' \in {"load", "sigma"} /\ at' \in 1..(NumDetectors + 1)
        BY <1>0, <2>3 DEF AckUnseen, LoadFails, AckEntry, Sigma, RunnerType
      <3> QED
        BY <1>0, <1>1, <3>2, <3>3, <3>4, <3>5 DEF RunnerType
    <2>4. CASE Quiet \/ WriteAlert \/ DetectorFails
      <3>1. at + 1 \in 1..(NumDetectors + 1)
        BY <1>0, <2>4 DEF Quiet, WriteAlert, DetectorFails, AtDetector, RunnerType
      <3> QED
        BY <1>0, <1>1, <2>4, <3>1 DEF Quiet, WriteAlert, DetectorFails, RunnerType, redis
    <2>5. CASE WriteAction
      <3>1. at + 1 \in 1..(NumDetectors + 1)
        BY <1>0, <2>5 DEF WriteAction, HeadSettled, RunnerType
      <3> QED
        BY <1>0, <1>1, <2>5, <3>1 DEF WriteAction, RunnerType, redis
    <2> QED
      BY <2>1, <2>2, <2>3, <2>4, <2>5 DEF RunnerStep
  <1>5. TableType'
    <2>1. CASE ReadBatch \/ Load \/ Quiet \/ AckEntry
      BY <1>0, <2>1, TypeFrame DEF ReadBatch, Load, Quiet, AckEntry, tables
    <2>2. CASE LoadFails
      <3>1. batch # <<>>
        BY <2>2 DEF AckUnseen, LoadFails
      <3>2. Head(batch) \in Events
        BY <1>0, <3>1 DEF RunnerType
      <3>3. ({Head(batch)} \X Detectors) \subseteq Results
        BY <3>2 DEF Results
      <3> QED
        BY <1>0, <2>2, <3>3 DEF AckUnseen, LoadFails, TableType, tables
    <2>3. CASE Sigma
      BY <1>0, <2>3 DEF Sigma, RulesDirIsPath, TableType
    <2>4. CASE WriteAlert
      <3>0. AtDetector
        BY <2>4 DEF WriteAlert
      <3>1. Result \in Results
        BY <1>0, <3>0, ResultTyped
      <3>2. alerts' \in [Results -> Nat]
        BY <1>0, <2>4, <3>1 DEF WriteAlert, TableType
      <3> QED
        BY <1>0, <2>4, <3>2 DEF WriteAlert, TableType
    <2>5. CASE DetectorFails
      <3>0. AtDetector
        BY <2>5 DEF DetectorFails
      <3>1. Result \in Results
        BY <1>0, <3>0, ResultTyped
      <3> QED
        BY <1>0, <2>5, <3>1 DEF DetectorFails, TableType, tables
    <2>6. CASE WriteAction
      <3>1. Result \in Results
        BY <1>0, <2>6, ResultTyped DEF WriteAction, HeadSettled
      <3> QED
        BY <1>0, <2>6, <3>1 DEF WriteAction, TableType
    <2> QED
      BY <2>1, <2>2, <2>3, <2>4, <2>5, <2>6 DEF RunnerStep
  <1> QED
    BY <1>1, <1>2, <1>3, <1>4, <1>5, TypeParts

LEMMA ServerSteps ==
  ASSUME TypeOK, Publishing, ServerStops \/ ServerStarts
  PROVE  TypeOK' /\ Publishing' /\ (Outside \/ ServerStops)
  <1>0. AgentType /\ NetType /\ ServerType /\ RunnerType /\ TableType
    BY TypeParts
  <1>1. CASE ServerStarts
    <2>1. ServerType'
      BY <1>0, <1>1 DEF ServerStarts, ServerType
    <2>2. AgentType' /\ NetType' /\ RunnerType' /\ TableType'
      BY <1>0, <1>1, TypeFrame DEF ServerStarts, agent, net, redis, runner, tables
    <2> QED
      BY <1>1, <2>1, <2>2, TypeParts
      DEF ServerStarts, Outside, Publishing, agent, redis, runner, tables
  <1>2. CASE ServerStops
    <2>1. AgentType'
      BY <1>0, <1>2 DEF ServerStops, Fault, agent, AgentType
    <2>2. NetType'
      BY <1>0, <1>2 DEF ServerStops, NetType
    <2>3. ServerType'
      BY <1>0, <1>2 DEF ServerStops, ServerType
    <2>4. RunnerType'
      <3>1. \A c \in Conns : handler[c] = "publishing" => current[c] \in Events
        BY <1>0 DEF Publishing, ServerType
      <3>2. gone' \subseteq Events
        BY <1>0, <1>2, <3>1 DEF ServerStops, RunnerType
      <3> QED
        BY <1>0, <1>2, <3>2, Constants DEF ServerStops, RunnerType, redis
    <2>5. TableType'
      BY <1>0, <1>2, TypeFrame DEF ServerStops, tables
    <2>6. Publishing'
      BY <1>2 DEF ServerStops, Publishing
    <2> QED
      BY <1>2, <2>1, <2>2, <2>3, <2>4, <2>5, <2>6, TypeParts
  <1> QED
    BY <1>1, <1>2
--------------------------------------------------------------------------
(* Storing, publishing and the end of the process.                         *)

\* RunnerInv is about the runner and its tables only.
LEMMA RunnerFrame ==
  ASSUME RunnerInv, UNCHANGED <<batch, stage, at, pel, acked, alerts, actions, skipped>>
  PROVE  RunnerInv'
  BY DEF RunnerInv, BatchPending, NoRepeat, AlertsBehind, Elements, HeadSettled, AckedSettled,
         Settled, AtMostOne

LEMMA StorageFrame ==
  ASSUME StorageInv, UNCHANGED <<current, stored, backlog, pel, acked, gone>>
  PROVE  StorageInv'
  BY DEF StorageInv, OnlyStored, OneCopy, NoneForgotten, NoRepeat, Elements

\* An event is never 0, so none is mistaken for NoEvent.
LEMMA NoEventIsNone == NoEvent \notin Events
  BY DEF NoEvent, Events

LEMMA StoresKeeps == ASSUME IInv, NEW c \in Conns, Stores(c) PROVE StorageInv'
  <1> USE DEF IInv, StorageInv
  <1>1. PICK e \in Events : /\ e \notin stored /\ stored' = stored \cup {e}
                            /\ current' = [current EXCEPT ![c] = e]
    BY DEF Stores
  <1>2. /\ UNCHANGED <<backlog, pel, acked, gone>> /\ current[c] = NoEvent
        /\ current'[c] = e /\ \A d \in Conns \ {c} : current'[d] = current[d]
    BY <1>1 DEF Stores, Publishing, TypeOK
  <1>3. OnlyStored'
    BY <1>1, <1>2 DEF OnlyStored, Elements
  <1>4. OneCopy'
    <2>1. e \notin Elements(backlog) /\ e \notin pel /\ e \notin acked /\ e \notin gone
      BY <1>1 DEF OnlyStored
    <2>2. \A d \in Conns : current[d] # e
      BY <1>1, NoEventIsNone DEF OnlyStored
    <2>3. /\ \A d \in Conns : /\ current'[d] \notin Elements(backlog)
                              /\ current'[d] \notin pel /\ current'[d] \notin acked
                              /\ current'[d] \notin gone
          /\ \A b, d \in Conns : current'[b] = current'[d] /\ current'[b] # NoEvent => b = d
      BY <1>2, <2>1, <2>2 DEF OneCopy
    <2>4. Elements(backlog)' = Elements(backlog) /\ NoRepeat(backlog)' = NoRepeat(backlog)
      BY <1>2 DEF Elements, NoRepeat
    <2> QED
      BY <1>2, <2>3, <2>4 DEF OneCopy
  <1>5. NoneForgotten'
    <2> SUFFICES ASSUME NEW x \in stored'
                 PROVE  (\E d \in Conns : x = current'[d]) \/ x \in Elements(backlog)
                        \/ x \in pel \/ x \in acked \/ x \in gone
      BY <1>2 DEF NoneForgotten, Elements
    <2>1. CASE x = e
      BY <1>2, <2>1
    <2>2. CASE x \in stored
      <3>1. (\E d \in Conns : x = current[d]) \/ x \in Elements(backlog)
            \/ x \in pel \/ x \in acked \/ x \in gone
        BY <2>2 DEF NoneForgotten
      <3>2. x # NoEvent
        BY <2>2, NoEventIsNone DEF TypeOK
      <3> QED
        BY <1>2, <3>1, <3>2
    <2> QED
      BY <1>1, <2>1, <2>2
  <1> QED
    BY <1>3, <1>4, <1>5

LEMMA StoresUnpublishedKeeps == ASSUME IInv, StoresUnpublished PROVE StorageInv'
  <1> USE DEF IInv, StorageInv
  <1>1. PICK e \in Events \ stored :
          /\ stored' = stored \cup {e} /\ gone' = gone \cup {e}
          /\ UNCHANGED <<current, backlog, pel, acked>>
    BY DEF StoresUnpublished
  <1>2. /\ e \notin Elements(backlog) /\ e \notin pel /\ e \notin acked
        /\ \A d \in Conns : current[d] # e
    BY <1>1, NoEventIsNone DEF OnlyStored
  <1>3. Elements(backlog)' = Elements(backlog) /\ NoRepeat(backlog)' = NoRepeat(backlog)
    BY <1>1 DEF Elements, NoRepeat
  <1>4. OnlyStored'
    BY <1>1, <1>3 DEF OnlyStored
  <1>5. OneCopy'
    BY <1>1, <1>2, <1>3 DEF OneCopy
  <1>6. NoneForgotten'
    BY <1>1, <1>3 DEF NoneForgotten
  <1> QED
    BY <1>4, <1>5, <1>6

\* XADD with its trimming: what leaves the stream is what is not in it any
\* more, and the new entry stays.
LEMMA PublishTrims ==
  ASSUME IInv, NEW c \in Conns, Publish(c)
  PROVE  \E out \in SUBSET (Elements(backlog) \cup {current[c]}) :
           /\ backlog' \in Seq(Events) /\ NoRepeat(backlog')
           /\ Elements(backlog') = (Elements(backlog) \cup {current[c]}) \ out
           /\ gone' = gone \cup out
  <1>1. backlog \in Seq(Events) /\ current[c] \in Events /\ backlog' \in Seq(Events)
    BY PublishSteps DEF IInv, TypeOK
  <1> DEFINE full == Append(backlog, current[c])
  <1>2. /\ full \in Seq(Events) /\ Elements(full) = Elements(backlog) \cup {current[c]}
        /\ NoRepeat(full)
    BY <1>1, AppendElements DEF IInv, StorageInv, OneCopy
  <1>3. PICK s \in Trimmed(full) :
          backlog' = s /\ gone' = gone \cup {full[i] : i \in 1..(Len(full) - Len(s))}
    BY DEF Publish
  <1> HIDE DEF full
  <1>4. CASE s = full
    <2>1. 1..(Len(full) - Len(s)) = {}
      BY <1>2, <1>4
    <2>2. gone' = gone \cup {}
      BY <1>3, <2>1
    <2> QED
      BY <1>1, <1>2, <1>3, <1>4, <2>2
  <1>5. CASE Len(full) > StreamMax /\ s = SubSeq(full, Len(full) - StreamMax + 1, Len(full))
    <2>1. PICK k, a : k = Len(full) - StreamMax /\ a = SubSeq(full, 1, k)
      OBVIOUS
    <2>2. k \in 0..Len(full) /\ Parts(full, k, a, s)
      BY <1>2, <1>5, <2>1, Constants DEF Parts
    <2>3. /\ Len(s) = Len(full) - k /\ Elements(a) = {full[i] : i \in 1..k}
          /\ Elements(full) = Elements(a) \cup Elements(s)
          /\ NoRepeat(s) /\ Elements(a) \cap Elements(s) = {}
      BY <1>2, <2>2, Cut
    <2>4. Len(full) - Len(s) = k
      BY <1>2, <2>2, <2>3
    <2>5. gone' = gone \cup Elements(a)
      BY <1>3, <2>3, <2>4
    <2>6. Elements(s) = Elements(full) \ Elements(a) /\ Elements(a) \subseteq Elements(full)
      BY <2>3
    <2> QED
      BY <1>1, <1>2, <1>3, <2>3, <2>5, <2>6
  <1> QED
    BY <1>3, <1>4, <1>5 DEF Trimmed

LEMMA PublishKeeps ==
  ASSUME IInv, NEW c \in Conns, Publish(c) \/ PublishRaises(c)
  PROVE  StorageInv'
  <1> USE DEF IInv, StorageInv
  <1>1. /\ handler[c] = "publishing" /\ current[c] # NoEvent /\ current[c] \in Events
        /\ current' = [current EXCEPT ![c] = NoEvent]
        /\ UNCHANGED <<stored, pel, acked>>
    BY PublishSteps DEF Publish, PublishRaises, Publishing, redis
  <1>2. PICK e \in Events : e = current[c]
    BY <1>1
  <1>3. /\ current'[c] = NoEvent /\ \A d \in Conns \ {c} : current'[d] = current[d]
    BY <1>1 DEF TypeOK
  <1>4. /\ e # NoEvent /\ e \in stored /\ e \notin Elements(backlog) /\ e \notin pel /\ e \notin acked
        /\ e \notin gone
        /\ \A d \in Conns \ {c} : current[d] # e
    BY <1>1, <1>2 DEF OnlyStored, OneCopy
  <1>5. PICK out \in SUBSET (Elements(backlog) \cup {e}) :
          /\ backlog' \in Seq(Events) /\ NoRepeat(backlog')
          /\ Elements(backlog') \subseteq (Elements(backlog) \cup {e}) \ out
          /\ (Elements(backlog) \cup {e}) \ out \subseteq Elements(backlog')
          /\ gone' = gone \cup out
    <2>1. CASE Publish(c)
      BY <1>2, <2>1, PublishTrims
    <2>2. CASE PublishRaises(c)
      <3>1. backlog' = backlog /\ gone' = gone \cup {e}
        BY <1>2, <2>2 DEF PublishRaises, redis
      <3> QED
        BY <1>4, <3>1 DEF TypeOK, OneCopy
    <2> QED
      BY <2>1, <2>2
  <1>6. Elements(backlog)' = Elements(backlog') /\ NoRepeat(backlog)' = NoRepeat(backlog')
    BY DEF Elements, NoRepeat
  <1>7. NoEvent \notin Elements(backlog')
    BY <1>5, NoEventIsNone, Constants DEF Elements
  <1>8. NoEvent \notin pel /\ NoEvent \notin acked /\ NoEvent \notin gone'
    <2>1. NoEvent \notin Elements(backlog)
      BY NoEventIsNone DEF TypeOK, Elements
    <2> QED
      BY <1>4, <1>5, <2>1, NoEventIsNone DEF TypeOK
  <1>9. OnlyStored'
    BY <1>1, <1>3, <1>4, <1>5, <1>6 DEF OnlyStored
  <1>10. OneCopy'
    <2>1. \A x \in Elements(backlog') : x \notin pel /\ x \notin acked /\ x \notin gone'
      <3> SUFFICES ASSUME NEW x \in Elements(backlog')
                   PROVE  x \notin pel /\ x \notin acked /\ x \notin gone'
        OBVIOUS
      <3>1. x \notin out /\ (x \in Elements(backlog) \/ x = e)
        BY <1>5
      <3>2. x \notin gone
        BY <1>4, <3>1 DEF OneCopy
      <3> QED
        BY <1>4, <1>5, <3>1, <3>2 DEF OneCopy
    <2>2. \A d \in Conns : /\ current'[d] \notin Elements(backlog')
                           /\ current'[d] \notin pel /\ current'[d] \notin acked
                           /\ current'[d] \notin gone'
      BY <1>3, <1>4, <1>5, <1>7, <1>8 DEF OneCopy
    <2>3. \A b, d \in Conns : current'[b] = current'[d] /\ current'[b] # NoEvent => b = d
      BY <1>3 DEF OneCopy
    <2> QED
      BY <1>1, <1>5, <1>6, <2>1, <2>2, <2>3 DEF OneCopy
  <1>11. NoneForgotten'
    <2> SUFFICES ASSUME NEW x \in stored
                 PROVE  (\E d \in Conns : x = current'[d]) \/ x \in Elements(backlog')
                        \/ x \in pel \/ x \in acked \/ x \in gone'
      BY <1>1, <1>6 DEF NoneForgotten
    <2>1. (\E d \in Conns : x = current[d]) \/ x \in Elements(backlog)
          \/ x \in pel \/ x \in acked \/ x \in gone
      BY DEF NoneForgotten
    <2> QED
      BY <1>2, <1>3, <1>5, <2>1
  <1> QED
    BY <1>9, <1>10, <1>11

LEMMA StopKeeps == ASSUME IInv, ServerStops PROVE StorageInv' /\ RunnerInv'
  <1> USE DEF IInv, StorageInv, RunnerInv
  <1>1. /\ \A c \in Conns : current'[c] = NoEvent
        /\ batch' = <<>> /\ stage' = "load"
        /\ UNCHANGED <<stored, backlog, pel, acked, alerts, actions, skipped>>
    BY DEF ServerStops, redis, tables
  <1>2. gone' = gone \cup {current[c] : c \in {d \in Conns : handler[d] = "publishing"}}
    BY DEF ServerStops
  <1>3. \A x : x \in gone' <=> x \in gone \/ \E c \in Conns : x = current[c] /\ current[c] # NoEvent
    BY <1>2 DEF Publishing
  <1>4. Elements(backlog)' = Elements(backlog) /\ NoRepeat(backlog)' = NoRepeat(backlog)
    BY <1>1 DEF Elements, NoRepeat
  <1>5. /\ NoEvent \notin Elements(backlog) /\ NoEvent \notin pel /\ NoEvent \notin acked
        /\ NoEvent \notin gone'
    BY <1>3, NoEventIsNone DEF TypeOK, Elements
  <1>6. OnlyStored'
    BY <1>1, <1>3, <1>4 DEF OnlyStored
  <1>7. OneCopy'
    BY <1>1, <1>3, <1>4, <1>5 DEF OneCopy
  <1>8. NoneForgotten'
    <2> SUFFICES ASSUME NEW x \in stored
                 PROVE  x \in Elements(backlog) \/ x \in pel \/ x \in acked \/ x \in gone'
      BY <1>1, <1>4 DEF NoneForgotten
    <2>1. x # NoEvent
      BY NoEventIsNone DEF TypeOK
    <2> QED
      BY <1>3, <2>1 DEF NoneForgotten
  <1>9. BatchPending' /\ HeadSettled'
    BY <1>1 DEF BatchPending, NoRepeat, HeadSettled
  <1>10. AlertsBehind'
    BY <1>1 DEF AlertsBehind, Elements
  <1>11. AckedSettled' /\ AtMostOne'
    BY <1>1 DEF AckedSettled, Settled, AtMostOne
  <1> QED
    BY <1>6, <1>7, <1>8, <1>9, <1>10, <1>11
--------------------------------------------------------------------------
(* The runner.                                                             *)

LEMMA ReadBatchKeeps == ASSUME IInv, ReadBatch PROVE StorageInv' /\ RunnerInv'
  <1> USE DEF IInv, StorageInv, RunnerInv
  <1>1. /\ batch' \in Seq(Events) /\ backlog' \in Seq(Events)
        /\ Elements(backlog) = Elements(batch') \cup Elements(backlog')
        /\ pel' = pel \cup Elements(batch')
        /\ NoRepeat(batch') /\ NoRepeat(backlog')
        /\ Elements(batch') \cap Elements(backlog') = {}
    BY ReadBatchCuts, TypeParts DEF OneCopy
  <1>2. /\ batch = <<>> /\ stage = "load"
        /\ UNCHANGED <<current, stored, acked, gone, stage, at, alerts, actions, skipped>>
    BY DEF ReadBatch, BatchPending, server, tables
  <1>3. /\ Elements(backlog)' = Elements(backlog') /\ NoRepeat(backlog)' = NoRepeat(backlog')
        /\ Elements(batch)' = Elements(batch') /\ NoRepeat(batch)' = NoRepeat(batch')
    BY DEF Elements, NoRepeat
  <1>4. OnlyStored'
    BY <1>1, <1>2, <1>3 DEF OnlyStored
  <1>5. OneCopy'
    BY <1>1, <1>2, <1>3 DEF OneCopy
  <1>6. NoneForgotten'
    BY <1>1, <1>2, <1>3 DEF NoneForgotten
  <1>7. BatchPending'
    <2>1. \A i \in 1..Len(batch') : batch'[i] \in pel'
      BY <1>1 DEF Elements
    <2> QED
      BY <1>1, <1>2, <1>3, <2>1 DEF BatchPending
  <1>8. AlertsBehind'
    <2> SUFFICES ASSUME NEW e \in Events, NEW d \in Detectors, alerts[<<e, d>>] # 0
                 PROVE  e \in pel' \cup acked /\ e \notin Elements(batch')
      BY <1>2, <1>3 DEF AlertsBehind
    <2>1. e \in pel \cup acked
      BY DEF AlertsBehind
    <2> QED
      BY <1>1, <2>1 DEF OneCopy
  <1>9. HeadSettled' /\ AckedSettled' /\ AtMostOne'
    BY <1>2 DEF HeadSettled, AckedSettled, Settled, AtMostOne
  <1> QED
    BY <1>4, <1>5, <1>6, <1>7, <1>8, <1>9

\* Acknowledging a pending entry moves it from pel to acked.
LEMMA AckKeeps ==
  ASSUME IInv, NEW e \in pel, Ack(e), UNCHANGED <<current, stored, backlog, gone>>
  PROVE  StorageInv'
  <1> USE DEF IInv, StorageInv
  <1>1. pel' = pel \ {e} /\ acked' = acked \cup {e}
    BY DEF Ack
  <1>2. Elements(backlog)' = Elements(backlog) /\ NoRepeat(backlog)' = NoRepeat(backlog)
    BY DEF Elements, NoRepeat
  <1>3. OnlyStored'
    BY <1>1, <1>2 DEF OnlyStored
  <1>4. OneCopy'
    BY <1>1, <1>2 DEF OneCopy
  <1>5. NoneForgotten'
    BY <1>1, <1>2 DEF NoneForgotten
  <1> QED
    BY <1>3, <1>4, <1>5

LEMMA LoadKeeps == ASSUME IInv, Load PROVE StorageInv' /\ RunnerInv'
  <1> USE DEF IInv, RunnerInv
  <1>1. /\ batch # <<>> /\ stage = "load" /\ stage' = "detect" /\ at' = 1
        /\ UNCHANGED <<current, stored, backlog, pel, acked, gone, batch, alerts, actions, skipped>>
    BY DEF Load, server, redis, tables
  <1>2. StorageInv'
    BY <1>1, StorageFrame
  <1>3. Elements(batch)' = Elements(batch) /\ NoRepeat(batch)' = NoRepeat(batch)
    BY <1>1 DEF Elements, NoRepeat
  <1>4. BatchPending'
    BY <1>1, <1>3 DEF BatchPending
  <1>5. AlertsBehind'
    BY <1>1, <1>3 DEF AlertsBehind
  <1>6. HeadSettled' /\ AckedSettled' /\ AtMostOne'
    BY <1>1 DEF HeadSettled, AckedSettled, Settled, AtMostOne
  <1> QED
    BY <1>2, <1>4, <1>5, <1>6

LEMMA LoadFailsKeeps == ASSUME IInv, LoadFails PROVE StorageInv' /\ RunnerInv'
  <1> USE DEF IInv, RunnerInv
  <1>1. /\ batch # <<>> /\ stage = "load" /\ Ack(Head(batch)) /\ batch' = Tail(batch)
        /\ skipped' = skipped \cup ({Head(batch)} \X Detectors)
        /\ UNCHANGED <<current, stored, backlog, gone, stage, at, alerts, actions>>
    BY DEF AckUnseen, LoadFails, server, tables
  <1>2. /\ Head(batch) = batch[1] /\ batch[1] \in Events
        /\ Len(Tail(batch)) = Len(batch) - 1 /\ Len(batch) \in Nat
        /\ \A i \in 1..Len(Tail(batch)) : Tail(batch)[i] = batch[i + 1] /\ i + 1 \in 1..Len(batch)
        /\ Elements(Tail(batch)) \subseteq Elements(batch)
        /\ NoRepeat(Tail(batch)) /\ batch[1] \notin Elements(Tail(batch))
    BY <1>1, TailElements DEF TypeOK, BatchPending
  <1>3. PICK h \in Events : h = batch[1]
    BY <1>2
  <1>4. h \in pel /\ pel' = pel \ {h} /\ acked' = acked \cup {h}
    BY <1>1, <1>2, <1>3 DEF Ack, BatchPending, TypeOK
  <1>5. StorageInv'
    BY <1>1, <1>2, <1>3, <1>4, AckKeeps
  <1>6. Elements(batch)' = Elements(Tail(batch)) /\ NoRepeat(batch)' = NoRepeat(Tail(batch))
    BY <1>1 DEF Elements, NoRepeat
  <1>7. BatchPending'
    <2>1. \A i \in 1..Len(batch') : batch'[i] \in pel'
      <3> SUFFICES ASSUME NEW i \in 1..Len(Tail(batch)) PROVE Tail(batch)[i] \in pel /\ Tail(batch)[i] # h
        BY <1>1, <1>4
      <3>1. Tail(batch)[i] \in Elements(Tail(batch))
        BY DEF Elements
      <3>2. Tail(batch)[i] \in pel
        BY <1>1, <1>2 DEF BatchPending
      <3> QED
        BY <1>2, <1>3, <3>1, <3>2
    <2> QED
      BY <1>1, <1>2, <1>6, <2>1 DEF BatchPending
  <1>8. AlertsBehind'
    <2> SUFFICES ASSUME NEW e \in Events, NEW d \in Detectors, alerts[<<e, d>>] # 0
                 PROVE  e \in pel' \cup acked' /\ e \notin Elements(Tail(batch))
      BY <1>1, <1>6 DEF AlertsBehind
    <2>1. e \in pel \cup acked /\ e \notin Elements(batch)
      BY <1>1 DEF AlertsBehind
    <2> QED
      BY <1>2, <1>4, <2>1
  <1>9. AckedSettled'
    <2> SUFFICES ASSUME NEW e \in acked', NEW d \in Detectors,
                        <<e, d>> \in Fires /\ <<e, d>> \notin skipped'
                 PROVE  alerts[<<e, d>>] # 0 /\ (<<e, d>> \in Acts => <<e, d>> \in actions)
      BY <1>1 DEF AckedSettled, Settled
    <2>1. e # h
      BY <1>1, <1>2, <1>3
    <2> QED
      BY <1>1, <1>4, <2>1 DEF AckedSettled, Settled
  <1>10. HeadSettled' /\ AtMostOne'
    BY <1>1 DEF HeadSettled, AtMostOne
  <1> QED
    BY <1>5, <1>7, <1>8, <1>9, <1>10

\* The detector loop goes on to the next detector once the result at hand is
\* settled; the tables change at this result only.
Advances ==
  /\ stage \in {"detect", "act"} /\ stage' = "detect" /\ at' = at + 1 /\ at <= NumDetectors
  /\ UNCHANGED <<current, stored, backlog, pel, acked, gone, batch>>
  /\ alerts' = alerts \/ (alerts' = [alerts EXCEPT ![<<batch[1], at>>] = @ + 1] /\ stage = "detect")
  /\ skipped \subseteq skipped' /\ actions \subseteq actions'
  /\ actions' \subseteq actions \cup {<<batch[1], at>>}
  /\ <<batch[1], at>> \in actions' \ actions => stage = "act"
  /\ <<batch[1], at>> \in Fires /\ <<batch[1], at>> \notin skipped' =>
       alerts'[<<batch[1], at>>] # 0 /\ (<<batch[1], at>> \in Acts => <<batch[1], at>> \in actions')

LEMMA AdvancesKeeps == ASSUME IInv, Advances PROVE StorageInv' /\ RunnerInv'
  <1> USE DEF IInv, RunnerInv
  <1>1. StorageInv'
    BY StorageFrame DEF Advances
  <1>2. /\ batch # <<>> /\ batch[1] \in Events /\ batch[1] \in Elements(batch)
        /\ Elements(batch)' = Elements(batch) /\ NoRepeat(batch)' = NoRepeat(batch)
    BY TailElements DEF Advances, TypeOK, BatchPending, Elements, NoRepeat
  <1>3. PICK h \in Events : h = batch[1]
    BY <1>2
  <1>4. at \in Detectors /\ at \in Nat /\ h \in pel
    BY <1>2, <1>3, Constants DEF Advances, Detectors, TypeOK, BatchPending
  <1>5. \A e \in Events, d \in Detectors :
          /\ <<e, d>> # <<h, at>> => alerts'[<<e, d>>] = alerts[<<e, d>>]
          /\ alerts[<<e, d>>] # 0 => alerts'[<<e, d>>] # 0
    <2> SUFFICES ASSUME NEW e \in Events, NEW d \in Detectors
                 PROVE  /\ <<e, d>> # <<h, at>> => alerts'[<<e, d>>] = alerts[<<e, d>>]
                        /\ alerts[<<e, d>>] # 0 => alerts'[<<e, d>>] # 0
      OBVIOUS
    <2>1. <<e, d>> \in Results /\ alerts \in [Results -> Nat]
      BY DEF Results, TypeOK
    <2> QED
      BY <1>3, <2>1 DEF Advances
  <1>6. BatchPending'
    BY <1>2 DEF BatchPending, Advances
  <1>7. AlertsBehind'
    <2> SUFFICES ASSUME NEW e \in Events, NEW d \in Detectors, alerts'[<<e, d>>] # 0
                 PROVE  /\ e \in pel \cup acked
                        /\ e \in Elements(batch) => e = h /\ d < at + 1
      BY <1>2, <1>3 DEF AlertsBehind, Advances
    <2>1. CASE <<e, d>> = <<h, at>>
      BY <1>4, <2>1
    <2>2. CASE <<e, d>> # <<h, at>>
      BY <1>3, <1>4, <1>5, <2>2 DEF AlertsBehind, Advances, Detectors
    <2> QED
      BY <2>1, <2>2
  <1>8. ASSUME NEW e \in Events, NEW d \in Detectors, Settled(e, d) PROVE Settled(e, d)'
    BY <1>5, <1>8 DEF Settled, Advances
  <1>9. HeadSettled'
    <2> SUFFICES ASSUME NEW d \in 1..at PROVE Settled(h, d)'
      BY <1>3, <1>4 DEF HeadSettled, Advances
    <2>1. d \in Detectors
      BY <1>4, Constants DEF Detectors, Advances
    <2>2. CASE d = at
      BY <1>3, <2>2 DEF Advances, Settled
    <2>3. CASE d # at
      <3>1. d \in 1..(at - 1)
        BY <1>4, <2>3
      <3>2. Settled(h, d)
        BY <1>3, <3>1 DEF HeadSettled, Advances
      <3> QED
        BY <1>8, <2>1, <3>2
    <2> QED
      BY <2>2, <2>3
  <1>10. AckedSettled'
    <2> SUFFICES ASSUME NEW e \in acked, NEW d \in Detectors PROVE Settled(e, d)'
      BY DEF AckedSettled, Advances
    <2> QED
      BY <1>8 DEF AckedSettled, TypeOK
  <1>11. AtMostOne'
    <2> SUFFICES ASSUME NEW e \in Events, NEW d \in Detectors
                 PROVE  alerts'[<<e, d>>] <= 1 /\ (<<e, d>> \in actions' => alerts'[<<e, d>>] = 1)
      BY DEF AtMostOne
    <2>0. <<e, d>> \in Results /\ alerts \in [Results -> Nat]
      BY DEF Results, TypeOK
    <2>1. CASE <<e, d>> # <<h, at>>
      BY <1>3, <1>5, <2>1 DEF AtMostOne, Advances
    <2>2. CASE <<e, d>> = <<h, at>> /\ stage = "act"
      <3>1. alerts' = alerts /\ alerts[<<e, d>>] # 0
        BY <1>3, <2>2 DEF Advances, HeadSettled
      <3> QED
        BY <2>0, <3>1 DEF AtMostOne
    <2>3. CASE <<e, d>> = <<h, at>> /\ stage = "detect"
      <3>1. e = h /\ d = at
        BY <2>3
      <3>2. alerts[<<e, d>>] = 0
        BY <1>2, <1>3, <1>4, <2>3, <3>1 DEF AlertsBehind
      <3>3. <<e, d>> \notin actions /\ <<e, d>> \notin actions'
        BY <1>3, <2>3, <3>1, <3>2 DEF AtMostOne, Advances
      <3>4. alerts'[<<e, d>>] \in {0, 1}
        BY <1>3, <2>0, <2>3, <3>2 DEF Advances
      <3> QED
        BY <3>3, <3>4
    <2> QED
      BY <2>1, <2>2, <2>3 DEF Advances
  <1> QED
    BY <1>1, <1>6, <1>7, <1>9, <1>10, <1>11

\* Quiet, a failed detector, an alert without an action and both ends of
\* WriteAction settle the result and go on.
LEMMA AdvancingSteps ==
  ASSUME IInv, Quiet \/ DetectorFails \/ WriteAction \/ (WriteAlert /\ Result \notin Acts)
  PROVE  Advances
  <1> USE DEF IInv, RunnerInv
  <1>1. AtDetector \/ (stage = "act" /\ at <= NumDetectors)
    BY DEF Quiet, DetectorFails, WriteAction, WriteAlert, HeadSettled
  <1>2. /\ Result = <<batch[1], at>> /\ Result \in Results /\ at <= NumDetectors
        /\ alerts \in [Results -> Nat]
    BY <1>1, ResultTyped, TypeParts DEF AtDetector, TypeOK
  <1>3. CASE Quiet
    BY <1>2, <1>3 DEF Quiet, AtDetector, Advances, server, redis, tables
  <1>4. CASE DetectorFails
    BY <1>2, <1>4 DEF DetectorFails, AtDetector, Advances, server, redis, tables
  <1>5. CASE WriteAction
    BY <1>2, <1>5 DEF WriteAction, HeadSettled, Advances, server, redis
  <1>6. CASE WriteAlert /\ Result \notin Acts
    BY <1>2, <1>6 DEF WriteAlert, AtDetector, Advances, server, redis
  <1> QED
    BY <1>3, <1>4, <1>5, <1>6

\* An alert that carries an action: the action is due.
LEMMA WriteAlertKeeps ==
  ASSUME IInv, WriteAlert, Result \in Acts
  PROVE  StorageInv' /\ RunnerInv'
  <1> USE DEF IInv, RunnerInv
  <1>1. /\ Result = <<batch[1], at>> /\ Result \in Results /\ at \in Detectors
        /\ batch # <<>> /\ batch[1] \in Events /\ at <= NumDetectors
        /\ alerts \in [Results -> Nat]
    BY ResultTyped, TypeParts DEF WriteAlert, AtDetector, TypeOK
  <1>2. PICK h \in Events : h = batch[1]
    BY <1>1
  <1>3. /\ stage = "detect" /\ stage' = "act" /\ alerts' = [alerts EXCEPT ![<<h, at>>] = @ + 1]
        /\ UNCHANGED <<current, stored, backlog, pel, acked, gone, batch, at, actions, skipped>>
    BY <1>1, <1>2 DEF WriteAlert, AtDetector, server, redis
  <1>4. /\ Elements(batch)' = Elements(batch) /\ NoRepeat(batch)' = NoRepeat(batch)
        /\ h \in Elements(batch) /\ h \in pel
    BY <1>1, <1>2, <1>3, TailElements DEF Elements, NoRepeat, TypeOK, BatchPending
  <1>5. alerts[<<h, at>>] = 0 /\ alerts'[<<h, at>>] = 1
    BY <1>1, <1>2, <1>3, <1>4 DEF AlertsBehind, TypeOK
  <1>6. \A e \in Events, d \in Detectors : <<e, d>> # <<h, at>> => alerts'[<<e, d>>] = alerts[<<e, d>>]
    <2> SUFFICES ASSUME NEW e \in Events, NEW d \in Detectors, <<e, d>> # <<h, at>>
                 PROVE  alerts'[<<e, d>>] = alerts[<<e, d>>]
      OBVIOUS
    <2>1. <<e, d>> \in Results
      BY DEF Results
    <2> QED
      BY <1>1, <1>3, <2>1
  <1>7. StorageInv'
    BY <1>3, StorageFrame
  <1>8. BatchPending'
    BY <1>3, <1>4 DEF BatchPending
  <1>9. AlertsBehind'
    <2> SUFFICES ASSUME NEW e \in Events, NEW d \in Detectors, alerts'[<<e, d>>] # 0
                 PROVE  /\ e \in pel \cup acked
                        /\ e \in Elements(batch) => e = h /\ d <= at
      BY <1>2, <1>3, <1>4 DEF AlertsBehind
    <2>1. CASE <<e, d>> = <<h, at>>
      <3>1. e = h /\ d = at
        BY <2>1
      <3> QED
        BY <1>1, <1>4, <3>1 DEF Detectors
    <2>2. CASE <<e, d>> # <<h, at>>
      BY <1>1, <1>2, <1>3, <1>6, <2>2 DEF AlertsBehind, Detectors
    <2> QED
      BY <2>1, <2>2
  <1>10. ASSUME NEW e \in Events, NEW d \in Detectors, Settled(e, d) PROVE Settled(e, d)'
    BY <1>3, <1>5, <1>6, <1>10 DEF Settled
  <1>11. HeadSettled'
    <2> SUFFICES ASSUME NEW d \in 1..(at - 1) PROVE Settled(h, d)'
      BY <1>1, <1>2, <1>3, <1>5 DEF HeadSettled
    <2>1. d \in Detectors
      BY <1>1, Constants DEF Detectors
    <2> QED
      BY <1>2, <1>3, <1>10, <2>1 DEF HeadSettled
  <1>12. AckedSettled'
    <2> SUFFICES ASSUME NEW e \in acked, NEW d \in Detectors PROVE Settled(e, d)'
      BY <1>3 DEF AckedSettled
    <2> QED
      BY <1>10 DEF AckedSettled, TypeOK
  <1>13. AtMostOne'
    <2> SUFFICES ASSUME NEW e \in Events, NEW d \in Detectors
                 PROVE  alerts'[<<e, d>>] <= 1 /\ (<<e, d>> \in actions => alerts'[<<e, d>>] = 1)
      BY <1>3 DEF AtMostOne
    <2> QED
      BY <1>5, <1>6 DEF AtMostOne
  <1> QED
    BY <1>7, <1>8, <1>9, <1>11, <1>12, <1>13

LEMMA AckEntryKeeps == ASSUME IInv, AckEntry PROVE StorageInv' /\ RunnerInv'
  <1> USE DEF IInv, RunnerInv
  <1>1. /\ batch # <<>> /\ stage = "detect" /\ at = NumDetectors + 1 /\ stage' = "sigma"
        /\ Ack(Head(batch))
        /\ UNCHANGED <<current, stored, backlog, gone, batch, alerts, actions, skipped>>
    BY DEF AckEntry, AllDetectorsRan, server, tables
  <1>2. /\ Head(batch) = batch[1] /\ batch[1] \in Events /\ batch[1] \in Elements(batch)
        /\ Len(batch) \in Nat /\ 1 \in 1..Len(batch)
    BY <1>1, TailElements DEF TypeOK
  <1>3. PICK h \in Events : h = batch[1]
    BY <1>2
  <1>4. h \in pel /\ pel' = pel \ {h} /\ acked' = acked \cup {h}
    BY <1>1, <1>2, <1>3 DEF Ack, BatchPending
  <1>5. StorageInv'
    BY <1>1, <1>2, <1>3, <1>4, AckKeeps
  <1>6. Elements(batch)' = Elements(batch) /\ NoRepeat(batch)' = NoRepeat(batch)
    BY <1>1 DEF Elements, NoRepeat
  <1>7. BatchPending'
    <2>1. \A i \in 1..Len(batch) : i # 1 => batch[i] \in pel /\ batch[i] # h
      BY <1>1, <1>2, <1>3 DEF BatchPending, NoRepeat
    <2> QED
      BY <1>1, <1>3, <1>4, <1>6, <2>1 DEF BatchPending
  <1>8. AlertsBehind'
    BY <1>1, <1>4, <1>6 DEF AlertsBehind
  <1>9. AckedSettled'
    <2> SUFFICES ASSUME NEW e \in acked', NEW d \in Detectors PROVE Settled(e, d)
      BY <1>1 DEF AckedSettled, Settled
    <2>1. CASE e = h
      <3>1. d \in 1..(at - 1)
        BY <1>1, Constants DEF Detectors
      <3> QED
        BY <1>1, <1>3, <2>1, <3>1 DEF HeadSettled
    <2>2. CASE e # h
      BY <1>4, <2>2 DEF AckedSettled
    <2> QED
      BY <2>1, <2>2
  <1>10. HeadSettled' /\ AtMostOne'
    BY <1>1 DEF HeadSettled, AtMostOne
  <1> QED
    BY <1>5, <1>7, <1>8, <1>9, <1>10

LEMMA SigmaKeeps == ASSUME IInv, Sigma PROVE StorageInv' /\ RunnerInv'
  <1> USE DEF IInv, RunnerInv
  <1>1. /\ batch # <<>> /\ stage = "sigma" /\ stage' = "load" /\ batch' = Tail(batch)
        /\ UNCHANGED <<current, stored, backlog, pel, acked, gone, alerts, actions, skipped>>
    BY DEF Sigma, BatchPending, server, redis
  <1>2. /\ Len(Tail(batch)) = Len(batch) - 1 /\ Len(batch) \in Nat
        /\ \A i \in 1..Len(Tail(batch)) : Tail(batch)[i] = batch[i + 1] /\ i + 1 \in 1..Len(batch)
        /\ Elements(Tail(batch)) \subseteq Elements(batch)
        /\ NoRepeat(Tail(batch)) /\ batch[1] \notin Elements(Tail(batch))
    BY <1>1, TailElements DEF TypeOK, BatchPending
  <1>3. StorageInv'
    BY <1>1, StorageFrame
  <1>4. Elements(batch)' = Elements(Tail(batch)) /\ NoRepeat(batch)' = NoRepeat(Tail(batch))
    BY <1>1 DEF Elements, NoRepeat
  <1>5. BatchPending'
    <2>1. \A i \in 1..Len(batch') : batch'[i] \in pel'
      BY <1>1, <1>2 DEF BatchPending
    <2> QED
      BY <1>1, <1>2, <1>4, <2>1 DEF BatchPending
  <1>6. AlertsBehind'
    BY <1>1, <1>2, <1>4 DEF AlertsBehind
  <1>7. HeadSettled' /\ AckedSettled' /\ AtMostOne'
    BY <1>1 DEF HeadSettled, AckedSettled, Settled, AtMostOne
  <1> QED
    BY <1>3, <1>5, <1>6, <1>7
--------------------------------------------------------------------------
(* Theorems.                                                               *)

LEMMA StepInv == IInv /\ [Next]_vars => IInv'
  <1> SUFFICES ASSUME IInv, [Next]_vars PROVE IInv'
    OBVIOUS
  <1>0. TypeOK /\ Publishing /\ StorageInv /\ RunnerInv /\ BatchPending /\ HeadSettled
    BY DEF IInv, RunnerInv
  <1>1. ASSUME TypeOK', Publishing', Outside PROVE IInv'
    BY <1>0, <1>1, RunnerFrame, StorageFrame DEF Outside, IInv
  <1>2. CASE UNCHANGED vars
    <2>1. Outside /\ Publishing'
      BY <1>0, <1>2 DEF vars, server, redis, runner, tables, agent, Outside, Publishing
    <2>2. TypeOK'
      BY <1>0, <1>2, TypeParts, TypeFrame DEF vars, agent, net, server, redis, runner, tables
    <2> QED
      BY <1>1, <2>1, <2>2
  <1>3. CASE Dial \/ SendHello \/ Send \/ AgentNotices
             \/ (\E e \in Events : Redeliver(e)) \/ (\E c \in Conns : LinkLoss(c))
    BY <1>0, <1>1, <1>3, AgentSteps
  <1>4. ASSUME NEW c \in Conns, ReadHello(c) \/ HandlerEnds(c) \/ PersistRaises(c) \/ PersistEvent(c)
        PROVE  IInv'
    <2>1. TypeOK' /\ Publishing' /\ (Outside \/ Stores(c) \/ StoresUnpublished)
      BY <1>0, <1>4, HandlerSteps
    <2>2. CASE Stores(c)
      BY <1>0, <2>1, <2>2, StoresKeeps, RunnerFrame DEF Stores, IInv
    <2>3. CASE StoresUnpublished
      BY <1>0, <2>1, <2>3, StoresUnpublishedKeeps, RunnerFrame DEF StoresUnpublished, IInv
    <2> QED
      BY <1>1, <2>1, <2>2, <2>3
  <1>5. ASSUME NEW c \in Conns, Publish(c) \/ PublishRaises(c) PROVE IInv'
    <2>1. UNCHANGED <<batch, stage, at, pel, acked, alerts, actions, skipped>>
      BY <1>5 DEF Publish, PublishRaises, redis, runner, tables
    <2> QED
      BY <1>0, <1>5, <2>1, PublishSteps, PublishKeeps, RunnerFrame DEF IInv
  <1>6. CASE RunnerStep
    <2>1. TypeOK' /\ UNCHANGED <<handler, current, dials>>
      BY <1>0, <1>6, RunnerTypes
    <2>2. Publishing'
      BY <1>0, <2>1 DEF Publishing
    <2>3. StorageInv' /\ RunnerInv'
      BY <1>6, ReadBatchKeeps, LoadKeeps, LoadFailsKeeps, AdvancingSteps, AdvancesKeeps,
         WriteAlertKeeps, AckEntryKeeps, SigmaKeeps DEF RunnerStep
    <2> QED
      BY <2>1, <2>2, <2>3 DEF IInv
  <1>7. CASE ServerStops \/ ServerStarts
    BY <1>0, <1>1, <1>7, ServerSteps, StopKeeps DEF IInv
  <1> QED
    BY <1>2, <1>3, <1>4, <1>5, <1>6, <1>7 DEF Next, Handler, Runner, RunnerStep

LEMMA Inductive == Spec => []IInv
  BY InitInv, StepInv, PTL DEF Spec

\* Every variable of the pipeline keeps its type.
THEOREM TypeCorrect == Spec => []TypeOK
  BY Inductive, PTL DEF IInv

\* However often an event is delivered and whenever the server restarts,
\* _process_one writes at most one alert for a detector's result, and an
\* action only for a written alert.
THEOREM AlertsAreUnique == Spec => []AlertedOnce
  <1>1. IInv => AlertedOnce
    <2> SUFFICES ASSUME IInv, NEW r \in Results
                 PROVE  alerts[r] <= 1 /\ (r \in actions => alerts[r] = 1)
      BY DEF AlertedOnce
    <2>1. PICK e \in Events, d \in Detectors : r = <<e, d>>
      BY DEF Results
    <2> QED
      BY <2>1 DEF IInv, RunnerInv, AtMostOne
  <1> QED
    BY <1>1, Inductive, PTL

\* _process_one acknowledges last: an acknowledged entry's results are alerts
\* and actions, or were dropped with a logged error.
THEOREM AckComesLast == Spec => []AckedIsEvaluated
  <1>1. IInv => AckedIsEvaluated
    <2> SUFFICES ASSUME IInv, NEW r \in Fires, r[1] \in acked, r \notin skipped
                 PROVE  alerts[r] > 0 /\ (r \in Acts => r \in actions)
      BY DEF AckedIsEvaluated
    <2>1. PICK e \in Events, d \in Detectors : r = <<e, d>>
      BY PipelineAssumption DEF Results
    <2>2. r[1] = e
      BY <2>1
    <2>3. alerts[<<e, d>>] # 0 /\ (<<e, d>> \in Acts => <<e, d>> \in actions)
      BY <2>1, <2>2 DEF IInv, RunnerInv, AckedSettled, Settled
    <2>4. alerts[r] \in Nat
      BY PipelineAssumption DEF IInv, TypeOK
    <2> QED
      BY <2>1, <2>3, <2>4
  <1> QED
    BY <1>1, Inductive, PTL

\* No stored event is lost except at the places the history variable gone
\* names, and of each there is one copy between persist_event and the ack.
THEOREM NothingStoredIsLost == Spec => []StoredIsAccounted
  <1>1. IInv => StoredIsAccounted
    <2> SUFFICES ASSUME IInv PROVE StoredIsAccounted
      OBVIOUS
    <2> USE DEF IInv, StorageInv
    <2>1. Elements(backlog) \cap (pel \cup acked \cup gone \cup {current[c] : c \in Conns}) = {}
      BY DEF OneCopy
    <2> QED
      BY <2>1 DEF OneCopy, NoneForgotten, NoRepeat, StoredIsAccounted
  <1> QED
    BY <1>1, Inductive, PTL
-----------------------------------------------------------------------------
(* The batches that come in over HTTP.                                     *)

USE IngestAssumption

\* The good records of a batch, and the rows that are inserted for them.
Good(rec) == {i \in DOMAIN rec : rec[i] = "good"}
Inserted(rec, r, t, a) == {[req |-> r, try |-> t, n |-> n, at |-> a] : n \in Good(rec)}

\* The rows of a push, and what it has published or failed to.
RowsAt(R, r, t) == {x \in R : x.req = r /\ x.try = t}
SentAt(pub, mis, r, t) == {q \in pub \cup mis : q[1] = r /\ q[2] = t}

\* A row that request r may publish.
May(x, r, t) ==
  IF KindOf[r] = "webhook" THEN x.req = r /\ x.try = t ELSE KindOf[x.req] # "webhook"

\* Rows and publications are of pushes there were.
Begun(p, tr, R, pub, mis, r) ==
  /\ tr = 0 <=> p \in {"new", "refused"}
  /\ \A x \in R : x.req = r => x.try \in 1..tr
  /\ \A q \in pub \cup mis : q[1] = r => q[2] \in 1..tr

\* A push has none of its rows before the commit and all of them after it; one
\* that has failed has all or none.
AllOrNone(p, rec, tr, bg, R, r) ==
  /\ p \in {"begun", "locked"} => RowsAt(R, r, tr) = {}
  /\ p \in {"query", "publish", "answer", "answered"} =>
       RowsAt(R, r, tr) = Inserted(rec, r, tr, bg)
  /\ \A t \in Nat : RowsAt(R, r, t) = {} \/ \E a \in Nat : RowsAt(R, r, t) = Inserted(rec, r, t, a)

\* What is sent and what is still to be sent make up the number of good records.
Adds(rec, td, done) ==
  /\ IsFiniteSet(td) /\ IsFiniteSet(done)
  /\ \A q \in done : q[3] \notin td
  /\ Cardinality(done) + Cardinality(td) = Cardinality(Good(rec))

Sending(p, rec, tr, td, R, pub, mis, r) ==
  /\ p \in {"begun", "locked", "query"} => SentAt(pub, mis, r, tr) = {}
  /\ p = "publish" => /\ td \subseteq R /\ \A x \in td : May(x, r, tr)
                      /\ Adds(rec, td, SentAt(pub, mis, r, tr))
  /\ p \in {"answer", "answered"} =>
       Cardinality(SentAt(pub, mis, r, tr)) = Cardinality(Good(rec))

Request(p, rec, tr, bg, td, R, pub, mis, r) ==
  /\ IsFiniteSet(DOMAIN rec)
  /\ Begun(p, tr, R, pub, mis, r)
  /\ AllOrNone(p, rec, tr, bg, R, r)
  /\ Sending(p, rec, tr, td, R, pub, mis, r)

\* What was published was stored, by the batch itself where its ids were asked for.
Sound(pub, mis, R) == \A q \in pub \cup mis : q[3] \in R /\ May(q[3], q[1], q[2])

\* An audit entry is that of the last push of a batch that is answered.
Audited(au, p, rec, tr) ==
  \A e \in au : /\ p[e.req] = "answered" /\ e.try = tr[e.req]
                /\ e.accepted = Cardinality(Good(rec[e.req]))

PushInv ==
  /\ PushTypeOK
  /\ IsFiniteSet(rows)
  /\ \A r \in Requests : Request(pc[r], records[r], tries[r], began[r], todo[r],
                                 rows, published, missed, r)
  /\ Sound(published, missed, rows)
  /\ Audited(audit, pc, records, tries)

\* One row is inserted for each good record.
LEMMA InsertedCount ==
  ASSUME NEW rec, NEW r, NEW t, NEW a, IsFiniteSet(DOMAIN rec)
  PROVE  /\ IsFiniteSet(Inserted(rec, r, t, a)) /\ IsFiniteSet(Good(rec))
         /\ Cardinality(Inserted(rec, r, t, a)) = Cardinality(Good(rec))
         /\ Cardinality(Good(rec)) \in Nat
  <1> DEFINE f == [n \in Good(rec) |-> [req |-> r, try |-> t, n |-> n, at |-> a]]
             G == Good(rec)
             I == Inserted(rec, r, t, a)
  <1>1. IsFiniteSet(G)
    <2>1. G \subseteq DOMAIN rec
      BY DEF Good
    <2> HIDE DEF G
    <2> QED
      BY <2>1, FS_Subset
  <1>2. \A x, y \in G : f[x] = f[y] => x = y
    <2> SUFFICES ASSUME NEW x \in G, NEW y \in G, f[x] = f[y] PROVE x = y
      OBVIOUS
    <2>1. f[x].n = x /\ f[y].n = y
      OBVIOUS
    <2> QED
      BY <2>1
  <1>3. f \in [G -> I] /\ \A z \in I : \E x \in G : f[x] = z
    BY DEF Inserted
  <1>4. f \in Bijection(G, I)
    <2> HIDE DEF f, G, I
    <2>1. DOMAIN f = G
      BY <1>3
    <2> QED
      BY <1>2, <1>3, <2>1 DEF Bijection, Injection, Surjection, IsInjective
  <1> HIDE DEF f, G, I
  <1>5. ExistsBijection(G, I)
    BY <1>4 DEF ExistsBijection
  <1>6. IsFiniteSet(I) /\ Cardinality(I) = Cardinality(G)
    BY <1>1, <1>5, FS_Bijection
  <1>7. Cardinality(G) \in Nat
    BY <1>1, FS_CardinalityType
  <1> QED
    BY <1>1, <1>6, <1>7 DEF G, I

\* What another request stores and publishes leaves this one alone.
LEMMA OthersKept ==
  ASSUME NEW p, NEW rec, NEW tr, NEW bg, NEW td, NEW R, NEW pub, NEW mis, NEW r,
         NEW R2, NEW pub2, NEW mis2,
         Request(p, rec, tr, bg, td, R, pub, mis, r),
         R \subseteq R2, pub \subseteq pub2, mis \subseteq mis2,
         \A x \in R2 : x \notin R => x.req # r,
         \A q \in pub2 : q \notin pub => q[1] # r,
         \A q \in mis2 : q \notin mis => q[1] # r
  PROVE  Request(p, rec, tr, bg, td, R2, pub2, mis2, r)
  <1>1. \A t : RowsAt(R2, r, t) = RowsAt(R, r, t)
    BY DEF RowsAt
  <1>2. \A t : SentAt(pub2, mis2, r, t) = SentAt(pub, mis, r, t)
    BY DEF SentAt
  <1>3. Begun(p, tr, R2, pub2, mis2, r)
    BY DEF Request, Begun
  <1>4. AllOrNone(p, rec, tr, bg, R2, r)
    BY <1>1 DEF Request, AllOrNone
  <1>5. Sending(p, rec, tr, td, R2, pub2, mis2, r)
    BY <1>2 DEF Request, Sending
  <1> QED
    BY <1>3, <1>4, <1>5 DEF Request

LEMMA PushStart ==
  ASSUME PushInit
  PROVE  PushInv
  <1> USE DEF PushInit
  <1>1. PushTypeOK
    BY DEF PushTypeOK, Items
  <1>2. IsFiniteSet({}) /\ IsFiniteSet(rows)
    BY FS_EmptySet
  <1>3. ASSUME NEW r \in Requests
        PROVE  Request(pc[r], records[r], tries[r], began[r], todo[r],
                       rows, published, missed, r)
    <2>1. DOMAIN records[r] = {}
      OBVIOUS
    <2>2. \A t : RowsAt(rows, r, t) = {} /\ SentAt(published, missed, r, t) = {}
      BY DEF RowsAt, SentAt
    <2> QED
      BY <1>2, <2>1, <2>2 DEF Request, Begun, AllOrNone, Sending
  <1>4. Sound(published, missed, rows) /\ Audited(audit, pc, records, tries)
    BY DEF Sound, Audited
  <1> QED
    BY <1>1, <1>2, <1>3, <1>4 DEF PushInv

\* A step of request s: what it changes of the others' state is nothing.
Moves(s) ==
  /\ \A r \in Requests : r # s =>
       /\ pc'[r] = pc[r] /\ records'[r] = records[r] /\ tries'[r] = tries[r]
       /\ began'[r] = began[r] /\ todo'[r] = todo[r]
  /\ rows \subseteq rows' /\ published \subseteq published' /\ missed \subseteq missed'
  /\ \A x \in rows' : x \notin rows => x.req = s
  /\ \A q \in published' : q \notin published => q[1] = s
  /\ \A q \in missed' : q \notin missed => q[1] = s

LEMMA OneMoves ==
  ASSUME PushInv, NEW s \in Requests, Moves(s),
         Request(pc'[s], records'[s], tries'[s], began'[s], todo'[s],
                 rows', published', missed', s)
  PROVE  \A r \in Requests : Request(pc'[r], records'[r], tries'[r], began'[r], todo'[r],
                                     rows', published', missed', r)
  <1> SUFFICES ASSUME NEW r \in Requests, r # s
               PROVE  Request(pc[r], records[r], tries[r], began[r], todo[r],
                              rows', published', missed', r)
    BY DEF Moves
  <1>1. Request(pc[r], records[r], tries[r], began[r], todo[r], rows, published, missed, r)
    BY DEF PushInv
  <1>2. /\ rows \subseteq rows' /\ published \subseteq published' /\ missed \subseteq missed'
        /\ \A x \in rows' : x \notin rows => x.req # r
        /\ \A q \in published' : q \notin published => q[1] # r
        /\ \A q \in missed' : q \notin missed => q[1] # r
    BY DEF Moves
  <1> QED
    BY <1>1, <1>2, OthersKept

\* A batch that is not answered yet has no audit entry.
LEMMA AuditKept ==
  ASSUME PushInv, NEW s \in Requests, Moves(s), pc[s] # "answered", audit' = audit
  PROVE  Audited(audit', pc', records', tries')
  <1>1. \A e \in audit : e.req \in Requests /\ e.req # s
    BY DEF PushInv, Audited, PushTypeOK
  <1> QED
    BY <1>1 DEF PushInv, Audited, Moves

\* Stored rows stay, so what was published stays sound.
LEMMA SoundKept ==
  ASSUME PushInv, rows \subseteq rows', published' = published, missed' = missed
  PROVE  Sound(published', missed', rows')
  BY DEF PushInv, Sound

\* The invariant as it stands after a step.
Later ==
  /\ PushTypeOK'
  /\ IsFiniteSet(rows')
  /\ \A r \in Requests : Request(pc'[r], records'[r], tries'[r], began'[r], todo'[r],
                                 rows', published', missed', r)
  /\ Sound(published', missed', rows')
  /\ Audited(audit', pc', records', tries')

\* Only the position of a request changes, from one of the steps in which its
\* transaction is open.
LEMMA OnlyPc ==
  ASSUME PushInv, NEW s \in Requests, NEW l,
         pc' = [pc EXCEPT ![s] = l],
         UNCHANGED <<records, tries, began, todo, rows, published, missed, audit>>,
         pc[s] # "answered", PushTypeOK',
         Request(l, records[s], tries[s], began[s], todo[s], rows, published, missed, s)
  PROVE  Later
  <1>1. Moves(s)
    BY DEF Moves, PushInv, PushTypeOK
  <1>2. pc'[s] = l
    BY DEF PushInv, PushTypeOK
  <1>3. Request(pc'[s], records'[s], tries'[s], began'[s], todo'[s],
                rows', published', missed', s)
    BY <1>2
  <1>4. Audited(audit', pc', records', tries')
    BY <1>1, AuditKept
  <1>5. Sound(published', missed', rows') /\ IsFiniteSet(rows')
    BY SoundKept DEF PushInv
  <1> QED
    BY <1>1, <1>3, <1>4, <1>5, OneMoves DEF Later

LEMMA BeginStep ==
  ASSUME PushInv, NEW s \in Requests, NEW b \in Bodies, NEW recs,
         recs \in [DOMAIN recs -> {"good", "bad"}], DOMAIN recs \subseteq Nat \ {0},
         IsFiniteSet(DOMAIN recs), Begin(s, b, recs)
  PROVE  Later
  <1> USE DEF Begin
  <1>0. b.items \in Seq(Items)
    BY DEF IngestConstants
  <1>1. PushTypeOK'
    BY <1>0 DEF PushInv, PushTypeOK
  <1>2. Moves(s)
    BY DEF Moves, PushInv, PushTypeOK
  <1>3. /\ pc'[s] = "begun" /\ records'[s] = recs /\ tries'[s] = 1
        /\ rows' = rows /\ published' = published /\ missed' = missed
    BY DEF PushInv, PushTypeOK
  <1>4. /\ \A x \in rows : x.req # s
        /\ \A q \in published \cup missed : q[1] # s
    <2>1. Begun(pc[s], tries[s], rows, published, missed, s) /\ pc[s] = "new"
      BY DEF PushInv, Request
    <2>2. tries[s] = 0
      BY <2>1 DEF Begun
    <2>3. 1..tries[s] = {}
      BY <2>2
    <2> QED
      BY <2>1, <2>3 DEF Begun
  <1>5. \A t : RowsAt(rows, s, t) = {} /\ SentAt(published, missed, s, t) = {}
    BY <1>4 DEF RowsAt, SentAt
  <1>6. Request(pc'[s], records'[s], tries'[s], began'[s], todo'[s],
                rows', published', missed', s)
    BY <1>3, <1>4, <1>5 DEF Request, Begun, AllOrNone, Sending
  <1>7. Audited(audit', pc', records', tries')
    BY <1>2, AuditKept
  <1>8. Sound(published', missed', rows') /\ IsFiniteSet(rows')
    BY <1>3, SoundKept DEF PushInv
  <1> QED
    BY <1>1, <1>2, <1>6, <1>7, <1>8, OneMoves DEF Later

\* What the translators and the NDJSON reader make of a body.
LEMMA MappingsType ==
  ASSUME NEW is \in Seq(Items)
  PROVE  LET m == Mappings(is) IN
         /\ m \in [DOMAIN m -> {"good", "bad"}] /\ DOMAIN m \subseteq Nat \ {0}
         /\ IsFiniteSet(DOMAIN m)
  <1> DEFINE m == Mappings(is)
             D == DOMAIN m
  <1>1. D \subseteq 1..Len(is) /\ m \in [D -> {"good", "bad"}]
    BY DEF Mappings, Items
  <1>2. IsFiniteSet(1..Len(is))
    <2>1. 1 \in Int /\ Len(is) \in Int
      OBVIOUS
    <2> QED
      BY <2>1, FS_Interval
  <1> HIDE DEF D
  <1>3. IsFiniteSet(D) /\ D \subseteq Nat \ {0}
    BY <1>1, <1>2, FS_Subset
  <1> QED
    BY <1>1, <1>3 DEF D

LEMMA TranslateType ==
  ASSUME NEW b \in Bodies, NEW v
  PROVE  LET m == Translate(v, b) IN
         /\ m \in [DOMAIN m -> {"good", "bad"}] /\ DOMAIN m \subseteq Nat \ {0}
         /\ IsFiniteSet(DOMAIN m)
  <1> DEFINE OK(m) == /\ m \in [DOMAIN m -> {"good", "bad"}] /\ DOMAIN m \subseteq Nat \ {0}
                      /\ IsFiniteSet(DOMAIN m)
  <1>1. b.items \in Seq(Items)
    BY DEF IngestConstants
  <1>2. OK(Mappings(b.items))
    BY <1>1, MappingsType
  <1>3. OK(<<>>)
    <2>1. DOMAIN <<>> = {}
      OBVIOUS
    <2>2. IsFiniteSet({})
      BY FS_EmptySet
    <2>3. <<>> \in [{} -> {"good", "bad"}]
      OBVIOUS
    <2> QED
      BY <2>1, <2>2, <2>3
  <1>4. OK(<<"bad">>)
    <2>1. DOMAIN <<"bad">> = {1} /\ <<"bad">> \in [{1} -> {"good", "bad"}]
      OBVIOUS
    <2>2. IsFiniteSet({1})
      BY FS_Singleton
    <2> QED
      BY <2>1, <2>2
  <1>5. Translate(v, b) \in {Mappings(b.items), <<>>, <<"bad">>}
    BY DEF Translate, TranslateSplunk, TranslateElastic, TranslateSumo,
           TranslateGeneric
  <1> HIDE DEF OK
  <1>6. OK(Translate(v, b))
    BY <1>2, <1>3, <1>4, <1>5
  <1> QED
    BY <1>6 DEF OK

\* The state of one request, taken apart.
LEMMA RequestParts ==
  ASSUME PushInv, NEW s \in Requests
  PROVE  /\ IsFiniteSet(DOMAIN records[s])
         /\ Begun(pc[s], tries[s], rows, published, missed, s)
         /\ AllOrNone(pc[s], records[s], tries[s], began[s], rows, s)
         /\ Sending(pc[s], records[s], tries[s], todo[s], rows, published, missed, s)
         /\ tries[s] \in Nat /\ began[s] \in Nat
  BY DEF PushInv, Request, PushTypeOK

LEMMA ResendStep ==
  ASSUME PushInv, NEW s \in Requests, Resend(s)
  PROVE  Later
  <1> USE DEF Resend, PushFault
  <1>1. PushTypeOK'
    <2>1. tries[s] + 1 \in Nat /\ clock \in Nat /\ clock + 1 \in Nat /\ pushFaults + 1 \in Nat
      BY DEF PushInv, PushTypeOK
    <2>2. /\ tries' \in [Requests -> Nat] /\ began' \in [Requests -> Nat]
          /\ clock' \in Nat /\ pushFaults' \in Nat
      BY <2>1 DEF PushInv, PushTypeOK
    <2> QED
      BY <2>2 DEF PushInv, PushTypeOK
  <1>2. Moves(s)
    BY DEF Moves, PushInv, PushTypeOK
  <1>3. /\ pc'[s] = "begun" /\ records'[s] = records[s] /\ tries'[s] = tries[s] + 1
        /\ rows' = rows /\ published' = published /\ missed' = missed
    BY DEF PushInv, PushTypeOK
  <1>4. tries[s] \in Nat /\ Begun(pc[s], tries[s], rows, published, missed, s)
    BY RequestParts
  <1>5. Begun("begun", tries[s] + 1, rows, published, missed, s)
    <2>1. 1..tries[s] \subseteq 1..(tries[s] + 1) /\ tries[s] + 1 # 0
      BY <1>4
    <2> QED
      BY <1>4, <2>1 DEF Begun
  <1>6. RowsAt(rows, s, tries[s] + 1) = {} /\ SentAt(published, missed, s, tries[s] + 1) = {}
    <2>1. tries[s] + 1 \notin 1..tries[s]
      BY <1>4
    <2> QED
      BY <1>4, <2>1 DEF RowsAt, SentAt, Begun
  <1>7. Request(pc'[s], records'[s], tries'[s], began'[s], todo'[s],
                rows', published', missed', s)
    BY <1>3, <1>5, <1>6, RequestParts DEF Request, AllOrNone, Sending
  <1>8. Audited(audit', pc', records', tries')
    BY <1>2, AuditKept
  <1>9. Sound(published', missed', rows') /\ IsFiniteSet(rows')
    BY <1>3, SoundKept DEF PushInv
  <1> QED
    BY <1>1, <1>2, <1>7, <1>8, <1>9, OneMoves DEF Later

\* The rows of a batch are stored, and its request goes on to l.
LEMMA StoreStep ==
  ASSUME PushInv, NEW s \in Requests,
         NEW l \in {"query", "answer", "failed"}, pc[s] = "locked",
         l = "answer" => Cardinality(Good(records[s])) = 0,
         rows' = rows \cup NewRows(s), pc' = [pc EXCEPT ![s] = l],
         UNCHANGED <<records, tries, began, todo, published, missed, audit>>, PushTypeOK'
  PROVE  Later
  <1>0. NewRows(s) = Inserted(records[s], s, tries[s], began[s])
    BY DEF NewRows, GoodOnes, IsGood, Inserted, Good
  <1> DEFINE I == Inserted(records[s], s, tries[s], began[s])
  <1>1. \A x \in I : x.req = s /\ x.try = tries[s]
    BY DEF Inserted
  <1>2. rows' = rows \cup I
    BY <1>0
  <1>3. IsFiniteSet(I)
    BY InsertedCount, RequestParts
  <1> HIDE DEF I
  <1>4. Moves(s)
    BY <1>1, <1>2 DEF Moves, PushInv, PushTypeOK
  <1>5. pc'[s] = l
    BY DEF PushInv, PushTypeOK
  <1>6. tries[s] \in Nat /\ tries[s] # 0
    BY RequestParts DEF Begun
  <1>7. RowsAt(rows, s, tries[s]) = {} /\ SentAt(published, missed, s, tries[s]) = {}
    BY RequestParts DEF AllOrNone, Sending
  <1>8. RowsAt(rows', s, tries[s]) = I
    BY <1>1, <1>2, <1>7 DEF RowsAt
  <1>9. \A t : t # tries[s] => RowsAt(rows', s, t) = RowsAt(rows, s, t)
    BY <1>1, <1>2 DEF RowsAt
  <1>10. Begun(l, tries[s], rows', published, missed, s)
    <2>1. tries[s] \in 1..tries[s]
      BY <1>6
    <2> QED
      BY <1>1, <1>2, <1>6, <2>1, RequestParts DEF Begun
  <1>11. AllOrNone(l, records[s], tries[s], began[s], rows', s)
    BY <1>8, <1>9, RequestParts DEF AllOrNone, I
  <1>12. Sending(l, records[s], tries[s], todo[s], rows', published, missed, s)
    BY <1>7, FS_EmptySet DEF Sending
  <1>13. Request(pc'[s], records'[s], tries'[s], began'[s], todo'[s],
                 rows', published', missed', s)
    BY <1>5, <1>10, <1>11, <1>12, RequestParts DEF Request
  <1>14. Audited(audit', pc', records', tries')
    BY <1>4, AuditKept
  <1>15. Sound(published', missed', rows')
    BY <1>2, SoundKept
  <1>16. IsFiniteSet(rows')
    BY <1>2, <1>3, FS_Union DEF PushInv
  <1> QED
    BY <1>4, <1>13, <1>14, <1>15, <1>16, OneMoves DEF Later

\* Leaving the transaction or the read-back with an error keeps what is stored.
LEMMA FailStep ==
  ASSUME PushInv, NEW s \in Requests,
         pc[s] \in {"begun", "locked", "query"}, pc' = [pc EXCEPT ![s] = "failed"],
         UNCHANGED <<records, tries, began, todo, rows, published, missed, audit>>, PushTypeOK'
  PROVE  Later
  <1>1. Request("failed", records[s], tries[s], began[s], todo[s], rows, published, missed, s)
    BY RequestParts DEF Request, Begun, AllOrNone, Sending
  <1>2. pc[s] # "answered"
    OBVIOUS
  <1> QED
    BY <1>1, <1>2, OnlyPc

\* The rows are read back: as many as there are good records.
LEMMA ReadBackStep ==
  ASSUME PushInv, NEW s \in Requests, pc[s] = "query",
         NEW T \in SUBSET rows, Cardinality(T) = Cardinality(Good(records[s])),
         \A x \in T : May(x, s, tries[s]),
         todo' = [todo EXCEPT ![s] = T], pc' = [pc EXCEPT ![s] = "publish"],
         UNCHANGED <<records, tries, began, rows, published, missed, audit>>, PushTypeOK'
  PROVE  Later
  <1>1. Moves(s)
    BY DEF Moves, PushInv, PushTypeOK
  <1>2. pc'[s] = "publish" /\ todo'[s] = T
    BY DEF PushInv, PushTypeOK
  <1>3. IsFiniteSet(T)
    BY FS_Subset DEF PushInv
  <1>4. SentAt(published, missed, s, tries[s]) = {}
    BY RequestParts DEF Sending
  <1>5. Adds(records[s], T, {})
    <2>1. IsFiniteSet({}) /\ Cardinality({}) = 0
      BY FS_EmptySet
    <2>2. Cardinality(T) \in Nat
      BY <1>3, FS_CardinalityType
    <2> QED
      BY <1>3, <2>1, <2>2 DEF Adds
  <1>6. Sending("publish", records[s], tries[s], T, rows, published, missed, s)
    BY <1>4, <1>5 DEF Sending
  <1>7. Request(pc'[s], records'[s], tries'[s], began'[s], todo'[s],
                rows', published', missed', s)
    BY <1>2, <1>6, RequestParts DEF Request, Begun, AllOrNone
  <1>8. Audited(audit', pc', records', tries')
    BY <1>1, AuditKept
  <1>9. Sound(published', missed', rows') /\ IsFiniteSet(rows')
    BY SoundKept DEF PushInv
  <1> QED
    BY <1>1, <1>7, <1>8, <1>9, OneMoves DEF Later

\* One row of the loop is published, or its failure logged.
LEMMA SendStep ==
  ASSUME PushInv, NEW s \in Requests, NEW x \in todo[s],
         NextRow(s, x),
         \/ published' = published \cup {<<s, tries[s], x>>} /\ missed' = missed
         \/ missed' = missed \cup {<<s, tries[s], x>>} /\ published' = published,
         PushTypeOK'
  PROVE  Later
  <1> USE DEF NextRow
  <1> DEFINE q == <<s, tries[s], x>>
             D == SentAt(published, missed, s, tries[s])
             D2 == SentAt(published', missed', s, tries[s])
             l == IF todo[s] = {x} THEN "answer" ELSE "publish"
  <1>0. q[1] = s /\ q[2] = tries[s] /\ q[3] = x
    OBVIOUS
  <1>1. published' \cup missed' = published \cup missed \cup {q}
    OBVIOUS
  <1>2. /\ pc'[s] = l /\ todo'[s] = todo[s] \ {x} /\ pc[s] = "publish"
        /\ records' = records /\ tries' = tries /\ began' = began /\ rows' = rows
        /\ audit' = audit
    BY DEF PushInv, PushTypeOK
  <1>3. /\ todo[s] \subseteq rows /\ \A y \in todo[s] : May(y, s, tries[s])
        /\ Adds(records[s], todo[s], D)
    BY RequestParts DEF Sending
  <1> HIDE DEF q
  <1>4. Moves(s)
    BY <1>0, <1>2 DEF Moves, PushInv, PushTypeOK, q
  <1>5. D2 = D \cup {q} /\ q \notin D
    BY <1>0, <1>1, <1>3 DEF SentAt, Adds
  <1>6. Adds(records[s], todo[s] \ {x}, D2)
    <2> DEFINE td == todo[s]
               n == Cardinality(Good(records[s]))
    <2>1. IsFiniteSet(td) /\ IsFiniteSet(D) /\ Cardinality(D) + Cardinality(td) = n
      BY <1>3 DEF Adds
    <2>2. \A p \in D2 : p[3] \notin td \ {x}
      BY <1>0, <1>3, <1>5 DEF Adds
    <2> HIDE DEF D, D2, td, n
    <2>3. Cardinality(D) \in Nat /\ Cardinality(td) \in Nat
      BY <2>1, FS_CardinalityType
    <2>4. IsFiniteSet(td \ {x}) /\ Cardinality(td \ {x}) = Cardinality(td) - 1
      <3>1. x \in td
        BY DEF td
      <3> QED
        BY <2>1, <3>1, FS_RemoveElement
    <2>5. IsFiniteSet(D2) /\ Cardinality(D2) = Cardinality(D) + 1
      BY <1>5, <2>1, FS_AddElement
    <2>6. Cardinality(D2) + Cardinality(td \ {x}) = n
      BY <2>1, <2>3, <2>4, <2>5
    <2> QED
      BY <2>2, <2>4, <2>5, <2>6 DEF Adds, td, n
  <1>7. Sending(l, records[s], tries[s], todo[s] \ {x}, rows, published', missed', s)
    <2>1. CASE todo[s] = {x}
      <3>1. todo[s] \ {x} = {} /\ l = "answer"
        BY <2>1
      <3>2. Cardinality(D2) + Cardinality({}) = Cardinality(Good(records[s])) /\ IsFiniteSet(D2)
        BY <1>6, <3>1 DEF Adds
      <3>3. Cardinality({}) = 0 /\ Cardinality(D2) \in Nat
        <4> HIDE DEF D2
        <4> QED
          BY <3>2, FS_EmptySet, FS_CardinalityType
      <3>4. Cardinality(D2) = Cardinality(Good(records[s]))
        BY <3>2, <3>3
      <3> QED
        BY <3>1, <3>4 DEF Sending
    <2>2. CASE todo[s] # {x}
      <3>1. l = "publish"
        BY <2>2
      <3> QED
        BY <3>1, <1>3, <1>6 DEF Sending
    <2> QED
      BY <2>1, <2>2
  <1>8. Begun(l, tries[s], rows, published', missed', s)
    <2>1. tries[s] \in Nat /\ tries[s] # 0 /\ Begun(pc[s], tries[s], rows, published, missed, s)
      BY <1>2, RequestParts DEF Begun
    <2>2. tries[s] \in 1..tries[s] /\ l \notin {"new", "refused"}
      BY <2>1
    <2> QED
      BY <1>0, <1>1, <2>1, <2>2 DEF Begun
  <1>9. AllOrNone(l, records[s], tries[s], began[s], rows, s)
    BY <1>2, RequestParts DEF AllOrNone
  <1>10. Request(pc'[s], records'[s], tries'[s], began'[s], todo'[s],
                 rows', published', missed', s)
    BY <1>2, <1>7, <1>8, <1>9, RequestParts DEF Request
  <1>11. Audited(audit', pc', records', tries')
    BY <1>2, <1>4, AuditKept
  <1>12. Sound(published', missed', rows') /\ IsFiniteSet(rows')
    BY <1>0, <1>1, <1>2, <1>3 DEF PushInv, Sound
  <1> QED
    BY <1>4, <1>10, <1>11, <1>12, OneMoves DEF Later

LEMMA AnswerStep ==
  ASSUME PushInv, NEW s \in Requests, Answer(s)
  PROVE  Later
  <1> USE DEF Answer
  <1>0. Accepted(s) = Cardinality(Good(records[s])) /\ Accepted(s) \in Nat
        /\ Rejected(s) \in Nat
    <2>1. GoodOnes(s) = Good(records[s])
      BY DEF GoodOnes, IsGood, Good
    <2>2. Cardinality(Good(records[s])) \in Nat
      BY InsertedCount, RequestParts
    <2>3. IsFiniteSet(DOMAIN records[s] \ GoodOnes(s))
      BY RequestParts, FS_Difference
    <2>4. Cardinality(DOMAIN records[s] \ GoodOnes(s)) \in Nat
      BY <2>3, FS_CardinalityType
    <2> QED
      BY <2>1, <2>2, <2>4 DEF Accepted, Rejected
  <1>1. PushTypeOK'
    BY <1>0 DEF PushInv, PushTypeOK
  <1>2. Moves(s)
    BY DEF Moves, PushInv, PushTypeOK
  <1>3. pc'[s] = "answered"
    BY DEF PushInv, PushTypeOK
  <1>4. Request(pc'[s], records'[s], tries'[s], began'[s], todo'[s],
                rows', published', missed', s)
    BY <1>3, RequestParts DEF Request, Begun, AllOrNone, Sending
  <1>5. Audited(audit', pc', records', tries')
    <2>1. \A e \in audit : e.req \in Requests /\ e.req # s
      BY DEF PushInv, Audited, PushTypeOK
    <2> QED
      BY <1>0, <1>2, <1>3, <2>1 DEF PushInv, Audited, Moves
  <1>6. Sound(published', missed', rows') /\ IsFiniteSet(rows')
    BY SoundKept DEF PushInv
  <1> QED
    BY <1>1, <1>2, <1>4, <1>5, <1>6, OneMoves DEF Later

LEMMA RestartStep ==
  ASSUME PushInv, Restart
  PROVE  Later
  <1> USE DEF Restart, PushFault, InFlight
  <1>1. PushTypeOK'
    BY DEF PushInv, PushTypeOK
  <1>2. ASSUME NEW r \in Requests
        PROVE  Request(pc'[r], records'[r], tries'[r], began'[r], todo'[r],
                       rows', published', missed', r)
    BY RequestParts DEF Request, Begun, AllOrNone, Sending
  <1>3. Audited(audit', pc', records', tries')
    BY DEF PushInv, Audited, PushTypeOK
  <1>4. Sound(published', missed', rows') /\ IsFiniteSet(rows')
    BY SoundKept DEF PushInv
  <1> QED
    BY <1>1, <1>2, <1>3, <1>4 DEF Later

LEMMA PushStep ==
  ASSUME PushInv, [PushNext]_pushVars
  PROVE  PushInv'
  <1>0. SUFFICES Later
    BY DEF Later, PushInv, Request, Begun, AllOrNone, Sending, Adds, Sound, Audited, May,
           RowsAt, SentAt, Inserted, Good
  <1>1. CASE Restart
    BY <1>1, RestartStep
  <1>2. ASSUME NEW s \in Requests, ArriveWebhook(s)
        PROVE  Later
    <2>1. PICK b \in Bodies, v \in Vendors : Begin(s, b, Translate(v, b))
      BY <1>2 DEF ArriveWebhook
    <2>2. PICK m : m = Translate(v, b)
      OBVIOUS
    <2>3. /\ m \in [DOMAIN m -> {"good", "bad"}] /\ DOMAIN m \subseteq Nat \ {0}
          /\ IsFiniteSet(DOMAIN m)
      BY <2>2, TranslateType
    <2> QED
      BY <2>1, <2>2, <2>3, BeginStep
  <1>3. ASSUME NEW s \in Requests, ArriveLogpush(s)
        PROVE  Later
    <2>1. PICK b \in Bodies : Begin(s, b, Mappings(b.items))
      BY <1>3 DEF ArriveLogpush, Lines
    <2>2. PICK m : m = Mappings(b.items)
      OBVIOUS
    <2>3. b.items \in Seq(Items)
      BY DEF IngestConstants
    <2>4. /\ m \in [DOMAIN m -> {"good", "bad"}] /\ DOMAIN m \subseteq Nat \ {0}
          /\ IsFiniteSet(DOMAIN m)
      BY <2>2, <2>3, MappingsType
    <2> QED
      BY <2>1, <2>2, <2>4, BeginStep
  <1>4. ASSUME NEW s \in Requests, RefuseWebhook(s) \/ RefuseLogpush(s)
        PROVE  Later
    <2> USE <1>4 DEF RefuseWebhook, RefuseLogpush, Refuse
    <2>1. PushTypeOK'
      BY DEF PushInv, PushTypeOK
    <2>2. Request("refused", records[s], tries[s], began[s], todo[s],
                  rows, published, missed, s)
      BY RequestParts DEF Request, Begun, AllOrNone, Sending
    <2> QED
      BY <2>1, <2>2, OnlyPc
  <1>5. ASSUME NEW s \in Requests, Resend(s)
        PROVE  Later
    BY <1>5, ResendStep
  <1>6. ASSUME NEW s \in Requests, EnsureWebhookHost(s) \/ EnsureLogpushHost(s)
        PROVE  Later
    <2> USE <1>6 DEF EnsureWebhookHost, EnsureLogpushHost, LockHost
    <2>1. PushTypeOK'
      <3>1. lock' \in [Kinds -> Requests \cup {NoRequest}]
        <4>1. KindOf[s] \in Kinds
          BY DEF IngestConstants
        <4>2. lock \in [Kinds -> Requests \cup {NoRequest}]
          BY DEF PushInv, PushTypeOK
        <4> QED
          BY <4>1, <4>2
      <3>2. pc' \in [Requests -> {"new", "begun", "locked", "query", "publish", "answer",
                                 "answered", "refused", "failed", "lost"}]
        BY DEF PushInv, PushTypeOK
      <3> QED
        BY <3>1, <3>2 DEF PushInv, PushTypeOK
    <2>2. Request("locked", records[s], tries[s], began[s], todo[s],
                  rows, published, missed, s)
      BY RequestParts DEF Request, Begun, AllOrNone, Sending
    <2> QED
      BY <2>1, <2>2, OnlyPc
  <1>7. \A s \in Requests : NewRows(s) \subseteq Row
    <2> SUFFICES ASSUME NEW s \in Requests PROVE NewRows(s) \subseteq Row
      OBVIOUS
    <2>1. GoodOnes(s) \subseteq Nat
      BY DEF GoodOnes, PushInv, PushTypeOK
    <2> QED
      BY <2>1, RequestParts DEF NewRows, Row
  <1>8. \A s \in Requests : Accepted(s) = Cardinality(Good(records[s]))
                            /\ Accepted(s) \in Nat
    <2> SUFFICES ASSUME NEW s \in Requests
                 PROVE  Accepted(s) = Cardinality(Good(records[s]))
                        /\ Accepted(s) \in Nat
      OBVIOUS
    <2>1. GoodOnes(s) = Good(records[s])
      BY DEF GoodOnes, IsGood, Good
    <2>2. Cardinality(Good(records[s])) \in Nat
      BY InsertedCount, RequestParts
    <2> QED
      BY <2>1, <2>2 DEF Accepted
  <1>9. ASSUME NEW s \in Requests, Commit(s)
        PROVE  Later
    <2> USE <1>9 DEF Commit, Unlock
    <2>1. PICK l : l = IF Accepted(s) > 0 THEN "query" ELSE "answer"
      OBVIOUS
    <2>2. l \in {"query", "answer", "failed"} /\ pc' = [pc EXCEPT ![s] = l]
      BY <2>1
    <2>3. l = "answer" => Cardinality(Good(records[s])) = 0
      BY <2>1, <1>8
    <2>4. PushTypeOK'
      BY <1>7, <2>2 DEF PushInv, PushTypeOK
    <2> QED
      BY <2>2, <2>3, <2>4, StoreStep
  <1>10. ASSUME NEW s \in Requests, CommitRaises(s)
         PROVE  Later
    <2> USE <1>10 DEF CommitRaises, Unlock, PushFault
    <2>1. pushFaults' \in Nat /\ rows' \subseteq Row
      BY <1>7 DEF PushInv, PushTypeOK
    <2>2. PushTypeOK'
      BY <2>1 DEF PushInv, PushTypeOK
    <2>3. CASE rows' = rows
      BY <2>2, <2>3, FailStep
    <2>4. CASE pc[s] = "locked" /\ rows' = rows \cup NewRows(s)
      <3>1. "failed" \in {"query", "answer", "failed"} /\ "failed" # "answer"
        OBVIOUS
      <3> QED
        BY <2>2, <2>4, <3>1, StoreStep
    <2> QED
      BY <2>3, <2>4
  <1>11. ASSUME NEW s \in Requests, QueryOwn(s)
         PROVE  Later
    <2> USE <1>11 DEF QueryOwn, ReadBack
    <2>1. PICK T : T = RowsAt(rows, s, tries[s])
      OBVIOUS
    <2>2. todo' = [todo EXCEPT ![s] = T] /\ T \in SUBSET rows
      BY <2>1 DEF Own, RowsAt
    <2>3. Cardinality(T) = Cardinality(Good(records[s]))
      <3>1. T = Inserted(records[s], s, tries[s], began[s])
        BY <2>1, RequestParts DEF AllOrNone
      <3> QED
        BY <3>1, InsertedCount, RequestParts
    <2>4. \A x \in T : May(x, s, tries[s])
      BY <2>1 DEF May, RowsAt
    <2>5. PushTypeOK'
      BY <2>2 DEF PushInv, PushTypeOK
    <2> QED
      BY <2>2, <2>3, <2>4, <2>5, ReadBackStep
  <1>12. ASSUME NEW s \in Requests, QueryNewest(s)
         PROVE  Later
    <2> USE <1>12 DEF QueryNewest, ReadBack
    <2>1. PICK T \in Newest(RowsOf("cloudflare"), Accepted(s)) :
            todo' = [todo EXCEPT ![s] = T]
      OBVIOUS
    <2>2. T \in SUBSET rows /\ \A x \in T : KindOf[x.req] = "cloudflare"
      BY <2>1 DEF Newest, RowsOf
    <2>3. Cardinality(T) = Cardinality(Good(records[s]))
      <3>1. Cardinality(T) = Accepted(s)
        BY <2>1 DEF Newest
      <3> QED
        BY <3>1, <1>8
    <2>4. \A x \in T : May(x, s, tries[s])
      BY <2>2 DEF May
    <2>5. PushTypeOK'
      BY <2>1, <2>2 DEF PushInv, PushTypeOK
    <2> QED
      BY <2>1, <2>2, <2>3, <2>4, <2>5, ReadBackStep
  <1>13. ASSUME NEW s \in Requests, QueryRaises(s)
         PROVE  Later
    <2> USE <1>13 DEF QueryRaises, PushFault
    <2>1. PushTypeOK'
      BY DEF PushInv, PushTypeOK
    <2> QED
      BY <2>1, FailStep
  <1>14. ASSUME NEW s \in Requests, PublishRow(s) \/ PublishRowRaises(s)
         PROVE  Later
    <2>1. PICK x \in todo[s] :
            /\ NextRow(s, x)
            /\ \/ published' = published \cup {<<s, tries[s], x>>} /\ missed' = missed
               \/ missed' = missed \cup {<<s, tries[s], x>>} /\ published' = published
            /\ pushFaults' = pushFaults \/ PushFault
      BY <1>14 DEF PublishRow, PublishRowRaises
    <2>2. <<s, tries[s], x>> \in Publication /\ pushFaults' \in Nat
      BY <2>1 DEF PushInv, PushTypeOK, Publication, PushFault
    <2>3. published' \subseteq Publication /\ missed' \subseteq Publication
      BY <2>1, <2>2 DEF PushInv, PushTypeOK
    <2>4. PushTypeOK'
      BY <2>1, <2>2, <2>3 DEF PushInv, PushTypeOK, NextRow
    <2> QED
      BY <2>1, <2>4, SendStep
  <1>15. ASSUME NEW s \in Requests, Answer(s)
         PROVE  Later
    BY <1>15, AnswerStep
  <1>16. CASE UNCHANGED pushVars
    BY <1>16 DEF pushVars, PushInv, Later, PushTypeOK
  <1> QED
    BY <1>1, <1>2, <1>3, <1>4, <1>5, <1>6, <1>9, <1>10, <1>11, <1>12, <1>13, <1>14, <1>15,
       <1>16 DEF PushNext, Handle

LEMMA RowsAreAudited ==
  ASSUME PushInv
  PROVE  AuditMatchesRows
  <1>1. ASSUME NEW e \in audit
        PROVE  Cardinality(RowsOfTry(e.req, e.try)) = e.accepted
    <2>1. PICK r \in Requests : /\ r = e.req /\ pc[r] = "answered" /\ e.try = tries[r]
                                /\ e.accepted = Cardinality(Good(records[r]))
      BY DEF PushInv, Audited, PushTypeOK
    <2>2. RowsOfTry(e.req, e.try) = Inserted(records[r], r, tries[r], began[r])
      BY <2>1, RequestParts DEF AllOrNone, RowsAt, RowsOfTry
    <2> QED
      BY <2>1, <2>2, InsertedCount, RequestParts
  <1>2. ASSUME NEW r \in Requests, NEW t \in 1..MaxPushFaults + 1
        PROVE  Cardinality(RowsOfTry(r, t)) \in {0, Accepted(r)}
    <2>1. RowsOfTry(r, t) = RowsAt(rows, r, t) /\ t \in Nat
      BY DEF RowsOfTry, RowsAt, IngestConstants
    <2>2. Accepted(r) = Cardinality(Good(records[r]))
      BY DEF Accepted, GoodOnes, IsGood, Good
    <2>3. CASE RowsAt(rows, r, t) = {}
      BY <2>1, <2>3, FS_EmptySet
    <2>4. ASSUME NEW a \in Nat, RowsAt(rows, r, t) = Inserted(records[r], r, t, a)
          PROVE  Cardinality(RowsOfTry(r, t)) = Accepted(r)
      BY <2>1, <2>2, <2>4, InsertedCount, RequestParts
    <2> QED
      BY <2>1, <2>3, <2>4, RequestParts DEF AllOrNone
  <1> QED
    BY <1>1, <1>2 DEF AuditMatchesRows

LEMMA AnswersArePublished ==
  ASSUME PushInv
  PROVE  AnsweredIsPublished
  <1>1. ASSUME NEW e \in audit
        PROVE  /\ Cardinality(PublishedBy(e)) = e.accepted
               /\ \A p \in PublishedBy(e) :
                    /\ p[3] \in rows
                    /\ KindOf[e.req] = "webhook" => p[3].req = e.req /\ p[3].try = e.try
    <2>1. PICK r \in Requests : /\ r = e.req /\ pc[r] = "answered" /\ e.try = tries[r]
                                /\ e.accepted = Cardinality(Good(records[r]))
      BY DEF PushInv, Audited, PushTypeOK
    <2>2. PublishedBy(e) = SentAt(published, missed, r, tries[r])
      BY <2>1 DEF PublishedBy, SentAt
    <2>3. Cardinality(SentAt(published, missed, r, tries[r])) = e.accepted
      BY <2>1, RequestParts DEF Sending
    <2> QED
      BY <2>1, <2>2, <2>3 DEF PushInv, Sound, SentAt, May
  <1>2. ASSUME NEW p \in published, NEW q \in published, p[3] = q[3],
               KindOf[p[3].req] = "webhook"
        PROVE  p = q
    <2>1. p \in Requests \X Nat \X Row /\ q \in Requests \X Nat \X Row
      BY DEF PushInv, PushTypeOK, Publication
    <2>2. p[1] = p[3].req /\ p[2] = p[3].try /\ q[1] = q[3].req /\ q[2] = q[3].try
      BY <1>2 DEF PushInv, Sound, May
    <2> QED
      BY <1>2, <2>1, <2>2
  <1> QED
    BY <1>1, <1>2 DEF AnsweredIsPublished

\* Type correctness of BatchIngest, whatever is pushed and fails.
THEOREM PushTypes == PushSpec => []PushTypeOK
  <1>1. PushInv /\ [PushNext]_pushVars => PushInv'
    BY PushStep
  <1>2. PushInv => PushTypeOK
    BY DEF PushInv
  <1> QED
    BY <1>1, <1>2, PushStart, PTL DEF PushSpec

\* The ingest endpoints: an audit entry, hence a 200, stands for as many rows as
\* it says, and a push leaves all of its good records or none, for any batches
\* and whatever fails, restarts or is pushed again.
THEOREM PushesAreAudited ==
  PushSpec => []AuditMatchesRows
  <1>1. PushInit => PushInv
    BY PushStart
  <1>2. PushInv /\ [PushNext]_pushVars => PushInv'
    BY PushStep
  <1>3. PushInv => AuditMatchesRows
    BY RowsAreAudited
  <1> QED
    BY <1>1, <1>2, <1>3, PTL DEF PushSpec

\* An answered batch has published, or logged the failure of, as many stored
\* rows as it accepted; no webhook row is put into the stream twice.
THEOREM PushesArePublished ==
  PushSpec => []AnsweredIsPublished
  <1>1. PushInit => PushInv
    BY PushStart
  <1>2. PushInv /\ [PushNext]_pushVars => PushInv'
    BY PushStep
  <1>3. PushInv => AnsweredIsPublished
    BY AnswersArePublished
  <1> QED
    BY <1>1, <1>2, <1>3, PTL DEF PushSpec

\* Steps of a request that neither takes nor gives up the lock of a host.
LEMMA LockKept ==
  ASSUME PushInv, HostLockIsHeld, NEW s \in Requests, pc[s] # "locked",
         NEW l, l # "locked", pc' = [pc EXCEPT ![s] = l], lock' = lock
  PROVE  HostLockIsHeld'
  <1>1. pc \in [Requests -> {"new", "begun", "locked", "query", "publish", "answer",
                             "answered", "refused", "failed", "lost"}]
        /\ lock \in [Kinds -> Requests \cup {NoRequest}]
    BY DEF PushInv, PushTypeOK
  <1> QED
    BY <1>1 DEF HostLockIsHeld

\* A request that ends its transaction gives up the lock it had.
LEMMA LockGivenUp ==
  ASSUME PushInv, HostLockIsHeld, NEW s \in Requests,
         NEW l, l # "locked", pc' = [pc EXCEPT ![s] = l], Unlock(s)
  PROVE  HostLockIsHeld'
  <1>1. pc \in [Requests -> {"new", "begun", "locked", "query", "publish", "answer",
                             "answered", "refused", "failed", "lost"}]
        /\ lock \in [Kinds -> Requests \cup {NoRequest}]
        /\ KindOf \in [Requests -> Kinds] /\ NoRequest \notin Requests
    BY DEF PushInv, PushTypeOK, IngestConstants
  <1>2. \A k \in Kinds :
          lock'[k] = IF lock[k] = s THEN NoRequest ELSE lock[k]
    BY DEF Unlock
  <1>3. \A r \in Requests : pc'[r] = IF r = s THEN l ELSE pc[r]
    BY <1>1
  <1>4. ASSUME NEW k \in Kinds, lock'[k] # NoRequest
        PROVE  pc'[lock'[k]] = "locked" /\ KindOf[lock'[k]] = k
    <2>1. lock'[k] = lock[k] /\ lock[k] # s /\ lock[k] \in Requests
      BY <1>1, <1>2, <1>4
    <2> QED
      BY <1>3, <1>4, <2>1 DEF HostLockIsHeld
  <1>5. ASSUME NEW r \in Requests, pc'[r] = "locked"
        PROVE  lock'[KindOf[r]] = r
    <2>1. r # s /\ pc[r] = "locked"
      BY <1>3, <1>5
    <2>2. lock[KindOf[r]] = r /\ KindOf[r] \in Kinds
      BY <1>1, <2>1 DEF HostLockIsHeld
    <2> QED
      BY <1>2, <2>1, <2>2
  <1> QED
    BY <1>4, <1>5 DEF HostLockIsHeld

LEMMA LockNext ==
  ASSUME PushInv, HostLockIsHeld, [PushNext]_pushVars
  PROVE  HostLockIsHeld'
  <1>0. pc \in [Requests -> {"new", "begun", "locked", "query", "publish", "answer",
                             "answered", "refused", "failed", "lost"}]
        /\ lock \in [Kinds -> Requests \cup {NoRequest}]
        /\ KindOf \in [Requests -> Kinds] /\ NoRequest \notin Requests
    BY DEF PushInv, PushTypeOK, IngestConstants
  <1>1. CASE Restart
    BY <1>0, <1>1 DEF Restart, InFlight, HostLockIsHeld
  <1>2. ASSUME NEW s \in Requests,
               \/ ArriveWebhook(s) \/ ArriveLogpush(s) \/ RefuseWebhook(s)
               \/ RefuseLogpush(s) \/ Resend(s) \/ QueryOwn(s)
               \/ QueryNewest(s) \/ QueryRaises(s) \/ Answer(s)
               \/ PublishRow(s) \/ PublishRowRaises(s)
        PROVE  HostLockIsHeld'
    <2>1. pc[s] # "locked" /\ lock' = lock
      BY <1>2 DEF ArriveWebhook, ArriveLogpush, Begin, RefuseWebhook,
           RefuseLogpush, Refuse, Resend, QueryOwn, QueryNewest,
           ReadBack, QueryRaises, Answer, PublishRow, PublishRowRaises,
           NextRow
    <2>2. \E l : l # "locked" /\ pc' = [pc EXCEPT ![s] = l]
      <3>1. CASE PublishRow(s) \/ PublishRowRaises(s)
        BY <3>1 DEF PublishRow, PublishRowRaises, NextRow
      <3>2. CASE ~(PublishRow(s) \/ PublishRowRaises(s))
        BY <1>2, <3>2 DEF ArriveWebhook, ArriveLogpush, Begin,
             RefuseWebhook, RefuseLogpush, Refuse, Resend, QueryOwn,
             QueryNewest, ReadBack, QueryRaises, Answer
      <3> QED
        BY <3>1, <3>2
    <2> QED
      BY <2>1, <2>2, LockKept
  <1>3. ASSUME NEW s \in Requests, EnsureWebhookHost(s) \/ EnsureLogpushHost(s)
        PROVE  HostLockIsHeld'
    BY <1>0, <1>3 DEF EnsureWebhookHost, EnsureLogpushHost, LockHost,
         HostLockIsHeld
  <1>4. ASSUME NEW s \in Requests, Commit(s) \/ CommitRaises(s)
        PROVE  HostLockIsHeld'
    <2>1. \E l : l # "locked" /\ pc' = [pc EXCEPT ![s] = l]
      BY <1>4 DEF Commit, CommitRaises
    <2>2. Unlock(s)
      BY <1>4 DEF Commit, CommitRaises
    <2> QED
      BY <2>1, <2>2, LockGivenUp
  <1>5. CASE UNCHANGED pushVars
    BY <1>5 DEF pushVars, HostLockIsHeld
  <1> QED
    BY <1>1, <1>2, <1>3, <1>4, <1>5 DEF PushNext, Handle

\* The row of a synthetic host is locked by the one batch that has a
\* transaction open on it, never by one that has failed, ended or is gone.
THEOREM HostLocksAreHeld ==
  PushSpec => []HostLockIsHeld
  <1>1. PushInit => PushInv /\ HostLockIsHeld
    <2>1. PushInit => HostLockIsHeld
      BY DEF PushInit, HostLockIsHeld
    <2> QED
      BY <2>1, PushStart
  <1>2. PushInv /\ HostLockIsHeld /\ [PushNext]_pushVars
          => PushInv' /\ HostLockIsHeld'
    BY PushStep, LockNext
  <1> QED
    BY <1>1, <1>2, PTL DEF PushSpec
=============================================================================
