------------------------ MODULE CommandLoopProofs ------------------------
(***************************************************************************)
(* Proofs about CommandLoop, for any sets of hosts, actions and            *)
(* connections and any bounds; then, of the time-limited actions an agent  *)
(* carries out, the properties of Containment, which shares no variable    *)
(* with CommandLoop.                                                       *)
(***************************************************************************)
EXTENDS CommandLoop, Containment, FiniteSetTheorems, NaturalsInduction, TLAPS

\* Appending to a sequence keeps its elements and adds one at the end.
LEMMA AppendElements ==
  ASSUME NEW S, NEW s \in Seq(S), NEW e \in S
  PROVE  /\ Append(s, e) \in Seq(S)
         /\ Len(Append(s, e)) = Len(s) + 1
         /\ \A i \in 1..Len(Append(s, e)) :
              Append(s, e)[i] = IF i = Len(s) + 1 THEN e ELSE s[i]
  OBVIOUS

\* The tail of a non-empty sequence holds the elements after the first.
LEMMA TailElements ==
  ASSUME NEW S, NEW s \in Seq(S), s # <<>>
  PROVE  /\ Tail(s) \in Seq(S)
         /\ Len(Tail(s)) = Len(s) - 1
         /\ Head(s) \in S
         /\ Head(s) = s[1]
         /\ 1 \in 1..Len(s)
         /\ \A i \in 1..Len(Tail(s)) : Tail(s)[i] = s[i + 1] /\ i + 1 \in 1..Len(s)
  OBVIOUS

\* rememberApplied: below the cap the list grows by one; at the cap the oldest
\* id is dropped and the length stays.  Nothing else gets in.
LEMMA RememberElements ==
  ASSUME NEW ids \in Seq(Actions), NEW a \in Actions
  PROVE  /\ Remember(ids, a) \in Seq(Actions)
         /\ Len(ids) < AppliedCap => Remember(ids, a) = Append(ids, a)
         /\ Len(Remember(ids, a)) < AppliedCap => Len(ids) < AppliedCap
         /\ \A i \in 1..Len(Remember(ids, a)) :
              \/ Remember(ids, a)[i] = a
              \/ \E j \in 1..Len(ids) : Remember(ids, a)[i] = ids[j]
  <1>1. CASE Len(ids) >= AppliedCap
    <2>1. ids # <<>> /\ Tail(ids) \in Seq(Actions) /\ Len(Tail(ids)) = Len(ids) - 1
      BY <1>1, CommandLoopAssumption
    <2>2. PICK r : r = Remember(ids, a)
      OBVIOUS
    <2>3. PICK s \in Seq(Actions) : s = Tail(ids)
      BY <2>1
    <2>4. r = Append(s, a)
      BY <1>1, <2>2, <2>3 DEF Remember
    <2>5. /\ r \in Seq(Actions)
          /\ Len(r) = Len(s) + 1
          /\ \A i \in 1..Len(r) : r[i] = IF i = Len(s) + 1 THEN a ELSE s[i]
      BY <2>4, AppendElements
    <2>6. \A i \in 1..Len(s) : s[i] = ids[i + 1] /\ i + 1 \in 1..Len(ids)
      BY <2>1, <2>3
    <2>7. Len(ids) \in Nat /\ Len(s) = Len(ids) - 1
      BY <2>1, <2>3
    <2>9. Len(r) = Len(ids)
      BY <2>5, <2>7
    <2>8. ASSUME NEW i \in 1..Len(r)
          PROVE  r[i] = a \/ \E j \in 1..Len(ids) : r[i] = ids[j]
      BY <2>5, <2>6
    <2> QED
      BY <1>1, <2>2, <2>5, <2>7, <2>8, <2>9, CommandLoopAssumption
  <1>2. CASE Len(ids) < AppliedCap
    <2>1. Remember(ids, a) = Append(ids, a)
      BY <1>2, CommandLoopAssumption DEF Remember
    <2> QED
      BY <1>2, <2>1, AppendElements, CommandLoopAssumption
  <1> QED
    BY <1>1, <1>2, CommandLoopAssumption

\* created_at is a natural number: the actions table is finite.
LEMMA CreatedAtNat ==
  Cardinality({b \in Actions : status[b] # "absent"}) \in Nat
  BY CommandLoopAssumption, FS_Subset, FS_CardinalityType

--------------------------------------------------------------------------
\* The initial state satisfies the inductive invariant.
LEMMA InitIInv == Init => IInv
  BY CommandLoopAssumption
  DEF Init, IInv, TypeOK, RegistryEntryHasHandler, ChannelsInv, EvidenceInv,
      AppliedWasRun, MemoryInv, TickInv, BatchIsPending, Keys, Phase

\* Every step keeps the variables in their types.
LEMMA TypeStep ==
  ASSUME TypeOK, [Next]_vars
  PROVE  TypeOK'
  <1> USE DEF TypeOK, Fault, db, tick, net, agent
  <1>1. ASSUME NEW a \in Actions, WriteAction(a) PROVE TypeOK'
    BY <1>1, CreatedAtNat, CommandLoopAssumption DEF WriteAction
  <1>2. ASSUME NEW h \in Hosts, PatchAutoBlock(h) PROVE TypeOK'
    BY <1>2, CommandLoopAssumption DEF PatchAutoBlock
  <1>3. ASSUME NEW h \in Hosts, RotateSecret(h) PROVE TypeOK'
    <2>1. dbKey[h] + 1 \in Keys
      BY <1>3, CommandLoopAssumption, SMTT(30) DEF RotateSecret, Keys
    <2>2. dbKey' \in [Hosts -> Keys]
      BY <1>3, <2>1 DEF RotateSecret
    <2>3. faults' \in Nat
      BY <1>3 DEF RotateSecret
    <2> QED
      BY <1>3, <2>2, <2>3 DEF RotateSecret
  <1>4. ASSUME NEW c \in Conns, Dial(c) PROVE TypeOK'
    BY <1>4, CommandLoopAssumption DEF Dial, Phase
  <1>5. ASSUME NEW c \in Conns, Hello(c) PROVE TypeOK'
    BY <1>5, CommandLoopAssumption DEF Hello, Phase
  <1>6. ASSUME NEW c \in Conns, Register(c) PROVE TypeOK'
    BY <1>6, CommandLoopAssumption DEF Register, Phase
  <1>7. ASSUME NEW c \in Conns, ReceiveAck(c) PROVE TypeOK'
    <2> DEFINE ack == Head(toServer[c])
    <2>1. ack \in Ack /\ Tail(toServer[c]) \in Seq(Ack)
      BY <1>7, TailElements DEF ReceiveAck
    <2>2. status' \in [Actions -> {"absent", "pending", "dispatched", "applied", "failed"}]
      BY <1>7, <2>1 DEF ReceiveAck, MarkAcked, Ack
    <2>3. acked' \subseteq Actions /\ toServer' \in [Conns -> Seq(Ack)]
      BY <1>7, <2>1 DEF ReceiveAck, Ack
    <2> QED
      BY <1>7, <2>2, <2>3 DEF ReceiveAck
  <1>8. ASSUME NEW c \in Conns, PolicyClose(c) PROVE TypeOK'
    BY <1>8, CommandLoopAssumption DEF PolicyClose, Phase
  <1>9. ASSUME NEW c \in Conns, HandlerEnds(c) PROVE TypeOK'
    BY <1>9, CommandLoopAssumption DEF HandlerEnds, Phase
  <1>10. ASSUME NEW c \in Conns, Unregister(c) PROVE TypeOK'
    BY <1>10, CommandLoopAssumption DEF Unregister, Phase
  <1>11. ASSUME Tick PROVE TypeOK'
    BY <1>11, CommandLoopAssumption DEF Tick, OldestPending, Pending
  <1>12. ASSUME NEW a \in Actions, Skip(a) PROVE TypeOK'
    BY <1>12, CommandLoopAssumption DEF Skip, Current
  <1>13. ASSUME NEW a \in Actions, Send(a) PROVE TypeOK'
    <2> DEFINE k == registry[HostOf[a]]
               f == [act |-> a, key |-> snapKey[HostOf[a]]]
    <2>1. k \in Conns /\ f \in Frame
      BY <1>13, CommandLoopAssumption DEF Send, Sendable, Frame
    <2>2. Append(toAgent[k], f) \in Seq(Frame)
      BY <2>1, AppendElements
    <2>3. toAgent' \in [Conns -> Seq(Frame)]
      BY <1>13, <2>1, <2>2 DEF Send
    <2> QED
      BY <1>13, <2>3 DEF Send
  <1>14. ASSUME SendRaises PROVE TypeOK'
    BY <1>14, CommandLoopAssumption DEF SendRaises
  <1>23. ASSUME SendReturns PROVE TypeOK'
    BY <1>23, CommandLoopAssumption DEF SendReturns
  <1>15. ASSUME MarkDispatched PROVE TypeOK'
    BY <1>15, CommandLoopAssumption DEF MarkDispatched
  <1>16. ASSUME MarkRaises PROVE TypeOK'
    BY <1>16, CommandLoopAssumption DEF MarkRaises
  <1>17. ASSUME NEW h \in Hosts, Handle(h) PROVE TypeOK'
    <2> DEFINE k == agentConn[h]
               f == Head(toAgent[k])
    <2>1. k \in Conns /\ f \in Frame /\ Tail(toAgent[k]) \in Seq(Frame)
      BY <1>17, TailElements DEF Handle
    <2>2. toAgent' \in [Conns -> Seq(Frame)]
      BY <1>17, <2>1 DEF Handle
    <2>3. PICK st \in {"applied", "failed"} :
            /\ HandleFails(h, f, st) \/ HandleDuplicate(h, f, st) \/ HandleRuns(h, f, st)
            /\ toServer' = [toServer EXCEPT ![k] =
                              IF up[k] THEN Append(@, [act |-> f.act, st |-> st]) ELSE @]
      BY <1>17 DEF Handle
    <2>4. f.act \in Actions /\ [act |-> f.act, st |-> st] \in Ack
      BY <2>1 DEF Frame, Ack
    <2>5. Append(toServer[k], [act |-> f.act, st |-> st]) \in Seq(Ack)
      BY <2>1, <2>4, AppendElements
    <2>6. toServer' \in [Conns -> Seq(Ack)]
      BY <2>1, <2>3, <2>5
    <2>7. Remember(applied[h], f.act) \in Seq(Actions)
      BY <2>4, RememberElements
    <2>8. applied' \in [Hosts -> Seq(Actions)] /\ everRun' \subseteq Actions
           /\ runs' \in [Actions -> Nat] /\ effect' \subseteq Actions
      <3>1. CASE HandleFails(h, f, st) \/ HandleDuplicate(h, f, st)
        BY <3>1 DEF HandleFails, HandleDuplicate
      <3>2. CASE HandleRuns(h, f, st)
        <4>1. runs' = [runs EXCEPT ![f.act] = @ + 1]
          BY <3>2 DEF HandleRuns
        <4>2. everRun' = everRun \cup {f.act}
          BY <3>2 DEF HandleRuns
        <4>3. applied' = [applied EXCEPT ![h] = Remember(@, f.act)]
          BY <3>2 DEF HandleRuns
        <4>4. effect' \subseteq Actions
          BY <3>2, <2>4 DEF HandleRuns, TakesEffect
        <4> QED
          BY <4>1, <4>2, <4>3, <4>4, <2>4, <2>7, SMTT(30)
      <3> QED
        BY <2>3, <3>1, <3>2
    <2> QED
      BY <1>17, <2>2, <2>6, <2>8 DEF Handle
  <1>18. ASSUME NEW h \in Hosts, AgentNotices(h) PROVE TypeOK'
    BY <1>18, CommandLoopAssumption DEF AgentNotices
  <1>19. ASSUME NEW c \in Conns, LinkLoss(c) PROVE TypeOK'
    BY <1>19, CommandLoopAssumption DEF LinkLoss
  <1>20. ASSUME NEW h \in Hosts, AgentRestart(h) PROVE TypeOK'
    BY <1>20, CommandLoopAssumption DEF AgentRestart
  <1>21. ASSUME ServerRestart PROVE TypeOK'
    BY <1>21, CommandLoopAssumption DEF ServerRestart, Phase
  <1>22. CASE UNCHANGED vars
    BY <1>22, CommandLoopAssumption DEF vars, db, tick, net, agent
  <1> QED
    BY <1>1, <1>2, <1>3, <1>4, <1>5, <1>6, <1>7, <1>8, <1>9, <1>10, <1>11, <1>12, <1>13, <1>14, <1>15, <1>16, <1>17, <1>18, <1>19, <1>20, <1>21, <1>22, <1>23 DEF Next, Server, Agent, Environment

\* Only a connection past its HELLO is ever registered, and leaving clears
\* the entry.
LEMMA RegistryStep ==
  ASSUME TypeOK, RegistryEntryHasHandler, [Next]_vars
  PROVE  RegistryEntryHasHandler'
  <1> USE DEF TypeOK, RegistryEntryHasHandler, db, tick, net, agent, Fault
  <1>1. ASSUME NEW a \in Actions, WriteAction(a) PROVE RegistryEntryHasHandler'
    BY <1>1, CommandLoopAssumption DEF WriteAction
  <1>2. ASSUME NEW h \in Hosts, PatchAutoBlock(h) PROVE RegistryEntryHasHandler'
    BY <1>2, CommandLoopAssumption DEF PatchAutoBlock
  <1>3. ASSUME NEW h \in Hosts, RotateSecret(h) PROVE RegistryEntryHasHandler'
    BY <1>3, CommandLoopAssumption DEF RotateSecret
  <1>4. ASSUME NEW c \in Conns, Dial(c) PROVE RegistryEntryHasHandler'
    BY <1>4, CommandLoopAssumption, SMTT(30) DEF Dial
  <1>5. ASSUME NEW c \in Conns, Hello(c) PROVE RegistryEntryHasHandler'
    <2>1. registry' = registry
      BY <1>5 DEF Hello
    <2>2. \A d \in Conns : phase[d] \in {"serving", "closing"} => phase'[d] = phase[d]
      BY <1>5 DEF Hello
    <2>3. ASSUME NEW h \in Hosts, registry[h] # NoConn
          PROVE  /\ OwnerOf[registry[h]] = h
                 /\ phase'[registry[h]] \in {"serving", "closing"}
      <3>1. registry[h] \in Conns /\ OwnerOf[registry[h]] = h
             /\ phase[registry[h]] \in {"serving", "closing"}
        BY <2>3
      <3> QED
        BY <3>1, <2>2
    <2> QED
      BY <2>1, <2>3
  <1>6. ASSUME NEW c \in Conns, Register(c) PROVE RegistryEntryHasHandler'
    BY <1>6, CommandLoopAssumption DEF Register
  <1>7. ASSUME NEW c \in Conns, ReceiveAck(c) PROVE RegistryEntryHasHandler'
    BY <1>7, CommandLoopAssumption DEF ReceiveAck
  <1>8. ASSUME NEW c \in Conns, PolicyClose(c) PROVE RegistryEntryHasHandler'
    BY <1>8, CommandLoopAssumption DEF PolicyClose
  <1>9. ASSUME NEW c \in Conns, HandlerEnds(c) PROVE RegistryEntryHasHandler'
    BY <1>9, CommandLoopAssumption DEF HandlerEnds
  <1>10. ASSUME NEW c \in Conns, Unregister(c) PROVE RegistryEntryHasHandler'
    BY <1>10, CommandLoopAssumption DEF Unregister
  <1>11. ASSUME Tick PROVE RegistryEntryHasHandler'
    BY <1>11, CommandLoopAssumption DEF Tick
  <1>12. ASSUME NEW a \in Actions, Skip(a) PROVE RegistryEntryHasHandler'
    BY <1>12, CommandLoopAssumption DEF Skip
  <1>13. ASSUME NEW a \in Actions, Send(a) PROVE RegistryEntryHasHandler'
    BY <1>13, CommandLoopAssumption DEF Send
  <1>14. ASSUME SendRaises PROVE RegistryEntryHasHandler'
    BY <1>14, CommandLoopAssumption DEF SendRaises
  <1>23. ASSUME SendReturns PROVE RegistryEntryHasHandler'
    BY <1>23, CommandLoopAssumption DEF SendReturns
  <1>15. ASSUME MarkDispatched PROVE RegistryEntryHasHandler'
    BY <1>15, CommandLoopAssumption DEF MarkDispatched
  <1>16. ASSUME MarkRaises PROVE RegistryEntryHasHandler'
    BY <1>16, CommandLoopAssumption DEF MarkRaises
  <1>17. ASSUME NEW h \in Hosts, Handle(h) PROVE RegistryEntryHasHandler'
    BY <1>17, CommandLoopAssumption DEF Handle
  <1>18. ASSUME NEW h \in Hosts, AgentNotices(h) PROVE RegistryEntryHasHandler'
    BY <1>18, CommandLoopAssumption DEF AgentNotices
  <1>19. ASSUME NEW c \in Conns, LinkLoss(c) PROVE RegistryEntryHasHandler'
    BY <1>19, CommandLoopAssumption DEF LinkLoss
  <1>20. ASSUME NEW h \in Hosts, AgentRestart(h) PROVE RegistryEntryHasHandler'
    BY <1>20, CommandLoopAssumption DEF AgentRestart
  <1>21. ASSUME ServerRestart PROVE RegistryEntryHasHandler'
    BY <1>21, CommandLoopAssumption DEF ServerRestart
  <1>22. CASE UNCHANGED vars
    BY <1>22, CommandLoopAssumption DEF vars, db, tick, net, agent
  <1> QED
    BY <1>1, <1>2, <1>3, <1>4, <1>5, <1>6, <1>7, <1>8, <1>9, <1>10, <1>11, <1>12, <1>13, <1>14, <1>15, <1>16, <1>17, <1>18, <1>19, <1>20, <1>21, <1>22, <1>23 DEF Next, Server, Agent, Environment

\* No step moves a row of the running tick except mark_dispatched itself.
LEMMA TickStep ==
  ASSUME TypeOK, TickInv, [Next]_vars
  PROVE  TickInv'
  <1> USE DEF TypeOK, TickInv, BatchIsPending, db, tick, net, agent, Fault
  <1>1. ASSUME NEW a \in Actions, WriteAction(a) PROVE TickInv'
    BY <1>1, CommandLoopAssumption DEF WriteAction
  <1>2. ASSUME NEW h \in Hosts, PatchAutoBlock(h) PROVE TickInv'
    BY <1>2, CommandLoopAssumption DEF PatchAutoBlock
  <1>3. ASSUME NEW h \in Hosts, RotateSecret(h) PROVE TickInv'
    BY <1>3, CommandLoopAssumption DEF RotateSecret
  <1>4. ASSUME NEW c \in Conns, Dial(c) PROVE TickInv'
    BY <1>4, CommandLoopAssumption DEF Dial
  <1>5. ASSUME NEW c \in Conns, Hello(c) PROVE TickInv'
    BY <1>5, CommandLoopAssumption DEF Hello
  <1>6. ASSUME NEW c \in Conns, Register(c) PROVE TickInv'
    BY <1>6, CommandLoopAssumption DEF Register
  <1>7. ASSUME NEW c \in Conns, ReceiveAck(c) PROVE TickInv'
    <2>1. Head(toServer[c]) \in Ack
      BY <1>7, TailElements DEF ReceiveAck
    <2> QED
      BY <1>7, <2>1 DEF ReceiveAck, MarkAcked, Ack
  <1>8. ASSUME NEW c \in Conns, PolicyClose(c) PROVE TickInv'
    BY <1>8, CommandLoopAssumption DEF PolicyClose
  <1>9. ASSUME NEW c \in Conns, HandlerEnds(c) PROVE TickInv'
    BY <1>9, CommandLoopAssumption DEF HandlerEnds
  <1>10. ASSUME NEW c \in Conns, Unregister(c) PROVE TickInv'
    BY <1>10, CommandLoopAssumption DEF Unregister
  <1>11. ASSUME Tick PROVE TickInv'
    BY <1>11, CommandLoopAssumption DEF Tick, OldestPending, Pending
  <1>12. ASSUME NEW a \in Actions, Skip(a) PROVE TickInv'
    BY <1>12, CommandLoopAssumption DEF Skip, Current
  <1>13. ASSUME NEW a \in Actions, Send(a) PROVE TickInv'
    BY <1>13, CommandLoopAssumption DEF Send, Sendable, Current
  <1>14. ASSUME SendRaises PROVE TickInv'
    BY <1>14, CommandLoopAssumption DEF SendRaises
  <1>23. ASSUME SendReturns PROVE TickInv'
    BY <1>23, CommandLoopAssumption DEF SendReturns
  <1>15. ASSUME MarkDispatched PROVE TickInv'
    BY <1>15, CommandLoopAssumption DEF MarkDispatched
  <1>16. ASSUME MarkRaises PROVE TickInv'
    BY <1>16, CommandLoopAssumption DEF MarkRaises
  <1>17. ASSUME NEW h \in Hosts, Handle(h) PROVE TickInv'
    BY <1>17, CommandLoopAssumption DEF Handle
  <1>18. ASSUME NEW h \in Hosts, AgentNotices(h) PROVE TickInv'
    BY <1>18, CommandLoopAssumption DEF AgentNotices
  <1>19. ASSUME NEW c \in Conns, LinkLoss(c) PROVE TickInv'
    BY <1>19, CommandLoopAssumption DEF LinkLoss
  <1>20. ASSUME NEW h \in Hosts, AgentRestart(h) PROVE TickInv'
    BY <1>20, CommandLoopAssumption DEF AgentRestart
  <1>21. ASSUME ServerRestart PROVE TickInv'
    BY <1>21, CommandLoopAssumption DEF ServerRestart
  <1>22. CASE UNCHANGED vars
    BY <1>22, CommandLoopAssumption DEF vars, db, tick, net, agent
  <1> QED
    BY <1>1, <1>2, <1>3, <1>4, <1>5, <1>6, <1>7, <1>8, <1>9, <1>10, <1>11, <1>12, <1>13, <1>14, <1>15, <1>16, <1>17, <1>18, <1>19, <1>20, <1>21, <1>22, <1>23 DEF Next, Server, Agent, Environment

\* A frame is sent only as a record of Frame: its action is an action.
LEMMA FramesTyped ==
  ASSUME TypeOK
  PROVE  \A d \in Conns : \A i \in 1..Len(toAgent[d]) : toAgent[d][i].act \in Actions
  <1> SUFFICES ASSUME NEW d \in Conns, NEW i \in 1..Len(toAgent[d])
               PROVE  toAgent[d][i].act \in Actions
    OBVIOUS
  <1>1. toAgent[d] \in Seq(Frame)
    BY DEF TypeOK
  <1>2. toAgent[d][i] \in Frame
    BY <1>1
  <1> QED
    BY <1>2 DEF Frame

\* A command goes out only on a connection of its action's host, for a row
\* that exists; rows never disappear.
LEMMA ChannelsStep ==
  ASSUME TypeOK, RegistryEntryHasHandler, TickInv, ChannelsInv, [Next]_vars
  PROVE  ChannelsInv'
  <1> USE DEF TypeOK, ChannelsInv, db, tick, net, agent, Fault
  <1>1. ASSUME NEW a \in Actions, WriteAction(a) PROVE ChannelsInv'
    <2>1. \A b \in Actions : status[b] # "absent" => status'[b] # "absent"
      BY <1>1 DEF WriteAction
    <2>2. toAgent' = toAgent /\ agentConn' = agentConn
      BY <1>1 DEF WriteAction
    <2>3. \A d \in Conns : \A i \in 1..Len(toAgent[d]) : toAgent[d][i].act \in Actions
      BY FramesTyped
    <2> QED
      BY <2>1, <2>2, <2>3
  <1>2. ASSUME NEW h \in Hosts, PatchAutoBlock(h) PROVE ChannelsInv'
    BY <1>2, CommandLoopAssumption DEF PatchAutoBlock
  <1>3. ASSUME NEW h \in Hosts, RotateSecret(h) PROVE ChannelsInv'
    BY <1>3, CommandLoopAssumption DEF RotateSecret
  <1>4. ASSUME NEW c \in Conns, Dial(c) PROVE ChannelsInv'
    BY <1>4, CommandLoopAssumption, SMTT(30) DEF Dial
  <1>5. ASSUME NEW c \in Conns, Hello(c) PROVE ChannelsInv'
    BY <1>5, CommandLoopAssumption DEF Hello
  <1>6. ASSUME NEW c \in Conns, Register(c) PROVE ChannelsInv'
    BY <1>6, CommandLoopAssumption DEF Register
  <1>7. ASSUME NEW c \in Conns, ReceiveAck(c) PROVE ChannelsInv'
    <2>1. Head(toServer[c]) \in Ack
      BY <1>7, TailElements DEF ReceiveAck
    <2>2. \A b \in Actions : status[b] # "absent" => status'[b] # "absent"
      BY <1>7, <2>1 DEF ReceiveAck, MarkAcked, Ack
    <2>3. toAgent' = toAgent /\ agentConn' = agentConn
      BY <1>7 DEF ReceiveAck
    <2>4. \A d \in Conns : \A i \in 1..Len(toAgent[d]) : toAgent[d][i].act \in Actions
      BY FramesTyped
    <2> QED
      BY <2>2, <2>3, <2>4
  <1>8. ASSUME NEW c \in Conns, PolicyClose(c) PROVE ChannelsInv'
    BY <1>8, CommandLoopAssumption DEF PolicyClose
  <1>9. ASSUME NEW c \in Conns, HandlerEnds(c) PROVE ChannelsInv'
    BY <1>9, CommandLoopAssumption DEF HandlerEnds
  <1>10. ASSUME NEW c \in Conns, Unregister(c) PROVE ChannelsInv'
    BY <1>10, CommandLoopAssumption DEF Unregister
  <1>11. ASSUME Tick PROVE ChannelsInv'
    BY <1>11, CommandLoopAssumption DEF Tick
  <1>12. ASSUME NEW a \in Actions, Skip(a) PROVE ChannelsInv'
    BY <1>12, CommandLoopAssumption DEF Skip
  <1>13. ASSUME NEW a \in Actions, Send(a) PROVE ChannelsInv'
    <2> DEFINE k == registry[HostOf[a]]
               f == [act |-> a, key |-> snapKey[HostOf[a]]]
    <2>1. /\ k \in Conns /\ f \in Frame /\ OwnerOf[k] = HostOf[a]
          /\ status[a] # "absent"
      BY <1>13, CommandLoopAssumption
      DEF Send, Sendable, Current, Frame, RegistryEntryHasHandler, TickInv, BatchIsPending
    <2>2. /\ Append(toAgent[k], f) \in Seq(Frame)
          /\ \A i \in 1..Len(Append(toAgent[k], f)) :
               Append(toAgent[k], f)[i] = IF i = Len(toAgent[k]) + 1 THEN f ELSE toAgent[k][i]
          /\ Len(Append(toAgent[k], f)) = Len(toAgent[k]) + 1
      BY <2>1, AppendElements, SMTT(30)
    <2>3. /\ status' = status /\ agentConn' = agentConn
          /\ toAgent' = [toAgent EXCEPT ![k] = IF up[k] THEN Append(@, f) ELSE @]
      BY <1>13 DEF Send
    <2>4. ASSUME NEW d \in Conns, NEW i \in 1..Len(toAgent'[d])
          PROVE  /\ HostOf[toAgent'[d][i].act] = OwnerOf[d]
                 /\ status[toAgent'[d][i].act] # "absent"
      <3>1. CASE d = k /\ up[k]
        <4>1. toAgent'[d] = Append(toAgent[k], f)
          BY <3>1, <2>1, <2>3
        <4>2. CASE i = Len(toAgent[k]) + 1
          BY <4>1, <4>2, <2>1, <2>2, <3>1
        <4>3. CASE i # Len(toAgent[k]) + 1
          <5>1. i \in 1..Len(toAgent[k]) /\ toAgent'[d][i] = toAgent[k][i]
            BY <4>1, <4>3, <2>2, <2>1
          <5> QED
            BY <5>1, <3>1, <2>1, SMTT(30)
        <4> QED
          BY <4>2, <4>3
      <3>2. CASE ~(d = k /\ up[k])
        <4>1. toAgent'[d] = toAgent[d]
          BY <3>2, <2>1, <2>3
        <4> QED
          BY <4>1
      <3> QED
        BY <3>1, <3>2
    <2>5. \A g \in Hosts : agentConn'[g] # NoConn => OwnerOf[agentConn'[g]] = g
      BY <2>3
    <2> HIDE DEF TypeOK, k, f
    <2> QED
      BY <2>3, <2>4, <2>5
  <1>14. ASSUME SendRaises PROVE ChannelsInv'
    BY <1>14, CommandLoopAssumption DEF SendRaises
  <1>23. ASSUME SendReturns PROVE ChannelsInv'
    BY <1>23, CommandLoopAssumption DEF SendReturns
  <1>15. ASSUME MarkDispatched PROVE ChannelsInv'
    <2>1. \A b \in Actions : status[b] # "absent" => status'[b] # "absent"
      BY <1>15 DEF MarkDispatched
    <2>2. toAgent' = toAgent /\ agentConn' = agentConn
      BY <1>15 DEF MarkDispatched
    <2>3. \A d \in Conns : \A i \in 1..Len(toAgent[d]) : toAgent[d][i].act \in Actions
      BY FramesTyped
    <2> QED
      BY <2>1, <2>2, <2>3
  <1>16. ASSUME MarkRaises PROVE ChannelsInv'
    BY <1>16, CommandLoopAssumption DEF MarkRaises
  <1>17. ASSUME NEW h \in Hosts, Handle(h) PROVE ChannelsInv'
    <2> DEFINE k == agentConn[h]
    <2>1. k \in Conns /\ toAgent[k] # <<>>
      BY <1>17 DEF Handle
    <2>2. \A i \in 1..Len(Tail(toAgent[k])) :
            Tail(toAgent[k])[i] = toAgent[k][i + 1] /\ i + 1 \in 1..Len(toAgent[k])
      BY <2>1, TailElements
    <2>3. /\ toAgent' = [toAgent EXCEPT ![k] = Tail(@)]
          /\ status' = status /\ agentConn' = agentConn
      BY <1>17 DEF Handle
    <2>4. ASSUME NEW d \in Conns, NEW i \in 1..Len(toAgent'[d])
          PROVE  /\ HostOf[toAgent'[d][i].act] = OwnerOf[d]
                 /\ status[toAgent'[d][i].act] # "absent"
      <3>1. CASE d = k
        <4>1. toAgent'[d] = Tail(toAgent[k])
          BY <3>1, <2>1, <2>3
        <4>2. toAgent'[d][i] = toAgent[d][i + 1] /\ i + 1 \in 1..Len(toAgent[d])
          BY <4>1, <3>1, <2>2
        <4> QED
          BY <4>2
      <3>2. CASE d # k
        <4>1. toAgent'[d] = toAgent[d]
          BY <3>2, <2>3
        <4> QED
          BY <4>1
      <3> QED
        BY <3>1, <3>2
    <2> QED
      BY <2>3, <2>4
  <1>18. ASSUME NEW h \in Hosts, AgentNotices(h) PROVE ChannelsInv'
    BY <1>18, CommandLoopAssumption DEF AgentNotices
  <1>19. ASSUME NEW c \in Conns, LinkLoss(c) PROVE ChannelsInv'
    BY <1>19, CommandLoopAssumption DEF LinkLoss
  <1>20. ASSUME NEW h \in Hosts, AgentRestart(h) PROVE ChannelsInv'
    BY <1>20, CommandLoopAssumption DEF AgentRestart
  <1>21. ASSUME ServerRestart PROVE ChannelsInv'
    BY <1>21, CommandLoopAssumption DEF ServerRestart
  <1>22. CASE UNCHANGED vars
    BY <1>22, CommandLoopAssumption DEF vars, db, tick, net, agent
  <1> QED
    BY <1>1, <1>2, <1>3, <1>4, <1>5, <1>6, <1>7, <1>8, <1>9, <1>10, <1>11, <1>12, <1>13, <1>14, <1>15, <1>16, <1>17, <1>18, <1>19, <1>20, <1>21, <1>22, <1>23 DEF Next, Server, Agent, Environment

\* An ack says "applied" only of an action Handle has just carried out, or
\* remembers having carried out.
LEMMA EvidenceStep ==
  ASSUME TypeOK, ChannelsInv, EvidenceInv, [Next]_vars
  PROVE  EvidenceInv'
  <1> USE DEF TypeOK, EvidenceInv, db, tick, net, agent, Fault
  <1>1. ASSUME NEW a \in Actions, WriteAction(a) PROVE EvidenceInv'
    BY <1>1, CommandLoopAssumption DEF WriteAction
  <1>2. ASSUME NEW h \in Hosts, PatchAutoBlock(h) PROVE EvidenceInv'
    BY <1>2, CommandLoopAssumption DEF PatchAutoBlock
  <1>3. ASSUME NEW h \in Hosts, RotateSecret(h) PROVE EvidenceInv'
    BY <1>3, CommandLoopAssumption DEF RotateSecret
  <1>4. ASSUME NEW c \in Conns, Dial(c) PROVE EvidenceInv'
    BY <1>4, CommandLoopAssumption DEF Dial
  <1>5. ASSUME NEW c \in Conns, Hello(c) PROVE EvidenceInv'
    BY <1>5, CommandLoopAssumption DEF Hello
  <1>6. ASSUME NEW c \in Conns, Register(c) PROVE EvidenceInv'
    BY <1>6, CommandLoopAssumption DEF Register
  <1>7. ASSUME NEW c \in Conns, ReceiveAck(c) PROVE EvidenceInv'
    <2>1. /\ toServer' = [toServer EXCEPT ![c] = Tail(@)] /\ toServer[c] # <<>>
          /\ everRun' = everRun /\ applied' = applied /\ effect' = effect
      BY <1>7 DEF ReceiveAck
    <2>2. \A i \in 1..Len(Tail(toServer[c])) :
            Tail(toServer[c])[i] = toServer[c][i + 1] /\ i + 1 \in 1..Len(toServer[c])
      BY <2>1, TailElements
    <2>3. ASSUME NEW d \in Conns, NEW i \in 1..Len(toServer'[d]), toServer'[d][i].st = "applied"
          PROVE  toServer'[d][i].act \in everRun
      <3>1. CASE d = c
        BY <3>1, <2>1, <2>2, <2>3
      <3>2. CASE d # c
        BY <3>2, <2>1, <2>3
      <3> QED
        BY <3>1, <3>2
    <2> HIDE DEF TypeOK
    <2> QED
      BY <2>1, <2>3
  <1>8. ASSUME NEW c \in Conns, PolicyClose(c) PROVE EvidenceInv'
    BY <1>8, CommandLoopAssumption DEF PolicyClose
  <1>9. ASSUME NEW c \in Conns, HandlerEnds(c) PROVE EvidenceInv'
    BY <1>9, CommandLoopAssumption DEF HandlerEnds
  <1>10. ASSUME NEW c \in Conns, Unregister(c) PROVE EvidenceInv'
    BY <1>10, CommandLoopAssumption DEF Unregister
  <1>11. ASSUME Tick PROVE EvidenceInv'
    BY <1>11, CommandLoopAssumption DEF Tick
  <1>12. ASSUME NEW a \in Actions, Skip(a) PROVE EvidenceInv'
    BY <1>12, CommandLoopAssumption DEF Skip
  <1>13. ASSUME NEW a \in Actions, Send(a) PROVE EvidenceInv'
    BY <1>13, CommandLoopAssumption DEF Send
  <1>14. ASSUME SendRaises PROVE EvidenceInv'
    BY <1>14, CommandLoopAssumption DEF SendRaises
  <1>23. ASSUME SendReturns PROVE EvidenceInv'
    BY <1>23, CommandLoopAssumption DEF SendReturns
  <1>15. ASSUME MarkDispatched PROVE EvidenceInv'
    BY <1>15, CommandLoopAssumption DEF MarkDispatched
  <1>16. ASSUME MarkRaises PROVE EvidenceInv'
    BY <1>16, CommandLoopAssumption DEF MarkRaises
  <1>17. ASSUME NEW h \in Hosts, Handle(h) PROVE EvidenceInv'
    <2> DEFINE k == agentConn[h]
               f == Head(toAgent[k])
    <2>1. k \in Conns /\ f \in Frame
      BY <1>17, TailElements DEF Handle
    <2>2. PICK st \in {"applied", "failed"} :
            /\ HandleFails(h, f, st) \/ HandleDuplicate(h, f, st) \/ HandleRuns(h, f, st)
            /\ toServer' = [toServer EXCEPT ![k] =
                              IF up[k] THEN Append(@, [act |-> f.act, st |-> st]) ELSE @]
      BY <1>17 DEF Handle
    <2>3. f.act \in Actions /\ [act |-> f.act, st |-> st] \in Ack
      BY <2>1 DEF Frame, Ack
    <2> DEFINE ack == [act |-> f.act, st |-> st]
    <2>4. /\ Len(Append(toServer[k], ack)) = Len(toServer[k]) + 1
          /\ \A i \in 1..Len(Append(toServer[k], ack)) :
               Append(toServer[k], ack)[i] = IF i = Len(toServer[k]) + 1 THEN ack ELSE toServer[k][i]
      BY <2>1, <2>3, AppendElements
    <2>5. everRun \subseteq everRun' /\ (st = "applied" => f.act \in everRun')
      <3>1. CASE HandleFails(h, f, st)
        BY <3>1 DEF HandleFails
      <3>2. CASE HandleDuplicate(h, f, st)
        BY <3>2 DEF HandleDuplicate, Remembered
      <3>3. CASE HandleRuns(h, f, st)
        BY <3>3 DEF HandleRuns
      <3> QED
        BY <2>2, <3>1, <3>2, <3>3
    <2>6. ASSUME NEW d \in Conns, NEW i \in 1..Len(toServer'[d]), toServer'[d][i].st = "applied"
          PROVE  toServer'[d][i].act \in everRun'
      <3>1. CASE d = k /\ up[k]
        <4>1. toServer'[d] = Append(toServer[k], ack)
          BY <3>1, <2>1, <2>2
        <4>2. CASE i = Len(toServer[k]) + 1
          <5>1. toServer'[d][i] = ack
            BY <4>1, <4>2, <2>4
          <5> QED
            BY <5>1, <2>5, <2>6
        <4>3. CASE i # Len(toServer[k]) + 1
          <5>1. i \in 1..Len(toServer[k]) /\ toServer'[d][i] = toServer[k][i]
            BY <4>1, <4>3, <2>4, <2>1
          <5> QED
            BY <5>1, <2>1, <2>5, <2>6
        <4> QED
          BY <4>2, <4>3
      <3>2. CASE ~(d = k /\ up[k])
        <4>1. toServer'[d] = toServer[d]
          BY <3>2, <2>1, <2>2
        <4> QED
          BY <4>1, <2>5, <2>6
      <3> QED
        BY <3>1, <3>2
    <2>7. ASSUME NEW g \in Hosts, NEW i \in 1..Len(applied'[g])
          PROVE  applied'[g][i] \in everRun'
      <3>1. CASE applied' = applied
        BY <3>1, <2>5
      <3>2. CASE HandleRuns(h, f, st)
        <4>1. applied' = [applied EXCEPT ![h] = Remember(@, f.act)] /\ f.act \in everRun'
          BY <3>2 DEF HandleRuns
        <4>2. CASE g = h
          <5>1. applied'[g] = Remember(applied[h], f.act)
            BY <4>1, <4>2
          <5>2. applied'[g][i] = f.act \/ \E j \in 1..Len(applied[h]) : applied'[g][i] = applied[h][j]
            <6>1. PICK r : r = Remember(applied[h], f.act)
              OBVIOUS
            <6>2. \A n \in 1..Len(r) : r[n] = f.act \/ \E j \in 1..Len(applied[h]) : r[n] = applied[h][j]
              BY <6>1, <2>3, RememberElements
            <6> QED
              BY <5>1, <6>1, <6>2
          <5> QED
            BY <5>2, <4>1, <2>5
        <4>3. CASE g # h
          BY <4>1, <4>3, <2>5
        <4> QED
          BY <4>2, <4>3
      <3> QED
        BY <2>2, <3>1, <3>2 DEF HandleFails, HandleDuplicate
    <2>8. \A a \in everRun' : a \in Strict => a \in effect'
      <3>1. CASE HandleFails(h, f, st) \/ HandleDuplicate(h, f, st)
        BY <3>1 DEF HandleFails, HandleDuplicate
      <3>2. CASE HandleRuns(h, f, st)
        <4>1. HostOf[f.act] = h
          <5>1. toAgent[k] # <<>> /\ f = toAgent[k][1] /\ 1 \in 1..Len(toAgent[k])
            BY <1>17, <2>1, TailElements DEF Handle
          <5>2. k # NoConn
            BY <1>17 DEF Handle
          <5>3. OwnerOf[k] = h
            BY <5>2, Zenon DEF ChannelsInv
          <5>4. HostOf[toAgent[k][1].act] = OwnerOf[k]
            BY <2>1, <5>1, Zenon DEF ChannelsInv
          <5> QED
            BY <5>1, <5>3, <5>4, Zenon
        <4>2. everRun' = everRun \cup {f.act} /\ TakesEffect(h, f.act)
          BY <3>2 DEF HandleRuns
        <4>3. effect \subseteq effect' /\ (f.act \in Strict => f.act \in effect')
          BY <4>1, <4>2 DEF TakesEffect, Strict
        <4> QED
          BY <4>2, <4>3
      <3> QED
        BY <2>2, <3>1, <3>2
    <2> HIDE DEF TypeOK, k, f, ack
    <2> QED
      BY <2>6, <2>7, <2>8
  <1>18. ASSUME NEW h \in Hosts, AgentNotices(h) PROVE EvidenceInv'
    BY <1>18, CommandLoopAssumption DEF AgentNotices
  <1>19. ASSUME NEW c \in Conns, LinkLoss(c) PROVE EvidenceInv'
    BY <1>19, CommandLoopAssumption DEF LinkLoss
  <1>20. ASSUME NEW h \in Hosts, AgentRestart(h) PROVE EvidenceInv'
    BY <1>20, CommandLoopAssumption DEF AgentRestart
  <1>21. ASSUME ServerRestart PROVE EvidenceInv'
    BY <1>21, CommandLoopAssumption DEF ServerRestart
  <1>22. CASE UNCHANGED vars
    BY <1>22, CommandLoopAssumption DEF vars, db, tick, net, agent
  <1> QED
    BY <1>1, <1>2, <1>3, <1>4, <1>5, <1>6, <1>7, <1>8, <1>9, <1>10, <1>11, <1>12, <1>13, <1>14, <1>15, <1>16, <1>17, <1>18, <1>19, <1>20, <1>21, <1>22, <1>23 DEF Next, Server, Agent, Environment

\* A row becomes applied only by reading an ack that says so.
LEMMA AppliedStep ==
  ASSUME TypeOK, EvidenceInv, AppliedWasRun, [Next]_vars
  PROVE  AppliedWasRun'
  <1> USE DEF TypeOK, AppliedWasRun, db, tick, net, agent, Fault
  <1>1. ASSUME NEW a \in Actions, WriteAction(a) PROVE AppliedWasRun'
    BY <1>1, CommandLoopAssumption DEF WriteAction
  <1>2. ASSUME NEW h \in Hosts, PatchAutoBlock(h) PROVE AppliedWasRun'
    BY <1>2, CommandLoopAssumption DEF PatchAutoBlock
  <1>3. ASSUME NEW h \in Hosts, RotateSecret(h) PROVE AppliedWasRun'
    BY <1>3, CommandLoopAssumption DEF RotateSecret
  <1>4. ASSUME NEW c \in Conns, Dial(c) PROVE AppliedWasRun'
    BY <1>4, CommandLoopAssumption DEF Dial
  <1>5. ASSUME NEW c \in Conns, Hello(c) PROVE AppliedWasRun'
    BY <1>5, CommandLoopAssumption DEF Hello
  <1>6. ASSUME NEW c \in Conns, Register(c) PROVE AppliedWasRun'
    BY <1>6, CommandLoopAssumption DEF Register
  <1>7. ASSUME NEW c \in Conns, ReceiveAck(c) PROVE AppliedWasRun'
    <2> DEFINE ack == Head(toServer[c])
    <2>1. /\ ack \in Ack
          /\ ack.st = "applied" =>
               ack.act \in everRun /\ (ack.act \in Strict => ack.act \in effect)
      BY <1>7, TailElements DEF ReceiveAck, EvidenceInv
    <2>2. /\ status' = [status EXCEPT ![ack.act] = IF @ = "dispatched" THEN ack.st ELSE @]
          /\ everRun' = everRun /\ effect' = effect
      BY <1>7 DEF ReceiveAck, MarkAcked
    <2> QED
      BY <2>1, <2>2 DEF Ack
  <1>8. ASSUME NEW c \in Conns, PolicyClose(c) PROVE AppliedWasRun'
    BY <1>8, CommandLoopAssumption DEF PolicyClose
  <1>9. ASSUME NEW c \in Conns, HandlerEnds(c) PROVE AppliedWasRun'
    BY <1>9, CommandLoopAssumption DEF HandlerEnds
  <1>10. ASSUME NEW c \in Conns, Unregister(c) PROVE AppliedWasRun'
    BY <1>10, CommandLoopAssumption DEF Unregister
  <1>11. ASSUME Tick PROVE AppliedWasRun'
    BY <1>11, CommandLoopAssumption DEF Tick
  <1>12. ASSUME NEW a \in Actions, Skip(a) PROVE AppliedWasRun'
    BY <1>12, CommandLoopAssumption DEF Skip
  <1>13. ASSUME NEW a \in Actions, Send(a) PROVE AppliedWasRun'
    BY <1>13, CommandLoopAssumption DEF Send
  <1>14. ASSUME SendRaises PROVE AppliedWasRun'
    BY <1>14, CommandLoopAssumption DEF SendRaises
  <1>23. ASSUME SendReturns PROVE AppliedWasRun'
    BY <1>23, CommandLoopAssumption DEF SendReturns
  <1>15. ASSUME MarkDispatched PROVE AppliedWasRun'
    BY <1>15, CommandLoopAssumption DEF MarkDispatched
  <1>16. ASSUME MarkRaises PROVE AppliedWasRun'
    BY <1>16, CommandLoopAssumption DEF MarkRaises
  <1>17. ASSUME NEW h \in Hosts, Handle(h) PROVE AppliedWasRun'
    <2>1. status' = status /\ everRun \subseteq everRun' /\ effect \subseteq effect'
      BY <1>17 DEF Handle, HandleFails, HandleDuplicate, HandleRuns, TakesEffect
    <2> QED
      BY <2>1
  <1>18. ASSUME NEW h \in Hosts, AgentNotices(h) PROVE AppliedWasRun'
    BY <1>18, CommandLoopAssumption DEF AgentNotices
  <1>19. ASSUME NEW c \in Conns, LinkLoss(c) PROVE AppliedWasRun'
    BY <1>19, CommandLoopAssumption DEF LinkLoss
  <1>20. ASSUME NEW h \in Hosts, AgentRestart(h) PROVE AppliedWasRun'
    BY <1>20, CommandLoopAssumption DEF AgentRestart
  <1>21. ASSUME ServerRestart PROVE AppliedWasRun'
    BY <1>21, CommandLoopAssumption DEF ServerRestart
  <1>22. CASE UNCHANGED vars
    BY <1>22, CommandLoopAssumption DEF vars, db, tick, net, agent
  <1> QED
    BY <1>1, <1>2, <1>3, <1>4, <1>5, <1>6, <1>7, <1>8, <1>9, <1>10, <1>11, <1>12, <1>13, <1>14, <1>15, <1>16, <1>17, <1>18, <1>19, <1>20, <1>21, <1>22, <1>23 DEF Next, Server, Agent, Environment

\* An action runs only when its id is not remembered, and is remembered from
\* then on; a restart forgets both the id and the run.
LEMMA MemoryStep ==
  ASSUME TypeOK, ChannelsInv, MemoryInv, [Next]_vars
  PROVE  MemoryInv'
  <1> USE DEF TypeOK, MemoryInv, Remembered, db, tick, net, agent, Fault
  <1>1. ASSUME NEW a \in Actions, WriteAction(a) PROVE MemoryInv'
    BY <1>1, CommandLoopAssumption DEF WriteAction
  <1>2. ASSUME NEW h \in Hosts, PatchAutoBlock(h) PROVE MemoryInv'
    BY <1>2, CommandLoopAssumption DEF PatchAutoBlock
  <1>3. ASSUME NEW h \in Hosts, RotateSecret(h) PROVE MemoryInv'
    BY <1>3, CommandLoopAssumption DEF RotateSecret
  <1>4. ASSUME NEW c \in Conns, Dial(c) PROVE MemoryInv'
    BY <1>4, CommandLoopAssumption DEF Dial
  <1>5. ASSUME NEW c \in Conns, Hello(c) PROVE MemoryInv'
    BY <1>5, CommandLoopAssumption DEF Hello
  <1>6. ASSUME NEW c \in Conns, Register(c) PROVE MemoryInv'
    BY <1>6, CommandLoopAssumption DEF Register
  <1>7. ASSUME NEW c \in Conns, ReceiveAck(c) PROVE MemoryInv'
    BY <1>7, CommandLoopAssumption DEF ReceiveAck
  <1>8. ASSUME NEW c \in Conns, PolicyClose(c) PROVE MemoryInv'
    BY <1>8, CommandLoopAssumption DEF PolicyClose
  <1>9. ASSUME NEW c \in Conns, HandlerEnds(c) PROVE MemoryInv'
    BY <1>9, CommandLoopAssumption DEF HandlerEnds
  <1>10. ASSUME NEW c \in Conns, Unregister(c) PROVE MemoryInv'
    BY <1>10, CommandLoopAssumption DEF Unregister
  <1>11. ASSUME Tick PROVE MemoryInv'
    BY <1>11, CommandLoopAssumption DEF Tick
  <1>12. ASSUME NEW a \in Actions, Skip(a) PROVE MemoryInv'
    BY <1>12, CommandLoopAssumption DEF Skip
  <1>13. ASSUME NEW a \in Actions, Send(a) PROVE MemoryInv'
    BY <1>13, CommandLoopAssumption DEF Send
  <1>14. ASSUME SendRaises PROVE MemoryInv'
    BY <1>14, CommandLoopAssumption DEF SendRaises
  <1>23. ASSUME SendReturns PROVE MemoryInv'
    BY <1>23, CommandLoopAssumption DEF SendReturns
  <1>15. ASSUME MarkDispatched PROVE MemoryInv'
    BY <1>15, CommandLoopAssumption DEF MarkDispatched
  <1>16. ASSUME MarkRaises PROVE MemoryInv'
    BY <1>16, CommandLoopAssumption DEF MarkRaises
  <1>17. ASSUME NEW h \in Hosts, Handle(h) PROVE MemoryInv'
    <2> DEFINE k == agentConn[h]
               f == Head(toAgent[k])
    <2>1. k \in Conns /\ f \in Frame /\ toAgent[k] # <<>> /\ f = toAgent[k][1] /\ 1 \in 1..Len(toAgent[k])
      BY <1>17, TailElements DEF Handle
    <2>2. f.act \in Actions /\ HostOf[f.act] = h
      <3>1. f.act \in Actions
        BY <2>1 DEF Frame
      <3>2. OwnerOf[k] = h
        BY <1>17 DEF Handle, ChannelsInv
      <3>3. HostOf[toAgent[k][1].act] = OwnerOf[k]
        BY <2>1 DEF ChannelsInv
      <3> QED
        BY <3>1, <3>2, <3>3, <2>1
    <2>3. PICK st \in {"applied", "failed"} :
            HandleFails(h, f, st) \/ HandleDuplicate(h, f, st) \/ HandleRuns(h, f, st)
      BY <1>17 DEF Handle
    <2>4. CASE HandleFails(h, f, st) \/ HandleDuplicate(h, f, st)
      BY <2>4 DEF HandleFails, HandleDuplicate
    <2>5. CASE HandleRuns(h, f, st)
      <3>1. /\ applied' = [applied EXCEPT ![h] = Remember(@, f.act)]
            /\ runs' = [runs EXCEPT ![f.act] = @ + 1]
            /\ ~Remembered(h, f.act)
        BY <2>5 DEF HandleRuns, Called
      <3>2. SUFFICES ASSUME NEW b \in Actions, Len(applied'[HostOf[b]]) < AppliedCap
                     PROVE  runs'[b] <= 1 /\ (runs'[b] # 0 => Remembered(HostOf[b], b)')
        OBVIOUS
      <3>3. CASE HostOf[b] # h
        BY <3>1, <3>2, <3>3, <2>2, CommandLoopAssumption
      <3>4. CASE HostOf[b] = h
        <4>1. PICK r \in Seq(Actions) : r = Remember(applied[h], f.act)
          BY <2>2, RememberElements
        <4>2. applied'[h] = r
          BY <3>1, <4>1
        <4>3. Len(applied[h]) < AppliedCap /\ r = Append(applied[h], f.act)
          <5>1. Len(r) < AppliedCap
            BY <3>2, <3>4, <4>2
          <5>2. /\ Len(applied[h]) < AppliedCap => r = Append(applied[h], f.act)
                /\ Len(r) < AppliedCap => Len(applied[h]) < AppliedCap
            BY <4>1, <2>2, RememberElements
          <5> QED
            BY <5>1, <5>2
        <4>4. /\ Len(r) = Len(applied[h]) + 1
              /\ \A i \in 1..Len(r) : r[i] = IF i = Len(applied[h]) + 1 THEN f.act ELSE applied[h][i]
          BY <4>3, <2>2, AppendElements
        <4>5. CASE b = f.act
          <5>1. runs[b] = 0
            BY <4>5, <4>3, <3>1, <3>4
          <5>2. runs'[b] = 1
            BY <5>1, <3>1, <4>5, <2>2
          <5>3. Len(r) \in 1..Len(r) /\ r[Len(r)] = b
            BY <4>4, <4>5
          <5> QED
            BY <5>2, <5>3, <4>2, <3>4
        <4>6. CASE b # f.act
          <5>1. runs'[b] = runs[b]
            BY <3>1, <4>6
          <5>2. ASSUME Remembered(h, b) PROVE Remembered(h, b)'
            <6>1. PICK j \in 1..Len(applied[h]) : applied[h][j] = b
              BY <5>2
            <6>2. j \in 1..Len(r) /\ r[j] = b
              <7>1. Len(applied[h]) \in Nat /\ j # Len(applied[h]) + 1 /\ j \in 1..(Len(applied[h]) + 1)
                OBVIOUS
              <7> QED
                BY <7>1, <6>1, <4>4
            <6> QED
              BY <6>2, <4>2
          <5>3. runs[b] <= 1 /\ (runs[b] # 0 => Remembered(h, b))
            BY <4>3, <3>4
          <5> QED
            BY <5>1, <5>2, <5>3, <3>4
        <4> QED
          BY <4>5, <4>6
      <3> QED
        BY <3>3, <3>4
    <2> QED
      BY <2>3, <2>4, <2>5
  <1>18. ASSUME NEW h \in Hosts, AgentNotices(h) PROVE MemoryInv'
    BY <1>18, CommandLoopAssumption DEF AgentNotices
  <1>19. ASSUME NEW c \in Conns, LinkLoss(c) PROVE MemoryInv'
    BY <1>19, CommandLoopAssumption DEF LinkLoss
  <1>20. ASSUME NEW h \in Hosts, AgentRestart(h) PROVE MemoryInv'
    BY <1>20, CommandLoopAssumption DEF AgentRestart
  <1>21. ASSUME ServerRestart PROVE MemoryInv'
    BY <1>21, CommandLoopAssumption DEF ServerRestart
  <1>22. CASE UNCHANGED vars
    BY <1>22, CommandLoopAssumption DEF vars, db, tick, net, agent
  <1> QED
    BY <1>1, <1>2, <1>3, <1>4, <1>5, <1>6, <1>7, <1>8, <1>9, <1>10, <1>11, <1>12, <1>13, <1>14, <1>15, <1>16, <1>17, <1>18, <1>19, <1>20, <1>21, <1>22, <1>23 DEF Next, Server, Agent, Environment

--------------------------------------------------------------------------
\* IInv is an invariant of the command loop: from any sets of hosts, actions
\* and connections, whatever is lost, duplicated, restarted or rotated.
THEOREM CommandLoopInv == Spec => []IInv
  <1>1. IInv /\ [Next]_vars => IInv'
    BY TypeStep, RegistryStep, ChannelsStep, EvidenceStep, AppliedStep, MemoryStep, TickStep
    DEF IInv
  <1> QED
    BY InitIInv, <1>1, PTL DEF Spec

\* Every variable keeps its type in every reachable state.
THEOREM TypeCorrect == Spec => []TypeOK
  <1>1. IInv => TypeOK
    BY DEF IInv
  <1> QED
    BY <1>1, CommandLoopInv, PTL

\* A row is closed as applied only if the function of its kind returned nil, and,
\* of a strict kind outside dry-run, only if the action took effect.
THEOREM AppliedSafe == Spec => []AppliedWasRun
  <1>1. IInv => AppliedWasRun
    BY DEF IInv
  <1> QED
    BY <1>1, CommandLoopInv, PTL

\* One agent process carries an action out at most once, until its memory of
\* applied ids is full.
THEOREM RunOnce == Spec => []RunOncePerProcess
  <1>1. IInv => RunOncePerProcess
    BY DEF IInv, MemoryInv, RunOncePerProcess
  <1> QED
    BY <1>1, CommandLoopInv, PTL

\* The rows a tick works on are still pending when it sends and marks them.
THEOREM BatchStaysPending == Spec => []BatchIsPending
  <1>1. IInv => BatchIsPending
    BY DEF IInv, TickInv
  <1> QED
    BY <1>1, CommandLoopInv, PTL

\* A registered connection is past its HELLO and its handler has not returned.
THEOREM RegistrySafe == Spec => []RegistryEntryHasHandler
  <1>1. IInv => RegistryEntryHasHandler
    BY DEF IInv
  <1> QED
    BY <1>1, CommandLoopInv, PTL
\* Every step of the command loop is a step of the life cycle, or leaves the
\* rows and the effects alone.
LEMMA LifecycleStep ==
  ASSUME IInv, [Next]_vars
  PROVE  [Lifecycle!Next]_(Lifecycle!vars)
  <1> USE DEF db, tick, net, agent
  <1>1. ASSUME NEW a \in Actions, WriteAction(a) PROVE Lifecycle!Create(a)
    BY <1>1 DEF WriteAction, Lifecycle!Create, Lifecycle!Move
  <1>2. ASSUME NEW c \in Conns, ReceiveAck(c)
        PROVE  [Lifecycle!Next]_(Lifecycle!vars)
    <2> DEFINE ack == Head(toServer[c])
    <2>1. /\ ack \in Ack
          /\ ack.st = "applied" =>
               ack.act \in everRun /\ (ack.act \in Strict => ack.act \in effect)
      BY <1>2, TailElements DEF ReceiveAck, IInv, TypeOK, EvidenceInv
    <2>2. /\ status' = [status EXCEPT ![ack.act] = IF @ = "dispatched" THEN ack.st ELSE @]
          /\ everRun' = everRun /\ effect' = effect
      BY <1>2 DEF ReceiveAck, MarkAcked
    <2>3. CASE status[ack.act] = "dispatched" /\ ack.st = "applied"
      <3>1. ack.act \in Actions /\ Lifecycle!Apply(ack.act)
        BY <2>1, <2>2, <2>3 DEF Lifecycle!Apply, Lifecycle!Move, Ack
      <3> QED
        BY <3>1 DEF Lifecycle!Next
    <2>4. CASE status[ack.act] = "dispatched" /\ ack.st = "failed"
      <3>1. ack.act \in Actions /\ Lifecycle!Fail(ack.act)
        BY <2>1, <2>2, <2>4 DEF Lifecycle!Fail, Lifecycle!Move, Ack
      <3> QED
        BY <3>1 DEF Lifecycle!Next
    <2>5. CASE status[ack.act] # "dispatched"
      BY <2>1, <2>2, <2>5 DEF IInv, TypeOK, Ack, Lifecycle!vars
    <2> QED
      BY <2>1, <2>3, <2>4, <2>5 DEF Ack
  <1>3. ASSUME MarkDispatched PROVE Lifecycle!Dispatch(marking) /\ marking \in Actions
    BY <1>3 DEF MarkDispatched, IInv, TypeOK, TickInv, BatchIsPending,
                Lifecycle!Dispatch, Lifecycle!Move
  <1>4. ASSUME NEW h \in Hosts, Handle(h) PROVE [Lifecycle!Next]_(Lifecycle!vars)
    <2> DEFINE k == agentConn[h]
               f == Head(toAgent[k])
    <2>1. k \in Conns /\ f \in Frame /\ toAgent[k] # <<>> /\ f = toAgent[k][1]
           /\ 1 \in 1..Len(toAgent[k]) /\ status' = status
      BY <1>4, TailElements DEF Handle, IInv, TypeOK
    <2>2. f.act \in Actions /\ status[f.act] # "absent" /\ HostOf[f.act] = h
      BY <1>4, <2>1 DEF Handle, IInv, ChannelsInv, Frame
    <2>3. PICK st \in {"applied", "failed"} :
            HandleFails(h, f, st) \/ HandleDuplicate(h, f, st) \/ HandleRuns(h, f, st)
      BY <1>4 DEF Handle
    <2>4. CASE HandleFails(h, f, st) \/ HandleDuplicate(h, f, st)
      BY <2>1, <2>4 DEF HandleFails, HandleDuplicate, Lifecycle!vars
    <2>5. CASE HandleRuns(h, f, st)
      <3>1. Lifecycle!Run(f.act)
        BY <2>1, <2>2, <2>5 DEF HandleRuns, TakesEffect, Strict, Lifecycle!Run
      <3> QED
        BY <3>1, <2>2 DEF Lifecycle!Next
    <2> QED
      BY <2>3, <2>4, <2>5
  <1>5. ASSUME NEW h \in Hosts, PatchAutoBlock(h) PROVE UNCHANGED Lifecycle!vars
    BY <1>5 DEF PatchAutoBlock, Lifecycle!vars
  <1>6. ASSUME NEW h \in Hosts, RotateSecret(h) PROVE UNCHANGED Lifecycle!vars
    BY <1>6 DEF RotateSecret, Lifecycle!vars
  <1>7. ASSUME NEW c \in Conns, Dial(c) PROVE UNCHANGED Lifecycle!vars
    BY <1>7 DEF Dial, Lifecycle!vars
  <1>8. ASSUME NEW c \in Conns, Hello(c) PROVE UNCHANGED Lifecycle!vars
    BY <1>8 DEF Hello, Lifecycle!vars
  <1>9. ASSUME NEW c \in Conns, Register(c) PROVE UNCHANGED Lifecycle!vars
    BY <1>9 DEF Register, Lifecycle!vars
  <1>10. ASSUME NEW c \in Conns, PolicyClose(c) PROVE UNCHANGED Lifecycle!vars
    BY <1>10 DEF PolicyClose, Lifecycle!vars
  <1>11. ASSUME NEW c \in Conns, HandlerEnds(c) PROVE UNCHANGED Lifecycle!vars
    BY <1>11 DEF HandlerEnds, Lifecycle!vars
  <1>12. ASSUME NEW c \in Conns, Unregister(c) PROVE UNCHANGED Lifecycle!vars
    BY <1>12 DEF Unregister, Lifecycle!vars
  <1>13. ASSUME Tick PROVE UNCHANGED Lifecycle!vars
    BY <1>13 DEF Tick, Lifecycle!vars
  <1>14. ASSUME NEW a \in Actions, Skip(a) PROVE UNCHANGED Lifecycle!vars
    BY <1>14 DEF Skip, Lifecycle!vars
  <1>15. ASSUME NEW a \in Actions, Send(a) PROVE UNCHANGED Lifecycle!vars
    BY <1>15 DEF Send, Lifecycle!vars
  <1>16. ASSUME SendRaises PROVE UNCHANGED Lifecycle!vars
    BY <1>16 DEF SendRaises, Lifecycle!vars
  <1>23. ASSUME SendReturns PROVE UNCHANGED Lifecycle!vars
    BY <1>23 DEF SendReturns, Lifecycle!vars
  <1>17. ASSUME MarkRaises PROVE UNCHANGED Lifecycle!vars
    BY <1>17 DEF MarkRaises, Lifecycle!vars
  <1>18. ASSUME NEW h \in Hosts, AgentNotices(h) PROVE UNCHANGED Lifecycle!vars
    BY <1>18 DEF AgentNotices, Lifecycle!vars
  <1>19. ASSUME NEW c \in Conns, LinkLoss(c) PROVE UNCHANGED Lifecycle!vars
    BY <1>19 DEF LinkLoss, Lifecycle!vars
  <1>20. ASSUME NEW h \in Hosts, AgentRestart(h) PROVE UNCHANGED Lifecycle!vars
    BY <1>20 DEF AgentRestart, Lifecycle!vars
  <1>21. ASSUME ServerRestart PROVE UNCHANGED Lifecycle!vars
    BY <1>21 DEF ServerRestart, Lifecycle!vars
  <1>22. CASE UNCHANGED vars
    BY <1>22 DEF vars, Lifecycle!vars
  <1> QED
    BY <1>1, <1>2, <1>3, <1>4, <1>5, <1>6, <1>7, <1>8, <1>9, <1>10, <1>11, <1>12, <1>13, <1>14, <1>15, <1>16, <1>17, <1>18, <1>19, <1>20, <1>21, <1>22, <1>23 DEF Next, Server, Agent, Environment, Lifecycle!Next

\* The command loop implements the action life cycle that the header of
\* detectors/action_service.py describes.
THEOREM ImplementsLifecycle == Spec => LifecycleSpec
  <1>1. Init => Lifecycle!Init
    BY DEF Init, Lifecycle!Init
  <1>2. IInv /\ [Next]_vars => [Lifecycle!Next]_(Lifecycle!vars)
    BY LifecycleStep
  <1> QED
    BY <1>1, <1>2, CommandLoopInv, PTL DEF Spec, LifecycleSpec, Lifecycle!Spec
-----------------------------------------------------------------------------
(* The time-limited actions that the commands carry out.                   *)

USE ContainmentAssumption

\* The rules of chain c for targets in T, and the timers that have one to
\* remove, or had until the agent was restarted.
RulesFor(ch, cm, c, T) == {m \in ch[c] : cm[m].target \in T}
Owed(tm, cm, c, T) ==
  {n \in Commands : /\ tm[n] \in {"waiting", "listed", "lost"}
                        /\ ChainOf(cm[n].kind) = c
                        /\ cm[n].target \in T}

\* Sets of targets whose rules no other target's timer picks.
Closed(T) == \A u \in Targets, t \in T : <<u, t>> \in PartOf => u \in T

\* There are at least as many rules as timers.
BackedBy(ch, tm, cm) ==
  \A c \in Chains, T \in SUBSET Targets :
    Closed(T) => Cardinality(RulesFor(ch, cm, c, T)) >= Cardinality(Owed(tm, cm, c, T))

\* An applied command has a timer, which has not listed the chain before the
\* TTL was over.
Handled ==
  \A n \in Commands :
    IF n <= count
      THEN /\ cmd[n] \in Command
           /\ timer[n] = "none" <=> cmd[n].status = "failed"
           /\ timer[n] \in {"listed", "done"} => now >= cmd[n].until
      ELSE cmd[n] = NoCommand /\ timer[n] = "none"

\* Rules are those of commands that were handled.
Known ==
  /\ \A c \in Chains : chain[c] \subseteq 1..count
  /\ \A n \in Commands : listing[n] \subseteq 1..count

TtlInv == TtlTypeOK /\ Handled /\ Known /\ BackedBy(chain, timer, cmd)

LEMMA TtlNumbers ==
  /\ MaxTtl \in Nat /\ MaxCommands \in Nat /\ MaxTime \in Nat /\ MaxNftFaults \in Nat
  /\ TtlSecs \subseteq Nat /\ DefaultTtl \in [Kinds -> Nat \ {0}]
  /\ Addresses \cap HostIds = {}
  BY DEF ContainmentConstants

\* Sets of commands are finite.
LEMMA FiniteCommands ==
  ASSUME NEW S \in SUBSET Commands
  PROVE  IsFiniteSet(S) /\ Cardinality(S) \in Nat
  <1>1. 1 \in Int /\ MaxCommands \in Int
    BY TtlNumbers
  <1>2. IsFiniteSet(1..MaxCommands)
    BY <1>1, FS_Interval
  <1>3. IsFiniteSet(S)
    BY <1>2, FS_Subset DEF Commands
  <1> QED
    BY <1>3, FS_CardinalityType

\* A rule and a timer are added together.
LEMMA BothGrow ==
  ASSUME NEW S, NEW A, IsFiniteSet(S), IsFiniteSet(A), Cardinality(S) >= Cardinality(A),
         NEW k, k \notin S, k \notin A
  PROVE  Cardinality(S \cup {k}) >= Cardinality(A \cup {k})
  <1>1. Cardinality(S) \in Nat /\ Cardinality(A) \in Nat
    BY FS_CardinalityType
  <1>2. Cardinality(S \cup {k}) = Cardinality(S) + 1
    BY FS_AddElement
  <1>3. Cardinality(A \cup {k}) = Cardinality(A) + 1
    BY FS_AddElement
  <1> QED
    BY <1>1, <1>2, <1>3

\* A timer that ends takes one rule at most.
LEMMA BothShrink ==
  ASSUME NEW S, NEW A, IsFiniteSet(S), IsFiniteSet(A), Cardinality(S) >= Cardinality(A),
         NEW a \in A, NEW D, \A x, y \in D : x = y
  PROVE  Cardinality(S \ D) >= Cardinality(A \ {a})
  <1>1. Cardinality(S) \in Nat /\ Cardinality(A) \in Nat
    BY FS_CardinalityType
  <1>2. Cardinality(A \ {a}) = Cardinality(A) - 1
    BY FS_RemoveElement
  <1>3. CASE S \cap D = {}
    <2>1. S \ D = S
      BY <1>3
    <2> QED
      BY <1>1, <1>2, <2>1
  <1>4. CASE S \cap D # {}
    <2>1. PICK x \in S : x \in D
      BY <1>4
    <2>2. S \ D = S \ {x}
      BY <2>1
    <2>3. Cardinality(S \ {x}) = Cardinality(S) - 1
      BY FS_RemoveElement
    <2> QED
      BY <1>1, <1>2, <2>2, <2>3
  <1> QED
    BY <1>3, <1>4

\* The rule that goes is the newest that the timer's text occurs in.
LEMMA OneIsDoomed ==
  ASSUME TtlTypeOK, Known, NEW n \in Commands
  PROVE  \A x, y \in Doomed(n) : x = y
  <1>1. listing[n] \subseteq Nat
    BY DEF TtlTypeOK, Commands
  <1> QED
    BY <1>1 DEF Doomed

LEMMA TtlStart ==
  ASSUME TtlInit
  PROVE  TtlInv
  <1> USE TtlNumbers DEF TtlInit
  <1>1. TtlTypeOK
    BY DEF TtlTypeOK
  <1>2. Handled /\ Known
    BY DEF Handled, Known, Commands
  <1>3. \A c \in Chains, T \in SUBSET Targets :
          RulesFor(chain, cmd, c, T) = {} /\ Owed(timer, cmd, c, T) = {}
    BY DEF RulesFor, Owed
  <1>4. Cardinality({}) >= Cardinality({})
    BY FS_EmptySet
  <1>5. BackedBy(chain, timer, cmd)
    BY <1>3, <1>4 DEF BackedBy
  <1> QED
    BY <1>1, <1>2, <1>5 DEF TtlInv

\* Backing by a pair of sets that are the same, or only gain rules.
LEMMA BackedKept ==
  ASSUME NEW c, NEW T,
         NEW ch, NEW tm, NEW cm, NEW ch2, NEW tm2, NEW cm2,
         RulesFor(ch2, cm2, c, T) \subseteq Commands,
         Cardinality(RulesFor(ch, cm, c, T)) >= Cardinality(Owed(tm, cm, c, T)),
         RulesFor(ch, cm, c, T) \subseteq RulesFor(ch2, cm2, c, T),
         Owed(tm2, cm2, c, T) \subseteq Owed(tm, cm, c, T)
  PROVE  Cardinality(RulesFor(ch2, cm2, c, T)) >= Cardinality(Owed(tm2, cm2, c, T))
  <1> DEFINE S == RulesFor(ch, cm, c, T)  S2 == RulesFor(ch2, cm2, c, T)
             A == Owed(tm, cm, c, T)      A2 == Owed(tm2, cm2, c, T)
  <1>1. S \subseteq S2 /\ A2 \subseteq A /\ S2 \subseteq Commands /\ Cardinality(S) >= Cardinality(A)
    OBVIOUS
  <1>2. A \subseteq Commands
    BY DEF Owed
  <1> HIDE DEF S, S2, A, A2
  <1>3. IsFiniteSet(S2) /\ IsFiniteSet(A)
    BY <1>1, <1>2, FiniteCommands
  <1>4. Cardinality(S) <= Cardinality(S2) /\ Cardinality(A2) <= Cardinality(A)
        /\ IsFiniteSet(S) /\ IsFiniteSet(A2)
    BY <1>1, <1>3, FS_Subset
  <1>5. /\ Cardinality(S) \in Nat /\ Cardinality(S2) \in Nat
        /\ Cardinality(A) \in Nat /\ Cardinality(A2) \in Nat
    BY <1>3, <1>4, FS_CardinalityType
  <1>6. Cardinality(S2) >= Cardinality(A2)
    BY <1>1, <1>4, <1>5
  <1> QED
    BY <1>6 DEF S2, A2

\* What the arrival of a command leaves alone: the other commands, and the rules
\* and timers there were.
LEMMA Arrival ==
  ASSUME TtlInv,
         NEW kind \in Kinds, NEW t \in Targets, NEW until \in Nat,
         NEW st \in {"applied", "failed"}, Receive(kind, t, until, st)
  PROVE  /\ count + 1 \in Commands /\ count \in Nat /\ count' = count + 1
         /\ timer[count + 1] = "none"
         /\ \A c \in Chains : chain[c] \subseteq Commands /\ count + 1 \notin chain[c]
         /\ \A n \in Commands : n # count + 1 => cmd'[n] = cmd[n]
         /\ cmd'[count + 1] \in Command
         /\ cmd'[count + 1].kind = kind /\ cmd'[count + 1].target = t
         /\ cmd'[count + 1].status = st
         /\ cmd' \in [Commands -> Command \cup {NoCommand}]
         /\ now' = now /\ listing' = listing /\ clashed' = clashed
  <1> USE TtlNumbers DEF TtlInv, Receive
  <1>1. count \in Nat /\ count + 1 \in Commands /\ count' = count + 1
    BY DEF TtlTypeOK, Commands
  <1>2. timer[count + 1] = "none"
    BY <1>1 DEF Handled
  <1>3. \A c \in Chains : chain[c] \subseteq Commands /\ count + 1 \notin chain[c]
    BY <1>1 DEF TtlTypeOK, Known
  <1>4. [kind |-> kind, target |-> t, until |-> until, status |-> st] \in Command
    BY DEF Command
  <1> QED
    BY <1>1, <1>2, <1>3, <1>4 DEF TtlTypeOK

\* A command that is refused or fails starts no timer; its rule may be there.
LEMMA FailedArrival ==
  ASSUME TtlInv,
         NEW kind \in Kinds, NEW t \in Targets,
         Receive(kind, t, 0, "failed"), timer' = timer,
         chain' \in {chain, Inserted(kind)},
         nftFaults' \in 0..MaxNftFaults
  PROVE  TtlTypeOK' /\ Handled' /\ Known' /\ BackedBy(chain', timer', cmd')
  <1> DEFINE k == count + 1
  <1>1. /\ k \in Commands /\ count \in Nat /\ count' = k /\ timer[k] = "none"
        /\ \A c \in Chains : chain[c] \subseteq Commands /\ k \notin chain[c]
        /\ \A n \in Commands : n # k => cmd'[n] = cmd[n]
        /\ cmd'[k] \in Command /\ cmd'[k].status = "failed"
        /\ cmd' \in [Commands -> Command \cup {NoCommand}]
        /\ now' = now /\ listing' = listing /\ clashed' = clashed
    <2>1. 0 \in Nat /\ "failed" \in {"applied", "failed"}
      OBVIOUS
    <2> QED
      BY <2>1, Arrival
  <1>2. \A c \in Chains : chain'[c] = chain[c] \/ chain'[c] = chain[c] \cup {k}
    BY <1>1 DEF TtlInv, TtlTypeOK, Inserted
  <1>3. chain' \in [Chains -> SUBSET Commands]
    BY <1>1 DEF TtlInv, TtlTypeOK, Inserted
  <1> HIDE DEF k
  <1>4. TtlTypeOK'
    BY <1>1, <1>3, TtlNumbers DEF TtlInv, TtlTypeOK, Commands
  <1>5. Handled' /\ Known'
    <2>1. k = count + 1
      BY DEF k
    <2> QED
      BY <1>1, <1>2, <2>1, TtlNumbers DEF TtlInv, Handled, Known, Commands
  <1>6. ASSUME NEW c \in Chains, NEW T \in SUBSET Targets, Closed(T)
        PROVE  Cardinality(RulesFor(chain', cmd', c, T)) >= Cardinality(Owed(timer', cmd', c, T))
    <2>1. RulesFor(chain, cmd, c, T) \subseteq RulesFor(chain', cmd', c, T)
          /\ RulesFor(chain', cmd', c, T) \subseteq Commands
      BY <1>1, <1>2 DEF RulesFor
    <2>2. Owed(timer', cmd', c, T) \subseteq Owed(timer, cmd, c, T)
      BY <1>1 DEF Owed
    <2>3. Cardinality(RulesFor(chain, cmd, c, T)) >= Cardinality(Owed(timer, cmd, c, T))
      BY <1>6 DEF TtlInv, BackedBy
    <2> QED
      BY <2>1, <2>2, <2>3, BackedKept
  <1> QED
    BY <1>4, <1>5, <1>6 DEF BackedBy

\* A command that is applied adds its rule and its timer to the same chain.
LEMMA AppliedArrival ==
  ASSUME TtlInv,
         NEW kind \in Kinds, NEW t \in Targets, NEW sec \in TtlSecs,
         InsertRule(kind, t, sec)
  PROVE  TtlTypeOK' /\ Handled' /\ Known' /\ BackedBy(chain', timer', cmd')
  <1> DEFINE k == count + 1
             until == now + TtlOf(kind, sec)
  <1>0. until \in Nat /\ now \in Nat
    BY TtlNumbers DEF TtlOf, TtlInv, TtlTypeOK
  <1>1. /\ k \in Commands /\ count \in Nat /\ count' = k /\ timer[k] = "none"
        /\ \A c \in Chains : chain[c] \subseteq Commands /\ k \notin chain[c]
        /\ \A n \in Commands : n # k => cmd'[n] = cmd[n]
        /\ cmd'[k] \in Command /\ cmd'[k].status = "applied"
        /\ cmd'[k].kind = kind /\ cmd'[k].target = t
        /\ cmd' \in [Commands -> Command \cup {NoCommand}]
        /\ now' = now /\ listing' = listing /\ clashed' = clashed
    <2>1. Receive(kind, t, until, "applied")
      BY DEF InsertRule
    <2> HIDE DEF until
    <2> QED
      BY <1>0, <2>1, Arrival
  <1>2. /\ \A c \in Chains :
             chain'[c] = IF c = ChainOf(kind) THEN chain[c] \cup {k} ELSE chain[c]
        /\ chain' \in [Chains -> SUBSET Commands]
    BY <1>1 DEF TtlInv, TtlTypeOK, Inserted, InsertRule
  <1>3. /\ timer' = [timer EXCEPT ![k] = "waiting"] /\ nftFaults' = nftFaults
        /\ timer \in [Commands -> {"none", "waiting", "listed", "done", "lost"}]
    BY DEF TtlInv, TtlTypeOK, InsertRule
  <1>4. k = count + 1
    OBVIOUS
  <1> HIDE DEF k
  <1>5. TtlTypeOK'
    BY <1>1, <1>2, <1>3, TtlNumbers DEF TtlInv, TtlTypeOK, Commands
  <1>6. Known'
    BY <1>1, <1>2, <1>4, TtlNumbers DEF TtlInv, Known, Commands
  <1>7. Handled'
    BY <1>0, <1>1, <1>3, <1>4, TtlNumbers DEF TtlInv, Handled, Commands
  <1>8. ASSUME NEW c \in Chains, NEW T \in SUBSET Targets, Closed(T)
        PROVE  Cardinality(RulesFor(chain', cmd', c, T)) >= Cardinality(Owed(timer', cmd', c, T))
    <2>1. Cardinality(RulesFor(chain, cmd, c, T)) >= Cardinality(Owed(timer, cmd, c, T))
      BY <1>8 DEF TtlInv, BackedBy
    <2>2. CASE c = ChainOf(kind) /\ t \in T
      <3>1. RulesFor(chain', cmd', c, T) = RulesFor(chain, cmd, c, T) \cup {k}
        BY <1>1, <1>2, <2>2 DEF RulesFor
      <3>2. Owed(timer', cmd', c, T) = Owed(timer, cmd, c, T) \cup {k}
        BY <1>1, <1>3, <2>2 DEF Owed
      <3>3. k \notin RulesFor(chain, cmd, c, T) /\ k \notin Owed(timer, cmd, c, T)
        BY <1>1 DEF RulesFor, Owed
      <3>4. IsFiniteSet(RulesFor(chain, cmd, c, T)) /\ IsFiniteSet(Owed(timer, cmd, c, T))
        <4>1. RulesFor(chain, cmd, c, T) \in SUBSET Commands
              /\ Owed(timer, cmd, c, T) \in SUBSET Commands
          BY <1>1 DEF RulesFor, Owed
        <4> QED
          BY <4>1, FiniteCommands
      <3> QED
        BY <2>1, <3>1, <3>2, <3>3, <3>4, BothGrow
    <2>3. CASE ~(c = ChainOf(kind) /\ t \in T)
      <3>1. RulesFor(chain, cmd, c, T) \subseteq RulesFor(chain', cmd', c, T)
            /\ RulesFor(chain', cmd', c, T) \subseteq Commands
        BY <1>1, <1>2 DEF RulesFor
      <3>2. Owed(timer', cmd', c, T) \subseteq Owed(timer, cmd, c, T)
        BY <1>1, <1>3, <2>3 DEF Owed
      <3> QED
        BY <2>1, <3>1, <3>2, BackedKept
    <2> QED
      BY <2>2, <2>3
  <1> QED
    BY <1>5, <1>6, <1>7, <1>8 DEF BackedBy

\* A timer that fires takes a rule that its target's text occurs in, or none.
LEMMA TimerEnds ==
  ASSUME TtlInv, NEW n \in Commands,
         timer[n] \in {"waiting", "listed"},
         timer' = [timer EXCEPT ![n] = "done"], cmd' = cmd,
         NEW D \in SUBSET Doomed(n),
         chain' = [chain EXCEPT ![ChainOf(cmd[n].kind)] = @ \ D]
  PROVE  BackedBy(chain', timer', cmd')
  <1> SUFFICES ASSUME NEW c \in Chains, NEW T \in SUBSET Targets, Closed(T)
               PROVE  Cardinality(RulesFor(chain', cmd', c, T))
                        >= Cardinality(Owed(timer', cmd', c, T))
    BY DEF BackedBy
  <1> DEFINE S == RulesFor(chain, cmd, c, T)
             A == Owed(timer, cmd, c, T)
  <1>1. Cardinality(S) >= Cardinality(A)
    BY DEF TtlInv, BackedBy
  <1>2. S \in SUBSET Commands /\ A \in SUBSET Commands
    BY DEF RulesFor, Owed, TtlInv, TtlTypeOK
  <1>3. \A x, y \in D : x = y
    BY OneIsDoomed DEF TtlInv
  <1>4. cmd[n] \in Command /\ n <= count /\ n \in Nat /\ count \in Nat
    BY DEF TtlInv, Handled, Commands, TtlTypeOK
  <1>5. Owed(timer', cmd', c, T) = A \ {n}
    BY DEF Owed, TtlInv, TtlTypeOK
  <1>6. CASE n \in A
    <2>1. c = ChainOf(cmd[n].kind)
      BY <1>6 DEF Owed
    <2>2. RulesFor(chain', cmd', c, T) = S \ D
      BY <2>1 DEF RulesFor, TtlInv, TtlTypeOK
    <2> HIDE DEF S, A
    <2>3. IsFiniteSet(S) /\ IsFiniteSet(A)
      BY <1>2, FiniteCommands
    <2>4. Cardinality(S \ D) >= Cardinality(A \ {n})
      BY <1>1, <1>3, <1>6, <2>3, BothShrink
    <2> QED
      BY <1>5, <2>2, <2>4
  <1>7. CASE n \notin A
    <2>1. c # ChainOf(cmd[n].kind) \/ cmd[n].target \notin T
      BY <1>7 DEF Owed
    <2>2. cmd[n].target \notin T => D \cap S = {}
      <3> SUFFICES ASSUME NEW m \in D, m \in S PROVE cmd[n].target \in T
        OBVIOUS
      <3>1. Mentions(n, m) /\ cmd[m].target \in T
        BY DEF Doomed, RulesFor
      <3>2. cmd[n].target \in Targets
        BY <1>4 DEF Command
      <3> QED
        BY <3>1, <3>2 DEF Mentions, Closed
    <2>3. RulesFor(chain', cmd', c, T) = S
      BY <2>1, <2>2 DEF RulesFor, TtlInv, TtlTypeOK
    <2>4. A \ {n} = A
      BY <1>7
    <2> QED
      BY <1>1, <1>5, <2>3, <2>4
  <1> QED
    BY <1>6, <1>7

LEMMA TtlStep ==
  ASSUME TtlInv, [TtlNext]_ttlVars
  PROVE  TtlInv'
  <1>0. SUFFICES TtlTypeOK' /\ Handled' /\ Known' /\ BackedBy(chain', timer', cmd')
    BY DEF TtlInv, BackedBy, RulesFor, Owed, Closed
  <1> USE TtlNumbers
  <1>1. CASE SecondPasses
    <2> USE <1>1 DEF SecondPasses, TtlInv
    <2>1. TtlTypeOK'
      BY DEF TtlTypeOK
    <2>2. Handled'
      <3>1. \A n \in Commands : cmd[n] \in Command => cmd[n].until \in Nat
        BY DEF Command
      <3> QED
        BY <3>1 DEF Handled, TtlTypeOK
    <2> QED
      BY <2>1, <2>2 DEF Known
  <1>2. CASE HandleTtl
    <2>1. PICK t \in Targets, sec \in TtlSecs :
            \/ TarpitIPWithTTL(t, sec) \/ IsolateHostWithTTL(t, sec)
            \/ \E kind \in Kinds : Refuse(kind, t, sec) \/ InsertFails(kind, t, sec)
      BY <1>2 DEF HandleTtl
    <2>2. CASE TarpitIPWithTTL(t, sec) \/ IsolateHostWithTTL(t, sec)
      <3>1. \E kind \in Kinds : InsertRule(kind, t, sec)
        BY <2>2 DEF TarpitIPWithTTL, IsolateHostWithTTL, Kinds
      <3> QED
        BY <3>1, AppliedArrival
    <2>3. ASSUME NEW kind \in Kinds, Refuse(kind, t, sec) \/ InsertFails(kind, t, sec)
          PROVE  TtlTypeOK' /\ Handled' /\ Known' /\ BackedBy(chain', timer', cmd')
      <3>1. /\ Receive(kind, t, 0, "failed") /\ timer' = timer
            /\ chain' \in {chain, Inserted(kind)}
        BY <2>3 DEF Refuse, InsertFails
      <3>2. nftFaults' \in 0..MaxNftFaults
        BY <2>3 DEF Refuse, InsertFails, NftFault, TtlInv, TtlTypeOK
      <3> QED
        BY <3>1, <3>2, FailedArrival
    <2> QED
      BY <2>1, <2>2, <2>3
  <1>3. CASE AgentStops
    <2> USE <1>3 DEF AgentStops, NftFault, TtlInv
    <2>1. TtlTypeOK'
      BY DEF TtlTypeOK
    <2>2. Handled' /\ Known'
      BY DEF Handled, Known, TtlTypeOK
    <2>3. \A c \in Chains, T \in SUBSET Targets :
            /\ Owed(timer', cmd', c, T) = Owed(timer, cmd, c, T)
            /\ RulesFor(chain', cmd', c, T) = RulesFor(chain, cmd, c, T)
      BY DEF Owed, RulesFor, TtlTypeOK
    <2> QED
      BY <2>1, <2>2, <2>3 DEF BackedBy
  <1>4. ASSUME NEW n \in Commands, List(n)
        PROVE  TtlTypeOK' /\ Handled' /\ Known' /\ BackedBy(chain', timer', cmd')
    <2> USE <1>4 DEF List, TtlInv
    <2>0. cmd[n] \in Command
      BY DEF Handled
    <2>1. ChainOf(cmd[n].kind) \in Chains
      BY DEF ChainOf, Chains
    <2>2. TtlTypeOK'
      BY <2>1 DEF TtlTypeOK, RulesIn
    <2>3. Handled' /\ Known'
      BY <2>1 DEF Handled, Known, TtlTypeOK, RulesIn, Due
    <2>4. \A c \in Chains, T \in SUBSET Targets :
            /\ Owed(timer', cmd', c, T) = Owed(timer, cmd, c, T)
            /\ RulesFor(chain', cmd', c, T) = RulesFor(chain, cmd, c, T)
      BY DEF Owed, RulesFor, TtlTypeOK
    <2> QED
      BY <2>2, <2>3, <2>4 DEF BackedBy
  <1>5. ASSUME NEW n \in Commands, Delete(n)
        PROVE  TtlTypeOK' /\ Handled' /\ Known' /\ BackedBy(chain', timer', cmd')
    <2> USE <1>5 DEF Delete, Finish
    <2>1. ChainOf(cmd[n].kind) \in Chains
      BY DEF ChainOf, Chains
    <2>2. TtlTypeOK'
      BY <2>1 DEF TtlTypeOK, TtlInv
    <2>3. Handled' /\ Known'
      BY <2>1 DEF Handled, Known, TtlTypeOK, TtlInv
    <2>4. BackedBy(chain', timer', cmd')
      BY TimerEnds
    <2> QED
      BY <2>2, <2>3, <2>4
  <1>6. ASSUME NEW n \in Commands, RemovalFails(n)
        PROVE  TtlTypeOK' /\ Handled' /\ Known' /\ BackedBy(chain', timer', cmd')
    <2> USE <1>6 DEF RemovalFails, NftFault
    <2>1. TtlTypeOK'
      BY DEF TtlTypeOK, TtlInv
    <2>2. Handled' /\ Known'
      BY DEF Handled, Known, TtlTypeOK, TtlInv, Due
    <2>3. BackedBy(chain', timer', cmd')
      <3>1. {} \in SUBSET Doomed(n)
        OBVIOUS
      <3>2. chain' = [chain EXCEPT ![ChainOf(cmd[n].kind)] = @ \ {}]
        BY DEF TtlInv, TtlTypeOK, ChainOf, Chains
      <3>3. timer[n] \in {"waiting", "listed"} /\ timer' = [timer EXCEPT ![n] = "done"]
            /\ cmd' = cmd
        OBVIOUS
      <3> QED
        BY <3>1, <3>2, <3>3, TimerEnds
    <2> QED
      BY <2>1, <2>2, <2>3
  <1>7. CASE UNCHANGED ttlVars
    BY <1>7 DEF ttlVars, TtlInv, TtlTypeOK, Handled, Known, BackedBy, RulesFor, Owed
  <1> QED
    BY <1>1, <1>2, <1>3, <1>4, <1>5, <1>6, <1>7 DEF TtlNext, Remove

\* A timer that has not ended has a rule of every such set of targets it is in.
LEMMA TimerHasRule ==
  ASSUME TtlInv, NEW n \in Commands,
         timer[n] \in {"waiting", "listed", "lost"},
         NEW T \in SUBSET Targets, Closed(T), cmd[n].target \in T
  PROVE  \E m \in RulesIn(n) : cmd[m].target \in T
  <1> DEFINE c == ChainOf(cmd[n].kind)
             S == RulesFor(chain, cmd, c, T)
             A == Owed(timer, cmd, c, T)
  <1>0. c \in Chains
    BY DEF ChainOf, Chains
  <1>1. n \in A
    BY DEF Owed
  <1>2. Cardinality(S) >= Cardinality(A)
    BY <1>0 DEF TtlInv, BackedBy
  <1>3. S \in SUBSET Commands /\ A \in SUBSET Commands
    BY <1>0 DEF RulesFor, Owed, TtlInv, TtlTypeOK
  <1>4. S # {}
    <2> HIDE DEF S, A
    <2>1. IsFiniteSet(A) /\ Cardinality(A) \in Nat
      BY <1>3, FiniteCommands
    <2>2. Cardinality(A) # 0
      BY <1>1, <2>1, FS_EmptySet
    <2>3. S = {} => Cardinality(S) = 0
      BY FS_EmptySet
    <2> QED
      BY <1>2, <2>1, <2>2, <2>3
  <1> QED
    BY <1>4 DEF RulesFor, RulesIn

\* While a TTL runs there is a timer, so there is a rule.
LEMMA BackedIsContained ==
  ASSUME TtlInv
  PROVE  ContainedWhileTtl
  <1> SUFFICES ASSUME NEW n \in Commands, cmd[n] # NoCommand,
                      cmd[n].status = "applied", now < cmd[n].until
               PROVE  /\ RulesIn(n) # {}
                      /\ cmd[n].target \in Unshadowed => Ruled(cmd[n].target)
    BY DEF ContainedWhileTtl
  <1>1. n <= count /\ cmd[n] \in Command
    BY DEF TtlInv, Handled
  <1>2. timer[n] \in {"waiting", "lost"}
    <2>1. cmd[n].until \in Nat /\ now \in Nat
      BY <1>1, TtlNumbers DEF Command, TtlInv, TtlTypeOK
    <2> QED
      BY <1>1, <2>1 DEF TtlInv, Handled, TtlTypeOK
  <1>3. ChainOf(cmd[n].kind) \in Chains /\ cmd[n].target \in Targets
    BY <1>1 DEF ChainOf, Chains, Command
  <1>4. RulesIn(n) # {}
    <2>1. Targets \in SUBSET Targets /\ Closed(Targets)
      BY DEF Closed
    <2> QED
      BY <1>2, <1>3, <2>1, TimerHasRule
  <1>5. ASSUME cmd[n].target \in Unshadowed
        PROVE  Ruled(cmd[n].target)
    <2>1. {cmd[n].target} \in SUBSET Targets /\ Closed({cmd[n].target})
      BY <1>3, <1>5 DEF Closed, Unshadowed
    <2>2. \E m \in RulesIn(n) : cmd[m].target \in {cmd[n].target}
      BY <1>2, <2>1, TimerHasRule
    <2> QED
      BY <1>3, <2>2 DEF Ruled, RulesIn
  <1> QED
    BY <1>4, <1>5

\* Type correctness of Containment: rules and listings are of commands, and
\* every command, timer and TTL is in its range.
THEOREM TtlTypes == TtlSpec => []TtlTypeOK
  <1>1. TtlInv /\ [TtlNext]_ttlVars => TtlInv'
    BY TtlStep
  <1>2. TtlInv => TtlTypeOK
    BY DEF TtlInv
  <1> QED
    BY <1>1, <1>2, TtlStart, PTL DEF TtlSpec

\* tarpit_ip and isolate_host contain a target for as long as any of its TTLs
\* runs, for any number of commands, addresses, restarts and failures: a timer
\* removes one rule at most, so there are never fewer rules than timers.
THEOREM ContainedUntilExpiry ==
  TtlSpec => []ContainedWhileTtl
  <1>1. TtlInit => TtlInv
    BY TtlStart
  <1>2. TtlInv /\ [TtlNext]_ttlVars => TtlInv'
    BY TtlStep
  <1>3. TtlInv => ContainedWhileTtl
    BY BackedIsContained
  <1> QED
    BY <1>1, <1>2, <1>3, PTL DEF TtlSpec

\* The same two numbers are equal, for a target whose text has nothing in common
\* with another one's, as long as no call fails and no two timers clash.
ExactIn(ch, tm, cm) ==
  \A c \in Chains, t \in Apart :
    Cardinality(Owed(tm, cm, c, {t})) >= Cardinality(RulesFor(ch, cm, c, {t}))

\* A timer that has listed its chain has seen a rule of its target.
Aimed(tm, ls, cm) ==
  \A n \in Commands :
    tm[n] = "listed" /\ cm[n].target \in Apart =>
      \E m \in ls[n] : cm[m].target = cm[n].target

ExactInv ==
  /\ TtlInv
  /\ Aimed(timer, listing, cmd)
  /\ nftFaults = 0 /\ clashed = {} => ExactIn(chain, timer, cmd)

\* A nonempty set of commands has a last one.
LEMMA LastCommand ==
  ASSUME NEW S \in SUBSET Commands, S # {}
  PROVE  \E m \in S : \A k \in S : k <= m
  <1> DEFINE N == MaxCommands
             U == {x \in Nat : x <= N /\ N - x \in S}
             R == OpToRel(<, Nat)
  <1>0. N \in Nat /\ S \subseteq 1..N
    BY TtlNumbers DEF Commands
  <1>1. IsWellFoundedOn(R, Nat)
    BY NatLessThanWellFounded
  <1>2. U # {}
    <2>1. PICK s \in S : TRUE
      OBVIOUS
    <2>2. s \in Nat /\ s <= N
      BY <1>0
    <2>3. N - s \in Nat /\ N - s <= N /\ N - (N - s) = s
      BY <1>0, <2>2
    <2> QED
      BY <2>1, <2>3
  <1>3. U \subseteq Nat
    OBVIOUS
  <1>4. PICK u \in U : \A y \in U : ~(<<y, u>> \in R)
    <2> HIDE DEF R, U
    <2> QED
      BY <1>1, <1>2, <1>3, WFMin
  <1>5. ASSUME NEW k \in S PROVE k <= N - u
    <2>1. k \in Nat /\ k <= N /\ u \in Nat /\ u <= N
      BY <1>0
    <2>2. N - k \in Nat /\ N - k <= N /\ N - (N - k) = k
      BY <1>0, <2>1
    <2>3. N - k \in U
      BY <2>2
    <2>4. ~(<<N - k, u>> \in {ss \in Nat \X Nat : ss[1] < ss[2]})
      BY <1>4, <2>3 DEF OpToRel
    <2>5. ~(N - k < u)
      BY <2>1, <2>2, <2>4
    <2> QED
      BY <1>0, <2>1, <2>2, <2>5
  <1>6. N - u \in S
    OBVIOUS
  <1> QED
    BY <1>5, <1>6

\* A target with nothing in common with another one is closed by itself.
LEMMA ApartIsClosed ==
  ASSUME NEW t \in Apart
  PROVE  {t} \in SUBSET Targets /\ Closed({t})
  BY DEF Apart, Closed

\* For such a target, a timer that deletes takes one of its rules away.
LEMMA ExactDelete ==
  ASSUME ExactInv, NEW n \in Commands, Delete(n),
         nftFaults = 0, clashed' = {}
  PROVE  ExactIn(chain', timer', cmd')
  <1> USE DEF Delete, Finish
  <1>0. clashed = {} /\ Doomed(n) \subseteq RulesIn(n)
    OBVIOUS
  <1> SUFFICES ASSUME NEW c \in Chains, NEW t \in Apart
               PROVE  Cardinality(Owed(timer', cmd', c, {t}))
                        >= Cardinality(RulesFor(chain', cmd', c, {t}))
    BY DEF ExactIn
  <1> DEFINE S == RulesFor(chain, cmd, c, {t})
             A == Owed(timer, cmd, c, {t})
  <1>1. Cardinality(A) >= Cardinality(S)
    BY <1>0 DEF ExactInv, ExactIn
  <1>2. S \in SUBSET Commands /\ A \in SUBSET Commands
    BY DEF RulesFor, Owed, ExactInv, TtlInv, TtlTypeOK
  <1>3. cmd[n] \in Command /\ cmd[n].target \in Targets
    BY DEF ExactInv, TtlInv, Handled, Command
  <1>4. Owed(timer', cmd', c, {t}) = A \ {n}
    BY DEF Owed, ExactInv, TtlInv, TtlTypeOK
  <1>5. ASSUME NEW m \in Doomed(n)
        PROVE  /\ m \in Commands
               /\ cmd[n].target = t => cmd[m].target = t
               /\ cmd[m].target = t => cmd[n].target = t
    <2>1. Mentions(n, m) /\ m \in listing[n]
      BY DEF Doomed
    <2>2. m \in Commands /\ m \in 1..count
      BY <2>1 DEF ExactInv, TtlInv, TtlTypeOK, Known
    <2>3. cmd[m].target \in Targets
      BY <2>2 DEF ExactInv, TtlInv, Handled, Command, TtlTypeOK
    <2> QED
      BY <1>3, <2>1, <2>2, <2>3 DEF Mentions, Apart
  <1>6. CASE n \in A
    <2>1. c = ChainOf(cmd[n].kind) /\ cmd[n].target = t
      BY <1>6 DEF Owed
    <2> DEFINE M == {m \in listing[n] : Mentions(n, m)}
    <2>2. M # {}
      BY <2>1 DEF ExactInv, Aimed, Mentions
    <2>3. M \in SUBSET Commands
      BY DEF ExactInv, TtlInv, TtlTypeOK
    <2>4. PICK m \in M : \A k \in M : k <= m
      <3> HIDE DEF M
      <3> QED
        BY <2>2, <2>3, LastCommand
    <2>5. m \in Doomed(n)
      <3>1. \A k \in M : k \in Nat
        BY <2>3 DEF Commands
      <3> QED
        BY <2>4, <3>1 DEF Doomed
    <2>6. \A x, y \in Doomed(n) : x = y
      BY OneIsDoomed DEF ExactInv, TtlInv
    <2>7. Doomed(n) = {m}
      BY <2>5, <2>6
    <2>8. m \in S
      BY <1>0, <1>5, <2>1, <2>5 DEF RulesFor, RulesIn
    <2>9. RulesFor(chain', cmd', c, {t}) = S \ {m}
      BY <2>1, <2>7 DEF RulesFor, ExactInv, TtlInv, TtlTypeOK
    <2> HIDE DEF S, A
    <2>10. IsFiniteSet(S) /\ IsFiniteSet(A)
      BY <1>2, FiniteCommands
    <2>11. \A x, y \in {n} : x = y
      OBVIOUS
    <2>12. Cardinality(A \ {n}) >= Cardinality(S \ {m})
      BY <1>1, <2>8, <2>10, <2>11, BothShrink
    <2> QED
      BY <1>4, <2>9, <2>12
  <1>7. CASE n \notin A
    <2>1. c # ChainOf(cmd[n].kind) \/ cmd[n].target # t
      BY <1>7 DEF Owed
    <2>2. RulesFor(chain', cmd', c, {t}) = S
      BY <1>5, <2>1 DEF RulesFor, ExactInv, TtlInv, TtlTypeOK
    <2>3. A \ {n} = A
      BY <1>7
    <2> QED
      BY <1>1, <1>4, <2>2, <2>3
  <1> QED
    BY <1>6, <1>7

\* A command adds as many rules as timers, unless nft fails.
LEMMA ExactArrival ==
  ASSUME TtlInv, ExactIn(chain, timer, cmd),
         NEW kind \in Kinds, NEW t \in Targets, NEW sec \in TtlSecs,
         InsertRule(kind, t, sec) \/ Refuse(kind, t, sec)
  PROVE  ExactIn(chain', timer', cmd')
  <1> SUFFICES ASSUME NEW c \in Chains, NEW a \in Apart
               PROVE  Cardinality(Owed(timer', cmd', c, {a}))
                        >= Cardinality(RulesFor(chain', cmd', c, {a}))
    BY DEF ExactIn
  <1> DEFINE k == count + 1
             S == RulesFor(chain, cmd, c, {a})
             A == Owed(timer, cmd, c, {a})
  <1>1. Cardinality(A) >= Cardinality(S)
    BY DEF ExactIn
  <1>2. S \in SUBSET Commands /\ A \in SUBSET Commands
    BY DEF RulesFor, Owed, TtlInv, TtlTypeOK
  <1>3. PICK until \in Nat, st \in {"applied", "failed"} : Receive(kind, t, until, st)
    <2>1. now + TtlOf(kind, sec) \in Nat
      BY TtlNumbers DEF TtlOf, TtlInv, TtlTypeOK
    <2> QED
      BY <2>1 DEF InsertRule, Refuse
  <1>4. /\ k \in Commands /\ timer[k] = "none"
        /\ \A d \in Chains : chain[d] \subseteq Commands /\ k \notin chain[d]
        /\ \A n \in Commands : n # k => cmd'[n] = cmd[n]
        /\ cmd'[k].kind = kind /\ cmd'[k].target = t
    BY <1>3, Arrival
  <1>5. k \notin S /\ k \notin A
    BY <1>4 DEF RulesFor, Owed
  <1>6. CASE Refuse(kind, t, sec)
    <2>1. RulesFor(chain', cmd', c, {a}) = S /\ Owed(timer', cmd', c, {a}) = A
      BY <1>4, <1>6 DEF RulesFor, Owed, Refuse
    <2> QED
      BY <1>1, <2>1
  <1>7. CASE InsertRule(kind, t, sec)
    <2>1. /\ chain'[c] = IF c = ChainOf(kind) THEN chain[c] \cup {k} ELSE chain[c]
          /\ timer' = [timer EXCEPT ![k] = "waiting"]
          /\ timer \in [Commands -> {"none", "waiting", "listed", "done", "lost"}]
      BY <1>7 DEF TtlInv, TtlTypeOK, Inserted, InsertRule
    <2> HIDE DEF k
    <2>2. CASE c = ChainOf(kind) /\ t = a
      <3>1. RulesFor(chain', cmd', c, {a}) = S \cup {k}
        BY <1>4, <2>1, <2>2 DEF RulesFor
      <3>2. Owed(timer', cmd', c, {a}) = A \cup {k}
        BY <1>4, <2>1, <2>2 DEF Owed
      <3> HIDE DEF S, A
      <3>3. IsFiniteSet(S) /\ IsFiniteSet(A)
        BY <1>2, FiniteCommands
      <3>4. Cardinality(A \cup {k}) >= Cardinality(S \cup {k})
        BY <1>1, <1>5, <3>3, BothGrow
      <3> QED
        BY <3>1, <3>2, <3>4
    <2>3. CASE ~(c = ChainOf(kind) /\ t = a)
      <3>1. RulesFor(chain', cmd', c, {a}) = S
        BY <1>4, <2>1, <2>3 DEF RulesFor
      <3>2. Owed(timer', cmd', c, {a}) = A
        BY <1>4, <2>1, <2>3 DEF Owed
      <3> QED
        BY <1>1, <3>1, <3>2
    <2> QED
      BY <2>2, <2>3
  <1> QED
    BY <1>6, <1>7

\* A target without timers to come has no rule.
LEMMA ExactIsReleased ==
  ASSUME ExactInv
  PROVE  DoneIsReleased
  <1> SUFFICES ASSUME nftFaults = 0, clashed = {}, NEW t \in Apart,
                      \A n \in Commands :
                        cmd[n] # NoCommand /\ cmd[n].target = t => timer[n] \in {"none", "done"},
                      NEW c \in Chains, NEW m \in chain[c], cmd[m].target = t
               PROVE  FALSE
    BY DEF DoneIsReleased, Ruled
  <1> DEFINE S == RulesFor(chain, cmd, c, {t})
             A == Owed(timer, cmd, c, {t})
  <1>1. Cardinality(A) >= Cardinality(S)
    BY DEF ExactInv, ExactIn
  <1>2. S \in SUBSET Commands /\ m \in S
    BY DEF RulesFor, ExactInv, TtlInv, TtlTypeOK
  <1>3. A = {}
    <2> SUFFICES ASSUME NEW n \in Commands, timer[n] \in {"waiting", "listed", "lost"},
                        cmd[n].target = t
                 PROVE  FALSE
      BY DEF Owed
    <2>1. cmd[n] \in Command
      BY DEF ExactInv, TtlInv, Handled
    <2>2. cmd[n] # NoCommand
      BY <2>1 DEF Command, NoCommand, Kinds
    <2> QED
      BY <2>2
  <1> HIDE DEF S, A
  <1>4. IsFiniteSet(S) /\ Cardinality(S) \in Nat
    BY <1>2, FiniteCommands
  <1>5. Cardinality(S) # 0
    BY <1>2, <1>4, FS_EmptySet
  <1>6. Cardinality(A) = 0
    BY <1>3, FS_EmptySet
  <1> QED
    BY <1>1, <1>4, <1>5, <1>6

\* Steps that leave rules and timers, or their sets, as they were.
LEMMA ExactKept ==
  ASSUME ExactIn(chain, timer, cmd), cmd' = cmd, chain' = chain,
         \A n \in Commands :
           timer'[n] \in {"waiting", "listed", "lost"} <=> timer[n] \in {"waiting", "listed", "lost"}
  PROVE  ExactIn(chain', timer', cmd')
  <1>1. \A c \in Chains, t \in Apart :
          /\ Owed(timer', cmd', c, {t}) = Owed(timer, cmd, c, {t})
          /\ RulesFor(chain', cmd', c, {t}) = RulesFor(chain, cmd, c, {t})
    BY DEF Owed, RulesFor
  <1> QED
    BY <1>1 DEF ExactIn

LEMMA ExactInit ==
  ASSUME TtlInit
  PROVE  ExactInv
  <1>1. Aimed(timer, listing, cmd)
    BY DEF TtlInit, Aimed
  <1>2. \A c \in Chains, t \in Apart :
          RulesFor(chain, cmd, c, {t}) = {} /\ Owed(timer, cmd, c, {t}) = {}
    BY DEF RulesFor, Owed, TtlInit
  <1>3. Cardinality({}) >= Cardinality({})
    BY FS_EmptySet
  <1> QED
    BY <1>1, <1>2, <1>3, TtlStart DEF ExactInv, ExactIn

\* A command that arrives changes nothing that a timer has listed.
LEMMA AimedArrival ==
  ASSUME TtlInv, Aimed(timer, listing, cmd),
         NEW kind \in Kinds, NEW t \in Targets, NEW until \in Nat,
         NEW st \in {"applied", "failed"}, Receive(kind, t, until, st),
         timer' \in {timer, [timer EXCEPT ![count + 1] = "waiting"]}
  PROVE  Aimed(timer', listing', cmd')
  <1>1. /\ count + 1 \in Commands /\ count \in Nat /\ timer[count + 1] = "none"
        /\ \A n \in Commands : n # count + 1 => cmd'[n] = cmd[n]
        /\ listing' = listing
    BY Arrival
  <1> SUFFICES ASSUME NEW n \in Commands, timer'[n] = "listed", cmd'[n].target \in Apart
               PROVE  \E m \in listing[n] : cmd'[m].target = cmd'[n].target
    BY <1>1 DEF Aimed
  <1>2. n # count + 1 /\ timer[n] = "listed"
    BY <1>1 DEF TtlInv, TtlTypeOK
  <1>3. cmd'[n] = cmd[n]
    BY <1>1, <1>2
  <1>4. PICK m \in listing[n] : cmd[m].target = cmd[n].target
    BY <1>2, <1>3 DEF Aimed
  <1>5. m \in Commands /\ m \in 1..count
    BY DEF TtlInv, TtlTypeOK, Known
  <1>6. cmd'[m] = cmd[m]
    BY <1>1, <1>5
  <1> QED
    BY <1>3, <1>4, <1>6

LEMMA ExactNext ==
  ASSUME ExactInv, [TtlNext]_ttlVars
  PROVE  ExactInv'
  <1> DEFINE Goal == /\ Aimed(timer', listing', cmd')
                     /\ nftFaults' = 0 /\ clashed' = {} => ExactIn(chain', timer', cmd')
  <1>0. TtlInv' /\ nftFaults \in Nat
    BY TtlStep DEF ExactInv, TtlInv, TtlTypeOK
  <1> SUFFICES Goal
    BY <1>0 DEF ExactInv
  <1>1. CASE SecondPasses \/ UNCHANGED ttlVars
    <2>1. UNCHANGED <<chain, timer, listing, cmd, clashed, nftFaults>>
      BY <1>1 DEF SecondPasses, ttlVars
    <2> QED
      BY <2>1 DEF ExactInv
  <1>2. CASE HandleTtl
    <2>1. PICK t \in Targets, sec \in TtlSecs :
            \/ TarpitIPWithTTL(t, sec) \/ IsolateHostWithTTL(t, sec)
            \/ \E kind \in Kinds : Refuse(kind, t, sec) \/ InsertFails(kind, t, sec)
      BY <1>2 DEF HandleTtl
    <2>2. PICK kind \in Kinds :
            InsertRule(kind, t, sec) \/ Refuse(kind, t, sec) \/ InsertFails(kind, t, sec)
      BY <2>1 DEF TarpitIPWithTTL, IsolateHostWithTTL, Kinds
    <2>3. PICK until \in Nat, st \in {"applied", "failed"} : Receive(kind, t, until, st)
      <3>1. now + TtlOf(kind, sec) \in Nat
        BY TtlNumbers DEF TtlOf, ExactInv, TtlInv, TtlTypeOK
      <3> QED
        BY <2>2, <3>1 DEF InsertRule, Refuse, InsertFails
    <2>4. timer' \in {timer, [timer EXCEPT ![count + 1] = "waiting"]}
      BY <2>2 DEF InsertRule, Refuse, InsertFails
    <2>5. Aimed(timer', listing', cmd')
      BY <2>3, <2>4, AimedArrival DEF ExactInv
    <2>6. ASSUME nftFaults' = 0, clashed' = {}
          PROVE  ExactIn(chain', timer', cmd')
      <3>1. ~InsertFails(kind, t, sec)
        BY <1>0, <2>6 DEF InsertFails, NftFault
      <3>2. nftFaults = 0 /\ clashed = {}
        BY <2>2, <2>3, <2>6, <3>1 DEF InsertRule, Refuse, Receive
      <3> QED
        BY <2>2, <3>1, <3>2, ExactArrival DEF ExactInv
    <2> QED
      BY <2>5, <2>6
  <1>3. CASE AgentStops
    <2>1. Aimed(timer', listing', cmd')
      BY <1>3 DEF AgentStops, Aimed, ExactInv, TtlInv, TtlTypeOK
    <2>2. nftFaults' # 0
      BY <1>0, <1>3 DEF AgentStops, NftFault
    <2> QED
      BY <2>1, <2>2
  <1>4. ASSUME NEW n \in Commands, List(n)
        PROVE  Goal
    <2> USE <1>4 DEF List
    <2>1. cmd[n].target \in Apart => \E m \in RulesIn(n) : cmd[m].target = cmd[n].target
      <3> SUFFICES ASSUME cmd[n].target \in Apart
                   PROVE  \E m \in RulesIn(n) : cmd[m].target = cmd[n].target
        OBVIOUS
      <3>1. {cmd[n].target} \in SUBSET Targets /\ Closed({cmd[n].target})
        BY ApartIsClosed
      <3>2. \E m \in RulesIn(n) : cmd[m].target \in {cmd[n].target}
        BY <3>1, TimerHasRule DEF ExactInv
      <3> QED
        BY <3>2
    <2>2. Aimed(timer', listing', cmd')
      BY <2>1 DEF Aimed, ExactInv, TtlInv, TtlTypeOK
    <2>3. \A k \in Commands :
            timer'[k] \in {"waiting", "listed", "lost"} <=> timer[k] \in {"waiting", "listed", "lost"}
      BY DEF ExactInv, TtlInv, TtlTypeOK
    <2> QED
      BY <2>2, <2>3, ExactKept DEF ExactInv
  <1>5. ASSUME NEW n \in Commands, Delete(n)
        PROVE  Goal
    <2>1. Aimed(timer', listing', cmd')
      BY <1>5 DEF Delete, Aimed, ExactInv, TtlInv, TtlTypeOK
    <2>2. nftFaults' = nftFaults
      BY <1>5 DEF Delete
    <2> QED
      BY <1>5, <2>1, <2>2, ExactDelete
  <1>6. ASSUME NEW n \in Commands, RemovalFails(n)
        PROVE  Goal
    <2>1. Aimed(timer', listing', cmd')
      BY <1>6 DEF RemovalFails, Aimed, ExactInv, TtlInv, TtlTypeOK
    <2>2. nftFaults' # 0
      BY <1>0, <1>6 DEF RemovalFails, NftFault
    <2> QED
      BY <2>1, <2>2
  <1> QED
    BY <1>1, <1>2, <1>3, <1>4, <1>5, <1>6 DEF TtlNext, Remove

\* "the rule is removed when ttl expires", as far as it holds: a target whose
\* text has nothing in common with another one's has no rule once its timers
\* have ended, however many commands there were for it, unless an nft call
\* failed, the agent restarted, or two timers picked the same rule.
THEOREM ReleasedWhenDone ==
  TtlSpec => []DoneIsReleased
  <1>1. TtlInit => ExactInv
    BY ExactInit
  <1>2. ExactInv /\ [TtlNext]_ttlVars => ExactInv'
    BY ExactNext
  <1>3. ExactInv => DoneIsReleased
    BY ExactIsReleased
  <1> QED
    BY <1>1, <1>2, <1>3, PTL DEF TtlSpec
=============================================================================
