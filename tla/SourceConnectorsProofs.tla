---------------------- MODULE SourceConnectorsProofs ----------------------
(***************************************************************************)
(* Proofs about SourceConnectors, for any number of overlapping requests,  *)
(* any ids and any number of faults.                                       *)
(***************************************************************************)
EXTENDS SourceConnectors, TLAPS

\* A handler past its first read works on a connector that was inserted.
TargetsBorn ==
  \A h \in Handlers : pc[h] \notin {"idle", "refused"} => target[h] \in born

\* A handler between a read and its use has read a row.
LoadedRow ==
  \A h \in Handlers : /\ pc[h] \in {"loaded", "answer"} => loaded[h] \in Row
                      /\ pc[h] = "loaded" => op[h] # "create"

\* A handler that has committed its DELETE finds the row gone from then on.
DeletedIsGone ==
  \A h \in Handlers : pc[h] = "deleted" => op[h] = "delete" /\ ~Exists(target[h])

\* Nothing is known of an id that was never inserted.
UnbornIsBlank ==
  \A c \in Connectors \ born :
    /\ rows[c] = Absent /\ keys[c] = <<>>
    /\ \A t \in told : t.id # c
    /\ Entry("delete_source", c) \notin audit /\ Entry("create_source", c) \notin audit

\* The key of a row is the one committed last.
RowHasLastKey ==
  \A c \in born : /\ keys[c] # <<>>
                  /\ Exists(c) => rows[c].key = keys[c][Len(keys[c])]

\* A handler that is about to refresh has committed its own key; what refresh
\* has read is that key or a later one.
OwnKeyCommitted ==
  \A h \in Handlers :
    /\ pc[h] = "refresh" => \E i \in DOMAIN keys[target[h]] : keys[target[h]][i] = h
    /\ pc[h] = "answer" => \E i, j \in DOMAIN keys[target[h]] :
         i <= j /\ keys[target[h]][i] = h /\ keys[target[h]][j] = loaded[h].key

\* What an answer shows: the handler's own key or a later one.
ToldNotReplaced ==
  \A t \in told : \E i, j \in DOMAIN keys[t.id] :
    i <= j /\ keys[t.id][i] = t.by /\ keys[t.id][j] = t.key

\* The handler whose key is in the row has told it, has yet to, or was cut short.
HolderTells ==
  \A c \in born : Exists(c) =>
    /\ target[rows[c].key] = c
    /\ \/ pc[rows[c].key] \in {"refresh", "failed", "lost"}
       \/ pc[rows[c].key] = "answer" /\ loaded[rows[c].key].key = rows[c].key
       \/ /\ pc[rows[c].key] = "answered"
          /\ \E t \in told : t.id = c /\ t.key = rows[c].key

\* The handler that made the first key is the creator; once it has answered,
\* its entry is in the log.
CreatorKnown ==
  \A c \in born :
    /\ op[keys[c][1]] = "create" /\ target[keys[c][1]] = c
    /\ \/ pc[keys[c][1]] \in {"refresh", "answer", "failed", "lost"}
       \/ pc[keys[c][1]] = "answered" /\ Entry("create_source", c) \in audit

\* Who deleted a row that is gone.
GoneIsExplained ==
  \A c \in born :
    /\ Entry("delete_source", c) \in audit => ~Exists(c)
    /\ ~Exists(c) => \/ Entry("delete_source", c) \in audit
                     \/ \E h \in Handlers : op[h] = "delete" /\ target[h] = c /\ Unlogged(h)

IInv ==
  /\ TypeOK /\ TargetsBorn /\ LoadedRow /\ UnbornIsBlank
  /\ RowHasLastKey /\ OwnKeyCommitted /\ ToldNotReplaced
  /\ HolderTells /\ CreatorKnown /\ GoneIsExplained /\ DeletedIsGone

\* The absent row is not a row.
LEMMA AbsentIsNoRow == Absent \notin Row
  BY DEF Absent, Row, SUPPORTED_PLATFORMS

LEMMA InitInv == Init => IInv
  BY ConnectorsAssumption
  DEF Init, IInv, TypeOK, TargetsBorn, LoadedRow, UnbornIsBlank, RowHasLastKey, OwnKeyCommitted,
      ToldNotReplaced, HolderTells, CreatorKnown, GoneIsExplained, DeletedIsGone

\* Where _get_connector leads to: a 404, the answer of a syslog test, or on.
LEMMA LoadGoes ==
  ASSUME NEW h \in Handlers, Load(h)
  PROVE  \E o \in {"rotate", "test", "delete"}, c \in born, l \in {"refused", "answered", "loaded"} :
           /\ op' = [op EXCEPT ![h] = o]
           /\ target' = [target EXCEPT ![h] = c]
           /\ loaded' = [loaded EXCEPT ![h] = rows[c]]
           /\ Goto(h, l)
           /\ l \in {"answered", "loaded"} => Exists(c)
  <1>1. PICK o \in {"rotate", "test", "delete"}, c \in born :
          /\ op' = [op EXCEPT ![h] = o]
          /\ target' = [target EXCEPT ![h] = c]
          /\ loaded' = [loaded EXCEPT ![h] = rows[c]]
          /\ Goto(h, CASE ~Exists(c) -> "refused"
                       [] Exists(c) /\ o = "test" /\ rows[c].platform = "syslog" -> "answered"
                       [] OTHER -> "loaded")
    BY DEF Load
  <1>2. CASE ~Exists(c)
    BY <1>1, <1>2
  <1>3. CASE Exists(c) /\ o = "test" /\ rows[c].platform = "syslog"
    BY <1>1, <1>3
  <1>4. CASE Exists(c) /\ ~(o = "test" /\ rows[c].platform = "syslog")
    BY <1>1, <1>4
  <1> QED
    BY <1>2, <1>3, <1>4

\* Every step keeps the types.
LEMMA TypeStep == TypeOK /\ TargetsBorn /\ LoadedRow /\ [Next]_vars => TypeOK'
  <1> SUFFICES ASSUME TypeOK, TargetsBorn, LoadedRow, [Next]_vars PROVE TypeOK'
    OBVIOUS
  <1> USE ConnectorsAssumption, AbsentIsNoRow
  <1>1. CASE UNCHANGED vars
    BY <1>1 DEF vars, TypeOK
  <1>2. CASE Restart
    BY <1>2 DEF Restart, Fault, TypeOK
  <1>3. ASSUME NEW h \in Handlers, RefuseCreate(h) PROVE TypeOK'
    BY <1>3 DEF RefuseCreate, Goto, TypeOK
  <1>4. ASSUME NEW h \in Handlers, Create(h) PROVE TypeOK'
    <2>1. PICK p \in Platforms : InsertRow(h, p)
      BY <1>4 DEF Create, CreateCloudflare, CreateAws, CreateWebhook, CreateSyslog, InsertRow
    <2>2. PICK c \in Connectors \ born :
            /\ rows' = [rows EXCEPT ![c] = [platform |-> p, key |-> h, events |-> 0]]
            /\ born' = born \cup {c}
            /\ target' = [target EXCEPT ![h] = c]
            /\ keys' = [keys EXCEPT ![c] = <<h>>]
      BY <2>1 DEF InsertRow
    <2>3. [platform |-> p, key |-> h, events |-> 0] \in Row
      BY DEF Row
    <2>4. keys' \in [Connectors -> Seq(Handlers)]
      BY <2>2 DEF TypeOK
    <2> QED
      BY <2>1, <2>2, <2>3, <2>4 DEF InsertRow, Goto, TypeOK
  <1>5. ASSUME NEW h \in Handlers, Load(h) PROVE TypeOK'
    <2>1. PICK o \in {"rotate", "test", "delete"}, c \in born, l \in {"refused", "answered", "loaded"} :
            /\ op' = [op EXCEPT ![h] = o]
            /\ target' = [target EXCEPT ![h] = c]
            /\ loaded' = [loaded EXCEPT ![h] = rows[c]]
            /\ Goto(h, l)
      BY <1>5, LoadGoes
    <2> QED
      BY <1>5, <2>1 DEF Load, Goto, TypeOK
  <1>6. ASSUME NEW h \in Handlers, NEW l \in {"refresh", "failed"}, RotateCommit(h, l),
               faults' \in 0..MaxFaults
        PROVE  TypeOK'
    <2>1. target[h] \in Connectors /\ rows[target[h]] \in Row
      BY <1>6 DEF RotateCommit, Exists, TypeOK
    <2>2. rows' \in [Connectors -> Row \cup {Absent}]
      BY <1>6, <2>1 DEF RotateCommit, TypeOK, Row
    <2>3. keys' \in [Connectors -> Seq(Handlers)]
      BY <1>6, <2>1 DEF RotateCommit, TypeOK
    <2> QED
      BY <1>6, <2>2, <2>3 DEF RotateCommit, Goto, TypeOK
  <1>7. ASSUME NEW h \in Handlers, NEW l \in {"calling", "answered", "failed"}, TestCommit(h, l),
               faults' \in 0..MaxFaults
        PROVE  TypeOK'
    <2>1. target[h] \in Connectors /\ rows[target[h]] \in Row /\ loaded[h].events + 1 \in Nat
      BY <1>7 DEF TestCommit, Exists, TypeOK, LoadedRow, Row
    <2>2. rows' \in [Connectors -> Row \cup {Absent}]
      BY <1>7, <2>1 DEF TestCommit, TypeOK, Row
    <2>3. peak' \in [Connectors -> Nat]
      BY <1>7, <2>1 DEF TestCommit, TypeOK, Larger
    <2> QED
      BY <1>7, <2>2, <2>3 DEF TestCommit, Goto, TypeOK
  <1>8. ASSUME NEW h \in Handlers, NEW l \in {"deleted", "failed"}, DeleteCommit(h, l),
               faults' \in 0..MaxFaults
        PROVE  TypeOK'
    BY <1>8 DEF DeleteCommit, Goto, TypeOK
  <1>9. ASSUME NEW h \in Handlers, Stale(h) PROVE TypeOK'
    BY <1>9 DEF Stale, Goto, TypeOK
  <1>10. ASSUME NEW h \in Handlers, Rotate(h) PROVE TypeOK'
    BY <1>6, <1>10 DEF Rotate, TypeOK
  <1>11. ASSUME NEW h \in Handlers, Test(h) PROVE TypeOK'
    BY <1>7, <1>11 DEF Test, TypeOK
  <1>12. ASSUME NEW h \in Handlers, Delete(h) PROVE TypeOK'
    BY <1>8, <1>12 DEF Delete, TypeOK
  <1>13. ASSUME NEW h \in Handlers, CommitRaises(h) PROVE TypeOK'
    <2>1. faults' \in 0..MaxFaults
      BY <1>13 DEF CommitRaises, Fault, TypeOK
    <2>2. CASE Goto(h, "failed") /\ UNCHANGED <<rows, born, op, target, loaded, keys, told, audit, peak>>
      BY <2>1, <2>2 DEF Goto, TypeOK
    <2> QED
      BY <1>6, <1>7, <1>8, <1>13, <2>1, <2>2 DEF CommitRaises
  <1>14. ASSUME NEW h \in Handlers, Finish(h) PROVE TypeOK'
    <2>1. target[h] \in Connectors /\ loaded[h] \in Row
      BY <1>14 DEF Finish, LoadedRow, TypeOK
    <2>2. told' \subseteq [by : Handlers, id : Connectors, key : Handlers]
      BY <1>14, <2>1 DEF Finish, Shown, TypeOK, Row
    <2>3. audit' \subseteq [action : {"create_source", "delete_source"}, id : Connectors]
      BY <1>14, <2>1 DEF Finish, Entry, TypeOK
    <2> QED
      BY <1>14, <2>2, <2>3 DEF Finish, Goto, TypeOK
  <1>15. ASSUME NEW h \in Handlers, FinishRaises(h) PROVE TypeOK'
    BY <1>15 DEF FinishRaises, Goto, TypeOK
  <1>16. ASSUME NEW h \in Handlers, SelfCall(h) PROVE TypeOK'
    BY <1>16 DEF SelfCall, Goto, TypeOK
  <1>17. ASSUME NEW h \in Handlers, Rebump(h) PROVE TypeOK'
    <2>1. CASE Exists(target[h])
      <3>1. target[h] \in Connectors /\ rows[target[h]] \in Row /\ rows[target[h]].events + 1 \in Nat
        BY <2>1 DEF Exists, TypeOK, Row
      <3>2. rows' \in [Connectors -> Row \cup {Absent}]
        <4>1. rows' = [rows EXCEPT ![target[h]] = [@ EXCEPT !.events = rows[target[h]].events + 1]]
          BY <1>17, <2>1 DEF Rebump
        <4>2. [rows[target[h]] EXCEPT !.events = rows[target[h]].events + 1] \in Row
          BY <3>1 DEF Row
        <4> QED
          BY <4>1, <4>2, <3>1 DEF TypeOK
      <3>3. peak' \in [Connectors -> Nat]
        BY <1>17, <2>1, <3>1 DEF Rebump, TypeOK, Larger
      <3> QED
        BY <1>17, <3>2, <3>3 DEF Rebump, Goto, TypeOK
    <2>2. CASE ~Exists(target[h])
      BY <1>17, <2>2 DEF Rebump, Goto, TypeOK
    <2> QED
      BY <2>1, <2>2
  <1>18. ASSUME NEW h \in Handlers, AwaitRaises(h) PROVE TypeOK'
    BY <1>18 DEF AwaitRaises, Goto, Fault, TypeOK
  <1>19. ASSUME NEW h \in Handlers, DeleteEnds(h) PROVE TypeOK'
    <2>1. audit' \subseteq [action : {"create_source", "delete_source"}, id : Connectors]
      BY <1>19 DEF DeleteEnds, Entry, TypeOK
    <2> QED
      BY <1>19, <2>1 DEF DeleteEnds, Goto, TypeOK
  <1>20. ASSUME NEW h \in Handlers, Refresh(h) PROVE TypeOK'
    BY <1>20 DEF Refresh, Reread, Goto, TypeOK
  <1> QED
    BY <1>1, <1>2, <1>3, <1>4, <1>5, <1>9, <1>10, <1>11, <1>12, <1>13, <1>14, <1>15, <1>16,
       <1>17, <1>18, <1>19, <1>20 DEF Next
--------------------------------------------------------------------------
(* The kinds of step: one that commits no key, deletes no row and says     *)
(* nothing, and the others.                                                *)

\* The handler g stands still, starts, or goes on without telling anything.
MovesOn(g) ==
  \/ pc'[g] = pc[g] /\ op'[g] = op[g] /\ target'[g] = target[g] /\ loaded'[g] = loaded[g]
  \/ /\ pc[g] = "idle" /\ pc'[g] \in {"refused", "answered", "loaded"}
     /\ pc'[g] # "refused" => target'[g] \in born
     /\ pc'[g] = "loaded" => loaded'[g] \in Row /\ op'[g] # "create"
  \/ /\ op'[g] = op[g] /\ target'[g] = target[g] /\ loaded'[g] = loaded[g]
     /\ InFlight(g) /\ pc'[g] \in {"calling", "rebump", "answered", "failed", "lost"}
     /\ pc[g] \in {"refresh", "answer", "deleted"} => pc'[g] \in {"failed", "lost"}

\* The row of c keeps its key, or stays absent.
KeepsKey(c) ==
  /\ (rows'[c] = Absent) <=> (rows[c] = Absent)
  /\ rows[c] # Absent => rows'[c].key = rows[c].key

Quiet ==
  /\ UNCHANGED <<born, keys, told, audit>>
  /\ \A c \in Connectors : KeepsKey(c)
  /\ \A g \in Handlers : MovesOn(g)

\* Every step is of one of the kinds.
LEMMA StepKinds ==
  ASSUME TypeOK, TargetsBorn, LoadedRow, [Next]_vars
  PROVE  \/ Quiet
         \/ \E h \in Handlers :
              \/ \E p \in Platforms : InsertRow(h, p)
              \/ \E l \in {"refresh", "failed"} : RotateCommit(h, l)
              \/ \E l \in {"deleted", "failed"} : DeleteCommit(h, l)
              \/ DeleteEnds(h)
              \/ Refresh(h)
              \/ Finish(h)
  <1> USE ConnectorsAssumption, AbsentIsNoRow
  <1>0. ASSUME UNCHANGED rows PROVE \A c \in Connectors : KeepsKey(c)
    BY <1>0 DEF KeepsKey
  <1>1. CASE UNCHANGED vars
    BY <1>0, <1>1 DEF vars, Quiet, MovesOn
  <1>2. CASE Restart
    BY <1>0, <1>2 DEF Restart, Quiet, MovesOn, InFlight, TypeOK
  <1>3. ASSUME NEW h \in Handlers, RefuseCreate(h) PROVE Quiet
    BY <1>0, <1>3 DEF RefuseCreate, Goto, Quiet, MovesOn, TypeOK
  <1>4. ASSUME NEW h \in Handlers, Create(h) PROVE \E p \in Platforms : InsertRow(h, p)
    BY <1>4 DEF Create, CreateCloudflare, CreateAws, CreateWebhook, CreateSyslog, InsertRow
  <1>5. ASSUME NEW h \in Handlers, Load(h) PROVE Quiet
    <2>1. PICK o \in {"rotate", "test", "delete"}, c \in born, l \in {"refused", "answered", "loaded"} :
            /\ op' = [op EXCEPT ![h] = o]
            /\ target' = [target EXCEPT ![h] = c]
            /\ loaded' = [loaded EXCEPT ![h] = rows[c]]
            /\ Goto(h, l)
            /\ l \in {"answered", "loaded"} => Exists(c)
      BY <1>5, LoadGoes
    <2>2. l \in {"answered", "loaded"} => rows[c] \in Row
      BY <2>1 DEF Exists, TypeOK
    <2>3. ASSUME NEW g \in Handlers PROVE MovesOn(g)
      BY <1>5, <2>1, <2>2 DEF Load, Goto, MovesOn, TypeOK
    <2> QED
      BY <1>0, <1>5, <2>3 DEF Load, Quiet
  <1>6. ASSUME NEW h \in Handlers, NEW l \in {"calling", "answered", "failed"}, TestCommit(h, l)
        PROVE  Quiet
    <2>1. target[h] \in Connectors /\ rows[target[h]] \in Row /\ loaded[h].events + 1 \in Nat
      BY <1>6 DEF TestCommit, Exists, TypeOK, LoadedRow, Row
    <2>2. [rows[target[h]] EXCEPT !.events = loaded[h].events + 1] \in Row
      BY <2>1 DEF Row
    <2>3. ASSUME NEW c \in Connectors PROVE KeepsKey(c)
      BY <1>6, <2>1, <2>2 DEF TestCommit, KeepsKey, TypeOK, Row
    <2>4. ASSUME NEW g \in Handlers PROVE MovesOn(g)
      BY <1>6 DEF TestCommit, Goto, MovesOn, InFlight, TypeOK
    <2> QED
      BY <1>6, <2>3, <2>4 DEF TestCommit, Quiet
  <1>7. ASSUME NEW h \in Handlers, NEW l \in {"failed", "answered", "rebump"},
               InFlight(h), pc[h] \in {"refresh", "answer", "deleted"} => l = "failed", Goto(h, l),
               UNCHANGED <<rows, born, op, target, loaded, keys, told, audit>>
        PROVE  Quiet
    <2>1. ASSUME NEW g \in Handlers PROVE MovesOn(g)
      BY <1>7 DEF Goto, MovesOn, TypeOK
    <2> QED
      BY <1>0, <1>7, <2>1 DEF Quiet
  <1>8. ASSUME NEW h \in Handlers, Test(h) PROVE Quiet
    BY <1>6, <1>8 DEF Test
  <1>9. ASSUME NEW h \in Handlers, Rebump(h) PROVE Quiet
    <2>1. CASE Exists(target[h])
      <3>1. target[h] \in Connectors /\ rows[target[h]] \in Row /\ rows[target[h]].events + 1 \in Nat
        BY <2>1 DEF Exists, TypeOK, Row
      <3>2. rows' = [rows EXCEPT ![target[h]] = [@ EXCEPT !.events = rows[target[h]].events + 1]]
        BY <1>9, <2>1 DEF Rebump
      <3>3. [rows[target[h]] EXCEPT !.events = rows[target[h]].events + 1] \in Row
        BY <3>1 DEF Row
      <3>4. ASSUME NEW c \in Connectors PROVE KeepsKey(c)
        BY <3>1, <3>2, <3>3 DEF KeepsKey, TypeOK, Row
      <3>5. ASSUME NEW g \in Handlers PROVE MovesOn(g)
        BY <1>9 DEF Rebump, Goto, MovesOn, InFlight, TypeOK
      <3> QED
        BY <1>9, <3>4, <3>5 DEF Rebump, Quiet
    <2>2. CASE ~Exists(target[h])
      BY <1>7, <1>9, <2>2 DEF Rebump, InFlight
    <2> QED
      BY <2>1, <2>2
  <1>10. ASSUME NEW h \in Handlers, Stale(h) \/ FinishRaises(h) \/ SelfCall(h) \/ AwaitRaises(h)
         PROVE  Quiet
    BY <1>7, <1>10 DEF Stale, FinishRaises, SelfCall, AwaitRaises, InFlight
  <1>11. ASSUME NEW h \in Handlers, CommitRaises(h)
         PROVE  \/ Quiet
                \/ RotateCommit(h, "failed")
                \/ DeleteCommit(h, "failed")
    BY <1>6, <1>7, <1>11 DEF CommitRaises, InFlight
  <1>12. ASSUME NEW h \in Handlers, Rotate(h) PROVE RotateCommit(h, "refresh")
    BY <1>12 DEF Rotate
  <1>13. ASSUME NEW h \in Handlers, Delete(h) PROVE DeleteCommit(h, "deleted")
    BY <1>13 DEF Delete
  <1> QED
    BY <1>1, <1>2, <1>3, <1>4, <1>5, <1>8, <1>9, <1>10, <1>11, <1>12, <1>13 DEF Next
--------------------------------------------------------------------------
(* Each kind keeps the inductive invariant.                                *)

LEMMA QuietKeeps == ASSUME IInv, TypeOK', Quiet PROVE IInv'
  <1> USE DEF IInv
  <1>1. TargetsBorn' /\ LoadedRow'
    BY DEF TargetsBorn, LoadedRow, Quiet, MovesOn, InFlight
  <1>2. UnbornIsBlank'
    BY DEF UnbornIsBlank, Quiet, KeepsKey, TypeOK
  <1>3. RowHasLastKey'
    BY DEF RowHasLastKey, Quiet, KeepsKey, TypeOK, Exists
  <1>4. OwnKeyCommitted'
    BY DEF OwnKeyCommitted, Quiet, MovesOn, InFlight
  <1>5. ToldNotReplaced'
    BY DEF ToldNotReplaced, Quiet
  <1>6. HolderTells'
    <2> SUFFICES ASSUME NEW c \in born, Exists(c)'
                 PROVE  /\ target'[rows'[c].key] = c
                        /\ \/ pc'[rows'[c].key] \in {"refresh", "failed", "lost"}
                           \/ pc'[rows'[c].key] = "answer" /\ loaded'[rows'[c].key].key = rows'[c].key
                           \/ /\ pc'[rows'[c].key] = "answered"
                              /\ \E t \in told : t.id = c /\ t.key = rows'[c].key
      BY DEF HolderTells, Quiet
    <2>1. Exists(c) /\ rows'[c].key = rows[c].key /\ rows[c].key \in Handlers
      BY DEF Quiet, KeepsKey, Exists, TypeOK, Row
    <2>2. MovesOn(rows[c].key)
      BY <2>1 DEF Quiet
    <2> QED
      BY <2>1, <2>2 DEF HolderTells, MovesOn, InFlight
  <1>7. CreatorKnown'
    <2> SUFFICES ASSUME NEW c \in born
                 PROVE  /\ op'[keys[c][1]] = "create" /\ target'[keys[c][1]] = c
                        /\ \/ pc'[keys[c][1]] \in {"refresh", "answer", "failed", "lost"}
                           \/ pc'[keys[c][1]] = "answered" /\ Entry("create_source", c) \in audit
      BY DEF CreatorKnown, Quiet
    <2>1. keys[c][1] \in Handlers
      BY DEF RowHasLastKey, TypeOK
    <2>2. MovesOn(keys[c][1])
      BY <2>1 DEF Quiet
    <2> QED
      BY <2>2 DEF CreatorKnown, MovesOn, InFlight
  <1>8. GoneIsExplained'
    <2> SUFFICES ASSUME NEW c \in born
                 PROVE  /\ Entry("delete_source", c) \in audit => ~Exists(c)'
                        /\ ~Exists(c)' =>
                             \/ Entry("delete_source", c) \in audit
                             \/ \E h \in Handlers : op'[h] = "delete" /\ target'[h] = c /\ Unlogged(h)'
      BY DEF GoneIsExplained, Quiet
    <2>1. Exists(c)' <=> Exists(c)
      BY DEF Quiet, KeepsKey, Exists, TypeOK
    <2>2. ASSUME NEW h \in Handlers, op[h] = "delete" /\ target[h] = c /\ Unlogged(h)
          PROVE  op'[h] = "delete" /\ target'[h] = c /\ Unlogged(h)'
      BY <2>2 DEF Quiet, MovesOn, InFlight, Cut, Unlogged
    <2> QED
      BY <2>1, <2>2 DEF GoneIsExplained
  <1>9. DeletedIsGone'
    <2> SUFFICES ASSUME NEW h \in Handlers, pc'[h] = "deleted"
                 PROVE  op'[h] = "delete" /\ rows'[target'[h]] = Absent
      BY DEF DeletedIsGone, Exists
    <2>1. MovesOn(h)
      BY DEF Quiet
    <2>2. pc[h] = "deleted" /\ op'[h] = op[h] /\ target'[h] = target[h]
      BY <2>1 DEF MovesOn
    <2> QED
      BY <2>2 DEF DeletedIsGone, Exists, Quiet, KeepsKey, TypeOK
  <1> QED
    BY <1>1, <1>2, <1>3, <1>4, <1>5, <1>6, <1>7, <1>8, <1>9

LEMMA InsertKeeps ==
  ASSUME IInv, TypeOK', NEW h \in Handlers, NEW p \in Platforms, InsertRow(h, p)
  PROVE  IInv'
  <1> USE DEF IInv
  <1>1. PICK c \in Connectors \ born :
          /\ rows' = [rows EXCEPT ![c] = [platform |-> p, key |-> h, events |-> 0]]
          /\ born' = born \cup {c}
          /\ target' = [target EXCEPT ![h] = c]
          /\ keys' = [keys EXCEPT ![c] = <<h>>]
    BY DEF InsertRow
  <1>2. /\ pc[h] = "idle" /\ pc' = [pc EXCEPT ![h] = "refresh"]
        /\ op' = [op EXCEPT ![h] = "create"]
        /\ UNCHANGED <<loaded, told, audit>>
    BY DEF InsertRow, Goto
  <1>3. /\ rows'[c] # Absent /\ rows'[c].key = h /\ keys'[c] = <<h>>
        /\ target'[h] = c /\ pc'[h] = "refresh" /\ op'[h] = "create"
        /\ \A g \in Handlers \ {h} : pc'[g] = pc[g] /\ op'[g] = op[g] /\ target'[g] = target[g]
        /\ \A d \in Connectors \ {c} : rows'[d] = rows[d] /\ keys'[d] = keys[d]
    BY <1>1, <1>2, AbsentIsNoRow, ConnectorsAssumption DEF TypeOK, Row
  <1>4. TargetsBorn' /\ LoadedRow'
    BY <1>1, <1>2, <1>3 DEF TargetsBorn, LoadedRow
  <1>5. UnbornIsBlank'
    BY <1>1, <1>2, <1>3 DEF UnbornIsBlank
  <1>6. RowHasLastKey'
    BY <1>1, <1>3 DEF RowHasLastKey, Exists, TypeOK
  <1>7. OwnKeyCommitted'
    <2> SUFFICES ASSUME NEW g \in Handlers, pc'[g] \in {"refresh", "answer"}
                 PROVE  /\ pc'[g] = "refresh" =>
                             \E i \in DOMAIN keys'[target'[g]] : keys'[target'[g]][i] = g
                        /\ pc'[g] = "answer" => \E i, j \in DOMAIN keys'[target'[g]] :
                             i <= j /\ keys'[target'[g]][i] = g /\ keys'[target'[g]][j] = loaded'[g].key
      BY DEF OwnKeyCommitted
    <2>1. CASE g = h
      BY <1>3, <2>1
    <2>2. CASE g # h
      <3>1. pc[g] = pc'[g] /\ target'[g] = target[g] /\ target[g] \in born /\ loaded'[g] = loaded[g]
        BY <1>2, <1>3, <2>2 DEF TargetsBorn
      <3>2. keys'[target[g]] = keys[target[g]]
        BY <1>3, <3>1 DEF TypeOK
      <3> QED
        BY <3>1, <3>2 DEF OwnKeyCommitted
    <2> QED
      BY <2>1, <2>2
  <1>8. ToldNotReplaced'
    <2> SUFFICES ASSUME NEW t \in told
                 PROVE  \E i, j \in DOMAIN keys'[t.id] :
                          i <= j /\ keys'[t.id][i] = t.by /\ keys'[t.id][j] = t.key
      BY <1>2 DEF ToldNotReplaced
    <2>1. keys'[t.id] = keys[t.id]
      BY <1>3 DEF UnbornIsBlank, TypeOK
    <2> QED
      BY <2>1 DEF ToldNotReplaced
  <1>9. HolderTells'
    <2> SUFFICES ASSUME NEW d \in born', rows'[d] # Absent
                 PROVE  /\ target'[rows'[d].key] = d
                        /\ \/ pc'[rows'[d].key] \in {"refresh", "failed", "lost"}
                           \/ pc'[rows'[d].key] = "answer" /\ loaded'[rows'[d].key].key = rows'[d].key
                           \/ /\ pc'[rows'[d].key] = "answered"
                              /\ \E t \in told : t.id = d /\ t.key = rows'[d].key
      BY <1>2 DEF HolderTells, Exists
    <2>1. CASE d = c
      BY <1>3, <2>1
    <2>2. CASE d # c
      <3>1. d \in born /\ rows'[d] = rows[d]
        BY <1>1, <1>3, <2>2 DEF TypeOK
      <3>2. rows[d].key \in Handlers
        BY <3>1 DEF TypeOK, Row
      <3> QED
        BY <1>2, <1>3, <3>1, <3>2 DEF HolderTells, Exists
    <2> QED
      BY <2>1, <2>2
  <1>10. CreatorKnown'
    <2> SUFFICES ASSUME NEW d \in born'
                 PROVE  /\ op'[keys'[d][1]] = "create" /\ target'[keys'[d][1]] = d
                        /\ \/ pc'[keys'[d][1]] \in {"refresh", "answer", "failed", "lost"}
                           \/ pc'[keys'[d][1]] = "answered" /\ Entry("create_source", d) \in audit
      BY <1>2 DEF CreatorKnown
    <2>1. CASE d = c
      BY <1>3, <2>1
    <2>2. CASE d # c
      <3>1. d \in born /\ keys'[d] = keys[d] /\ keys[d] # <<>>
        BY <1>1, <1>3, <2>2 DEF TypeOK, RowHasLastKey
      <3>2. keys[d][1] \in Handlers
        BY <3>1, SMTT(30) DEF TypeOK
      <3> QED
        BY <1>2, <1>3, <3>1, <3>2 DEF CreatorKnown
    <2> QED
      BY <2>1, <2>2
  <1>11. GoneIsExplained'
    <2> SUFFICES ASSUME NEW d \in born'
                 PROVE  /\ Entry("delete_source", d) \in audit => rows'[d] = Absent
                        /\ rows'[d] = Absent =>
                             \/ Entry("delete_source", d) \in audit
                             \/ \E g \in Handlers : op'[g] = "delete" /\ target'[g] = d /\ Unlogged(g)'
      BY <1>2 DEF GoneIsExplained, Exists
    <2>1. CASE d = c
      BY <1>3, <2>1 DEF UnbornIsBlank
    <2>2. CASE d # c
      <3>1. d \in born /\ rows'[d] = rows[d]
        BY <1>1, <1>3, <2>2 DEF TypeOK
      <3>2. ASSUME NEW g \in Handlers, op[g] = "delete" /\ target[g] = d /\ Unlogged(g)
            PROVE  op'[g] = "delete" /\ target'[g] = d /\ Unlogged(g)'
        BY <1>2, <1>3, <3>2 DEF Cut, Unlogged
      <3> QED
        BY <3>1, <3>2 DEF GoneIsExplained, Exists
    <2> QED
      BY <2>1, <2>2
  <1>12. DeletedIsGone'
    <2> SUFFICES ASSUME NEW g \in Handlers, pc'[g] = "deleted"
                 PROVE  op'[g] = "delete" /\ rows'[target'[g]] = Absent
      BY DEF DeletedIsGone, Exists
    <2>1. g # h /\ pc[g] = "deleted" /\ op'[g] = op[g] /\ target'[g] = target[g]
      BY <1>3
    <2>2. target[g] \in born /\ target[g] \in Connectors
      BY <2>1 DEF TargetsBorn, TypeOK
    <2> QED
      BY <1>1, <1>3, <2>1, <2>2 DEF DeletedIsGone, Exists
  <1> QED
    BY <1>4, <1>5, <1>6, <1>7, <1>8, <1>9, <1>10, <1>11, <1>12

LEMMA RotateKeeps ==
  ASSUME IInv, TypeOK', NEW h \in Handlers, NEW l \in {"refresh", "failed"}, RotateCommit(h, l)
  PROVE  IInv'
  <1> DEFINE c == target[h]
  <1> USE DEF IInv
  <1>1. /\ pc[h] = "loaded" /\ op[h] = "rotate" /\ rows[c] \in Row
        /\ c \in born /\ c \in Connectors
        /\ pc' = [pc EXCEPT ![h] = l]
        /\ UNCHANGED <<born, op, target, loaded, told, audit>>
    BY DEF RotateCommit, Goto, Exists, TypeOK, TargetsBorn
  <1>2. /\ rows'[c] # Absent /\ rows'[c].key = h /\ keys'[c] = Append(keys[c], h)
        /\ \A d \in Connectors \ {c} : rows'[d] = rows[d] /\ keys'[d] = keys[d]
    <2>1. rows' = [rows EXCEPT ![c].key = h] /\ keys' = [keys EXCEPT ![c] = Append(@, h)]
      BY DEF RotateCommit
    <2>2. [rows[c] EXCEPT !.key = h] \in Row /\ [rows[c] EXCEPT !.key = h].key = h
      BY <1>1 DEF Row
    <2> QED
      BY <1>1, <2>1, <2>2, AbsentIsNoRow DEF TypeOK
  <1>3. /\ pc'[h] = l
        /\ \A g \in Handlers \ {h} : pc'[g] = pc[g]
    BY <1>1 DEF TypeOK
  <1>4. /\ keys[c] \in Seq(Handlers) /\ keys[c] # <<>>
        /\ Len(keys'[c]) = Len(keys[c]) + 1 /\ keys'[c][Len(keys[c]) + 1] = h
        /\ DOMAIN keys[c] \subseteq DOMAIN keys'[c]
        /\ \A i \in DOMAIN keys[c] : keys'[c][i] = keys[c][i]
        /\ keys'[c][1] = keys[c][1]
    <2>1. keys[c] \in Seq(Handlers) /\ keys[c] # <<>>
      BY <1>1 DEF TypeOK, RowHasLastKey
    <2> HIDE DEF c
    <2>2. keys[c] \in Seq(Handlers) /\ keys[c] # <<>> /\ keys'[c] = Append(keys[c], h)
      BY <1>2, <2>1
    <2> QED
      BY <2>2
  <1>5. \A d \in Connectors : /\ DOMAIN keys[d] \subseteq DOMAIN keys'[d]
                              /\ \A i \in DOMAIN keys[d] : keys'[d][i] = keys[d][i]
    BY <1>2, <1>4
  <1>6. TargetsBorn' /\ LoadedRow'
    BY <1>1, <1>3 DEF TargetsBorn, LoadedRow
  <1>7. UnbornIsBlank'
    BY <1>1, <1>2 DEF UnbornIsBlank
  <1>8. RowHasLastKey'
    <2>1. keys'[c] # <<>> /\ keys'[c][Len(keys'[c])] = h
      BY <1>2, <1>4
    <2> SUFFICES ASSUME NEW d \in born
                 PROVE  /\ keys'[d] # <<>>
                        /\ rows'[d] # Absent => rows'[d].key = keys'[d][Len(keys'[d])]
      BY <1>1 DEF RowHasLastKey, Exists
    <2>2. CASE d = c
      BY <1>2, <2>1, <2>2
    <2>3. CASE d # c
      BY <1>2, <2>3 DEF RowHasLastKey, Exists, TypeOK
    <2> QED
      BY <2>2, <2>3
  <1>9. OwnKeyCommitted'
    <2> SUFFICES ASSUME NEW g \in Handlers
                 PROVE  /\ pc'[g] = "refresh" =>
                             \E i \in DOMAIN keys'[target[g]] : keys'[target[g]][i] = g
                        /\ pc'[g] = "answer" => \E i, j \in DOMAIN keys'[target[g]] :
                             i <= j /\ keys'[target[g]][i] = g /\ keys'[target[g]][j] = loaded[g].key
      BY <1>1 DEF OwnKeyCommitted
    <2>1. CASE g = h
      <3>1. Len(keys[c]) + 1 \in DOMAIN keys'[c]
        BY <1>1, <1>2, <1>4
      <3> QED
        BY <1>3, <1>4, <2>1, <3>1
    <2>2. CASE g # h
      <3>1. pc'[g] = pc[g] /\ target[g] \in Connectors
        BY <1>3, <2>2 DEF TypeOK
      <3>2. /\ DOMAIN keys[target[g]] \subseteq DOMAIN keys'[target[g]]
            /\ \A i \in DOMAIN keys[target[g]] : keys'[target[g]][i] = keys[target[g]][i]
        BY <1>5, <3>1
      <3>3. pc[g] = "refresh" => \E i \in DOMAIN keys[target[g]] : keys[target[g]][i] = g
        BY DEF OwnKeyCommitted
      <3>4. pc[g] = "answer" => \E i, j \in DOMAIN keys[target[g]] :
              i <= j /\ keys[target[g]][i] = g /\ keys[target[g]][j] = loaded[g].key
        BY DEF OwnKeyCommitted
      <3> QED
        BY <3>1, <3>2, <3>3, <3>4
    <2> QED
      BY <2>1, <2>2
  <1>10. ToldNotReplaced'
    <2> SUFFICES ASSUME NEW t \in told
                 PROVE  \E i, j \in DOMAIN keys'[t.id] :
                          i <= j /\ keys'[t.id][i] = t.by /\ keys'[t.id][j] = t.key
      BY <1>1 DEF ToldNotReplaced
    <2>1. t.id \in Connectors
      BY DEF TypeOK
    <2> QED
      BY <1>5, <2>1 DEF ToldNotReplaced
  <1>11. HolderTells'
    <2> SUFFICES ASSUME NEW d \in born, rows'[d] # Absent
                 PROVE  /\ target[rows'[d].key] = d
                        /\ \/ pc'[rows'[d].key] \in {"refresh", "failed", "lost"}
                           \/ pc'[rows'[d].key] = "answer" /\ loaded'[rows'[d].key].key = rows'[d].key
                           \/ /\ pc'[rows'[d].key] = "answered"
                              /\ \E t \in told : t.id = d /\ t.key = rows'[d].key
      BY <1>1 DEF HolderTells, Exists
    <2>1. CASE d = c
      BY <1>2, <1>3, <2>1
    <2>2. CASE d # c
      <3>1. rows'[d] = rows[d] /\ rows[d].key \in Handlers
        BY <1>2, <2>2 DEF TypeOK, Row
      <3> QED
        BY <1>1, <1>3, <3>1 DEF HolderTells, Exists
    <2> QED
      BY <2>1, <2>2
  <1>12. CreatorKnown'
    <2> SUFFICES ASSUME NEW d \in born
                 PROVE  /\ op[keys'[d][1]] = "create" /\ target[keys'[d][1]] = d
                        /\ \/ pc'[keys'[d][1]] \in {"refresh", "answer", "failed", "lost"}
                           \/ pc'[keys'[d][1]] = "answered" /\ Entry("create_source", d) \in audit
      BY <1>1 DEF CreatorKnown
    <2>1. keys[d] \in Seq(Handlers) /\ keys[d] # <<>> /\ d \in Connectors
      BY DEF TypeOK, RowHasLastKey
    <2>2. keys[d][1] \in Handlers
      BY <2>1
    <2>3. keys'[d][1] = keys[d][1]
      BY <1>2, <1>4, <2>1
    <2> QED
      BY <1>1, <1>3, <2>2, <2>3 DEF CreatorKnown
  <1>13. GoneIsExplained'
    <2> SUFFICES ASSUME NEW d \in born
                 PROVE  /\ Entry("delete_source", d) \in audit => rows'[d] = Absent
                        /\ rows'[d] = Absent =>
                             \/ Entry("delete_source", d) \in audit
                             \/ \E g \in Handlers : op[g] = "delete" /\ target[g] = d /\ Unlogged(g)'
      BY <1>1 DEF GoneIsExplained, Exists
    <2>1. rows'[d] = Absent <=> rows[d] = Absent
      BY <1>1, <1>2, AbsentIsNoRow, SMTT(30) DEF TypeOK
    <2>2. ASSUME NEW g \in Handlers, op[g] = "delete" /\ target[g] = d /\ Unlogged(g)
          PROVE  Unlogged(g)'
      BY <1>1, <1>3, <2>2 DEF Cut, Unlogged
    <2> QED
      BY <2>1, <2>2 DEF GoneIsExplained, Exists
  <1>14. DeletedIsGone'
    <2> SUFFICES ASSUME NEW g \in Handlers, pc'[g] = "deleted"
                 PROVE  op[g] = "delete" /\ rows'[target[g]] = Absent
      BY <1>1 DEF DeletedIsGone, Exists
    <2>1. g # h /\ pc[g] = "deleted" /\ target[g] \in Connectors
      BY <1>3 DEF TypeOK
    <2>2. rows[target[g]] = Absent /\ op[g] = "delete"
      BY <2>1 DEF DeletedIsGone, Exists
    <2>3. target[g] # c
      BY <1>1, <2>2, AbsentIsNoRow
    <2> QED
      BY <1>2, <2>1, <2>2, <2>3
  <1> QED
    BY <1>6, <1>7, <1>8, <1>9, <1>10, <1>11, <1>12, <1>13, <1>14

LEMMA DeleteKeeps ==
  ASSUME IInv, TypeOK', NEW h \in Handlers, NEW l \in {"deleted", "failed"}, DeleteCommit(h, l)
  PROVE  IInv'
  <1> USE DEF IInv
  <1>0. PICK c \in Connectors : c = target[h]
    BY DEF TypeOK
  <1>1. /\ pc[h] = "loaded" /\ op[h] = "delete" /\ c \in born
        /\ rows' = [rows EXCEPT ![c] = Absent]
        /\ pc' = [pc EXCEPT ![h] = l]
        /\ UNCHANGED <<born, op, target, loaded, keys, told, audit>>
    BY <1>0 DEF DeleteCommit, Goto, TargetsBorn
  <1>2. /\ rows'[c] = Absent
        /\ \A d \in Connectors \ {c} : rows'[d] = rows[d]
        /\ \A g \in Handlers \ {h} : pc'[g] = pc[g]
        /\ pc'[h] = l
    BY <1>1 DEF TypeOK
  <1>3. DeletedIsGone'
    <2> SUFFICES ASSUME NEW g \in Handlers, pc'[g] = "deleted"
                 PROVE  op[g] = "delete" /\ rows'[target[g]] = Absent
      BY <1>1 DEF DeletedIsGone, Exists
    <2>1. target[g] \in Connectors
      BY DEF TypeOK
    <2>2. CASE target[g] = c /\ g = h
      BY <1>1, <1>2, <2>2
    <2>3. CASE g # h
      BY <1>1, <1>2, <2>1, <2>3 DEF DeletedIsGone, Exists
    <2> QED
      BY <1>0, <2>2, <2>3
  <1>4. TargetsBorn' /\ LoadedRow'
    BY <1>1, <1>2 DEF TargetsBorn, LoadedRow
  <1>5. UnbornIsBlank'
    BY <1>1, <1>2 DEF UnbornIsBlank
  <1>6. RowHasLastKey'
    BY <1>1, <1>2 DEF RowHasLastKey, Exists, TypeOK
  <1>7. OwnKeyCommitted'
    BY <1>1, <1>2 DEF OwnKeyCommitted
  <1>8. ToldNotReplaced'
    BY <1>1 DEF ToldNotReplaced
  <1>9. HolderTells'
    <2> SUFFICES ASSUME NEW d \in born, rows'[d] # Absent
                 PROVE  /\ target[rows'[d].key] = d
                        /\ \/ pc'[rows'[d].key] \in {"refresh", "failed", "lost"}
                           \/ pc'[rows'[d].key] = "answer" /\ loaded'[rows'[d].key].key = rows'[d].key
                           \/ /\ pc'[rows'[d].key] = "answered"
                              /\ \E t \in told : t.id = d /\ t.key = rows'[d].key
      BY <1>1 DEF HolderTells, Exists
    <2>1. rows'[d] = rows[d] /\ rows[d].key \in Handlers
      BY <1>2 DEF TypeOK, Row
    <2> QED
      BY <1>1, <1>2, <2>1 DEF HolderTells, Exists
  <1>10. CreatorKnown'
    <2> SUFFICES ASSUME NEW d \in born
                 PROVE  /\ op[keys[d][1]] = "create" /\ target[keys[d][1]] = d
                        /\ \/ pc'[keys[d][1]] \in {"refresh", "answer", "failed", "lost"}
                           \/ pc'[keys[d][1]] = "answered" /\ Entry("create_source", d) \in audit
      BY <1>1 DEF CreatorKnown
    <2>1. keys[d] \in Seq(Handlers) /\ keys[d] # <<>> /\ d \in Connectors
      BY DEF TypeOK, RowHasLastKey
    <2>2. keys[d][1] \in Handlers
      BY <2>1
    <2> QED
      BY <1>1, <1>2, <2>1, <2>2 DEF CreatorKnown
  <1>11. GoneIsExplained'
    <2> SUFFICES ASSUME NEW d \in born
                 PROVE  /\ Entry("delete_source", d) \in audit => rows'[d] = Absent
                        /\ rows'[d] = Absent =>
                             \/ Entry("delete_source", d) \in audit
                             \/ \E g \in Handlers : op[g] = "delete" /\ target[g] = d /\ Unlogged(g)'
      BY <1>1 DEF GoneIsExplained, Exists
    <2>1. CASE d = c
      BY <1>0, <1>1, <1>2, <2>1 DEF Cut, Unlogged
    <2>2. CASE d # c
      <3>1. rows'[d] = rows[d] /\ d \in Connectors
        BY <1>2, <2>2 DEF TypeOK
      <3>2. ASSUME NEW g \in Handlers, op[g] = "delete" /\ target[g] = d /\ Unlogged(g)
            PROVE  Unlogged(g)'
        BY <1>1, <1>2, <3>2 DEF Cut, Unlogged
      <3> QED
        BY <2>2, <3>1, <3>2 DEF GoneIsExplained, Exists
    <2> QED
      BY <2>1, <2>2
  <1> QED
    BY <1>3, <1>4, <1>5, <1>6, <1>7, <1>8, <1>9, <1>10, <1>11

\* The rest of a DELETE: the row is gone and its entry is written.
LEMMA DeleteEndsKeeps == ASSUME IInv, TypeOK', NEW h \in Handlers, DeleteEnds(h) PROVE IInv'
  <1> USE DEF IInv
  <1>0. PICK c \in Connectors : c = target[h]
    BY DEF TypeOK
  <1>1. /\ pc[h] = "deleted" /\ c \in born /\ rows[c] = Absent /\ op[h] = "delete"
        /\ audit' = audit \cup {Entry("delete_source", c)}
        /\ pc' = [pc EXCEPT ![h] = "answered"]
        /\ UNCHANGED <<rows, born, op, target, loaded, keys, told>>
    BY <1>0 DEF DeleteEnds, Goto, TargetsBorn, DeletedIsGone, Exists
  <1>2. pc'[h] = "answered" /\ \A g \in Handlers \ {h} : pc'[g] = pc[g]
    BY <1>1 DEF TypeOK
  <1>3. /\ \A d \in Connectors \ {c} : Entry("delete_source", d) \in audit' <=> Entry("delete_source", d) \in audit
        /\ \A d \in Connectors : Entry("create_source", d) \in audit' <=> Entry("create_source", d) \in audit
        /\ Entry("delete_source", c) \in audit'
    BY <1>1 DEF Entry, TypeOK
  <1>4. TargetsBorn' /\ LoadedRow' /\ DeletedIsGone' /\ OwnKeyCommitted'
    BY <1>1, <1>2 DEF TargetsBorn, LoadedRow, DeletedIsGone, OwnKeyCommitted, Exists
  <1>5. UnbornIsBlank'
    BY <1>1, <1>3 DEF UnbornIsBlank
  <1>6. RowHasLastKey' /\ ToldNotReplaced'
    BY <1>1 DEF RowHasLastKey, ToldNotReplaced, Exists
  <1>7. HolderTells'
    <2> SUFFICES ASSUME NEW d \in born, rows[d] # Absent
                 PROVE  /\ target[rows[d].key] = d
                        /\ \/ pc'[rows[d].key] \in {"refresh", "failed", "lost"}
                           \/ pc'[rows[d].key] = "answer" /\ loaded[rows[d].key].key = rows[d].key
                           \/ /\ pc'[rows[d].key] = "answered"
                              /\ \E t \in told : t.id = d /\ t.key = rows[d].key
      BY <1>1 DEF HolderTells, Exists
    <2>1. rows[d].key \in Handlers
      BY DEF TypeOK, Row
    <2> QED
      BY <1>1, <1>2, <2>1 DEF HolderTells, Exists
  <1>8. CreatorKnown'
    <2> SUFFICES ASSUME NEW d \in born
                 PROVE  /\ op[keys[d][1]] = "create" /\ target[keys[d][1]] = d
                        /\ \/ pc'[keys[d][1]] \in {"refresh", "answer", "failed", "lost"}
                           \/ pc'[keys[d][1]] = "answered" /\ Entry("create_source", d) \in audit'
      BY <1>1 DEF CreatorKnown
    <2>1. keys[d] \in Seq(Handlers) /\ keys[d] # <<>> /\ d \in Connectors
      BY DEF TypeOK, RowHasLastKey
    <2>2. keys[d][1] \in Handlers
      BY <2>1
    <2> QED
      BY <1>1, <1>2, <1>3, <2>1, <2>2 DEF CreatorKnown
  <1>9. GoneIsExplained'
    <2> SUFFICES ASSUME NEW d \in born
                 PROVE  /\ Entry("delete_source", d) \in audit' => rows[d] = Absent
                        /\ rows[d] = Absent =>
                             \/ Entry("delete_source", d) \in audit'
                             \/ \E g \in Handlers : op[g] = "delete" /\ target[g] = d /\ Unlogged(g)'
      BY <1>1 DEF GoneIsExplained, Exists
    <2>1. CASE d = c
      BY <1>1, <1>3, <2>1
    <2>2. CASE d # c
      <3>1. d \in Connectors
        BY DEF TypeOK
      <3>2. ASSUME NEW g \in Handlers, op[g] = "delete" /\ target[g] = d /\ Unlogged(g)
            PROVE  Unlogged(g)'
        <4>1. g # h
          BY <1>0, <2>2, <3>2
        <4> QED
          BY <1>2, <3>2, <4>1 DEF Cut, Unlogged
      <3> QED
        BY <1>3, <2>2, <3>1, <3>2 DEF GoneIsExplained, Exists
    <2> QED
      BY <2>1, <2>2
  <1> QED
    BY <1>4, <1>5, <1>6, <1>7, <1>8, <1>9

\* The SELECT of refresh: the row holds the key committed last.
LEMMA RefreshKeeps == ASSUME IInv, TypeOK', NEW h \in Handlers, Refresh(h) PROVE IInv'
  <1> USE DEF IInv
  <1>0. PICK c \in Connectors : c = target[h]
    BY DEF TypeOK
  <1>1. /\ pc[h] = "refresh" /\ rows[c] # Absent /\ c \in born
        /\ loaded' = [loaded EXCEPT ![h] = rows[c]]
        /\ pc' = [pc EXCEPT ![h] = "answer"]
        /\ UNCHANGED <<rows, born, op, target, keys, told, audit>>
    BY <1>0 DEF Refresh, Reread, Goto, Exists, TargetsBorn
  <1>2. /\ pc'[h] = "answer" /\ loaded'[h] = rows[c] /\ rows[c] \in Row
        /\ \A g \in Handlers \ {h} : pc'[g] = pc[g] /\ loaded'[g] = loaded[g]
    BY <1>1 DEF TypeOK
  <1>3. TargetsBorn' /\ LoadedRow' /\ DeletedIsGone'
    BY <1>1, <1>2 DEF TargetsBorn, LoadedRow, DeletedIsGone, Exists
  <1>4. UnbornIsBlank' /\ RowHasLastKey' /\ ToldNotReplaced'
    BY <1>1 DEF UnbornIsBlank, RowHasLastKey, ToldNotReplaced, Exists
  <1>5. OwnKeyCommitted'
    <2>1. PICK i \in DOMAIN keys[c] : keys[c][i] = h
      BY <1>0, <1>1 DEF OwnKeyCommitted
    <2>2. /\ keys[c] \in Seq(Handlers) /\ keys[c] # <<>>
          /\ keys[c][Len(keys[c])] = rows[c].key
      BY <1>1 DEF RowHasLastKey, Exists, TypeOK
    <2>3. Len(keys[c]) \in DOMAIN keys[c] /\ i <= Len(keys[c])
      BY <2>1, <2>2
    <2>4. \E m, n \in DOMAIN keys[c] : m <= n /\ keys[c][m] = h /\ keys[c][n] = rows[c].key
      BY <2>1, <2>2, <2>3
    <2> QED
      BY <1>0, <1>1, <1>2, <2>4 DEF OwnKeyCommitted
  <1>6. HolderTells'
    <2> SUFFICES ASSUME NEW d \in born, rows[d] # Absent
                 PROVE  /\ target[rows[d].key] = d
                        /\ \/ pc'[rows[d].key] \in {"refresh", "failed", "lost"}
                           \/ pc'[rows[d].key] = "answer" /\ loaded'[rows[d].key].key = rows[d].key
                           \/ /\ pc'[rows[d].key] = "answered"
                              /\ \E t \in told : t.id = d /\ t.key = rows[d].key
      BY <1>1 DEF HolderTells, Exists
    <2>1. target[rows[d].key] = d /\ rows[d].key \in Handlers
      BY DEF HolderTells, Exists, TypeOK, Row
    <2>2. CASE rows[d].key = h
      <3>1. d = c
        BY <1>0, <2>1, <2>2
      <3> QED
        BY <1>2, <2>1, <2>2, <3>1
    <2>3. CASE rows[d].key # h
      BY <1>2, <2>1, <2>3 DEF HolderTells, Exists
    <2> QED
      BY <2>2, <2>3
  <1>7. CreatorKnown'
    <2> SUFFICES ASSUME NEW d \in born
                 PROVE  /\ op[keys[d][1]] = "create" /\ target[keys[d][1]] = d
                        /\ \/ pc'[keys[d][1]] \in {"refresh", "answer", "failed", "lost"}
                           \/ pc'[keys[d][1]] = "answered" /\ Entry("create_source", d) \in audit
      BY <1>1 DEF CreatorKnown
    <2>1. keys[d] \in Seq(Handlers) /\ keys[d] # <<>>
      BY DEF TypeOK, RowHasLastKey
    <2>2. keys[d][1] \in Handlers
      BY <2>1
    <2> QED
      BY <1>2, <2>2 DEF CreatorKnown
  <1>8. GoneIsExplained'
    <2>1. ASSUME NEW g \in Handlers, Unlogged(g) PROVE Unlogged(g)'
      BY <1>1, <1>2, <2>1 DEF Cut, Unlogged
    <2> QED
      BY <1>1, <2>1 DEF GoneIsExplained, Exists
  <1> QED
    BY <1>3, <1>4, <1>5, <1>6, <1>7, <1>8

LEMMA FinishKeeps == ASSUME IInv, TypeOK', NEW h \in Handlers, Finish(h) PROVE IInv'
  <1> USE DEF IInv
  <1>0. PICK c \in Connectors : c = target[h]
    BY DEF TypeOK
  <1> DEFINE new == [by |-> h, id |-> c, key |-> loaded[h].key]
  <1>1. /\ pc[h] = "answer" /\ c \in born
        /\ pc' = [pc EXCEPT ![h] = "answered"]
        /\ told' = told \cup {new}
        /\ audit' = IF op[h] = "create" THEN audit \cup {Entry("create_source", c)} ELSE audit
        /\ UNCHANGED <<rows, born, op, target, loaded, keys>>
    BY <1>0 DEF Finish, Goto, Shown, TargetsBorn
  <1>2. /\ \A g \in Handlers \ {h} : pc'[g] = pc[g]
        /\ pc'[h] = "answered"
    BY <1>1 DEF TypeOK
  <1>3. /\ \A d \in Connectors : Entry("delete_source", d) \in audit' <=> Entry("delete_source", d) \in audit
        /\ \A d \in Connectors \ {c} : Entry("create_source", d) \in audit' <=> Entry("create_source", d) \in audit
        /\ audit \subseteq audit'
        /\ op[h] = "create" => Entry("create_source", c) \in audit'
    BY <1>1 DEF Entry, TypeOK
  <1>4. TargetsBorn' /\ LoadedRow' /\ DeletedIsGone'
    BY <1>1, <1>2 DEF TargetsBorn, LoadedRow, DeletedIsGone, Exists
  <1>5. UnbornIsBlank'
    BY <1>1, <1>3 DEF UnbornIsBlank
  <1>6. RowHasLastKey'
    BY <1>1 DEF RowHasLastKey, Exists
  <1>7. OwnKeyCommitted'
    BY <1>1, <1>2 DEF OwnKeyCommitted
  <1>8. ToldNotReplaced'
    <2>1. \E m, n \in DOMAIN keys[new.id] :
            m <= n /\ keys[new.id][m] = new.by /\ keys[new.id][n] = new.key
      BY <1>0, <1>1 DEF OwnKeyCommitted
    <2> QED
      BY <1>1, <2>1 DEF ToldNotReplaced
  <1>9. HolderTells'
    <2> SUFFICES ASSUME NEW d \in born, rows[d] # Absent
                 PROVE  /\ target[rows[d].key] = d
                        /\ \/ pc'[rows[d].key] \in {"refresh", "failed", "lost"}
                           \/ pc'[rows[d].key] = "answer" /\ loaded'[rows[d].key].key = rows[d].key
                           \/ /\ pc'[rows[d].key] = "answered"
                              /\ \E t \in told' : t.id = d /\ t.key = rows[d].key
      BY <1>1 DEF HolderTells, Exists
    <2>1. target[rows[d].key] = d /\ rows[d].key \in Handlers
      BY DEF HolderTells, Exists, TypeOK, Row
    <2>2. CASE rows[d].key = h
      <3>1. d = c
        BY <1>0, <2>1, <2>2
      <3>2. new \in told' /\ new.id = d /\ new.key = rows[d].key
        BY <1>1, <2>2, <3>1 DEF HolderTells, Exists
      <3> QED
        BY <1>2, <2>1, <2>2, <3>2
    <2>3. CASE rows[d].key # h
      <3>1. told \subseteq told'
        BY <1>1
      <3> QED
        BY <1>1, <1>2, <2>1, <2>3, <3>1 DEF HolderTells, Exists
    <2> QED
      BY <2>2, <2>3
  <1>10. CreatorKnown'
    <2> SUFFICES ASSUME NEW d \in born
                 PROVE  /\ op[keys[d][1]] = "create" /\ target[keys[d][1]] = d
                        /\ \/ pc'[keys[d][1]] \in {"refresh", "answer", "failed", "lost"}
                           \/ pc'[keys[d][1]] = "answered" /\ Entry("create_source", d) \in audit'
      BY <1>1 DEF CreatorKnown
    <2>1. keys[d] \in Seq(Handlers) /\ keys[d] # <<>> /\ d \in Connectors
      BY DEF TypeOK, RowHasLastKey
    <2>2. keys[d][1] \in Handlers
      BY <2>1
    <2>3. CASE keys[d][1] = h
      BY <1>0, <1>2, <1>3, <2>3 DEF CreatorKnown
    <2>4. CASE keys[d][1] # h
      BY <1>2, <1>3, <2>1, <2>2, <2>4 DEF CreatorKnown
    <2> QED
      BY <2>3, <2>4
  <1>11. GoneIsExplained'
    <2> SUFFICES ASSUME NEW d \in born
                 PROVE  /\ Entry("delete_source", d) \in audit' => rows[d] = Absent
                        /\ rows[d] = Absent =>
                             \/ Entry("delete_source", d) \in audit'
                             \/ \E g \in Handlers : op[g] = "delete" /\ target[g] = d /\ Unlogged(g)'
      BY <1>1 DEF GoneIsExplained, Exists
    <2>1. ASSUME NEW g \in Handlers, op[g] = "delete" /\ target[g] = d /\ Unlogged(g)
          PROVE  Unlogged(g)'
      BY <1>1, <1>2, <2>1 DEF Cut, Unlogged
    <2>2. d \in Connectors
      BY DEF TypeOK
    <2> QED
      BY <1>3, <2>1, <2>2 DEF GoneIsExplained, Exists
  <1> QED
    BY <1>4, <1>5, <1>6, <1>7, <1>8, <1>9, <1>10, <1>11
--------------------------------------------------------------------------
(* Theorems.                                                               *)

LEMMA StepInv == IInv /\ [Next]_vars => IInv'
  <1> SUFFICES ASSUME IInv, [Next]_vars PROVE IInv'
    OBVIOUS
  <1>1. TypeOK'
    BY TypeStep DEF IInv
  <1>2. \/ Quiet
        \/ \E h \in Handlers :
             \/ \E p \in Platforms : InsertRow(h, p)
             \/ \E l \in {"refresh", "failed"} : RotateCommit(h, l)
             \/ \E l \in {"deleted", "failed"} : DeleteCommit(h, l)
             \/ DeleteEnds(h)
             \/ Refresh(h)
             \/ Finish(h)
    BY StepKinds DEF IInv
  <1> QED
    BY <1>1, <1>2, QuietKeeps, InsertKeeps, RotateKeeps, DeleteKeeps, DeleteEndsKeeps, RefreshKeeps,
       FinishKeeps

LEMMA Inductive == Spec => []IInv
  BY InitInv, StepInv, PTL DEF Spec

\* Every variable of the connector API keeps its type, whatever requests
\* overlap and fail.
THEOREM TypeCorrect == Spec => []TypeOK
  BY Inductive, PTL DEF IInv

\* However many rotations of a connector overlap, an answer of create_* or
\* rotate_key shows the answering handler's key or one committed after it,
\* and the handler whose key is in the row has told it once it has answered.
THEOREM KeyInAnswerIsCurrent == Spec => []ToldKeyIsCurrent
  <1>1. IInv => ToldKeyIsCurrent
    <2> SUFFICES ASSUME IInv PROVE ToldKeyIsCurrent
      OBVIOUS
    <2>1. ASSUME NEW c \in born, Exists(c), pc[rows[c].key] = "answered"
          PROVE  \E t \in told : t.id = c /\ t.key = rows[c].key
      BY <2>1 DEF IInv, HolderTells
    <2> QED
      BY <2>1 DEF IInv, ToldNotReplaced, ToldKeyIsCurrent
  <1> QED
    BY <1>1, Inductive, PTL

\* The audit log tells which connectors were created and deleted, except
\* where a handler was cut short between its commit and its entry.
THEOREM AuditReconstructs == Spec => []AuditTellsAll
  <1>1. IInv => AuditTellsAll
    <2> SUFFICES ASSUME IInv, NEW c \in born
                 PROVE  /\ Entry("delete_source", c) \in audit => ~Exists(c)
                        /\ ~Exists(c) => \/ Entry("delete_source", c) \in audit
                                         \/ \E h \in Handlers : op[h] = "delete" /\ target[h] = c /\ Unlogged(h)
                        /\ \/ Entry("create_source", c) \in audit
                           \/ Cut(keys[c][1]) \/ InFlight(keys[c][1])
      BY DEF AuditTellsAll
    <2>1. Entry("create_source", c) \in audit \/ Cut(keys[c][1]) \/ InFlight(keys[c][1])
      BY DEF IInv, CreatorKnown, Cut, InFlight
    <2> QED
      BY <2>1 DEF IInv, GoneIsExplained
  <1> QED
    BY <1>1, Inductive, PTL

\* DELETE is final: no step of any overlapping handler brings the row of a
\* deleted connector back, commits a key for it or reads it, and it is shown by
\* those handlers only whose refresh was before.
THEOREM DeletionIsFinal == Spec => DeletedStaysDeleted
  <1> DEFINE Final(c) == /\ rows'[c] = Absent /\ keys'[c] = keys[c]
                         /\ HasReread(c)' \subseteq HasReread(c)
                         /\ \A t \in told' \ told : t.id = c => t.by \in HasReread(c)
  <1>1. IInv /\ [Next]_vars => [\A c \in born : ~Exists(c) => Final(c)]_vars
    <2> SUFFICES ASSUME IInv, [Next]_vars, NEW c \in born, rows[c] = Absent
                 PROVE  Final(c)
      BY DEF Exists
    <2>1. c \in Connectors /\ TypeOK /\ LoadedRow /\ TargetsBorn
      BY DEF IInv, TypeOK
    <2>2. ASSUME rows'[c] = Absent, UNCHANGED <<keys, told>>,
                 \A g \in Handlers : pc'[g] = "answer" => pc[g] = "answer" /\ target'[g] = target[g]
          PROVE  Final(c)
      BY <2>2 DEF HasReread
    <2>3. CASE Quiet
      <3>1. \A g \in Handlers : pc'[g] = "answer" => pc[g] = "answer" /\ target'[g] = target[g]
        BY <2>3 DEF Quiet, MovesOn
      <3> QED
        BY <2>1, <2>2, <2>3, <3>1 DEF Quiet, KeepsKey
    <2>4. ASSUME NEW h \in Handlers, NEW p \in Platforms, InsertRow(h, p) PROVE Final(c)
      <3>1. PICK d \in Connectors \ born :
              /\ rows' = [rows EXCEPT ![d] = [platform |-> p, key |-> h, events |-> 0]]
              /\ target' = [target EXCEPT ![h] = d]
              /\ keys' = [keys EXCEPT ![d] = <<h>>]
        BY <2>4 DEF InsertRow
      <3>2. pc' = [pc EXCEPT ![h] = "refresh"] /\ told' = told
        BY <2>4 DEF InsertRow, Goto
      <3>3. rows'[c] = Absent /\ keys'[c] = keys[c]
        BY <2>1, <3>1 DEF TypeOK
      <3>4. HasReread(c)' \subseteq HasReread(c)
        BY <2>1, <3>1, <3>2 DEF HasReread, TypeOK
      <3> QED
        BY <3>2, <3>3, <3>4
    <2>5. ASSUME NEW h \in Handlers, NEW l \in {"refresh", "failed"}, RotateCommit(h, l) PROVE Final(c)
      <3>1. target[h] # c
        BY <2>5 DEF RotateCommit, Exists
      <3>2. rows'[c] = Absent /\ keys'[c] = keys[c]
        BY <2>1, <2>5, <3>1 DEF RotateCommit, TypeOK
      <3>3. HasReread(c)' \subseteq HasReread(c)
        BY <2>1, <2>5 DEF RotateCommit, Goto, HasReread, TypeOK
      <3> QED
        BY <2>5, <3>2, <3>3 DEF RotateCommit
    <2>6. ASSUME NEW h \in Handlers, NEW l \in {"deleted", "failed"}, DeleteCommit(h, l) PROVE Final(c)
      <3>1. rows'[c] = Absent /\ UNCHANGED <<keys, told, target>> /\ pc' = [pc EXCEPT ![h] = l]
        BY <2>1, <2>6 DEF DeleteCommit, Goto, TypeOK
      <3>2. \A g \in Handlers : pc'[g] = "answer" => pc[g] = "answer"
        BY <2>1, <3>1 DEF TypeOK
      <3> QED
        BY <2>2, <3>1, <3>2
    <2>7. ASSUME NEW h \in Handlers, DeleteEnds(h) PROVE Final(c)
      <3>1. UNCHANGED <<rows, keys, told, target>> /\ pc' = [pc EXCEPT ![h] = "answered"]
        BY <2>7 DEF DeleteEnds, Goto
      <3>2. \A g \in Handlers : pc'[g] = "answer" => pc[g] = "answer"
        BY <2>1, <3>1 DEF TypeOK
      <3> QED
        BY <2>2, <3>1, <3>2
    <2>8. ASSUME NEW h \in Handlers, Refresh(h) PROVE Final(c)
      <3>1. target[h] # c
        BY <2>8 DEF Refresh, Exists
      <3>2. UNCHANGED <<rows, keys, told, target>> /\ pc' = [pc EXCEPT ![h] = "answer"]
        BY <2>8 DEF Refresh, Goto
      <3>3. HasReread(c)' \subseteq HasReread(c)
        BY <2>1, <3>1, <3>2 DEF HasReread, TypeOK
      <3> QED
        BY <3>2, <3>3
    <2>9. ASSUME NEW h \in Handlers, Finish(h) PROVE Final(c)
      <3>1. /\ pc[h] = "answer" /\ UNCHANGED <<rows, keys, target>>
            /\ pc' = [pc EXCEPT ![h] = "answered"]
            /\ told' = told \cup {[by |-> h, id |-> target[h], key |-> Shown(h)]}
        BY <2>9 DEF Finish, Goto
      <3>2. HasReread(c)' \subseteq HasReread(c)
        BY <2>1, <3>1 DEF HasReread, TypeOK
      <3>3. \A t \in told' \ told : t.id = c => t.by \in HasReread(c)
        BY <3>1 DEF HasReread
      <3> QED
        BY <3>1, <3>2, <3>3
    <2> QED
      BY <2>1, <2>3, <2>4, <2>5, <2>6, <2>7, <2>8, <2>9, StepKinds
  <1> QED
    BY <1>1, Inductive, PTL DEF Spec, DeletedStaysDeleted
=============================================================================
