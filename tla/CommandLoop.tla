--------------------------- MODULE CommandLoop ---------------------------
(***************************************************************************)
(* The command loop: a response action goes from the actions table to the  *)
(* agent that carries it out, and the acknowledgement comes back.          *)
(*                                                                         *)
(*   server   HostConnectionRegistry and Dispatcher (dispatcher.py), the   *)
(*            WebSocket handler ws_agent (api/v1/stream.py), the row       *)
(*            updates (detectors/action_service.py)                        *)
(*   agent    Client.Run, connectAndServe, readPump, sendAck               *)
(*            (internal/transport/transport.go), Handler.Handle            *)
(*            (internal/response/response.go)                              *)
(*                                                                         *)
(* The server runs one event loop: the handlers of several connections and *)
(* the dispatcher interleave at their awaits, so a handler that awaits is  *)
(* several actions here.  A connection is a pair of FIFO channels; when    *)
(* its link is lost each side reads on, or notices, in its own time.       *)
(***************************************************************************)
EXTENDS Naturals, Sequences, FiniteSets

CONSTANTS
  Hosts,        \* provisioned hosts, one agent each
  Actions,      \* ids of response actions
  Conns,        \* connection ids; a reconnect uses a fresh one
  HostOf,       \* HostOf[a]: the host_id column of action a
  OwnerOf,      \* OwnerOf[c]: the host whose agent dials connection c
  Signable,     \* actions _build_command_frame agrees to sign
  Lenient,      \* actions whose kind answers nil even if its last call failed
  DryRun,       \* hosts whose agent runs with dry_run, the default
  BatchLimit,   \* rows one dispatcher tick reads (16 in the code)
  AppliedCap,   \* maxAppliedCommandIDs (10000 in the code)
  MaxFaults,    \* bound: faults and operator interventions in a behaviour
  MaxKey,       \* bound: secret rotations
  NoConn, NoAction

ASSUME CommandLoopAssumption ==
  /\ IsFiniteSet(Actions)
  /\ HostOf \in [Actions -> Hosts]
  /\ OwnerOf \in [Conns -> Hosts]
  /\ Signable \subseteq Actions
  /\ Lenient \subseteq Actions
  /\ DryRun \subseteq Hosts
  /\ NoConn \notin Conns
  /\ NoAction \notin Actions
  /\ BatchLimit \in Nat \ {0}
  /\ AppliedCap \in Nat \ {0}
  /\ MaxFaults \in Nat
  /\ MaxKey \in Nat

Keys == 0..MaxKey
Phase == {"free", "hello", "greeted", "serving", "closing", "done"}

\* The actions that are answered "applied" only after they took effect: not
\* block_ip, which logs a failing nft add element and returns nil, and none
\* of an agent in dry-run.
Strict == {a \in Actions : a \notin Lenient /\ HostOf[a] \notin DryRun}

VARIABLES
  status, createdAt,          \* actions table: state and created_at order
  autoBlock, dbKey,           \* hosts table: auto_block and secret
  registry,                   \* HostConnectionRegistry._conns
  phase,                      \* where ws_agent stands on each connection
  batch, snapOn, snapKey,     \* rows of the current tick not yet handled,
                              \*   and their host columns as the tick read them
  marking,                    \* the action being sent, then mark_dispatched
  sendTo,                     \* the connection whose send_text is awaited
  up, helloKey,               \* link state; the secret that signed the HELLO
  toAgent, toServer,          \* command and command_ack frames in flight
  agentConn, agentKey,        \* agent: Client.conn and the secret it loaded
  applied,                    \* agent: appliedAt, oldest first
  everRun, runs,              \* history: actions whose kind returned nil, and
                              \*   how often since the agent process started
  effect,                     \* history: those of them that took effect on the host
  acked,                      \* history: actions whose ack "applied" was read
  faults

db    == <<status, createdAt, autoBlock, dbKey>>
tick  == <<batch, snapOn, snapKey, marking, sendTo>>
net   == <<up, helloKey, toAgent, toServer>>
agent == <<agentConn, agentKey, applied, everRun, runs, effect>>
vars  == <<db, registry, phase, tick, net, agent, acked, faults>>

Frame == [act : Actions, key : Keys]
Ack   == [act : Actions, st : {"applied", "failed"}]

TypeOK ==
  /\ status \in [Actions -> {"absent", "pending", "dispatched", "applied", "failed"}]
  /\ createdAt \in [Actions -> Nat]
  /\ autoBlock \in [Hosts -> BOOLEAN]
  /\ dbKey \in [Hosts -> Keys]
  /\ registry \in [Hosts -> Conns \cup {NoConn}]
  /\ phase \in [Conns -> Phase]
  /\ batch \subseteq Actions
  /\ snapOn \in [Hosts -> BOOLEAN]
  /\ snapKey \in [Hosts -> Keys]
  /\ marking \in Actions \cup {NoAction}
  /\ sendTo \in Conns \cup {NoConn}
  /\ up \in [Conns -> BOOLEAN]
  /\ helloKey \in [Conns -> Keys]
  /\ toAgent \in [Conns -> Seq(Frame)]
  /\ toServer \in [Conns -> Seq(Ack)]
  /\ agentConn \in [Hosts -> Conns \cup {NoConn}]
  /\ agentKey \in [Hosts -> Keys]
  /\ applied \in [Hosts -> Seq(Actions)]
  /\ everRun \subseteq Actions
  /\ runs \in [Actions -> Nat]
  /\ effect \subseteq Actions
  /\ acked \subseteq Actions
  /\ faults \in Nat

Init ==
  /\ status = [a \in Actions |-> "absent"]
  /\ createdAt = [a \in Actions |-> 0]
  /\ autoBlock = [h \in Hosts |-> TRUE]
  /\ dbKey = [h \in Hosts |-> 0]
  /\ registry = [h \in Hosts |-> NoConn]
  /\ phase = [c \in Conns |-> "free"]
  /\ batch = {}
  /\ snapOn = [h \in Hosts |-> FALSE]
  /\ snapKey = [h \in Hosts |-> 0]
  /\ marking = NoAction
  /\ sendTo = NoConn
  /\ up = [c \in Conns |-> FALSE]
  /\ helloKey = [c \in Conns |-> 0]
  /\ toAgent = [c \in Conns |-> <<>>]
  /\ toServer = [c \in Conns |-> <<>>]
  /\ agentConn = [h \in Hosts |-> NoConn]
  /\ agentKey = [h \in Hosts |-> 0]
  /\ applied = [h \in Hosts |-> <<>>]
  /\ everRun = {}
  /\ runs = [a \in Actions |-> 0]
  /\ effect = {}
  /\ acked = {}
  /\ faults = 0

\* Every fault and every operator intervention is counted against MaxFaults.
Fault == faults < MaxFaults /\ faults' = faults + 1
--------------------------------------------------------------------------
(* Detector side: the row is inserted in state pending (write_action).     *)

WriteAction(a) ==
  /\ status[a] = "absent"
  /\ status' = [status EXCEPT ![a] = "pending"]
  /\ createdAt' = [createdAt EXCEPT ![a] =
                     Cardinality({b \in Actions : status[b] # "absent"}) + 1]
  /\ UNCHANGED <<autoBlock, dbKey, registry, phase, tick, net, agent, acked, faults>>

(* Operator side: PATCH /hosts/{id}, POST /agents/{id}/rotate-secret.      *)

PatchAutoBlock(h) ==
  /\ Fault
  /\ autoBlock' = [autoBlock EXCEPT ![h] = ~@]
  /\ UNCHANGED <<status, createdAt, dbKey, registry, phase, tick, net, agent, acked>>

RotateSecret(h) ==
  /\ Fault
  /\ dbKey[h] < MaxKey
  /\ dbKey' = [dbKey EXCEPT ![h] = @ + 1]
  /\ UNCHANGED <<status, createdAt, autoBlock, registry, phase, tick, net, agent, acked>>
--------------------------------------------------------------------------
(* The WebSocket handler ws_agent, one instance per connection.            *)

\* The agent dials; the server accepts and sends its nonce; the agent
\* answers with a HELLO signed with the secret it has loaded.
Dial(c) ==
  LET h == OwnerOf[c] IN
  /\ phase[c] = "free"
  /\ agentConn[h] = NoConn
  /\ phase' = [phase EXCEPT ![c] = "hello"]
  /\ up' = [up EXCEPT ![c] = TRUE]
  /\ helloKey' = [helloKey EXCEPT ![c] = agentKey[h]]
  /\ agentConn' = [agentConn EXCEPT ![h] = c]
  /\ UNCHANGED <<db, registry, tick, toAgent, toServer, agentKey, applied,
                 everRun, runs, effect, acked, faults>>

\* The HELLO's signature is checked against the stored secret; a mismatch
\* closes the connection, and the handler goes on to its finally clause.
HelloAccepted(c) == helloKey[c] = dbKey[OwnerOf[c]]

Hello(c) ==
  /\ phase[c] = "hello"
  /\ \/ /\ HelloAccepted(c)
        /\ phase' = [phase EXCEPT ![c] = "greeted"]
        /\ UNCHANGED up
     \/ /\ ~HelloAccepted(c)
        /\ phase' = [phase EXCEPT ![c] = "closing"]
        /\ up' = [up EXCEPT ![c] = FALSE]
  /\ UNCHANGED <<db, registry, tick, helloKey, toAgent, toServer, agent, acked, faults>>

\* HELLO_ACK is sent, then registry.register overwrites the host's entry.
Register(c) ==
  /\ phase[c] = "greeted"
  /\ phase' = [phase EXCEPT ![c] = "serving"]
  /\ registry' = [registry EXCEPT ![OwnerOf[c]] = c]
  /\ UNCHANGED <<db, tick, net, agent, acked, faults>>

\* Mutant of MarkAcked: without the WHERE clause.
MarkAckedAnyState(a, st) == status' = [status EXCEPT ![a] = st]

\* mark_applied and mark_failed update the row only WHERE status='dispatched'.
MarkAcked(a, st) ==
  status' = [status EXCEPT ![a] = IF @ = "dispatched" THEN st ELSE @]

\* The handler reads a command_ack and updates the row.
ReceiveAck(c) ==
  /\ phase[c] = "serving"
  /\ toServer[c] # <<>>
  /\ LET ack == Head(toServer[c]) IN
     /\ MarkAcked(ack.act, ack.st)
     /\ acked' = IF ack.st = "applied" THEN acked \cup {ack.act} ELSE acked
  /\ toServer' = [toServer EXCEPT ![c] = Tail(@)]
  /\ UNCHANGED <<createdAt, autoBlock, dbKey, registry, phase, tick, up, helloKey,
                 toAgent, agent, faults>>

\* The size cap (1009) and the per-minute cap (1013): the server hangs up.
PolicyClose(c) ==
  /\ Fault
  /\ phase[c] = "serving"
  /\ phase' = [phase EXCEPT ![c] = "closing"]
  /\ up' = [up EXCEPT ![c] = FALSE]
  /\ UNCHANGED <<db, registry, tick, helloKey, toAgent, toServer, agent, acked>>

\* A bye frame, WebSocketDisconnect or a failing send ends the handler; the
\* frames it has not read are gone.  Before the HELLO it knows no agent_id,
\* and the finally clause has nothing to unregister.
HandlerEnds(c) ==
  /\ phase[c] \in {"hello", "greeted", "serving"}
  /\ ~up[c]
  /\ phase' = [phase EXCEPT ![c] = IF @ = "hello" THEN "done" ELSE "closing"]
  /\ toServer' = [toServer EXCEPT ![c] = <<>>]
  /\ UNCHANGED <<db, registry, tick, up, helloKey, toAgent, agent, acked, faults>>

\* Mutant of Unregister: the finally clause is missing.
UnregisterNothing(c) ==
  /\ phase[c] = "closing"
  /\ phase' = [phase EXCEPT ![c] = "done"]
  /\ UNCHANGED <<db, registry, tick, net, agent, acked, faults>>

\* The finally clause: registry.unregister(agent_id), whatever connection
\* the host's entry refers to by now.
Unregister(c) ==
  /\ phase[c] = "closing"
  /\ phase' = [phase EXCEPT ![c] = "done"]
  /\ registry' = [registry EXCEPT ![OwnerOf[c]] = NoConn]
  /\ UNCHANGED <<db, tick, net, agent, acked, faults>>
--------------------------------------------------------------------------
(* Dispatcher._tick.                                                       *)

Pending == {a \in Actions : status[a] = "pending"}

\* Mutant of OldestPending: a cursor stands behind the newest row ever sent.
OldestPendingCursor ==
  {a \in Pending :
     \A b \in Actions : status[b] \notin {"absent", "pending"} => createdAt[b] < createdAt[a]}

\* The oldest BatchLimit pending rows (ORDER BY created_at LIMIT 16).
OldestPending ==
  {a \in Pending :
     Cardinality({b \in Pending : createdAt[b] < createdAt[a]}) < BatchLimit}

\* The tick reads the rows and their hosts, then closes its session: what
\* it read is stale from here on.
Tick ==
  /\ batch = {} /\ marking = NoAction
  /\ batch' = OldestPending
  /\ snapOn' = autoBlock
  /\ snapKey' = dbKey
  /\ UNCHANGED <<db, registry, phase, marking, sendTo, net, agent, acked, faults>>

\* The row the loop is at: the oldest of those left.
Current(a) ==
  /\ marking = NoAction
  /\ a \in batch
  /\ \A b \in batch : createdAt[a] <= createdAt[b]

\* auto_block off, host not connected, or no frame could be built.
Skip(a) ==
  /\ Current(a)
  /\ \/ ~snapOn[HostOf[a]]
     \/ registry[HostOf[a]] = NoConn
     \/ a \notin Signable
  /\ batch' = batch \ {a}
  /\ UNCHANGED <<db, registry, phase, snapOn, snapKey, marking, sendTo, net, agent, acked, faults>>

Sendable(a) ==
  /\ Current(a)
  /\ snapOn[HostOf[a]]
  /\ registry[HostOf[a]] # NoConn
  /\ a \in Signable

\* registry.get, _build_command_frame and the write of send_text.  On a link
\* that is lost the frame goes nowhere.
Send(a) ==
  LET h == HostOf[a]
      c == registry[h]
      f == [act |-> a, key |-> snapKey[h]]
  IN
  /\ Sendable(a)
  /\ toAgent' = [toAgent EXCEPT ![c] = IF up[c] THEN Append(@, f) ELSE @]
  /\ marking' = a
  /\ sendTo' = c
  /\ batch' = batch \ {a}
  /\ UNCHANGED <<db, registry, phase, snapOn, snapKey, up, helloKey, toServer,
                 agent, acked, faults>>

\* The awaited send_text returns, on a live link or on one that is lost and
\* not yet known to be.
SendReturns ==
  /\ sendTo # NoConn
  /\ phase[sendTo] = "serving"
  /\ sendTo' = NoConn
  /\ UNCHANGED <<db, registry, phase, batch, snapOn, snapKey, marking, net, agent,
                 acked, faults>>

\* send_text raises: the host is unregistered, whatever connection its entry
\* refers to by now, and the row stays pending.
SendRaises ==
  /\ sendTo # NoConn
  /\ ~up[sendTo]
  /\ registry' = [registry EXCEPT ![HostOf[marking]] = NoConn]
  /\ marking' = NoAction
  /\ sendTo' = NoConn
  /\ UNCHANGED <<db, phase, batch, snapOn, snapKey, net, agent, acked, faults>>

\* mark_dispatched commits; it updates the row only WHERE status='pending'.
MarkDispatched ==
  /\ marking # NoAction /\ sendTo = NoConn
  /\ status' = [status EXCEPT ![marking] = IF @ = "pending" THEN "dispatched" ELSE @]
  /\ marking' = NoAction
  /\ UNCHANGED <<createdAt, autoBlock, dbKey, registry, phase, batch, snapOn, snapKey,
                 sendTo, net, agent, acked, faults>>

\* mark_dispatched raises: _run logs "tick failed" and the tick is over.
MarkRaises ==
  /\ Fault
  /\ marking # NoAction /\ sendTo = NoConn
  /\ marking' = NoAction
  /\ batch' = {}
  /\ UNCHANGED <<db, registry, phase, snapOn, snapKey, sendTo, net, agent, acked>>
--------------------------------------------------------------------------
(* The agent.                                                              *)

\* Mutant of Remember: applied ids are not recorded.
RememberNothing(ids, a) == ids

\* rememberApplied evicts the oldest id once the map is full.
Remember(ids, a) ==
  Append(IF Len(ids) >= AppliedCap THEN Tail(ids) ELSE ids, a)

Remembered(h, a) == \E i \in 1..Len(applied[h]) : applied[h][i] = a

\* Handle verifies the frame and its id is new: the kind's function is called.
Called(h, f) == f.key = agentKey[h] /\ ~Remembered(h, f.act)

\* Handle refuses or fails: HMAC mismatch, issued_at outside the clock skew,
\* kind disabled by local policy, or an error of the kind's function.
HandleFails(h, f, st) ==
  /\ st = "failed"
  /\ UNCHANGED <<applied, everRun, runs, effect>>

\* reserveCommand knows the id: acknowledged again, not carried out again.
HandleDuplicate(h, f, st) ==
  /\ f.key = agentKey[h]
  /\ Remembered(h, f.act)
  /\ st = "applied"
  /\ UNCHANGED <<applied, everRun, runs, effect>>

\* Mutant of TakesEffect: every kind swallows the error of its last call.
TakesEffectIfItCan(h, a) ==
  UNCHANGED effect \/ effect' = effect \cup {a}

\* What a call that returned nil did: what it should, or nothing, in dry-run
\* or because the kind swallows the error of its last call.
TakesEffect(h, a) ==
  \/ h \notin DryRun /\ effect' = effect \cup {a}
  \/ (h \in DryRun \/ a \in Lenient) /\ UNCHANGED effect

\* The kind's function returns nil.
HandleRuns(h, f, st) ==
  /\ Called(h, f)
  /\ st = "applied"
  /\ TakesEffect(h, f.act)
  /\ applied' = [applied EXCEPT ![h] = Remember(@, f.act)]
  /\ everRun' = everRun \cup {f.act}
  /\ runs' = [runs EXCEPT ![f.act] = @ + 1]

\* readPump takes a command frame, runs Handle and writes the command_ack on
\* the same connection; the ack is lost when the link is.
Handle(h) ==
  LET c == agentConn[h] IN
  /\ c # NoConn
  /\ toAgent[c] # <<>>
  /\ toAgent' = [toAgent EXCEPT ![c] = Tail(@)]
  /\ \E st \in {"applied", "failed"} :
       LET f == Head(toAgent[c]) IN
       /\ HandleFails(h, f, st) \/ HandleDuplicate(h, f, st) \/ HandleRuns(h, f, st)
       /\ toServer' = [toServer EXCEPT ![c] =
                         IF up[c] THEN Append(@, [act |-> f.act, st |-> st]) ELSE @]
  /\ UNCHANGED <<db, registry, phase, tick, up, helloKey, agentConn, agentKey, acked, faults>>

\* readPump returns an error; Run dials again after the backoff.
AgentNotices(h) ==
  LET c == agentConn[h] IN
  /\ c # NoConn
  /\ ~up[c]
  /\ agentConn' = [agentConn EXCEPT ![h] = NoConn]
  /\ toAgent' = [toAgent EXCEPT ![c] = <<>>]
  /\ UNCHANGED <<db, registry, phase, tick, up, helloKey, toServer, agentKey,
                 applied, everRun, runs, effect, acked, faults>>
--------------------------------------------------------------------------
(* Faults.                                                                 *)

LinkLoss(c) ==
  /\ Fault
  /\ up[c]
  /\ up' = [up EXCEPT ![c] = FALSE]
  /\ UNCHANGED <<db, registry, phase, tick, helloKey, toAgent, toServer, agent, acked>>

\* The agent process ends (bye and exit, or a crash) and starts again: the
\* memory of applied ids is gone, and the secret file is read afresh.
AgentRestart(h) ==
  LET c == agentConn[h] IN
  /\ Fault
  /\ up' = [d \in Conns |-> up[d] /\ d # c]
  /\ toAgent' = [d \in Conns |-> IF d = c THEN <<>> ELSE toAgent[d]]
  /\ agentConn' = [agentConn EXCEPT ![h] = NoConn]
  /\ \E k \in {agentKey[h], dbKey[h]} : agentKey' = [agentKey EXCEPT ![h] = k]
  /\ applied' = [applied EXCEPT ![h] = <<>>]
  /\ runs' = [a \in Actions |-> IF HostOf[a] = h THEN 0 ELSE runs[a]]
  /\ UNCHANGED <<db, registry, phase, tick, helloKey, toServer, everRun, effect, acked>>

\* The server process ends and starts again: registry, handlers and the
\* running tick are gone, the tables stay.
ServerRestart ==
  /\ Fault
  /\ registry' = [h \in Hosts |-> NoConn]
  /\ phase' = [c \in Conns |-> IF phase[c] = "free" THEN "free" ELSE "done"]
  /\ batch' = {} /\ marking' = NoAction /\ sendTo' = NoConn
  /\ up' = [c \in Conns |-> FALSE]
  /\ toServer' = [c \in Conns |-> <<>>]
  /\ UNCHANGED <<db, snapOn, snapKey, helloKey, toAgent, agent, acked>>
--------------------------------------------------------------------------
Server ==
  \/ Tick
  \/ SendReturns
  \/ SendRaises
  \/ MarkDispatched
  \/ \E a \in Actions : Skip(a) \/ Send(a)
  \/ \E c \in Conns :
       Hello(c) \/ Register(c) \/ ReceiveAck(c) \/ HandlerEnds(c) \/ Unregister(c)

Agent == \/ \E c \in Conns : Dial(c)
         \/ \E h \in Hosts : Handle(h) \/ AgentNotices(h)

Environment ==
  \/ \E a \in Actions : WriteAction(a)
  \/ \E h \in Hosts : PatchAutoBlock(h) \/ RotateSecret(h) \/ AgentRestart(h)
  \/ \E c \in Conns : PolicyClose(c) \/ LinkLoss(c)
  \/ MarkRaises
  \/ ServerRestart

Next == Server \/ Agent \/ Environment

Spec == Init /\ [][Next]_vars

\* The event loop runs every ready task, the poll loop ticks again and
\* again, and the agent reads what has arrived.
Fairness ==
  /\ WF_vars(Tick) /\ WF_vars(SendReturns \/ SendRaises) /\ WF_vars(MarkDispatched)
  /\ \A a \in Actions : WF_vars(Skip(a)) /\ WF_vars(Send(a))
  /\ \A c \in Conns :
       /\ WF_vars(Hello(c)) /\ WF_vars(Register(c)) /\ WF_vars(ReceiveAck(c))
       /\ WF_vars(HandlerEnds(c)) /\ WF_vars(Unregister(c)) /\ WF_vars(Dial(c))
  /\ \A h \in Hosts : WF_vars(Handle(h)) /\ WF_vars(AgentNotices(h))

FairSpec == Spec /\ Fairness
--------------------------------------------------------------------------
(* Properties.                                                             *)

\* action_service.mark_applied closes a row as applied on the word of an
\* acknowledgement: across lost links, restarts on both sides, resent frames
\* and rotated secrets, a row is applied only if the kind's function returned
\* nil, and, for an action of a strict kind on an agent that is not in
\* dry-run, only if the action took effect on the host.
AppliedWasRun ==
  \A a \in Actions : status[a] = "applied" => a \in everRun /\ (a \in Strict => a \in effect)

\* action_service.py: "applied - agent sent command_ack(status=applied)" read
\* as "the action is in force": refuted by block_ip, whose failing nft add
\* element is acknowledged as applied (kinds.go), and by dry-run.
AppliedTookEffect == \A a \in Actions : status[a] = "applied" => a \in effect

\* reserveCommand / rememberApplied (response.go): however often the frame is
\* sent, one agent process carries an action out to success at most once, as
\* long as its memory of applied ids has not filled up.
RunOncePerProcess ==
  \A a \in Actions : Len(applied[HostOf[a]]) < AppliedCap => runs[a] <= 1

\* Dispatcher._tick works from rows it read before its awaits: no ack handled
\* meanwhile can have moved one of them on, so a frame is only ever sent for,
\* and mark_dispatched only ever applied to, a row that is still pending.
BatchIsPending ==
  \A a \in Actions : a \in batch \/ a = marking => status[a] = "pending"

\* The registry never offers the dispatcher a connection whose ws_agent has
\* returned, nor one that has not passed the HELLO check of its own host.
RegistryEntryHasHandler ==
  \A h \in Hosts : registry[h] # NoConn =>
    /\ OwnerOf[registry[h]] = h
    /\ phase[registry[h]] \in {"serving", "closing"}

\* The rows follow the life cycle of detectors/action_service.py.
Lifecycle == INSTANCE ActionLifecycle
LifecycleSpec == Lifecycle!Spec

\* dispatcher.py: "register(host_id, ws) on connect and unregister(host_id,
\* ws) on disconnect": while a connection is served over a live link, its
\* host has an entry and the dispatcher can reach it.
ServingIsRegistered ==
  \A c \in Conns : phase[c] = "serving" /\ up[c] => registry[OwnerOf[c]] # NoConn

\* dispatcher.py: a row left pending is tried again on the next tick.  A host
\* that stays registered and opted in gets each of its signable actions.
RegisteredIsServed ==
  \A a \in Signable :
    <>[](registry[HostOf[a]] # NoConn /\ autoBlock[HostOf[a]])
      => []<>(status[a] # "pending")

\* action_service.py: "applied - agent sent command_ack(status=applied)": an
\* acknowledgement the handler has read shows in the row in the end.
AckIsRecorded == \A a \in Actions : a \in acked ~> status[a] \in {"applied", "failed"}
--------------------------------------------------------------------------
(* The strengthening that makes the safety properties inductive.           *)

\* A connection belongs to the host it serves, and carries only commands
\* for that host, for rows that exist.
ChannelsInv ==
  /\ \A h \in Hosts : agentConn[h] # NoConn => OwnerOf[agentConn[h]] = h
  /\ \A c \in Conns : \A i \in 1..Len(toAgent[c]) :
       /\ HostOf[toAgent[c][i].act] = OwnerOf[c]
       /\ status[toAgent[c][i].act] # "absent"

\* Whoever says "applied" - an ack in flight, the agent's memory - says it of
\* an action whose kind returned nil, which a strict one does after its effect.
EvidenceInv ==
  /\ \A a \in everRun : a \in Strict => a \in effect
  /\ \A c \in Conns : \A i \in 1..Len(toServer[c]) :
       toServer[c][i].st = "applied" => toServer[c][i].act \in everRun
  /\ \A h \in Hosts : \A i \in 1..Len(applied[h]) : applied[h][i] \in everRun

\* What has run in this process is remembered until the memory fills up.
MemoryInv ==
  \A a \in Actions : Len(applied[HostOf[a]]) < AppliedCap =>
    /\ runs[a] <= 1
    /\ runs[a] # 0 => Remembered(HostOf[a], a)

\* The tick's rows are pending, and the one being marked is no longer among
\* those to be sent.
TickInv ==
  /\ BatchIsPending
  /\ marking \notin batch
  /\ sendTo # NoConn => marking # NoAction

IInv ==
  /\ TypeOK
  /\ RegistryEntryHasHandler
  /\ ChannelsInv
  /\ EvidenceInv
  /\ AppliedWasRun
  /\ MemoryInv
  /\ TickInv
=============================================================================
