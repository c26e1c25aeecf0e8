--------------------------- MODULE EventPipeline ---------------------------
(***************************************************************************)
(* The event pipeline: a log line becomes an event at the agent, a row and *)
(* a stream entry at the server, and an alert and an action once the       *)
(* detector runner has seen it.                                            *)
(*                                                                         *)
(*   agent    dispatch loop (internal/app/app.go), Client.Send and         *)
(*            connectAndServe (internal/transport/transport.go)            *)
(*   server   ws_agent (api/v1/stream.py), persist_event                   *)
(*            (service/event_service.py), publish_event                    *)
(*            (streams/publisher.py), the runner (detectors/runner.py)     *)
(*   Redis    one stream with a consumer group, read with ">" only         *)
(*                                                                         *)
(* Events are numbered in the order in which one agent reads its lines;    *)
(* connections in the order in which it dials.                             *)
(***************************************************************************)
EXTENDS Naturals, Sequences, FiniteSets

CONSTANTS
  MaxEvent,     \* bound: log lines
  MaxDial,      \* bound: connections the agent dials
  NumDetectors, \* length of BUILTIN_DETECTORS
  Fires,        \* <<e, d>>: detector d returns a result for event e
  Acts,         \* the results that carry an action
  SigmaMatch,   \* events some Sigma rule fires on
  StreamMax,    \* stream_maxlen
  BatchMax,     \* entries one XREADGROUP returns (100 in the code)
  MaxFaults     \* bound: faults, restarts and redeliveries

Events    == 1..MaxEvent
Conns     == 1..MaxDial
Detectors == 1..NumDetectors
Results   == Events \X Detectors

ASSUME PipelineAssumption ==
  /\ {MaxEvent, MaxDial, NumDetectors, MaxFaults} \subseteq Nat
  /\ Fires \subseteq Results
  /\ Acts \subseteq Fires
  /\ SigmaMatch \subseteq Events
  /\ {StreamMax, BatchMax} \subseteq Nat \ {0}

Hello == 0      \* a HELLO frame; every other frame is an event
NoConn == 0
NoEvent == 0

VARIABLES
  sent,              \* events the agent's dispatch loop has handed to Send
  agentConn, dials,  \* Client.conn; connections dialled so far
  greeted,           \* the HELLO of agentConn is written
  up, wire,          \* link state and frames in flight, per connection
  handler, current,  \* where ws_agent stands, and the event it publishes
  running,           \* the server process
  stored,            \* events table
  backlog, pel,      \* stream entries not yet delivered to the group; delivered
                     \*   and not acknowledged
  batch, stage, at,  \* runner: entries at hand, its step, its next detector
  alerts, actions,   \* rows per result, of the Python detectors
  sigmaAlerts,       \* events with alert rows of the Sigma rules
  firstFrame,        \* history: the first frame written on a connection
  acked,             \* history: entries acknowledged
  gone,              \* history: events that missed the stream or fell out of it
  skipped,           \* history: results lost to an error, a timeout or a
                     \*   missing row
  faults

agent  == <<sent, agentConn, dials, greeted>>
net    == <<up, wire, firstFrame>>
server == <<handler, current, running, stored>>
redis  == <<backlog, pel, acked>>
runner == <<batch, stage, at>>
tables == <<alerts, actions, sigmaAlerts>>
vars == <<agent, net, server, redis, runner, tables, gone, skipped, faults>>

TypeOK ==
  /\ sent \in 0..MaxEvent
  /\ agentConn \in Conns \cup {NoConn}
  /\ dials \in 0..MaxDial
  /\ greeted \in BOOLEAN
  /\ up \in [Conns -> BOOLEAN]
  /\ wire \in [Conns -> Seq(Events \cup {Hello})]
  /\ firstFrame \in [Conns -> {"none", "hello", "event"}]
  /\ handler \in [Conns -> {"none", "await", "serving", "publishing"}]
  /\ current \in [Conns -> Events \cup {NoEvent}]
  /\ running \in BOOLEAN
  /\ stored \subseteq Events
  /\ backlog \in Seq(Events)
  /\ pel \subseteq Events
  /\ acked \subseteq Events
  /\ batch \in Seq(Events)
  /\ stage \in {"load", "detect", "act", "sigma"}
  /\ at \in 1..(NumDetectors + 1)
  /\ alerts \in [Results -> Nat]
  /\ actions \subseteq Results
  /\ sigmaAlerts \subseteq Events
  /\ gone \subseteq Events
  /\ skipped \subseteq Results
  /\ faults \in Nat

Init ==
  /\ sent = 0 /\ agentConn = NoConn /\ dials = 0 /\ greeted = FALSE
  /\ up = [c \in Conns |-> FALSE]
  /\ wire = [c \in Conns |-> <<>>]
  /\ firstFrame = [c \in Conns |-> "none"]
  /\ handler = [c \in Conns |-> "none"]
  /\ current = [c \in Conns |-> NoEvent]
  /\ running = TRUE
  /\ stored = {}
  /\ backlog = <<>> /\ pel = {} /\ acked = {}
  /\ batch = <<>> /\ stage = "load" /\ at = 1
  /\ alerts = [r \in Results |-> 0]
  /\ actions = {} /\ sigmaAlerts = {}
  /\ gone = {} /\ skipped = {}
  /\ faults = 0

Fault == faults < MaxFaults /\ faults' = faults + 1
--------------------------------------------------------------------------
(* The agent.                                                              *)

\* setConn publishes the connection to Send before authenticate has run.
Dial ==
  /\ running
  /\ agentConn = NoConn
  /\ dials < MaxDial
  /\ dials' = dials + 1
  /\ agentConn' = dials + 1
  /\ greeted' = FALSE
  /\ up' = [up EXCEPT ![dials + 1] = TRUE]
  /\ handler' = [handler EXCEPT ![dials + 1] = "await"]
  /\ UNCHANGED <<sent, wire, firstFrame, current, running, stored, redis, runner, tables,
                 gone, skipped, faults>>

\* A frame is written on connection c; on a lost link it goes nowhere.
Write(c, f) ==
  /\ wire' = [wire EXCEPT ![c] = IF up[c] THEN Append(@, f) ELSE @]
  /\ firstFrame' = [firstFrame EXCEPT ![c] =
                      IF @ # "none" THEN @ ELSE IF f = Hello THEN "hello" ELSE "event"]

\* authenticate: the challenge is answered.
SendHello ==
  /\ agentConn # NoConn
  /\ ~greeted
  /\ greeted' = TRUE
  /\ Write(agentConn, Hello)
  /\ UNCHANGED <<sent, agentConn, dials, up, server, redis, runner, tables, gone, skipped, faults>>

\* The dispatch loop takes the next line; without a connection the event is
\* dropped.
Send ==
  /\ sent < MaxEvent
  /\ sent' = sent + 1
  /\ \/ agentConn = NoConn /\ UNCHANGED <<wire, firstFrame>>
     \/ agentConn # NoConn /\ Write(agentConn, sent + 1)
  /\ UNCHANGED <<agentConn, dials, greeted, up, server, redis, runner, tables, gone, skipped, faults>>

\* A client that repeats an event after a reconnect (external to the agent of
\* this repository, and what DuplicateEvent is for).
Redeliver(e) ==
  /\ Fault
  /\ greeted /\ agentConn # NoConn
  /\ e <= sent
  /\ Write(agentConn, e)
  /\ UNCHANGED <<agent, up, server, redis, runner, tables, gone, skipped>>

\* readPump returns an error; connectAndServe clears the connection.
AgentNotices ==
  /\ agentConn # NoConn
  /\ ~up[agentConn]
  /\ agentConn' = NoConn
  /\ greeted' = FALSE
  /\ UNCHANGED <<sent, dials, net, server, redis, runner, tables, gone, skipped, faults>>

LinkLoss(c) ==
  /\ Fault
  /\ up[c]
  /\ up' = [up EXCEPT ![c] = FALSE]
  /\ UNCHANGED <<agent, wire, firstFrame, server, redis, runner, tables, gone, skipped>>
--------------------------------------------------------------------------
(* ws_agent and persist_event, one instance per connection.                *)

\* The first frame must be a HELLO; anything else closes the connection.
ReadHello(c) ==
  /\ handler[c] = "await"
  /\ wire[c] # <<>>
  /\ wire' = [wire EXCEPT ![c] = Tail(@)]
  /\ \/ /\ Head(wire[c]) = Hello
        /\ handler' = [handler EXCEPT ![c] = "serving"]
        /\ UNCHANGED up
     \/ /\ Head(wire[c]) # Hello
        /\ handler' = [handler EXCEPT ![c] = "none"]
        /\ up' = [up EXCEPT ![c] = FALSE]
  /\ UNCHANGED <<agent, firstFrame, current, running, stored, redis, runner, tables, gone, skipped, faults>>

\* Mutant of IsDuplicate: every insert counts as new.
IsDuplicateNever(e) == FALSE

\* The insert met ON CONFLICT (id) DO NOTHING.
IsDuplicate(e) == e \in stored

\* The frame's row is inserted and committed; a duplicate is ignored.  (A
\* HELLO among the events is a frame of unknown use, and ignored.)
PersistEvent(c) ==
  /\ handler[c] = "serving"
  /\ wire[c] # <<>>
  /\ wire' = [wire EXCEPT ![c] = Tail(@)]
  /\ LET e == Head(wire[c]) IN
     \/ /\ e # Hello /\ ~IsDuplicate(e)
        /\ stored' = stored \cup {e}
        /\ current' = [current EXCEPT ![c] = e]
        /\ handler' = [handler EXCEPT ![c] = "publishing"]
     \/ /\ e = Hello \/ IsDuplicate(e)
        /\ UNCHANGED <<stored, current, handler>>
  /\ UNCHANGED <<agent, up, firstFrame, running, redis, runner, tables, gone, skipped, faults>>

\* The database refuses: the handler crashes, and closes with 1011.  A commit
\* that raised may have been carried out: the row is there, nothing has
\* published it, and when the event is sent again it is a duplicate.
PersistRaises(c) ==
  /\ Fault
  /\ handler[c] = "serving"
  /\ wire[c] # <<>> /\ Head(wire[c]) # Hello
  /\ LET e == Head(wire[c]) IN
     \/ UNCHANGED <<stored, gone>>
     \/ ~IsDuplicate(e) /\ stored' = stored \cup {e} /\ gone' = gone \cup {e}
  /\ wire' = [wire EXCEPT ![c] = <<>>]
  /\ handler' = [handler EXCEPT ![c] = "none"]
  /\ up' = [up EXCEPT ![c] = FALSE]
  /\ UNCHANGED <<agent, firstFrame, current, running, redis, runner, tables, skipped>>

\* XADD MAXLEN ~: beyond StreamMax Redis may drop the oldest entries, those
\* delivered long ago first.
Trimmed(s) ==
  {s} \cup (IF Len(s) > StreamMax THEN {SubSeq(s, Len(s) - StreamMax + 1, Len(s))} ELSE {})

Publish(c) ==
  /\ handler[c] = "publishing"
  /\ handler' = [handler EXCEPT ![c] = "serving"]
  /\ current' = [current EXCEPT ![c] = NoEvent]
  /\ LET full == Append(backlog, current[c]) IN
       \E s \in Trimmed(full) :
         /\ backlog' = s
         /\ gone' = gone \cup {full[i] : i \in 1..(Len(full) - Len(s))}
  /\ UNCHANGED <<agent, net, running, stored, pel, acked, runner, tables, skipped, faults>>

\* publish_event raises: logged, and never tried again.
PublishRaises(c) ==
  /\ Fault
  /\ handler[c] = "publishing"
  /\ handler' = [handler EXCEPT ![c] = "serving"]
  /\ current' = [current EXCEPT ![c] = NoEvent]
  /\ gone' = gone \cup {current[c]}
  /\ UNCHANGED <<agent, net, running, stored, redis, runner, tables, skipped>>

\* Mutant of HandlerEnds: a lost link cancels persist_event before its publish.
HandlerEndsAnywhere(c) ==
  /\ handler[c] # "none"
  /\ ~up[c]
  /\ handler' = [handler EXCEPT ![c] = "none"]
  /\ current' = [current EXCEPT ![c] = NoEvent]
  /\ wire' = [wire EXCEPT ![c] = <<>>]
  /\ UNCHANGED <<agent, up, firstFrame, running, stored, redis, runner, tables,
                 gone, skipped, faults>>

\* The handler notices that the link is gone; what it has not read is lost.
HandlerEnds(c) ==
  /\ handler[c] \in {"await", "serving"}
  /\ ~up[c]
  /\ handler' = [handler EXCEPT ![c] = "none"]
  /\ wire' = [wire EXCEPT ![c] = <<>>]
  /\ UNCHANGED <<agent, up, firstFrame, current, running, stored, redis, runner, tables,
                 gone, skipped, faults>>
--------------------------------------------------------------------------
(* The detector runner.                                                    *)

\* Mutant of Taken: the last entry is left behind.
TakenShort == IF Len(backlog) < BatchMax THEN Len(backlog) - 1 ELSE BatchMax - 1

\* Entries one XREADGROUP returns.
Taken == IF Len(backlog) < BatchMax THEN Len(backlog) ELSE BatchMax

\* XREADGROUP ... ">": only entries no consumer has seen.
ReadBatch ==
  /\ running
  /\ batch = <<>> /\ backlog # <<>>
  /\ batch' = SubSeq(backlog, 1, Taken)
  /\ backlog' = SubSeq(backlog, Taken + 1, Len(backlog))
  /\ pel' = pel \cup {backlog[i] : i \in 1..Taken}
  /\ UNCHANGED <<agent, net, server, acked, stage, at, tables, gone, skipped, faults>>

Ack(e) == pel' = pel \ {e} /\ acked' = acked \cup {e}

Load ==
  /\ batch # <<>> /\ stage = "load"
  /\ stage' = "detect"
  /\ at' = 1
  /\ UNCHANGED <<agent, net, server, redis, batch, tables, gone, skipped, faults>>

\* The entry is acknowledged and done with, and no detector has seen it.
AckUnseen ==
  /\ Ack(Head(batch))
  /\ batch' = Tail(batch)
  /\ skipped' = skipped \cup ({Head(batch)} \X Detectors)

\* The row is missing (deleted in the database since it was published, which
\* no code of the server does): _process_one acknowledges and returns, and the
\* Sigma pass finds no row either.  Or _load_event_payload raises, and run()
\* acknowledges.
LoadFails ==
  /\ Fault
  /\ batch # <<>> /\ stage = "load"
  /\ AckUnseen
  /\ UNCHANGED <<agent, net, server, backlog, stage, at, tables, gone>>

Result == <<Head(batch), at>>

\* Mutant of AtDetector: one detector too many.
AtDetectorPast == batch # <<>> /\ stage = "detect" /\ at <= NumDetectors + 1

AtDetector == batch # <<>> /\ stage = "detect" /\ at <= NumDetectors

\* on_event returns nothing.
Quiet ==
  /\ AtDetector
  /\ Result \notin Fires
  /\ at' = at + 1
  /\ UNCHANGED <<agent, net, server, redis, batch, stage, tables, gone, skipped, faults>>

\* on_event returns a result, and write_alert commits.
WriteAlert ==
  /\ AtDetector
  /\ Result \in Fires
  /\ alerts' = [alerts EXCEPT ![Result] = @ + 1]
  /\ \/ Result \in Acts /\ stage' = "act" /\ UNCHANGED at
     \/ Result \notin Acts /\ at' = at + 1 /\ UNCHANGED stage
  /\ UNCHANGED <<agent, net, server, redis, batch, actions, sigmaAlerts, gone, skipped, faults>>

\* on_event raises or takes longer than _MSG_TIMEOUT_SEC, or write_alert
\* raises: the result is dropped, and its action with it.
DetectorFails ==
  /\ Fault
  /\ AtDetector
  /\ skipped' = skipped \cup {Result}
  /\ at' = at + 1
  /\ UNCHANGED <<agent, net, server, redis, batch, stage, tables, gone>>

\* write_action commits, or raises: in both cases the loop goes on.
WriteAction ==
  /\ stage = "act"
  /\ stage' = "detect"
  /\ at' = at + 1
  /\ \/ actions' = actions \cup {Result} /\ UNCHANGED <<skipped, faults>>
     \/ Fault /\ skipped' = skipped \cup {Result} /\ UNCHANGED actions
  /\ UNCHANGED <<agent, net, server, redis, batch, alerts, sigmaAlerts, gone>>

\* Mutant of AllDetectorsRan: one detector short.
AllDetectorsRanShort == at >= NumDetectors

AllDetectorsRan == at = NumDetectors + 1

\* xack, at the end of _process_one.
AckEntry ==
  /\ batch # <<>> /\ stage = "detect" /\ AllDetectorsRan
  /\ Ack(Head(batch))
  /\ stage' = "sigma"
  /\ UNCHANGED <<agent, net, server, backlog, batch, at, tables, gone, skipped, faults>>

\* load_rules_from_dir wants a Path; settings.rules_dir is a str, and
\* str.exists raises AttributeError.
RulesDirIsPath == FALSE

\* _process_sigma_one, after the ack; run() catches what it raises.
Sigma ==
  /\ stage = "sigma"
  /\ sigmaAlerts' = IF RulesDirIsPath /\ Head(batch) \in SigmaMatch
                    THEN sigmaAlerts \cup {Head(batch)} ELSE sigmaAlerts
  /\ batch' = Tail(batch)
  /\ stage' = "load"
  /\ at' = 1
  /\ UNCHANGED <<agent, net, server, redis, alerts, actions, gone, skipped, faults>>
--------------------------------------------------------------------------
(* The server process ends - cleanly, when cancel() raises CancelledError  *)
(* where the runner stands, or in a crash - and starts again.  The next    *)
(* runner is another consumer, and entries of the old one stay pending.    *)

ServerStops ==
  /\ Fault
  /\ running
  /\ running' = FALSE
  /\ up' = [c \in Conns |-> FALSE]
  /\ wire' = [c \in Conns |-> <<>>]
  /\ handler' = [c \in Conns |-> "none"]
  /\ gone' = gone \cup {current[c] : c \in {d \in Conns : handler[d] = "publishing"}}
  /\ current' = [c \in Conns |-> NoEvent]
  /\ batch' = <<>> /\ stage' = "load" /\ at' = 1
  /\ UNCHANGED <<agent, firstFrame, stored, redis, tables, skipped>>

ServerStarts ==
  /\ ~running
  /\ running' = TRUE
  /\ UNCHANGED <<agent, net, handler, current, stored, redis, runner, tables, gone, skipped, faults>>
--------------------------------------------------------------------------
Handler(c) == ReadHello(c) \/ PersistEvent(c) \/ Publish(c) \/ HandlerEnds(c)

Runner ==
  ReadBatch \/ Load \/ Quiet \/ WriteAlert \/ WriteAction \/ AckEntry \/ Sigma

Next ==
  \/ Dial \/ SendHello \/ Send \/ AgentNotices
  \/ \E e \in Events : Redeliver(e)
  \/ \E c \in Conns : LinkLoss(c) \/ Handler(c) \/ PersistRaises(c) \/ PublishRaises(c)
  \/ Runner \/ LoadFails \/ DetectorFails
  \/ ServerStops \/ ServerStarts

Spec == Init /\ [][Next]_vars

\* The event loop runs the runner and the handlers; a failed write is a fault
\* and not owed.
Fairness ==
  /\ WF_vars(Runner) /\ WF_vars(ServerStarts)
  /\ \A c \in Conns : WF_vars(Handler(c))

FairSpec == Spec /\ Fairness
--------------------------------------------------------------------------
(* Properties.                                                             *)

Elements(s) == {s[i] : i \in 1..Len(s)}

\* However often an event is delivered, and whenever the server restarts, a
\* detector's result for it becomes at most one alert (persist_event
\* publishes an event once, and the runner never reads an entry twice), and an
\* action only follows from one that was written.
AlertedOnce == \A r \in Results : alerts[r] <= 1 /\ (r \in actions => alerts[r] = 1)

\* An acknowledged entry has been seen by every detector: each result is an
\* alert, and an action where it carries one, unless an error was logged for
\* it or its row could not be loaded (_process_one acknowledges last).
AckedIsEvaluated ==
  \A r \in Fires :
    r[1] \in acked /\ r \notin skipped =>
      /\ alerts[r] > 0
      /\ r \in Acts => r \in actions

\* Every stored event is on its way - being published, in the stream, in the
\* hands of a consumer - or acknowledged, or one of the known losses; and it
\* is never two of the first three at once.
StoredIsAccounted ==
  /\ stored \subseteq {current[c] : c \in Conns} \cup Elements(backlog) \cup pel \cup acked \cup gone
  /\ \A c, d \in Conns : current[c] = current[d] /\ current[c] # NoEvent => c = d
  /\ \A i, j \in 1..Len(backlog) : backlog[i] = backlog[j] => i = j
  /\ Elements(backlog) \cap (pel \cup acked \cup gone \cup {current[c] : c \in Conns}) = {}
  /\ pel \cap acked = {}

\* Every entry of the stream is read and acknowledged, or trimmed, or was in
\* the hands of a runner when its process ended: no detector, no action and
\* no error holds the stream up.
EntryIsSettled ==
  \A e \in Events :
    e \in Elements(backlog) ~> e \in acked \cup gone \cup (pel \ Elements(batch))

--------------------------------------------------------------------------
(* What the documentation says and TLC refutes on a small instance: the    *)
(* README gives the counterexamples.                                       *)

\* docs/PHASE2.md: HELLO is the first frame on every connection.
HelloFirst == \A c \in Conns : firstFrame[c] # "event"

\* _process_sigma_one: run Sigma rules and persist any fires.  Without
\* faults, a matching event whose entry is acknowledged and done with has its
\* alert.
SigmaFiresPersisted ==
  \A e \in SigmaMatch \cap acked :
    faults = 0 /\ (batch = <<>> \/ Head(batch) # e) => e \in sigmaAlerts

\* docs/PHASE3.md: on shutdown the runner acknowledges in-flight messages.
ShutdownAcksInFlight == ~running => pel = {}
=============================================================================
