---------------------------- MODULE SoarWorker ----------------------------
(***************************************************************************)
(* The SOAR delivery worker (soar/worker.py) and the dead-letter endpoints *)
(* of its API (api/v1/soar.py): alerts are polled from the table, queued   *)
(* once per accepting backend, delivered with retries, and given up into   *)
(* dead-letter files.                                                      *)
(*                                                                         *)
(* Worker loop, delivery tasks and API handlers share one event loop.  The *)
(* loop over the polled rows never awaits, so no task runs inside it.      *)
(* Alert ids are numbers in created_at order.                              *)
(***************************************************************************)
EXTENDS SoarBackends, FiniteSets

CONSTANTS
  MaxAlert,     \* bound: alerts written in a behaviour
  Toml,         \* Toml[name]: the block of each backend configured in soar.toml
  SeverityOf, TagsOf,   \* severity and tags of each alert
  Codes,        \* HTTP status codes that are told apart, of those in Network
  Kinds,        \* (host_id, detector) combinations
  KindOf,       \* KindOf[a]: the combination of alert a
  QueueMax,     \* queue_max (1000 by default)
  PollLimit,    \* rows one poll reads (200 in the code)
  DrainLimit,   \* items one drain starts (16 in the code)
  SemLimit,     \* slots of the delivery semaphore (10 in the code)
  Enabled,      \* soar.toml: enabled
  Seconds,      \* seconds in which deliveries are given up
  MaxFaults     \* bound: faults, shutdowns and restarts

\* Other names make load_config raise, and the server does not start.  A
\* number of the file is an integer.
ASSUME TomlAssumption ==
  /\ DOMAIN Toml \subseteq {KnownBackends[i] : i \in DOMAIN KnownBackends}
  /\ \A b \in DOMAIN Toml : Toml[b].max_retries = <<>> \/ Toml[b].max_retries[1] \in Int

\* SoarWorker._config.backends, and those of them that may ever be called.
Config   == [b \in DOMAIN Toml |-> LoadBackend(Toml[b])]
Backends == {b \in DOMAIN Toml : Config[b].enabled}
MaxRetries(b) == Config[b].max_retries

Alerts == 1..MaxAlert
Pairs  == Alerts \X Backends
Keys   == Backends \X Kinds

ASSUME SoarAssumption ==
  /\ MaxAlert \in Nat
  /\ KindOf \in [Alerts -> Kinds]
  /\ SeverityOf \in [Alerts -> STRING]
  /\ TagsOf \in [Alerts -> SUBSET STRING]
  /\ Codes \subseteq {n.code : n \in Network}
  /\ {QueueMax, PollLimit, DrainLimit, SemLimit} \subseteq Nat \ {0}
  /\ Enabled \in BOOLEAN
  /\ Seconds \subseteq Nat /\ Seconds # {}
  /\ MaxFaults \in Nat

\* Results of deliver(); NoResult before the first.
NoResult == Result(-1, FALSE)
Results  == {BackendDeliver(b, Config[b].extra, n) : b \in Backends, n \in Network}
Succeeded(r) == ~r.dead_lettered /\ r.status_code >= 200 /\ r.status_code < 400

VARIABLES
  created, fresh,       \* alerts table: rows so far, rows of the last 60 s
  cooling,              \* keys whose cooldown_sec has not passed
  enqueued,             \* SoarWorker._enqueued
  loop, todo,           \* the worker loop, and the pairs its poll is still to see
  queue,                \* SoarWorker._queue
  pc, attempt,          \* _run_one of each pair: where it stands, and its attempt
  outcome,              \* history: the last outcome of deliver()
  stop,                 \* the stop event
  files,                \* dead-letter files
  reply,                \* answer of the last replay request
  accepted, lost,       \* history: pairs ever queued; pairs of which neither an
                        \*   outcome nor a file is left behind
  posts, saved,         \* history: deliver() calls and soar_deliveries rows of
                        \*   each pair since the process started
  faults

alerts  == <<created, fresh>>
poller  == <<enqueued, loop, todo>>
tasks   == <<pc, attempt, outcome>>
history == <<accepted, posts, saved>>
vars == <<alerts, cooling, poller, queue, tasks, stop, files, reply, history, lost, faults>>

File == [alert : Alerts, backend : Backends, ts : Seconds]

TypeOK ==
  /\ created \in 0..MaxAlert
  /\ fresh \subseteq Alerts
  /\ cooling \subseteq Keys
  /\ enqueued \subseteq Alerts
  /\ loop \in {"sleep", "rows", "ended"}
  /\ todo \subseteq Pairs
  /\ queue \in Seq(Pairs)
  /\ pc \in [Pairs -> {"idle", "sem", "sending", "saving", "wait", "ended"}]
  /\ attempt \in [Pairs -> Nat]
  /\ outcome \in [Pairs -> Results \cup {NoResult}]
  /\ stop \in BOOLEAN
  /\ files \subseteq File
  /\ reply \in {"none", "queued", "busy", "conflict"}
  /\ accepted \subseteq Pairs
  /\ lost \subseteq Pairs
  /\ posts \in [Pairs -> Nat]
  /\ saved \in [Pairs -> Nat]
  /\ faults \in Nat

\* Keys of backends with a cooldown_sec.  An absent key counts as fired at
\* monotonic time 0: on a machine that has been up for less than cooldown_sec
\* every key is cooling down.
Cooled == {k \in Keys : Config[k[1]].cooldown_sec > 0}
ColdStart == {{}, Cooled}

Init ==
  /\ created = 0 /\ fresh = {}
  /\ cooling \in ColdStart
  /\ enqueued = {} /\ loop = "sleep" /\ todo = {}
  /\ queue = <<>>
  /\ pc = [p \in Pairs |-> "idle"]
  /\ attempt = [p \in Pairs |-> 1]
  /\ outcome = [p \in Pairs |-> NoResult]
  /\ stop = FALSE
  /\ files = {}
  /\ reply = "none"
  /\ accepted = {} /\ lost = {}
  /\ posts = [p \in Pairs |-> 0]
  /\ saved = [p \in Pairs |-> 0]
  /\ faults = 0

Fault == faults < MaxFaults /\ faults' = faults + 1

\* Mutant of KeyOf: the two halves of the key are swapped.
KeyOfSwapped(p) == <<KindOf[p[1]], p[2]>>

\* The cooldown key of a pair.
KeyOf(p) == <<p[2], KindOf[p[1]]>>
InQueue(p) == \E i \in 1..Len(queue) : queue[i] = p
Active(p) == pc[p] \in {"sem", "sending", "saving", "wait"}
Holds(p) == pc[p] \in {"sending", "saving", "wait"}

\* No task runs while the worker loops over its rows.
Free == todo = {}
--------------------------------------------------------------------------
(* Alerts and cooldowns.                                                   *)

WriteAlert ==
  /\ created < MaxAlert
  /\ created' = created + 1
  /\ fresh' = fresh \cup {created + 1}
  /\ UNCHANGED <<cooling, poller, queue, tasks, stop, files, reply, history, lost, faults>>

\* The oldest alert of the poll's 60 s window leaves it.
AgeOut(a) ==
  /\ a \in fresh /\ \A b \in fresh : a <= b
  /\ fresh' = fresh \ {a}
  /\ UNCHANGED <<created, cooling, poller, queue, tasks, stop, files, reply, history, lost, faults>>

CooldownElapses(k) ==
  /\ k \in cooling
  /\ cooling' = cooling \ {k}
  /\ UNCHANGED <<alerts, poller, queue, tasks, stop, files, reply, history, lost, faults>>
--------------------------------------------------------------------------
(* Dead-letter files.                                                      *)

\* Mutant of IsCandidate: one attempt too many is waited for.
IsCandidateLate(r, n, b) ==
  \/ r.dead_lettered /\ r.status_code >= 400 /\ r.status_code < 500
  \/ n > MaxRetries(b) + 1 /\ (r.status_code >= 500 \/ r.status_code = 0)

\* _is_dead_letter_candidate: a 4xx, or status 0 or 5xx once the attempts are
\* used up.
IsCandidate(r, n, b) ==
  \/ r.dead_lettered /\ r.status_code >= 400 /\ r.status_code < 500
  \/ n > MaxRetries(b) /\ (r.status_code >= 500 \/ r.status_code = 0)

\* The file is named after the second of the last attempt and the alert:
\* os.replace overwrites what another backend wrote for the same alert in the
\* same second.  Which second that is, is left open.
WriteFile(p, ts) ==
  files' = {f \in files : ~(f.alert = p[1] /\ f.ts = ts)}
             \cup {[alert |-> p[1], backend |-> p[2], ts |-> ts]}

\* _maybe_dead_letter; w says whether the file was written.  An OSError is
\* logged, and there is no file.
MaybeDeadLetter(p, r, n, w) ==
  \/ /\ w /\ IsCandidate(r, n, p[2])
     /\ \E ts \in Seconds : WriteFile(p, ts)
     /\ UNCHANGED faults
  \/ /\ ~w /\ IsCandidate(r, n, p[2])
     /\ Fault
     /\ UNCHANGED files
  \/ /\ ~w /\ ~IsCandidate(r, n, p[2])
     /\ UNCHANGED <<files, faults>>
--------------------------------------------------------------------------
(* The poller.                                                             *)

Recent == {a \in fresh : Cardinality({b \in fresh : b > a}) < PollLimit}

\* _poll_once: the newest rows of the window; _enqueue_row returns at once
\* for an alert some backend already accepted.
Poll ==
  /\ loop = "sleep" /\ ~stop
  /\ loop' = "rows"
  /\ todo' = IF Enabled THEN (Recent \ enqueued) \X Backends ELSE {}
  /\ UNCHANGED <<alerts, cooling, enqueued, queue, tasks, stop, files, reply, history, lost, faults>>

\* The query raises; the loop goes on with the drain.
PollRaises ==
  /\ Fault
  /\ Enabled
  /\ loop = "sleep" /\ ~stop
  /\ loop' = "rows"
  /\ UNCHANGED <<alerts, cooling, enqueued, todo, queue, tasks, stop, files, reply, history, lost>>

\* Rows newest first, backends in registry order.
AtPair(p) ==
  /\ p \in todo
  /\ \A q \in todo : q[1] < p[1] \/ (q[1] = p[1] /\ RegistryPosition(p[2]) <= RegistryPosition(q[2]))

Wanted(p) ==
  /\ Accepts(Config[p[2]], SeverityOf[p[1]], TagsOf[p[1]])
  /\ KeyOf(p) \notin cooling

Skip(p) ==
  /\ AtPair(p)
  /\ ~Wanted(p)
  /\ todo' = todo \ {p}
  /\ UNCHANGED <<alerts, cooling, enqueued, loop, queue, tasks, stop, files, reply, history, lost, faults>>

\* Mutant of MarkEnqueued: the alert is forgotten, and polled again.
MarkEnqueuedNot(a) == UNCHANGED enqueued

MarkEnqueued(a) == enqueued' = enqueued \cup {a}

\* The pair is queued.  A full queue drops its oldest item, for which
\* _dead_letter_queue_full makes up an outcome: status 0, dead_lettered, with
\* the attempt number of a first attempt.
Offer(p) ==
  /\ AtPair(p)
  /\ Wanted(p)
  /\ todo' = todo \ {p}
  /\ MarkEnqueued(p[1])
  /\ accepted' = accepted \cup {p}
  /\ outcome' = [outcome EXCEPT ![p] = NoResult]
  /\ \/ /\ Len(queue) < QueueMax
        /\ queue' = Append(queue, p)
        /\ lost' = lost \ {p}
        /\ UNCHANGED <<files, faults>>
     \/ /\ Len(queue) >= QueueMax
        /\ queue' = Append(Tail(queue), p)
        /\ \E w \in BOOLEAN :
             LET d == Head(queue) IN
             /\ MaybeDeadLetter(d, Result(0, TRUE), 1, w)
             /\ lost' = (lost \ {p}) \cup (IF w THEN {} ELSE {d})
  /\ UNCHANGED <<alerts, cooling, loop, pc, attempt, stop, reply, posts, saved>>

\* Mutant of Drained: the last item is left in the queue.
DrainedShort ==
  IF stop \/ queue = <<>> THEN 0
  ELSE IF Len(queue) - 1 < DrainLimit THEN Len(queue) - 1 ELSE DrainLimit

Drained == IF stop THEN 0 ELSE IF Len(queue) < DrainLimit THEN Len(queue) ELSE DrainLimit

\* _drain_queue_once creates a task for each item it takes.
Drain ==
  /\ loop = "rows" /\ todo = {}
  /\ loop' = "sleep"
  /\ queue' = SubSeq(queue, Drained + 1, Len(queue))
  /\ LET taken == {queue[i] : i \in 1..Drained} IN
     /\ pc' = [p \in Pairs |-> IF p \in taken THEN "sem" ELSE pc[p]]
     /\ attempt' = [p \in Pairs |-> IF p \in taken THEN 1 ELSE attempt[p]]
  /\ UNCHANGED <<alerts, cooling, enqueued, todo, outcome, stop, files, reply, history, lost, faults>>
--------------------------------------------------------------------------
(* _run_one.                                                               *)

\* The task is over, and its locals with it.
EndTask(p) ==
  /\ pc' = [pc EXCEPT ![p] = "ended"]
  /\ attempt' = [attempt EXCEPT ![p] = 1]

\* The backend is called.
Deliver(p) ==
  /\ pc' = [pc EXCEPT ![p] = "sending"]
  /\ posts' = [posts EXCEPT ![p] = @ + 1]

Acquire(p) ==
  /\ Free
  /\ pc[p] = "sem"
  /\ Cardinality({q \in Pairs : Holds(q)}) < SemLimit
  /\ Deliver(p)
  /\ UNCHANGED <<alerts, cooling, poller, queue, attempt, outcome, stop, files, reply,
                 accepted, lost, saved, faults>>

\* deliver() returns, or raises and the worker makes up a result.
Respond(p, net) ==
  /\ Free
  /\ pc[p] = "sending"
  /\ pc' = [pc EXCEPT ![p] = "saving"]
  /\ outcome' = [outcome EXCEPT ![p] = BackendDeliver(p[2], Config[p[2]].extra, net)]
  /\ UNCHANGED <<alerts, cooling, poller, queue, attempt, stop, files, reply, history, lost, faults>>

\* Mutants of Retries: refusals are retried as well; one attempt too many.
RetriesRefused(p) == ~Succeeded(outcome[p]) /\ attempt[p] <= MaxRetries(p[2])
RetriesOnceMore(p) ==
  /\ ~outcome[p].dead_lettered /\ ~Succeeded(outcome[p])
  /\ attempt[p] <= MaxRetries(p[2]) + 1

\* Only a transient failure with attempts left is tried again.
Retries(p) ==
  /\ ~outcome[p].dead_lettered /\ ~Succeeded(outcome[p])
  /\ attempt[p] <= MaxRetries(p[2])

\* _persist_attempt commits its row, and the task decides.
Persist(p) ==
  /\ Free
  /\ pc[p] = "saving"
  /\ saved' = [saved EXCEPT ![p] = @ + 1]
  /\ \/ /\ Retries(p)
        /\ pc' = [pc EXCEPT ![p] = "wait"]
        /\ attempt' = [attempt EXCEPT ![p] = @ + 1]
        /\ UNCHANGED <<cooling, files, lost, faults>>
     \/ /\ Succeeded(outcome[p])
        /\ EndTask(p)
        /\ cooling' = cooling \cup ({KeyOf(p)} \cap Cooled)
        /\ UNCHANGED <<files, lost, faults>>
     \/ /\ ~Succeeded(outcome[p]) /\ ~Retries(p)
        /\ EndTask(p)
        /\ \E w \in BOOLEAN : MaybeDeadLetter(p, outcome[p], attempt[p], w)
        /\ lost' = IF faults' = faults THEN lost ELSE lost \cup {p}
        /\ UNCHANGED cooling
  /\ UNCHANGED <<alerts, poller, queue, outcome, stop, reply, accepted, posts>>

\* The insert raises: nobody catches it, the task is gone.
PersistRaises(p) ==
  /\ Free
  /\ Fault
  /\ pc[p] = "saving"
  /\ EndTask(p)
  /\ lost' = lost \cup {p}
  /\ UNCHANGED <<alerts, cooling, poller, queue, outcome, stop, files, reply, history>>

\* The backoff is over.
Resume(p) ==
  /\ Free
  /\ pc[p] = "wait"
  /\ ~stop
  /\ Deliver(p)
  /\ UNCHANGED <<alerts, cooling, poller, queue, attempt, outcome, stop, files, reply,
                 accepted, lost, saved, faults>>

\* The stop event ends the backoff: the task returns at once.
Cancel(p) ==
  /\ Free
  /\ pc[p] = "wait"
  /\ stop
  /\ EndTask(p)
  /\ lost' = lost \cup {p}
  /\ UNCHANGED <<alerts, cooling, poller, queue, outcome, stop, files, reply, history, faults>>
--------------------------------------------------------------------------
(* Shutdown and restart.                                                   *)

Stop ==
  /\ Fault
  /\ ~stop
  /\ stop' = TRUE
  /\ UNCHANGED <<alerts, cooling, poller, queue, tasks, files, reply, history, lost>>

RunEnds ==
  /\ loop = "sleep" /\ stop
  /\ loop' = "ended"
  /\ UNCHANGED <<alerts, cooling, enqueued, todo, queue, tasks, stop, files, reply, history, lost, faults>>

\* The process ends, at any point, and starts again: only the tables and the
\* files remain.
Restart ==
  /\ Fault
  /\ cooling' \in ColdStart
  /\ enqueued' = {} /\ loop' = "sleep" /\ todo' = {}
  /\ queue' = <<>>
  /\ pc' = [p \in Pairs |-> "idle"]
  /\ attempt' = [p \in Pairs |-> 1]
  /\ lost' = lost \cup {p \in Pairs : InQueue(p) \/ Active(p)}
  /\ posts' = [p \in Pairs |-> 0]
  /\ saved' = [p \in Pairs |-> 0]
  /\ stop' = FALSE
  /\ UNCHANGED <<alerts, outcome, files, reply, accepted>>
--------------------------------------------------------------------------
(* The replay endpoint.  A digest stands for the fields it is computed     *)
(* over.                                                                   *)

BodyFields == {"ts", "backend", "alert", "status_code", "error", "attempt", "payload_sha256"}

\* get_dead_letter adds two fields to what it reads from disk.
GetDeadLetter == BodyFields \cup {"file_sha256", "_file", "_path"}

\* verify_dead_letter hashes the body it is given, without file_sha256.
VerifyDeadLetter == GetDeadLetter \ {"file_sha256"} = BodyFields

Replay(f) ==
  /\ f \in files
  /\ Free
  /\ reply' = IF ~VerifyDeadLetter THEN "conflict"
              ELSE IF Len(queue) < QueueMax THEN "queued" ELSE "busy"
  /\ queue' = IF reply' = "queued" THEN Append(queue, <<f.alert, f.backend>>) ELSE queue
  /\ UNCHANGED <<alerts, cooling, poller, tasks, stop, files, history, lost, faults>>
--------------------------------------------------------------------------
EnqueueRow(p) == Skip(p) \/ Offer(p)

Calls == {net \in Network : net.kind = "status" => net.code \in Codes}

RunOne(p) ==
  \/ Acquire(p) \/ \E net \in Calls : Respond(p, net)
  \/ Persist(p) \/ Resume(p) \/ Cancel(p)

Next ==
  \/ WriteAlert
  \/ \E a \in Alerts : AgeOut(a)
  \/ \E k \in Keys : CooldownElapses(k)
  \/ Poll \/ PollRaises \/ Drain
  \/ \E p \in Pairs : EnqueueRow(p) \/ RunOne(p) \/ PersistRaises(p)
  \/ Stop \/ RunEnds \/ Restart
  \/ \E f \in files : Replay(f)

Spec == Init /\ [][Next]_vars

\* The event loop runs every ready callback; timers fire; httpx gives up
\* after timeout_sec, so deliver() always returns.  Fairness of the tasks is
\* strong because Free disables them, here, whenever the poller loops.
Fairness ==
  /\ WF_vars(Poll) /\ WF_vars(Drain) /\ WF_vars(RunEnds)
  /\ \A p \in Pairs : WF_vars(EnqueueRow(p)) /\ SF_vars(RunOne(p))

FairSpec == Spec /\ Fairness
--------------------------------------------------------------------------
(* Properties.                                                             *)

\* No pair is in the hands of the worker twice: not twice in the queue, and
\* not queued while its task runs.  This is what _enqueued is for, across
\* polls that keep reading the same rows for 60 s.
NoDoubleFire ==
  /\ \A i, j \in 1..Len(queue) : queue[i] = queue[j] => i = j
  /\ \A p \in Pairs : InQueue(p) => ~Active(p)

\* A delivery makes at most max_retries + 1 calls of its backend, and when it
\* is at rest each call has left its row in soar_deliveries - unless the row
\* itself could not be written (_persist_attempt raised).
EveryAttemptRecorded ==
  \A p \in Pairs :
    /\ posts[p] <= MaxRetries(p[2]) + 1
    /\ pc[p] \in {"wait", "ended"} /\ p \notin lost => saved[p] = posts[p]

HasFile(p) == \E f \in files : f.alert = p[1]

\* Every pair that was ever queued is still worked on, or was delivered, or
\* its alert is among the dead letters, or deliver() refused to send or raised
\* (then only its rows tell), or it belongs to the losses the code accepts: process
\* end, failing row insert, full disk, overflow of the queue.
Accounted ==
  \A p \in accepted :
    InQueue(p) \/ Active(p) \/ p \in lost \/ HasFile(p) \/ Succeeded(outcome[p])
      \/ outcome[p] = Invalid

\* _run_one calls the backend again only after a transient failure: a success,
\* a refusal (4xx) or an invalid configuration is final for as long as the
\* process lives.
NoPostAfterVerdict ==
  [][\A p \in Pairs : posts'[p] > posts[p] =>
       ~Succeeded(outcome[p]) /\ ~outcome[p].dead_lettered]_vars

\* While the worker runs, what is in the queue is delivered, given up or
\* dropped: retries, the semaphore and the batch size of the drain never
\* leave an item behind for good.
QueuedIsSettled ==
  \A p \in Pairs : InQueue(p) ~> (stop \/ (~InQueue(p) /\ ~Active(p)))

--------------------------------------------------------------------------
(* What the documentation says and TLC refutes on a small instance: the    *)
(* README gives the counterexamples.                                       *)

\* _dead_letter_queue_full: "so that an alert is never silently lost when the
\* worker can't keep up".  Without faults, no pair is ever lost.
NeverSilentlyLost == faults = 0 => lost = {}

\* POST /dead-letter/{id}/replay re-enqueues a dead letter nobody has edited.
ReplayAccepted == reply # "conflict"

\* _maybe_dead_letter: "truly given up on (4xx, or retries exhausted on 5xx /
\* network)".  A webhook host that fails to resolve once is given up on, and
\* leaves no file behind when the backend has retries.
GivenUpIsDeadLettered ==
  \A p \in accepted :
    pc[p] = "ended" /\ p \notin lost /\ faults = 0 => HasFile(p) \/ Succeeded(outcome[p])

\* A dead-letter file stays where it is until an operator deals with it.
DeadLetterStays == [][files \subseteq files']_vars

\* cooldown_sec debounces per (backend, host, detector): no delivery starts
\* while its key is cooling down.
Debounced == [][\A p \in Pairs : posts'[p] > posts[p] /\ posts[p] = 0 => KeyOf(p) \notin cooling]_vars
=============================================================================
