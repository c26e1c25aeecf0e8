------------------------- MODULE SoarWorkerProofs -------------------------
(***************************************************************************)
(* Proofs about SoarWorker, for any configuration, any number of alerts    *)
(* and faults, and any limits of the queue, the poll, the drain and the    *)
(* semaphore.                                                              *)
(***************************************************************************)
EXTENDS SoarWorker, SequenceTheorems, TLAPS

\* The queue holds no pair twice.
QueueDistinct == \A i, j \in 1..Len(queue) : queue[i] = queue[j] => i = j

\* A pair that is queued, or has a task, was marked in _enqueued and is not
\* among those the poll is still to see; a queued pair has no task.
Marked ==
  \A p \in Pairs :
    /\ InQueue(p) \/ pc[p] # "idle" => p[1] \in enqueued /\ p \notin todo
    /\ InQueue(p) => pc[p] = "idle" /\ outcome[p] = NoResult

\* Where a task stands: its attempts, its calls and its rows.
TaskCounts(p) ==
  /\ pc[p] \in {"idle", "sem"} => attempt[p] = 1 /\ posts[p] = 0 /\ saved[p] = 0
  /\ pc[p] \in {"sending", "saving"} =>
       /\ attempt[p] <= MaxRetries(p[2]) + 1
       /\ posts[p] = attempt[p] /\ saved[p] + 1 = posts[p]
  /\ pc[p] = "wait" =>
       /\ attempt[p] <= MaxRetries(p[2]) + 1
       /\ posts[p] + 1 = attempt[p] /\ saved[p] = posts[p]
  /\ pc[p] = "ended" =>
       /\ posts[p] <= MaxRetries(p[2]) + 1
       /\ p \notin lost => saved[p] = posts[p]

\* Where a task stands: the verdict of its last call.
TaskVerdict(p) ==
  /\ pc[p] = "sem" => outcome[p] = NoResult
  /\ pc[p] = "saving" => outcome[p] \in Results
  /\ pc[p] = "wait" => ~Succeeded(outcome[p]) /\ ~outcome[p].dead_lettered

IInv ==
  /\ TypeOK /\ QueueDistinct /\ Marked
  /\ \A p \in Pairs : TaskCounts(p) /\ TaskVerdict(p)
  /\ Accounted
--------------------------------------------------------------------------
(* The configuration and the results of deliver.                           *)

LEMMA RetriesBound == \A b \in Backends : MaxRetries(b) \in Nat
  <1> SUFFICES ASSUME NEW b \in Backends PROVE MaxRetries(b) \in Nat
    OBVIOUS
  <1>1. b \in DOMAIN Toml
    BY DEF Backends
  <1>2. MaxRetries(b) = AtLeast(0, CoerceInt(Toml[b].max_retries, 5))
    BY <1>1 DEF MaxRetries, Config, LoadBackend
  <1>3. Toml[b].max_retries = <<>> \/ Toml[b].max_retries[1] \in Int
    BY <1>1, TomlAssumption
  <1>4. CoerceInt(Toml[b].max_retries, 5) \in Int
    BY <1>3 DEF CoerceInt
  <1> QED
    BY <1>2, <1>4 DEF AtLeast

\* What a call of any backend can return.
LEMMA ResultShape ==
  \A r \in Results :
    /\ r.status_code \in {0, 200, 302, 404, 429, 503}
    /\ r = Result(r.status_code, r.dead_lettered)
    /\ r.dead_lettered <=> r = Invalid \/ r.status_code \in {404, 429}
  <1> SUFFICES ASSUME NEW b \in Backends, NEW n \in Network, NEW r,
                      r = BackendDeliver(b, Config[b].extra, n)
               PROVE  /\ r.status_code \in {0, 200, 302, 404, 429, 503}
                      /\ r = Result(r.status_code, r.dead_lettered)
                      /\ r.dead_lettered <=> r = Invalid \/ r.status_code \in {404, 429}
    BY DEF Results
  <1>1. b \in {"generic_webhook", "slack", "discord", "pagerduty", "thehive", "jira"}
    BY TomlAssumption DEF Backends, KnownBackends
  <1>2. r = Sent(n) \/ r = Invalid
    BY <1>1 DEF BackendDeliver, GenericWebhookDeliver, SlackDeliver, DiscordDeliver,
                PagerDutyDeliver, TheHiveDeliver, JiraDeliver
  <1>3. CASE r = Invalid
    BY <1>3 DEF Invalid, Result
  <1>4. CASE r = Sent(n)
    <2>1. CASE n.kind = "status" /\ n.code \in {200, 302, 404, 429, 503}
      <3>1. r = Result(n.code, n.code >= 400 /\ n.code < 500)
        BY <1>4, <2>1 DEF Sent
      <3>2. CASE n.code \in {404, 429}
        <4>1. (n.code >= 400 /\ n.code < 500) = TRUE
          BY <3>2
        <4>2. r = Result(n.code, TRUE)
          BY <3>1, <4>1
        <4> QED
          BY <3>2, <4>2 DEF Result
      <3>3. CASE n.code \in {200, 302, 503}
        <4>1. (n.code >= 400 /\ n.code < 500) = FALSE
          BY <3>3
        <4>2. r = Result(n.code, FALSE)
          BY <3>1, <4>1
        <4> QED
          BY <3>3, <4>2 DEF Result, Invalid
      <3> QED
        BY <2>1, <3>2, <3>3
    <2>2. CASE n.kind = "network"
      BY <1>4, <2>2 DEF Sent, Result, Invalid
    <2>3. CASE n.kind = "protocol"
      BY <1>4, <2>3 DEF Sent, Result, Invalid, Raised
    <2> QED
      BY <2>1, <2>2, <2>3 DEF Network
  <1> QED
    BY <1>2, <1>3, <1>4

\* A failure that is not retried leaves a dead letter, unless the backend
\* refused to send or raised.
LEMMA GivenUp ==
  ASSUME NEW p \in Pairs, NEW n \in Nat, NEW r \in Results, ~Succeeded(r),
         ~(~r.dead_lettered /\ ~Succeeded(r) /\ n <= MaxRetries(p[2]))
  PROVE  IsCandidate(r, n, p[2]) \/ r = Invalid
  <1>1. /\ r.status_code \in {0, 200, 302, 404, 429, 503}
        /\ r.dead_lettered <=> r = Invalid \/ r.status_code \in {404, 429}
    BY ResultShape
  <1>2. MaxRetries(p[2]) \in Nat
    BY RetriesBound DEF Pairs
  <1> QED
    BY <1>1, <1>2 DEF IsCandidate, Succeeded
--------------------------------------------------------------------------
(* Types.                                                                  *)

PollType ==
  /\ created \in 0..MaxAlert /\ fresh \subseteq Alerts
  /\ cooling \subseteq Keys /\ enqueued \subseteq Alerts
  /\ loop \in {"sleep", "rows", "ended"} /\ todo \subseteq Pairs
  /\ stop \in BOOLEAN /\ reply \in {"none", "queued", "busy", "conflict"}
  /\ faults \in Nat

TaskType ==
  /\ pc \in [Pairs -> {"idle", "sem", "sending", "saving", "wait", "ended"}]
  /\ attempt \in [Pairs -> Nat]
  /\ outcome \in [Pairs -> Results \cup {NoResult}]
  /\ posts \in [Pairs -> Nat] /\ saved \in [Pairs -> Nat]

StoreType ==
  /\ queue \in Seq(Pairs) /\ files \subseteq File
  /\ accepted \subseteq Pairs /\ lost \subseteq Pairs

LEMMA TypeParts ==
  /\ TypeOK <=> PollType /\ TaskType /\ StoreType
  /\ TypeOK' <=> PollType' /\ TaskType' /\ StoreType'
  BY DEF TypeOK, PollType, TaskType, StoreType

LEMMA TypeFrame ==
  /\ PollType /\ UNCHANGED <<created, fresh, cooling, enqueued, loop, todo, stop, reply, faults>> => PollType'
  /\ TaskType /\ UNCHANGED <<pc, attempt, outcome, posts, saved>> => TaskType'
  /\ StoreType /\ UNCHANGED <<queue, files, accepted, lost>> => StoreType'
  BY DEF PollType, TaskType, StoreType

LEMMA PairParts == \A p \in Pairs : p[1] \in Alerts /\ p[2] \in Backends /\ MaxRetries(p[2]) \in Nat
  BY RetriesBound DEF Pairs

LEMMA InitInv == Init => IInv
  <1> SUFFICES ASSUME Init PROVE IInv
    OBVIOUS
  <1> USE DEF Init
  <1>1. PollType
    <2>1. cooling \subseteq Keys
      BY DEF ColdStart, Cooled
    <2>2. created \in 0..MaxAlert
      BY SoarAssumption
    <2> QED
      BY <2>1, <2>2 DEF PollType
  <1>2. TaskType
    BY DEF TaskType
  <1>3. StoreType
    BY DEF StoreType
  <1>4. QueueDistinct /\ Marked /\ Accounted
    BY DEF QueueDistinct, Marked, Accounted, InQueue
  <1>5. ASSUME NEW p \in Pairs PROVE TaskCounts(p) /\ TaskVerdict(p)
    BY DEF TaskCounts, TaskVerdict
  <1> QED
    BY <1>1, <1>2, <1>3, <1>4, <1>5, TypeParts DEF IInv

\* What _maybe_dead_letter may do to the files: an alert that has a file keeps
\* one, and a written file is there.
LEMMA DeadLetterFacts ==
  ASSUME PollType, StoreType, NEW p \in Pairs, NEW r, NEW n, NEW w \in BOOLEAN,
         MaybeDeadLetter(p, r, n, w)
  PROVE  /\ files' \subseteq File
         /\ faults' \in Nat
         /\ \A q \in Pairs : HasFile(q) => HasFile(q)'
         /\ w => HasFile(p)'
         /\ IsCandidate(r, n, p[2]) /\ ~w => faults' # faults
         /\ w => faults' = faults
  <1>1. CASE w /\ (\E ts \in Seconds : WriteFile(p, ts)) /\ UNCHANGED faults
    <2>1. PICK ts \in Seconds : WriteFile(p, ts)
      BY <1>1
    <2> DEFINE g == [alert |-> p[1], backend |-> p[2], ts |-> ts]
    <2>2. g \in File
      BY PairParts DEF File
    <2>3. files' = {f \in files : ~(f.alert = p[1] /\ f.ts = ts)} \cup {g}
      BY <2>1 DEF WriteFile
    <2>4. g \in files' /\ g.alert = p[1]
      BY <2>3
    <2>5. ASSUME NEW q \in Pairs, HasFile(q) PROVE HasFile(q)'
      <3>1. PICK f \in files : f.alert = q[1]
        BY <2>5 DEF HasFile
      <3>2. CASE f.alert = p[1] /\ f.ts = ts
        BY <2>4, <3>1, <3>2 DEF HasFile
      <3>3. CASE ~(f.alert = p[1] /\ f.ts = ts)
        BY <2>3, <3>1, <3>3 DEF HasFile
      <3> QED
        BY <3>2, <3>3
    <2>6. files' \subseteq File
      BY <2>2, <2>3 DEF StoreType
    <2>7. HasFile(p)'
      BY <2>4 DEF HasFile
    <2> QED
      BY <1>1, <2>5, <2>6, <2>7 DEF PollType
  <1>2. CASE ~w /\ UNCHANGED files /\ (Fault \/ (UNCHANGED faults /\ ~IsCandidate(r, n, p[2])))
    BY <1>2 DEF HasFile, StoreType, PollType, Fault
  <1> QED
    BY <1>1, <1>2 DEF MaybeDeadLetter
--------------------------------------------------------------------------
(* Steps that leave queue and tasks alone.                                 *)

StoredVars == <<queue, pc, attempt, outcome, files, accepted, lost, posts, saved>>

\* The replay endpoint answers 409 whatever the file: its handler hashes the
\* two fields that get_dead_letter has added.
LEMMA ReplayConflicts == ~VerifyDeadLetter
  BY DEF VerifyDeadLetter, GetDeadLetter, BodyFields

LEMMA StillSteps ==
  ASSUME TypeOK,
         WriteAlert \/ (\E a \in Alerts : AgeOut(a)) \/ (\E k \in Keys : CooldownElapses(k))
         \/ Stop \/ RunEnds \/ PollRaises \/ (\E f \in files : Replay(f))
  PROVE  TypeOK' /\ UNCHANGED <<enqueued, todo, StoredVars>>
  <1>0. PollType /\ TaskType /\ StoreType
    BY TypeParts
  <1>1. UNCHANGED <<enqueued, todo, StoredVars>>
    <2>1. CASE \E f \in files : Replay(f)
      BY <2>1, ReplayConflicts DEF Replay, StoredVars, poller, tasks, history
    <2> QED
      BY <2>1 DEF WriteAlert, AgeOut, CooldownElapses, Stop, RunEnds, PollRaises,
                  StoredVars, poller, tasks, history
  <1>2. TaskType' /\ StoreType'
    BY <1>0, <1>1, TypeFrame DEF StoredVars
  <1>3. PollType'
    <2>1. CASE WriteAlert
      BY <1>0, <2>1, SoarAssumption DEF WriteAlert, PollType, poller, Alerts
    <2>2. CASE (\E a \in Alerts : AgeOut(a)) \/ (\E k \in Keys : CooldownElapses(k)) \/ RunEnds
      BY <1>0, <2>2 DEF AgeOut, CooldownElapses, RunEnds, PollType, poller, alerts
    <2>3. CASE Stop \/ PollRaises
      <3>1. faults' \in Nat
        BY <1>0, <2>3 DEF Stop, PollRaises, Fault, PollType
      <3>2. CASE Stop
        <4>1. stop' \in BOOLEAN
          BY <3>2 DEF Stop
        <4> QED
          BY <1>0, <3>1, <3>2, <4>1 DEF Stop, PollType, poller, alerts
      <3>3. CASE PollRaises
        BY <1>0, <3>1, <3>3 DEF PollRaises, PollType, alerts
      <3> QED
        BY <2>3, <3>2, <3>3
    <2>4. CASE \E f \in files : Replay(f)
      <3>1. reply' = "conflict"
        BY <2>4, ReplayConflicts DEF Replay
      <3> QED
        BY <1>0, <2>4, <3>1 DEF Replay, PollType, poller, alerts
    <2> QED
      BY <2>1, <2>2, <2>3, <2>4
  <1> QED
    BY <1>1, <1>2, <1>3, TypeParts

LEMMA PollSteps ==
  ASSUME TypeOK, Poll \/ (\E p \in Pairs : Skip(p))
  PROVE  /\ TypeOK' /\ UNCHANGED <<enqueued, StoredVars>>
         /\ \A p \in todo' : p \in todo \/ p[1] \notin enqueued
  <1>0. PollType /\ TaskType /\ StoreType
    BY TypeParts
  <1>1. UNCHANGED <<enqueued, StoredVars>>
    BY DEF Poll, Skip, StoredVars, tasks, history
  <1>2. TaskType' /\ StoreType'
    BY <1>0, <1>1, TypeFrame DEF StoredVars
  <1>3. todo' \subseteq Pairs /\ \A p \in todo' : p \in todo \/ p[1] \notin enqueued
    <2>1. CASE Poll
      <3>1. Recent \subseteq Alerts
        BY <1>0 DEF Recent, PollType
      <3>2. todo' = {} \/ todo' = (Recent \ enqueued) \X Backends
        BY <2>1 DEF Poll
      <3>3. CASE todo' = {}
        BY <3>3
      <3>4. CASE todo' = (Recent \ enqueued) \X Backends
        <4>1. \A p \in todo' : p[1] \notin enqueued
          BY <3>4
        <4>2. todo' \subseteq Pairs
          BY <3>1, <3>4 DEF Pairs
        <4> QED
          BY <4>1, <4>2
      <3> QED
        BY <3>2, <3>3, <3>4
    <2>2. ASSUME NEW p \in Pairs, Skip(p) PROVE todo' \subseteq todo
      BY <2>2 DEF Skip
    <2> QED
      BY <1>0, <2>1, <2>2 DEF PollType
  <1>4. loop' \in {"sleep", "rows", "ended"}
    BY <1>0 DEF Poll, Skip, PollType
  <1>5. PollType'
    BY <1>0, <1>3, <1>4 DEF Poll, Skip, PollType, alerts
  <1> QED
    BY <1>1, <1>2, <1>3, <1>5, TypeParts

\* Steps of these kinds keep the invariant.
LEMMA StillKeeps ==
  ASSUME IInv, TypeOK', UNCHANGED <<enqueued, StoredVars>>,
         \A p \in todo' : p \in todo \/ p[1] \notin enqueued
  PROVE  IInv'
  <1> USE DEF IInv, StoredVars
  <1>1. QueueDistinct'
    BY DEF QueueDistinct
  <1>2. Marked'
    BY DEF Marked, InQueue
  <1>3. ASSUME NEW p \in Pairs PROVE TaskCounts(p)' /\ TaskVerdict(p)'
    BY DEF TaskCounts, TaskVerdict
  <1>4. Accounted'
    BY DEF Accounted, InQueue, Active, HasFile
  <1> QED
    BY <1>1, <1>2, <1>3, <1>4
--------------------------------------------------------------------------
(* One step of a task.                                                     *)

\* Task p takes a step, and no other task, the queue or the poller notices.
TaskStep(p) ==
  /\ Active(p) /\ pc'[p] # "idle"
  /\ UNCHANGED <<enqueued, todo, queue, accepted>>
  /\ \A q \in Pairs \ {p} :
       /\ pc'[q] = pc[q] /\ attempt'[q] = attempt[q] /\ outcome'[q] = outcome[q]
       /\ posts'[q] = posts[q] /\ saved'[q] = saved[q]
       /\ q \in lost' <=> q \in lost
  /\ \A q \in Pairs : HasFile(q) => HasFile(q)'
  /\ TaskCounts(p)' /\ TaskVerdict(p)'
  /\ \/ Active(p)' \/ p \in lost' \/ HasFile(p)'
     \/ Succeeded(outcome'[p]) \/ outcome'[p] = Invalid

LEMMA TaskKeeps == ASSUME IInv, TypeOK', NEW p \in Pairs, TaskStep(p) PROVE IInv'
  <1> USE DEF IInv
  <1>0. \A q \in Pairs : InQueue(q)' <=> InQueue(q)
    BY DEF TaskStep, InQueue
  <1>1. QueueDistinct'
    BY DEF QueueDistinct, TaskStep
  <1>2. Marked'
    <2> SUFFICES ASSUME NEW q \in Pairs
                 PROVE  /\ InQueue(q) \/ pc'[q] # "idle" => q[1] \in enqueued /\ q \notin todo
                        /\ InQueue(q) => pc'[q] = "idle" /\ outcome'[q] = NoResult
      BY <1>0 DEF Marked, TaskStep
    <2>1. CASE q = p
      BY <2>1 DEF Marked, TaskStep, Active
    <2>2. CASE q # p
      BY <2>2 DEF Marked, TaskStep
    <2> QED
      BY <2>1, <2>2
  <1>3. ASSUME NEW q \in Pairs PROVE TaskCounts(q)' /\ TaskVerdict(q)'
    <2>1. CASE q = p
      BY <2>1 DEF TaskStep
    <2>2. CASE q # p
      BY <2>2 DEF TaskCounts, TaskVerdict, TaskStep
    <2> QED
      BY <2>1, <2>2
  <1>4. Accounted'
    <2> SUFFICES ASSUME NEW q \in accepted
                 PROVE  InQueue(q)' \/ Active(q)' \/ q \in lost' \/ HasFile(q)'
                        \/ Succeeded(outcome'[q]) \/ outcome'[q] = Invalid
      BY DEF Accounted, TaskStep
    <2>0. q \in Pairs
      BY DEF TypeOK
    <2>1. CASE q = p
      BY <2>1 DEF TaskStep
    <2>2. CASE q # p
      <3>1. InQueue(q) \/ Active(q) \/ q \in lost \/ HasFile(q)
            \/ Succeeded(outcome[q]) \/ outcome[q] = Invalid
        BY DEF Accounted
      <3>2. Active(q) => Active(q)'
        BY <2>0, <2>2 DEF TaskStep, Active
      <3> QED
        BY <1>0, <2>0, <2>2, <3>1, <3>2 DEF TaskStep
    <2> QED
      BY <2>1, <2>2
  <1> QED
    BY <1>1, <1>2, <1>3, <1>4

\* The backend is called for the first time, or once more after a backoff.
LEMMA CallSteps ==
  ASSUME IInv, NEW p \in Pairs, Acquire(p) \/ Resume(p)
  PROVE  TypeOK' /\ TaskStep(p)
  <1>0. PollType /\ TaskType /\ StoreType /\ TaskCounts(p) /\ TaskVerdict(p) /\ MaxRetries(p[2]) \in Nat
    BY TypeParts, PairParts DEF IInv
  <1>1. /\ pc[p] \in {"sem", "wait"}
        /\ pc' = [pc EXCEPT ![p] = "sending"] /\ posts' = [posts EXCEPT ![p] = @ + 1]
        /\ UNCHANGED <<created, fresh, cooling, enqueued, loop, todo, stop, reply, faults,
                       attempt, outcome, saved, queue, files, accepted, lost>>
    BY DEF Acquire, Resume, Deliver, alerts, poller
  <1>2. PollType' /\ StoreType'
    BY <1>0, <1>1, TypeFrame
  <1>3. TaskType'
    BY <1>0, <1>1 DEF TaskType
  <1>4. TaskCounts(p)' /\ TaskVerdict(p)'
    BY <1>0, <1>1 DEF TaskType, TaskCounts, TaskVerdict
  <1>5. \A q \in Pairs : HasFile(q) => HasFile(q)'
    BY <1>1 DEF HasFile
  <1>6. Active(p) /\ Active(p)'
    BY <1>0, <1>1 DEF Active, TaskType
  <1> QED
    BY <1>0, <1>1, <1>2, <1>3, <1>4, <1>5, <1>6, TypeParts DEF TaskStep, TaskType

LEMMA RespondSteps ==
  ASSUME IInv, NEW p \in Pairs, NEW net \in Calls, Respond(p, net)
  PROVE  TypeOK' /\ TaskStep(p)
  <1>0. PollType /\ TaskType /\ StoreType /\ TaskCounts(p) /\ TaskVerdict(p) /\ MaxRetries(p[2]) \in Nat
    BY TypeParts, PairParts DEF IInv
  <1>1. PICK r \in Results : r = BackendDeliver(p[2], Config[p[2]].extra, net)
    BY PairParts DEF Results, Calls
  <1>2. /\ pc[p] = "sending"
        /\ pc' = [pc EXCEPT ![p] = "saving"] /\ outcome' = [outcome EXCEPT ![p] = r]
        /\ UNCHANGED <<created, fresh, cooling, enqueued, loop, todo, stop, reply, faults,
                       attempt, posts, saved, queue, files, accepted, lost>>
    BY <1>1 DEF Respond, alerts, poller, history
  <1>3. PollType' /\ StoreType'
    BY <1>0, <1>2, TypeFrame
  <1>4. TaskType'
    BY <1>0, <1>1, <1>2 DEF TaskType
  <1>5. TaskCounts(p)' /\ TaskVerdict(p)'
    BY <1>0, <1>1, <1>2 DEF TaskType, TaskCounts, TaskVerdict
  <1>6. \A q \in Pairs : HasFile(q) => HasFile(q)'
    BY <1>2 DEF HasFile
  <1>7. Active(p) /\ Active(p)'
    BY <1>0, <1>2 DEF Active, TaskType
  <1> QED
    BY <1>0, <1>2, <1>3, <1>4, <1>5, <1>6, <1>7, TypeParts DEF TaskStep, TaskType

\* The task is cut short: its insert raised, or the stop event ended its backoff.
LEMMA CutSteps ==
  ASSUME IInv, NEW p \in Pairs, PersistRaises(p) \/ Cancel(p)
  PROVE  TypeOK' /\ TaskStep(p)
  <1>0. PollType /\ TaskType /\ StoreType /\ TaskCounts(p) /\ TaskVerdict(p) /\ MaxRetries(p[2]) \in Nat
    BY TypeParts, PairParts DEF IInv
  <1>1. /\ pc[p] \in {"saving", "wait"}
        /\ pc' = [pc EXCEPT ![p] = "ended"] /\ attempt' = [attempt EXCEPT ![p] = 1]
        /\ lost' = lost \cup {p}
        /\ UNCHANGED <<created, fresh, cooling, enqueued, loop, todo, stop, reply,
                       outcome, posts, saved, queue, files, accepted>>
    BY DEF PersistRaises, Cancel, EndTask, alerts, poller, history
  <1>2. faults' \in Nat
    BY <1>0 DEF PersistRaises, Cancel, Fault, PollType
  <1>3. PollType' /\ StoreType'
    BY <1>0, <1>1, <1>2 DEF PollType, StoreType
  <1>4. TaskType'
    BY <1>0, <1>1 DEF TaskType
  <1>5. TaskCounts(p)' /\ TaskVerdict(p)'
    BY <1>0, <1>1 DEF TaskType, TaskCounts, TaskVerdict
  <1>6. \A q \in Pairs : HasFile(q) => HasFile(q)'
    BY <1>1 DEF HasFile
  <1>7. Active(p)
    BY <1>1 DEF Active
  <1> QED
    BY <1>0, <1>1, <1>3, <1>4, <1>5, <1>6, <1>7, TypeParts DEF TaskStep, TaskType

LEMMA PersistSteps ==
  ASSUME IInv, NEW p \in Pairs, Persist(p)
  PROVE  TypeOK' /\ TaskStep(p)
  <1>0. PollType /\ TaskType /\ StoreType /\ TaskCounts(p) /\ TaskVerdict(p) /\ MaxRetries(p[2]) \in Nat
    BY TypeParts, PairParts DEF IInv
  <1>1. /\ pc[p] = "saving" /\ saved' = [saved EXCEPT ![p] = @ + 1]
        /\ UNCHANGED <<created, fresh, enqueued, loop, todo, stop, reply,
                       outcome, posts, queue, accepted>>
    BY DEF Persist, alerts, poller
  <1>2. outcome[p] \in Results /\ Active(p)
    BY <1>0, <1>1 DEF TaskVerdict, Active
  <1>3. CASE /\ Retries(p) /\ pc' = [pc EXCEPT ![p] = "wait"]
             /\ attempt' = [attempt EXCEPT ![p] = @ + 1]
             /\ UNCHANGED <<cooling, files, lost, faults>>
    <2>1. PollType' /\ StoreType'
      BY <1>0, <1>1, <1>3, TypeFrame
    <2>2. TaskType'
      BY <1>0, <1>1, <1>3 DEF TaskType
    <2>3. TaskCounts(p)' /\ TaskVerdict(p)'
      BY <1>0, <1>1, <1>3 DEF TaskType, TaskCounts, TaskVerdict, Retries
    <2>4. \A q \in Pairs : HasFile(q) => HasFile(q)'
      BY <1>3 DEF HasFile
    <2>5. Active(p)'
      BY <1>0, <1>3 DEF Active, TaskType
    <2> QED
      BY <1>0, <1>1, <1>2, <1>3, <2>1, <2>2, <2>3, <2>4, <2>5, TypeParts DEF TaskStep, TaskType
  <1>4. ASSUME EndTask(p), PollType', StoreType', lost \subseteq lost', lost' \subseteq lost \cup {p},
               \A q \in Pairs : HasFile(q) => HasFile(q)',
               p \in lost' \/ HasFile(p)' \/ Succeeded(outcome[p]) \/ outcome[p] = Invalid
        PROVE  TypeOK' /\ TaskStep(p)
    <2>1. pc' = [pc EXCEPT ![p] = "ended"] /\ attempt' = [attempt EXCEPT ![p] = 1]
      BY <1>4 DEF EndTask
    <2>2. TaskType'
      BY <1>0, <1>1, <2>1 DEF TaskType
    <2>3. TaskCounts(p)' /\ TaskVerdict(p)'
      BY <1>0, <1>1, <2>1 DEF TaskType, TaskCounts, TaskVerdict
    <2> QED
      BY <1>0, <1>1, <1>2, <1>4, <2>1, <2>2, <2>3, TypeParts DEF TaskStep, TaskType
  <1>5. CASE /\ Succeeded(outcome[p]) /\ EndTask(p)
             /\ cooling' = cooling \cup ({KeyOf(p)} \cap Cooled)
             /\ UNCHANGED <<files, lost, faults>>
    <2>1. cooling' \subseteq Keys
      BY <1>0, <1>5 DEF PollType, Cooled
    <2>2. PollType' /\ StoreType'
      BY <1>0, <1>1, <1>5, <2>1 DEF PollType, StoreType
    <2>3. \A q \in Pairs : HasFile(q) => HasFile(q)'
      BY <1>5 DEF HasFile
    <2> QED
      BY <1>4, <1>5, <2>2, <2>3
  <1>6. CASE /\ ~Succeeded(outcome[p]) /\ ~Retries(p) /\ EndTask(p)
             /\ \E w \in BOOLEAN : MaybeDeadLetter(p, outcome[p], attempt[p], w)
             /\ lost' = IF faults' = faults THEN lost ELSE lost \cup {p}
             /\ UNCHANGED cooling
    <2>1. PICK w \in BOOLEAN : MaybeDeadLetter(p, outcome[p], attempt[p], w)
      BY <1>6
    <2>2. /\ files' \subseteq File /\ faults' \in Nat
          /\ \A q \in Pairs : HasFile(q) => HasFile(q)'
          /\ w => HasFile(p)'
          /\ IsCandidate(outcome[p], attempt[p], p[2]) /\ ~w => faults' # faults
      BY <1>0, <2>1, DeadLetterFacts
    <2>3. attempt[p] \in Nat
      BY <1>0 DEF TaskType
    <2>4. IsCandidate(outcome[p], attempt[p], p[2]) \/ outcome[p] = Invalid
      BY <1>2, <1>6, <2>3, GivenUp DEF Retries
    <2>5. lost \subseteq lost' /\ lost' \subseteq lost \cup {p} /\ (faults' # faults => p \in lost')
      BY <1>6
    <2>6. PollType' /\ StoreType'
      BY <1>0, <1>1, <1>6, <2>2, <2>5 DEF PollType, StoreType
    <2> QED
      BY <1>4, <1>6, <2>2, <2>4, <2>5, <2>6
  <1> QED
    BY <1>3, <1>5, <1>6 DEF Persist
--------------------------------------------------------------------------
(* The queue.                                                              *)

Has(s, x) == \E i \in 1..Len(s) : s[i] = x
Distinct(s) == \A i, j \in 1..Len(s) : s[i] = s[j] => i = j

LEMMA QueueTerms ==
  /\ \A p : InQueue(p) <=> Has(queue, p)
  /\ \A p : InQueue(p)' <=> Has(queue', p)
  /\ QueueDistinct <=> Distinct(queue)
  /\ QueueDistinct' <=> Distinct(queue')
  BY DEF InQueue, QueueDistinct, Has, Distinct

LEMMA AppendHas ==
  ASSUME NEW S, NEW s \in Seq(S), NEW x \in S
  PROVE  /\ Append(s, x) \in Seq(S)
         /\ \A y : Has(Append(s, x), y) <=> Has(s, y) \/ y = x
         /\ Distinct(s) /\ ~Has(s, x) => Distinct(Append(s, x))
  <1>1. /\ Append(s, x) \in Seq(S) /\ Len(Append(s, x)) = Len(s) + 1 /\ Len(s) \in Nat
        /\ \A i \in 1..Len(s) : Append(s, x)[i] = s[i]
        /\ Append(s, x)[Len(s) + 1] = x
    OBVIOUS
  <1>2. 1..(Len(s) + 1) = 1..Len(s) \cup {Len(s) + 1}
    BY <1>1
  <1>3. \A y : Has(Append(s, x), y) <=> Has(s, y) \/ y = x
    BY <1>1, <1>2 DEF Has
  <1>4. Distinct(s) /\ ~Has(s, x) => Distinct(Append(s, x))
    BY <1>1, <1>2 DEF Has, Distinct
  <1> QED
    BY <1>1, <1>3, <1>4

LEMMA TailHas ==
  ASSUME NEW S, NEW s \in Seq(S), s # <<>>
  PROVE  /\ Tail(s) \in Seq(S) /\ Head(s) \in S /\ Has(s, Head(s))
         /\ \A y : Has(s, y) <=> y = Head(s) \/ Has(Tail(s), y)
         /\ Distinct(s) => Distinct(Tail(s)) /\ ~Has(Tail(s), Head(s))
  <1>1. /\ Tail(s) \in Seq(S) /\ Head(s) = s[1] /\ s[1] \in S /\ Len(s) \in Nat /\ Len(s) >= 1
        /\ Len(Tail(s)) = Len(s) - 1
        /\ \A i \in 1..Len(Tail(s)) : Tail(s)[i] = s[i + 1] /\ i + 1 \in 1..Len(s)
    OBVIOUS
  <1>2. \A y : Has(Tail(s), y) => Has(s, y)
    BY <1>1 DEF Has
  <1>3. Has(s, Head(s))
    BY <1>1 DEF Has
  <1>4. ASSUME NEW y, Has(s, y), y # Head(s) PROVE Has(Tail(s), y)
    <2>1. PICK i \in 1..Len(s) : s[i] = y
      BY <1>4 DEF Has
    <2>2. i - 1 \in 1..Len(Tail(s)) /\ (i - 1) + 1 = i
      BY <1>1, <1>4, <2>1
    <2> QED
      BY <1>1, <2>1, <2>2 DEF Has
  <1>5. Distinct(s) => Distinct(Tail(s)) /\ ~Has(Tail(s), Head(s))
    BY <1>1 DEF Has, Distinct
  <1> QED
    BY <1>1, <1>2, <1>3, <1>4, <1>5

\* A sequence without its first k elements.
Rest(s, k) == SubSeq(s, k + 1, Len(s))

LEMMA RestHas ==
  ASSUME NEW S, NEW s \in Seq(S), NEW k \in 0..Len(s)
  PROVE  /\ Rest(s, k) \in Seq(S)
         /\ \A y : Has(s, y) <=> (\E i \in 1..k : s[i] = y) \/ Has(Rest(s, k), y)
         /\ Distinct(s) => /\ Distinct(Rest(s, k))
                           /\ \A i \in 1..k : ~Has(Rest(s, k), s[i])
  <1>1. PICK b : b = Rest(s, k)
    OBVIOUS
  <1>2. /\ b \in Seq(S) /\ Len(b) = Len(s) - k /\ Len(s) \in Nat /\ k \in Nat
        /\ \A i \in 1..(Len(s) - k) : b[i] = s[k + i]
    BY <1>1, SubSeqProperties DEF Rest
  <1>3. ASSUME NEW y, Has(s, y) PROVE (\E i \in 1..k : s[i] = y) \/ Has(b, y)
    <2>1. PICK i \in 1..Len(s) : s[i] = y
      BY <1>3 DEF Has
    <2>2. CASE i > k
      <3>1. i - k \in 1..(Len(s) - k) /\ k + (i - k) = i
        BY <1>2, <2>1, <2>2
      <3> QED
        BY <1>2, <2>1, <3>1 DEF Has
    <2>3. CASE ~(i > k)
      <3>1. i \in 1..k
        BY <1>2, <2>1, <2>3
      <3> QED
        BY <2>1, <3>1
    <2> QED
      BY <2>2, <2>3
  <1>4. ASSUME NEW y, (\E i \in 1..k : s[i] = y) \/ Has(b, y) PROVE Has(s, y)
    <2>1. CASE Has(b, y)
      BY <1>2, <2>1 DEF Has
    <2>2. ASSUME NEW i \in 1..k, s[i] = y PROVE Has(s, y)
      <3>1. i \in 1..Len(s)
        BY <1>2
      <3> QED
        BY <2>2, <3>1 DEF Has
    <2> QED
      BY <1>4, <2>1, <2>2
  <1>5. ASSUME Distinct(s) PROVE Distinct(b) /\ \A i \in 1..k : ~Has(b, s[i])
    <2>1. \A i \in 1..Len(b) : k + i \in 1..Len(s) /\ k + i > k /\ b[i] = s[k + i]
      BY <1>2
    <2>2. Distinct(b)
      BY <1>2, <1>5, <2>1 DEF Distinct
    <2>3. ASSUME NEW i \in 1..k, Has(b, s[i]) PROVE FALSE
      <3>1. PICK j \in 1..Len(b) : b[j] = s[i]
        BY <2>3 DEF Has
      <3>2. i \in 1..Len(s) /\ i <= k
        BY <1>2
      <3> QED
        BY <1>2, <1>5, <2>1, <3>1, <3>2 DEF Distinct
    <2> QED
      BY <2>2, <2>3
  <1> QED
    BY <1>1, <1>2, <1>3, <1>4, <1>5

\* A pair is queued, at the cost of the oldest one when the queue is full.
LEMMA OfferKeeps == ASSUME IInv, NEW p \in Pairs, Offer(p) PROVE IInv'
  <1> USE DEF IInv
  <1>0. PollType /\ TaskType /\ StoreType
    BY TypeParts
  <1>1. /\ p \in todo /\ todo' = todo \ {p} /\ enqueued' = enqueued \cup {p[1]}
        /\ accepted' = accepted \cup {p} /\ outcome' = [outcome EXCEPT ![p] = NoResult]
        /\ UNCHANGED <<created, fresh, cooling, loop, pc, attempt, stop, reply, posts, saved>>
    BY DEF Offer, AtPair, MarkEnqueued, alerts
  <1>2. ~InQueue(p) /\ pc[p] = "idle" /\ queue \in Seq(Pairs) /\ Distinct(queue) /\ ~Has(queue, p)
    BY <1>0, <1>1, QueueTerms DEF Marked, StoreType
  <1>3. PICK dropped \in SUBSET Pairs :
          /\ queue' \in Seq(Pairs) /\ Distinct(queue')
          /\ \A q : Has(queue', q) <=> q = p \/ (Has(queue, q) /\ q \notin dropped)
          /\ \A q \in dropped : Has(queue, q)
          /\ files' \subseteq File /\ faults' \in Nat
          /\ \A q \in Pairs : HasFile(q) => HasFile(q)'
          /\ \A q \in dropped : HasFile(q)' \/ q \in lost'
          /\ lost \ {p} \subseteq lost' /\ lost' \subseteq lost \cup dropped
    <2>1. CASE queue' = Append(queue, p) /\ lost' = lost \ {p} /\ UNCHANGED <<files, faults>>
      <3>1. /\ queue' \in Seq(Pairs) /\ Distinct(queue')
            /\ \A q : Has(queue', q) <=> q = p \/ Has(queue, q)
        BY <1>2, <2>1, AppendHas
      <3>2. /\ files' \subseteq File /\ faults' \in Nat
            /\ \A q \in Pairs : HasFile(q) => HasFile(q)'
        BY <1>0, <2>1 DEF HasFile, StoreType, PollType
      <3> WITNESS {} \in SUBSET Pairs
      <3> QED
        BY <2>1, <3>1, <3>2
    <2>2. CASE /\ Len(queue) >= QueueMax /\ queue' = Append(Tail(queue), p)
               /\ \E w \in BOOLEAN :
                    /\ MaybeDeadLetter(Head(queue), Result(0, TRUE), 1, w)
                    /\ lost' = (lost \ {p}) \cup (IF w THEN {} ELSE {Head(queue)})
      <3>1. queue # <<>>
        BY <1>2, <2>2, SoarAssumption
      <3>2. PICK d \in Pairs : d = Head(queue)
        BY <1>2, <3>1
      <3>3. PICK t : t = Tail(queue)
        OBVIOUS
      <3>4. /\ t \in Seq(Pairs) /\ Distinct(t) /\ ~Has(t, d) /\ Has(queue, d)
            /\ \A q : Has(queue, q) <=> q = d \/ Has(t, q)
        BY <1>2, <3>1, <3>2, <3>3, TailHas
      <3>5. /\ queue' \in Seq(Pairs) /\ Distinct(queue')
            /\ \A q : Has(queue', q) <=> q = p \/ Has(t, q)
        BY <1>2, <2>2, <3>3, <3>4, AppendHas
      <3>6. PICK w \in BOOLEAN :
              /\ MaybeDeadLetter(d, Result(0, TRUE), 1, w)
              /\ lost' = (lost \ {p}) \cup (IF w THEN {} ELSE {d})
        BY <2>2, <3>2
      <3>7. /\ files' \subseteq File /\ faults' \in Nat
            /\ \A q \in Pairs : HasFile(q) => HasFile(q)'
            /\ w => HasFile(d)'
        BY <1>0, <3>6, DeadLetterFacts
      <3>8. HasFile(d)' \/ d \in lost'
        BY <3>6, <3>7
      <3>9. lost \ {p} \subseteq lost' /\ lost' \subseteq lost \cup {d}
        BY <3>6
      <3> WITNESS {d} \in SUBSET Pairs
      <3> QED
        BY <3>4, <3>5, <3>7, <3>8, <3>9
    <2> QED
      BY <2>1, <2>2 DEF Offer
  <1>4. PollType' /\ StoreType'
    <2>1. p[1] \in Alerts
      BY PairParts
    <2> QED
      BY <1>0, <1>1, <1>3, <2>1 DEF PollType, StoreType
  <1>5. TaskType'
    BY <1>0, <1>1 DEF TaskType
  <1>6. \A q \in dropped : q # p /\ pc[q] = "idle"
    BY <1>2, <1>3, QueueTerms DEF Marked
  <1>7. outcome'[p] = NoResult /\ \A q \in Pairs \ {p} : outcome'[q] = outcome[q]
    BY <1>0, <1>1 DEF TaskType
  <1>8. QueueDistinct'
    BY <1>3, QueueTerms
  <1>9. Marked'
    <2> SUFFICES ASSUME NEW q \in Pairs
                 PROVE  /\ Has(queue', q) \/ pc[q] # "idle" => q[1] \in enqueued' /\ q \notin todo'
                        /\ Has(queue', q) => pc[q] = "idle" /\ outcome'[q] = NoResult
      BY <1>1, QueueTerms DEF Marked
    <2>1. CASE q = p
      BY <1>1, <1>2, <1>7, <2>1
    <2>2. CASE q # p
      BY <1>1, <1>3, <1>7, <2>2, QueueTerms DEF Marked
    <2> QED
      BY <2>1, <2>2
  <1>10. ASSUME NEW q \in Pairs PROVE TaskCounts(q)' /\ TaskVerdict(q)'
    <2>1. TaskCounts(q)'
      <3>1. pc[q] = "ended" => (q \in lost' <=> q \in lost)
        BY <1>2, <1>3, <1>6
      <3> QED
        BY <1>1, <3>1 DEF TaskCounts
    <2>2. TaskVerdict(q)'
      <3>1. pc[q] # "idle" => outcome'[q] = outcome[q]
        BY <1>2, <1>7
      <3> QED
        BY <1>1, <3>1 DEF TaskVerdict
    <2> QED
      BY <2>1, <2>2
  <1>11. Accounted'
    <2> SUFFICES ASSUME NEW q \in accepted'
                 PROVE  Has(queue', q) \/ Active(q) \/ q \in lost' \/ HasFile(q)'
                        \/ Succeeded(outcome'[q]) \/ outcome'[q] = Invalid
      BY <1>1, QueueTerms DEF Accounted, Active
    <2>1. CASE q = p
      BY <1>3, <2>1
    <2>2. CASE q # p
      <3>1. q \in accepted /\ q \in Pairs
        BY <1>0, <1>1, <2>2 DEF StoreType
      <3>2. Has(queue, q) \/ Active(q) \/ q \in lost \/ HasFile(q)
            \/ Succeeded(outcome[q]) \/ outcome[q] = Invalid
        BY <3>1, QueueTerms DEF Accounted
      <3> QED
        BY <1>3, <1>7, <2>2, <3>1, <3>2
    <2> QED
      BY <2>1, <2>2
  <1> QED
    BY <1>4, <1>5, <1>8, <1>9, <1>10, <1>11, TypeParts

LEMMA DrainKeeps == ASSUME IInv, Drain PROVE IInv'
  <1> USE DEF IInv
  <1>0. PollType /\ TaskType /\ StoreType
    BY TypeParts
  <1>1. PICK k \in 0..Len(queue) :
          /\ queue' = Rest(queue, k)
          /\ pc' = [p \in Pairs |-> IF p \in {queue[i] : i \in 1..k} THEN "sem" ELSE pc[p]]
          /\ attempt' = [p \in Pairs |-> IF p \in {queue[i] : i \in 1..k} THEN 1 ELSE attempt[p]]
    <2>1. Drained \in 0..Len(queue)
      BY <1>0, SoarAssumption DEF Drained, StoreType
    <2> QED
      BY <2>1 DEF Drain, Rest
  <1>2. /\ loop' = "sleep"
        /\ UNCHANGED <<created, fresh, cooling, enqueued, todo, outcome, stop, files, reply,
                       accepted, posts, saved, lost, faults>>
    BY DEF Drain, alerts, history
  <1> DEFINE taken == {queue[i] : i \in 1..k}
  <1>3. /\ queue' \in Seq(Pairs) /\ Distinct(queue')
        /\ \A q : Has(queue, q) <=> q \in taken \/ Has(queue', q)
        /\ \A q \in taken : ~Has(queue', q)
    <2>1. queue \in Seq(Pairs) /\ Distinct(queue)
      BY <1>0, QueueTerms DEF StoreType
    <2>2. /\ Rest(queue, k) \in Seq(Pairs) /\ Distinct(Rest(queue, k))
          /\ \A q : Has(queue, q) <=> (\E i \in 1..k : queue[i] = q) \/ Has(Rest(queue, k), q)
          /\ \A i \in 1..k : ~Has(Rest(queue, k), queue[i])
      BY <2>1, RestHas
    <2> QED
      BY <1>1, <2>2
  <1> HIDE DEF taken
  <1>4. /\ \A q \in Pairs : q \in taken => pc'[q] = "sem" /\ attempt'[q] = 1
        /\ \A q \in Pairs : q \notin taken => pc'[q] = pc[q] /\ attempt'[q] = attempt[q]
    BY <1>1 DEF taken
  <1>5. \A q \in Pairs : q \in taken => InQueue(q) /\ pc[q] = "idle" /\ outcome[q] = NoResult
    BY <1>3, QueueTerms DEF Marked
  <1>6. PollType'
    BY <1>0, <1>2 DEF PollType
  <1>7. StoreType'
    BY <1>0, <1>2, <1>3 DEF StoreType
  <1>8. TaskType'
    <2>1. pc' \in [Pairs -> {"idle", "sem", "sending", "saving", "wait", "ended"}]
      BY <1>0, <1>1 DEF TaskType
    <2>2. attempt' \in [Pairs -> Nat]
      BY <1>0, <1>1 DEF TaskType
    <2> QED
      BY <1>0, <1>2, <2>1, <2>2 DEF TaskType
  <1>9. QueueDistinct'
    BY <1>3, QueueTerms
  <1>10. Marked'
    <2> SUFFICES ASSUME NEW q \in Pairs
                 PROVE  /\ Has(queue', q) \/ pc'[q] # "idle" => q[1] \in enqueued /\ q \notin todo
                        /\ Has(queue', q) => pc'[q] = "idle" /\ outcome[q] = NoResult
      BY <1>2, QueueTerms DEF Marked
    <2>1. CASE q \in taken
      BY <1>3, <1>5, <2>1 DEF Marked
    <2>2. CASE q \notin taken
      BY <1>3, <1>4, <2>2, QueueTerms DEF Marked
    <2> QED
      BY <2>1, <2>2
  <1>11. ASSUME NEW q \in Pairs PROVE TaskCounts(q)' /\ TaskVerdict(q)'
    <2>1. CASE q \in taken
      BY <1>2, <1>4, <1>5, <2>1 DEF TaskCounts, TaskVerdict
    <2>2. CASE q \notin taken
      BY <1>2, <1>4, <2>2 DEF TaskCounts, TaskVerdict
    <2> QED
      BY <2>1, <2>2
  <1>12. Accounted'
    <2> SUFFICES ASSUME NEW q \in accepted
                 PROVE  Has(queue', q) \/ Active(q)' \/ q \in lost \/ HasFile(q)
                        \/ Succeeded(outcome[q]) \/ outcome[q] = Invalid
      BY <1>2, QueueTerms DEF Accounted, HasFile
    <2>0. q \in Pairs
      BY <1>0 DEF StoreType
    <2>1. CASE q \in taken
      BY <1>4, <2>0, <2>1 DEF Active
    <2>2. CASE q \notin taken
      <3>1. Active(q) => Active(q)'
        BY <1>4, <2>0, <2>2 DEF Active
      <3> QED
        BY <1>3, <2>2, <3>1, QueueTerms DEF Accounted
    <2> QED
      BY <2>1, <2>2
  <1> QED
    BY <1>6, <1>7, <1>8, <1>9, <1>10, <1>11, <1>12, TypeParts

LEMMA RestartKeeps == ASSUME IInv, Restart PROVE IInv'
  <1> USE DEF IInv
  <1>0. PollType /\ TaskType /\ StoreType
    BY TypeParts
  <1>1. /\ cooling' \in ColdStart /\ faults' = faults + 1
        /\ enqueued' = {} /\ loop' = "sleep" /\ todo' = {} /\ queue' = <<>>
        /\ pc' = [p \in Pairs |-> "idle"] /\ attempt' = [p \in Pairs |-> 1]
        /\ lost' = lost \cup {p \in Pairs : InQueue(p) \/ Active(p)}
        /\ posts' = [p \in Pairs |-> 0] /\ saved' = [p \in Pairs |-> 0]
        /\ UNCHANGED <<created, fresh, outcome, files, reply, accepted>>
    BY DEF Restart, Fault, alerts
  <1>2. PollType'
    <2>1. cooling' \subseteq Keys /\ faults' \in Nat
      BY <1>0, <1>1 DEF ColdStart, Cooled, PollType
    <2>2. stop' \in BOOLEAN
      BY DEF Restart
    <2> QED
      BY <1>0, <1>1, <2>1, <2>2 DEF PollType
  <1>3. TaskType'
    BY <1>0, <1>1 DEF TaskType
  <1>4. StoreType'
    BY <1>0, <1>1 DEF StoreType
  <1>5. \A q : ~Has(queue', q)
    BY <1>1 DEF Has
  <1>6. QueueDistinct'
    BY <1>1 DEF QueueDistinct
  <1>7. Marked'
    BY <1>1, <1>5, QueueTerms DEF Marked
  <1>8. ASSUME NEW q \in Pairs PROVE TaskCounts(q)' /\ TaskVerdict(q)'
    BY <1>1 DEF TaskCounts, TaskVerdict
  <1>9. Accounted'
    BY <1>0, <1>1 DEF Accounted, StoreType, HasFile
  <1> QED
    BY <1>2, <1>3, <1>4, <1>6, <1>7, <1>8, <1>9, TypeParts
--------------------------------------------------------------------------
(* Theorems.                                                               *)

LEMMA StepInv == IInv /\ [Next]_vars => IInv'
  <1> SUFFICES ASSUME IInv, [Next]_vars PROVE IInv'
    OBVIOUS
  <1>0. TypeOK
    BY DEF IInv
  <1>1. CASE UNCHANGED vars
    <2>1. UNCHANGED <<enqueued, todo, StoredVars>>
      BY <1>1 DEF vars, poller, tasks, history, StoredVars
    <2>2. TypeOK'
      BY <1>0, <1>1, TypeParts, TypeFrame DEF vars, alerts, poller, tasks, history
    <2> QED
      BY <2>1, <2>2, StillKeeps
  <1>2. CASE WriteAlert \/ (\E a \in Alerts : AgeOut(a)) \/ (\E k \in Keys : CooldownElapses(k))
             \/ Stop \/ RunEnds \/ PollRaises \/ (\E f \in files : Replay(f))
    BY <1>0, <1>2, StillSteps, StillKeeps
  <1>3. CASE Poll \/ (\E p \in Pairs : Skip(p))
    BY <1>0, <1>3, PollSteps, StillKeeps
  <1>4. ASSUME NEW p \in Pairs, Acquire(p) \/ Resume(p) \/ PersistRaises(p) \/ Cancel(p) \/ Persist(p)
               \/ (\E net \in Calls : Respond(p, net))
        PROVE  IInv'
    BY <1>4, CallSteps, CutSteps, PersistSteps, RespondSteps, TaskKeeps
  <1>5. CASE Drain \/ Restart \/ (\E p \in Pairs : Offer(p))
    BY <1>5, DrainKeeps, RestartKeeps, OfferKeeps
  <1> QED
    BY <1>1, <1>2, <1>3, <1>4, <1>5 DEF Next, EnqueueRow, RunOne

LEMMA Inductive == Spec => []IInv
  BY InitInv, StepInv, PTL DEF Spec

\* Every variable of the worker keeps its type.
THEOREM TypeCorrect == Spec => []TypeOK
  BY Inductive, PTL DEF IInv

\* _enqueued keeps a pair from being in the worker's hands twice, whatever the
\* polls read and wherever the queue overflows.
THEOREM PairsFireOnce == Spec => []NoDoubleFire
  <1>1. IInv => NoDoubleFire
    BY DEF IInv, NoDoubleFire, QueueDistinct, Marked, Active
  <1> QED
    BY <1>1, Inductive, PTL

\* _run_one calls its backend at most max_retries + 1 times, and leaves a row
\* of soar_deliveries for each call unless the insert raised.
THEOREM AttemptsAreRecorded == Spec => []EveryAttemptRecorded
  <1>1. IInv => EveryAttemptRecorded
    <2> SUFFICES ASSUME IInv, NEW p \in Pairs
                 PROVE  /\ posts[p] <= MaxRetries(p[2]) + 1
                        /\ pc[p] \in {"wait", "ended"} /\ p \notin lost => saved[p] = posts[p]
      BY DEF EveryAttemptRecorded
    <2>1. TaskCounts(p) /\ MaxRetries(p[2]) \in Nat
      BY PairParts DEF IInv
    <2>2. /\ pc[p] \in {"idle", "sem", "sending", "saving", "wait", "ended"}
          /\ posts[p] \in Nat /\ attempt[p] \in Nat
      BY DEF IInv, TypeOK
    <2> QED
      BY <2>1, <2>2 DEF TaskCounts
  <1> QED
    BY <1>1, Inductive, PTL

\* Every queued pair is worked on, delivered, dead-lettered, refused by its
\* backend, or one of the losses the code accepts.
THEOREM PairsAreAccounted == Spec => []Accounted
  BY Inductive, PTL DEF IInv

\* A success, a refusal or an invalid configuration is final: _run_one calls
\* the backend again only after a transient failure.
THEOREM VerdictsAreFinal == Spec => NoPostAfterVerdict
  <1> DEFINE Final == \A p \in Pairs : posts'[p] > posts[p] =>
                        ~Succeeded(outcome[p]) /\ ~outcome[p].dead_lettered
  <1>1. ~Succeeded(NoResult) /\ ~NoResult.dead_lettered
    BY DEF NoResult, Result, Succeeded
  <1>2. IInv /\ [Next]_vars => [Final]_vars
    <2> SUFFICES ASSUME IInv, [Next]_vars, NEW p \in Pairs, posts'[p] > posts[p]
                 PROVE  ~Succeeded(outcome[p]) /\ ~outcome[p].dead_lettered
      OBVIOUS
    <2>0. TypeOK /\ posts \in [Pairs -> Nat] /\ TaskVerdict(p)
      BY DEF IInv, TypeOK
    <2>1. ASSUME posts' = posts PROVE FALSE
      BY <2>0, <2>1
    <2>2. ~UNCHANGED vars
      BY <2>1 DEF vars, history
    <2>3. ASSUME WriteAlert \/ (\E a \in Alerts : AgeOut(a)) \/ (\E k \in Keys : CooldownElapses(k))
                 \/ Stop \/ RunEnds \/ PollRaises \/ (\E f \in files : Replay(f))
                 \/ Poll \/ (\E q \in Pairs : Skip(q)) \/ Drain \/ (\E q \in Pairs : Offer(q))
          PROVE  FALSE
      BY <2>1, <2>3 DEF WriteAlert, AgeOut, CooldownElapses, Stop, RunEnds, PollRaises, Replay, Poll,
                        Skip, Drain, Offer, history
    <2>4. ASSUME NEW q \in Pairs, PersistRaises(q) \/ Cancel(q) \/ Persist(q)
                                  \/ (\E net \in Calls : Respond(q, net))
          PROVE  FALSE
      BY <2>1, <2>4 DEF PersistRaises, Cancel, Persist, Respond, history
    <2>5. ASSUME Restart PROVE FALSE
      BY <2>0, <2>5 DEF Restart
    <2>6. PICK q \in Pairs : Acquire(q) \/ Resume(q)
      BY <2>2, <2>3, <2>4, <2>5 DEF Next, EnqueueRow, RunOne
    <2>7. q = p /\ pc[p] \in {"sem", "wait"}
      BY <2>0, <2>6 DEF Acquire, Resume, Deliver
    <2> QED
      BY <1>1, <2>0, <2>7 DEF TaskVerdict
  <1> QED
    BY <1>2, Inductive, PTL DEF Spec, NoPostAfterVerdict
=============================================================================
