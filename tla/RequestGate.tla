---------------------------- MODULE RequestGate ----------------------------
(***************************************************************************)
(* What every HTTP request of one server process passes: the rate limiter  *)
(* (rate_limit.py), then the handler, which for an API call ends in an     *)
(* audit entry (AuditLog) and for a CSP report in the per-address throttle *)
(* (self_defense/csp_violation_reporter.py) and the bounded in-process     *)
(* stream (self_defense/__init__.py).                                      *)
(*                                                                         *)
(* Each of them takes its time and works under its lock without awaiting,  *)
(* so it is one step; time passes and other requests are served between a  *)
(* request's admission and its handler.  Times are in ticks, TicksPerSec   *)
(* of them in a second.                                                    *)
(***************************************************************************)
EXTENDS AuditLog, FiniteSets

CONSTANTS
  Clients,       \* buckets: API keys or addresses
  Limit,         \* rate_limit_per_min
  Window,        \* WINDOW_SEC, in ticks
  PruneEvery,    \* PRUNE_EVERY
  CspBudget,     \* _THROTTLE_BUDGET
  CspWindow,     \* _THROTTLE_WINDOW_SEC, in ticks
  StreamMax,     \* maxlen of the stream
  TicksPerSec,
  MaxRequests,   \* bound: requests
  MaxTime,       \* bound: ticks
  MaxFaults      \* bound: failing file operations, restarts

ASSUME GateAssumption ==
  /\ {Limit, Window, PruneEvery, CspBudget, CspWindow, StreamMax, TicksPerSec}
       \subseteq Nat \ {0}
  /\ {MaxRequests, MaxTime, MaxFaults} \subseteq Nat

VARIABLES
  now,
  hits,      \* _buckets: the hits of each client; no bucket is <<>>
  sincePrune,
  waiting,   \* admitted requests whose handler has not run: [kind, client] -> number
  recent,    \* _recent: accepted reports of each client
  stream,    \* _STREAM
  arrived, faults,
  accepted,  \* history: times of the requests admitted, per client
  denied,    \* history: [client, at, retry, hits] of the 429 answers
  reports    \* history: times of the reports emitted, per client

gateVars == <<now, hits, sincePrune, waiting, recent, stream, arrived, faults,
              accepted, denied, reports>>
vars == <<gateVars, auditVars>>

Times == 0..MaxTime
Kinds == {"api", "csp"}

TypeOK ==
  /\ AuditTypeOK
  /\ now \in Times
  /\ {hits, recent, accepted, reports} \subseteq [Clients -> Seq(Times)]
  /\ sincePrune \in 0..PruneEvery - 1
  /\ waiting \in [Kinds \X Clients -> Nat]
  /\ stream \in Seq(Clients \X Times)
  /\ denied \subseteq [client : Clients, at : Times, retry : Nat, hits : Seq(Times)]
  /\ arrived \in 0..MaxRequests /\ faults \in 0..MaxFaults

Init ==
  /\ AuditInit
  /\ now = 0 /\ sincePrune = 0 /\ arrived = 0 /\ faults = 0
  /\ hits = [c \in Clients |-> <<>>]
  /\ recent = [c \in Clients |-> <<>>]
  /\ accepted = [c \in Clients |-> <<>>]
  /\ reports = [c \in Clients |-> <<>>]
  /\ waiting = [q \in Kinds \X Clients |-> 0]
  /\ stream = <<>> /\ denied = {}

Tick ==
  /\ now < MaxTime
  /\ now' = now + 1
  /\ UNCHANGED <<hits, sincePrune, waiting, recent, stream, arrived, faults, accepted,
                 denied, reports, auditVars>>

NextDay == Midnight /\ UNCHANGED gateVars
--------------------------------------------------------------------------
(* The rate limiter.                                                       *)

\* A sequence without its first k elements.
Drop(ts, k) == SubSeq(ts, k + 1, Len(ts))

\* Mutant of Alive: a hit exactly a window old is dropped.
AliveOpen(ts, w) ==
  Drop(ts, CHOOSE k \in 0..Len(ts) :
             /\ \A i \in 1..k : ts[i] + w <= now
             /\ k = Len(ts) \/ ts[k + 1] + w > now)

\* Hits are dropped from the front while they are older than the window; one
\* exactly a window old is not.
Alive(ts, w) ==
  Drop(ts, CHOOSE k \in 0..Len(ts) :
             /\ \A i \in 1..k : ts[i] + w < now
             /\ k = Len(ts) \/ ts[k + 1] + w >= now)

\* _prune drops old hits of every bucket, and buckets left empty.
Pruned(bs) == [c \in Clients |-> Alive(bs[c], Window)]

\* Mutant of Ceil: rounded down.
Floor(ticks) == ticks \div TicksPerSec

\* Retry-After: int(seconds + 0.999), which rounds up what is not less than a
\* millisecond above a whole second; at least one.
Ceil(ticks) == (1000 * ticks + 999 * TicksPerSec) \div (1000 * TicksPerSec)
RetrySeconds(hs) ==
  LET left == hs[1] + Window - now IN IF Ceil(left) < 1 THEN 1 ELSE Ceil(left)

\* dispatch counts every request, denied ones too, towards the next pruning.
PruneStep(bs) ==
  IF sincePrune + 1 >= PruneEvery
  THEN hits' = Pruned(bs) /\ sincePrune' = 0
  ELSE hits' = bs /\ sincePrune' = sincePrune + 1

Admit(kind, c) ==
  LET hs == Alive(hits[c], Window) IN
  /\ arrived < MaxRequests
  /\ arrived' = arrived + 1
  /\ Len(hs) < Limit
  /\ PruneStep([hits EXCEPT ![c] = Append(hs, now)])
  /\ accepted' = [accepted EXCEPT ![c] = Append(@, now)]
  /\ waiting' = [waiting EXCEPT ![<<kind, c>>] = @ + 1]
  /\ UNCHANGED <<now, recent, stream, faults, denied, reports, auditVars>>

Deny(c) ==
  LET hs == Alive(hits[c], Window) IN
  /\ arrived < MaxRequests
  /\ arrived' = arrived + 1
  /\ Len(hs) >= Limit
  /\ PruneStep([hits EXCEPT ![c] = hs])
  /\ denied' = denied \cup {[client |-> c, at |-> now, retry |-> RetrySeconds(hs), hits |-> hs]}
  /\ UNCHANGED <<now, waiting, recent, stream, faults, accepted, reports, auditVars>>
--------------------------------------------------------------------------
(* The handlers.                                                           *)

Leaves(kind, c) ==
  /\ waiting[<<kind, c>>] > 0
  /\ waiting' = [waiting EXCEPT ![<<kind, c>>] = @ - 1]

\* An API call that is audited.
ApiCall(c) ==
  /\ Leaves("api", c)
  /\ Record(TRUE, TRUE, TRUE)
  /\ UNCHANGED <<now, hits, sincePrune, recent, stream, arrived, faults, accepted, denied,
                 reports>>

\* The same while closing, opening or flushing the file fails.
ApiCallFileFails(c) ==
  /\ faults < MaxFaults
  /\ faults' = faults + 1
  /\ Leaves("api", c)
  /\ \E closes, opens, flushes \in BOOLEAN :
       ~(closes /\ opens /\ flushes) /\ Record(closes, opens, flushes)
  /\ UNCHANGED <<now, hits, sincePrune, recent, stream, arrived, accepted, denied, reports>>

\* _evict_stale: an address whose last report is older than the window.
Evicted ==
  [c \in Clients |->
     IF recent[c] # <<>> /\ recent[c][Len(recent[c])] + CspWindow < now THEN <<>> ELSE recent[c]]

\* Mutant of Throttled: the budget is compared before the new report counts.
ThrottledLate(rs) == Len(rs) > CspBudget

Throttled(rs) == Len(rs) >= CspBudget

\* emit: the stream drops its oldest event when it is full.
Emit(c) == stream' = Last(Append(stream, <<c, now>>), StreamMax)

\* receive_csp_report: the throttle, then the event.  (Reports that are
\* chunked, too long or have no proper length end before it.)
CspReport(c) ==
  LET rs == Alive(Evicted[c], CspWindow) IN
  /\ Leaves("csp", c)
  /\ IF Throttled(rs)
       THEN /\ recent' = [Evicted EXCEPT ![c] = rs]
            /\ UNCHANGED <<stream, reports>>
       ELSE /\ recent' = [Evicted EXCEPT ![c] = Append(rs, now)]
            /\ Emit(c)
            /\ reports' = [reports EXCEPT ![c] = Append(@, now)]
  /\ UNCHANGED <<now, hits, sincePrune, arrived, faults, accepted, denied, auditVars>>

\* A restart forgets buckets, throttle and stream; the histories that bound a
\* process's budget begin anew.
Restart ==
  /\ faults < MaxFaults
  /\ faults' = faults + 1
  /\ AuditRestart
  /\ hits' = [c \in Clients |-> <<>>] /\ recent' = [c \in Clients |-> <<>>]
  /\ accepted' = [c \in Clients |-> <<>>] /\ reports' = [c \in Clients |-> <<>>]
  /\ waiting' = [q \in Kinds \X Clients |-> 0]
  /\ stream' = <<>> /\ denied' = {} /\ sincePrune' = 0
  /\ UNCHANGED <<now, arrived>>

Next ==
  \/ Tick \/ NextDay \/ Restart
  \/ \E c \in Clients :
       \/ \E kind \in Kinds : Admit(kind, c)
       \/ Deny(c) \/ ApiCall(c) \/ ApiCallFileFails(c) \/ CspReport(c)

Spec == Init /\ [][Next]_vars
--------------------------------------------------------------------------
(* Properties.                                                             *)

Within(ts, from, to) == Cardinality({i \in DOMAIN ts : ts[i] >= from /\ ts[i] <= to})

\* The limits hold in every window of time, wherever it begins and both ends
\* included: a client has no more requests admitted than the limit, whatever
\* was pruned in between, and an address no more reports put into the stream
\* than its budget ("the per-IP budget cannot be exceeded"), however long they
\* waited behind other requests.
BudgetHolds ==
  \A c \in Clients :
    /\ \A i \in DOMAIN accepted[c] :
         Within(accepted[c], accepted[c][i], accepted[c][i] + Window) <= Limit
    /\ \A i \in DOMAIN reports[c] :
         Within(reports[c], reports[c][i], reports[c][i] + CspWindow) <= CspBudget

\* A request is denied only when the client has had its limit within the window
\* just past, and the answer's Retry-After ends neither a millisecond before the
\* oldest of these hits is a window old nor a whole second after.
DeniedIsOverBudget ==
  \A d \in denied :
    /\ Within(accepted[d.client], IF d.at > Window THEN d.at - Window ELSE 0, d.at) >= Limit
    /\ 1000 * (d.at + d.retry * TicksPerSec) + TicksPerSec > 1000 * (d.hits[1] + Window)
    /\ d.retry = 1 \/ d.at + (d.retry - 1) * TicksPerSec < d.hits[1] + Window

--------------------------------------------------------------------------
(* What the comments say and TLC refutes.                                  *)

\* "Round up so the client doesn't hammer us before the window actually
\* slides" (dispatch).  When the oldest hit is exactly a window old at the
\* time advised it still counts, and the client is denied once more.
AdviceSuffices ==
  \A d \in denied : d.hits[1] + Window < d.at + d.retry * TicksPerSec
=============================================================================
