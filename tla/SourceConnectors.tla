-------------------------- MODULE SourceConnectors --------------------------
(***************************************************************************)
(* The connector API (api/v1/sources.py) over the table source_connectors. *)
(* A handler reads the row, awaits, and writes it at its commit; after the *)
(* commit it reads the row again (session.refresh) to build its answer, so *)
(* handlers of the same connector interleave at every await.               *)
(*                                                                         *)
(* A key is named by the handler that generated it.  The ORM updates only  *)
(* the columns a handler assigned, with the values computed from the row   *)
(* it had loaded; an UPDATE that matches no row raises StaleDataError, a   *)
(* DELETE that matches none only warns.                                    *)
(***************************************************************************)
EXTENDS Naturals, Sequences

CONSTANTS
  Handlers,     \* requests to the API
  Connectors,   \* ids that uuid4 may return
  Platforms,    \* subset of SUPPORTED_PLATFORMS in use
  MaxFaults     \* bound: failed statements and restarts

SUPPORTED_PLATFORMS == {"cloudflare", "aws", "webhook", "syslog"}

ASSUME ConnectorsAssumption ==
  /\ Connectors # {}
  /\ Platforms \subseteq SUPPORTED_PLATFORMS
  /\ MaxFaults \in Nat

Absent == [platform |-> "none"]

VARIABLES
  rows,    \* source_connectors
  born,    \* ids ever inserted
  pc,      \* where each handler stands
  op,      \* what it was asked for
  target,  \* the connector it works on
  loaded,  \* the row as it read it last
  keys,    \* history: the keys committed for each connector, in order
  told,    \* history: answers [by, id, key] that show a key
  audit,   \* entries [action, id]
  peak,    \* history: largest events_received of each connector
  faults

vars == <<rows, born, pc, op, target, loaded, keys, told, audit, peak, faults>>

Row == [platform : SUPPORTED_PLATFORMS, key : Handlers, events : Nat]

TypeOK ==
  /\ rows \in [Connectors -> Row \cup {Absent}]
  /\ born \subseteq Connectors
  /\ pc \in [Handlers -> {"idle", "loaded", "refresh", "answer", "deleted", "calling",
                          "rebump", "answered", "refused", "failed", "lost"}]
  /\ op \in [Handlers -> {"none", "create", "rotate", "test", "delete"}]
  /\ target \in [Handlers -> Connectors]
  /\ loaded \in [Handlers -> Row \cup {Absent}]
  /\ keys \in [Connectors -> Seq(Handlers)]
  /\ told \subseteq [by : Handlers, id : Connectors, key : Handlers]
  /\ audit \subseteq [action : {"create_source", "delete_source"}, id : Connectors]
  /\ peak \in [Connectors -> Nat]
  /\ faults \in 0..MaxFaults

Init ==
  /\ rows = [c \in Connectors |-> Absent]
  /\ born = {}
  /\ pc = [h \in Handlers |-> "idle"]
  /\ op = [h \in Handlers |-> "none"]
  /\ target = [h \in Handlers |-> CHOOSE c \in Connectors : TRUE]
  /\ loaded = [h \in Handlers |-> Absent]
  /\ keys = [c \in Connectors |-> <<>>]
  /\ told = {} /\ audit = {}
  /\ peak = [c \in Connectors |-> 0]
  /\ faults = 0

Entry(action, c) == [action |-> action, id |-> c]

Exists(c) == rows[c] # Absent
Goto(h, l) == pc' = [pc EXCEPT ![h] = l]
Fault == faults < MaxFaults /\ faults' = faults + 1

Larger(m, n) == IF m > n THEN m ELSE n
--------------------------------------------------------------------------
(* Requests.                                                               *)

\* The fields each create endpoint validates.
Checked(p) ==
  CASE p = "cloudflare" -> {"zone_id", "datasets"}
    [] p = "aws" -> {"role_arn", "log_group"}
    [] p = "webhook" -> {"format"}
    [] p = "syslog" -> {"host", "protocol", "facility"}

\* One malformed field is enough for a 400; nothing has been written.
RefuseCreate(h) ==
  /\ pc[h] = "idle"
  /\ \E p \in Platforms : \E malformed \in SUBSET Checked(p) : malformed # {}
  /\ op' = [op EXCEPT ![h] = "create"]
  /\ Goto(h, "refused")
  /\ UNCHANGED <<rows, born, target, loaded, keys, told, audit, peak, faults>>

\* Key, row, commit; nothing was read before it.
InsertRow(h, p) ==
  /\ pc[h] = "idle"
  /\ p \in Platforms
  /\ \E c \in Connectors \ born :
       /\ rows' = [rows EXCEPT ![c] = [platform |-> p, key |-> h, events |-> 0]]
       /\ born' = born \cup {c}
       /\ target' = [target EXCEPT ![h] = c]
       /\ keys' = [keys EXCEPT ![c] = <<h>>]
  /\ op' = [op EXCEPT ![h] = "create"]
  /\ Goto(h, "refresh")
  /\ UNCHANGED <<loaded, told, audit, peak, faults>>

\* The endpoints up to their commits; Refresh and Finish are the rest of each.
CreateCloudflare(h) == InsertRow(h, "cloudflare")
CreateAws(h)        == InsertRow(h, "aws")
CreateWebhook(h)    == InsertRow(h, "webhook")
CreateSyslog(h)     == InsertRow(h, "syslog")

Create(h) == CreateCloudflare(h) \/ CreateAws(h) \/ CreateWebhook(h) \/ CreateSyslog(h)

\* The other endpoints begin with _get_connector: 404, or the row.  The test
\* of a syslog connector answers from the row it has read.  (The test's 400
\* answers for a stored configuration that no longer validates are out of
\* reach: only Create writes it.)
Load(h) ==
  /\ pc[h] = "idle"
  /\ \E o \in {"rotate", "test", "delete"}, c \in born :
       /\ op' = [op EXCEPT ![h] = o]
       /\ target' = [target EXCEPT ![h] = c]
       /\ loaded' = [loaded EXCEPT ![h] = rows[c]]
       /\ Goto(h, CASE ~Exists(c) -> "refused"
                    [] Exists(c) /\ o = "test" /\ rows[c].platform = "syslog" -> "answered"
                    [] OTHER -> "loaded")
  /\ UNCHANGED <<rows, born, keys, told, audit, peak, faults>>
--------------------------------------------------------------------------
(* Commits.  Each takes where the handler goes when the commit returns.    *)

\* UPDATE of no row: StaleDataError, a 500.
Stale(h) ==
  /\ pc[h] = "loaded"
  /\ op[h] \in {"rotate", "test"}
  /\ ~Exists(target[h])
  /\ Goto(h, "failed")
  /\ UNCHANGED <<rows, born, op, target, loaded, keys, told, audit, peak, faults>>

\* Mutant of RotateCommit: the row is merged, not updated.
RotateCommitMerges(h, next) ==
  LET c == target[h] IN
  /\ pc[h] = "loaded" /\ op[h] = "rotate"
  /\ rows' = [rows EXCEPT ![c] = [loaded[h] EXCEPT !.key = h]]
  /\ keys' = [keys EXCEPT ![c] = Append(@, h)]
  /\ Goto(h, next)
  /\ UNCHANGED <<born, op, target, loaded, told, audit, peak>>

RotateCommit(h, next) ==
  LET c == target[h] IN
  /\ pc[h] = "loaded" /\ op[h] = "rotate" /\ Exists(c)
  /\ rows' = [rows EXCEPT ![c].key = h]
  /\ keys' = [keys EXCEPT ![c] = Append(@, h)]
  /\ Goto(h, next)
  /\ UNCHANGED <<born, op, target, loaded, told, audit, peak>>

\* events_received += 1 on the loaded row.
TestCommit(h, next) ==
  LET c == target[h]
      n == loaded[h].events + 1 IN
  /\ pc[h] = "loaded" /\ op[h] = "test" /\ Exists(c)
  /\ rows' = [rows EXCEPT ![c].events = n]
  /\ peak' = [peak EXCEPT ![c] = Larger(@, n)]
  /\ Goto(h, next)
  /\ UNCHANGED <<born, op, target, loaded, keys, told, audit>>

DeleteCommit(h, next) ==
  /\ pc[h] = "loaded" /\ op[h] = "delete"
  /\ rows' = [rows EXCEPT ![target[h]] = Absent]
  /\ Goto(h, next)
  /\ UNCHANGED <<born, op, target, loaded, keys, told, audit, peak>>

Rotate(h) == RotateCommit(h, "refresh") /\ UNCHANGED faults

Test(h) ==
  /\ TestCommit(h, IF loaded[h].platform = "webhook" THEN "calling" ELSE "answered")
  /\ UNCHANGED faults

Delete(h) == DeleteCommit(h, "deleted") /\ UNCHANGED faults

\* The handler goes on after its commit: audit entry and answer.
DeleteEnds(h) ==
  /\ pc[h] = "deleted"
  /\ audit' = audit \cup {Entry("delete_source", target[h])}
  /\ Goto(h, "answered")
  /\ UNCHANGED <<rows, born, op, target, loaded, keys, told, peak, faults>>

\* Mutant of CommitRaises: delete_connector records its entry first.
CommitRaisesAudited(h) ==
  /\ Fault
  /\ pc[h] = "loaded" /\ op[h] = "delete"
  /\ audit' = audit \cup {Entry("delete_source", target[h])}
  /\ Goto(h, "failed")
  /\ UNCHANGED <<rows, born, op, target, loaded, keys, told, peak>>

\* The commit raises; the database may have carried it out all the same.
CommitRaises(h) ==
  /\ Fault
  /\ \/ pc[h] = "loaded" /\ Goto(h, "failed")
        /\ UNCHANGED <<rows, born, op, target, loaded, keys, told, audit, peak>>
     \/ RotateCommit(h, "failed")
     \/ TestCommit(h, "failed")
     \/ DeleteCommit(h, "failed")
--------------------------------------------------------------------------
(* After the commit.                                                       *)

\* Mutant of Reread: refresh keeps the attributes the session has.
RereadNothing(h) ==
  IF op[h] = "create" THEN rows[target[h]] ELSE loaded[h]

\* What the SELECT of session.refresh returns.
Reread(h) == rows[target[h]]

\* refresh: the handler goes on later, with what was read.
Refresh(h) ==
  /\ pc[h] = "refresh"
  /\ Exists(target[h])
  /\ loaded' = [loaded EXCEPT ![h] = Reread(h)]
  /\ Goto(h, "answer")
  /\ UNCHANGED <<rows, born, op, target, keys, told, audit, peak, faults>>

\* _ingest_url_for reads a name, c, that it does not have when the platform is
\* syslog: NameError.
IngestUrlRaises(h) == loaded[h].platform = "syslog"

\* The key in the answer is the one refresh has read.
Shown(h) == loaded[h].key

\* Ingest URL, answer and, for a create, the audit entry.
Finish(h) ==
  /\ pc[h] = "answer"
  /\ ~IngestUrlRaises(h)
  /\ told' = told \cup {[by |-> h, id |-> target[h], key |-> Shown(h)]}
  /\ audit' = IF op[h] = "create" THEN audit \cup {Entry("create_source", target[h])} ELSE audit
  /\ Goto(h, "answered")
  /\ UNCHANGED <<rows, born, op, target, loaded, keys, peak, faults>>

\* refresh finds no row, or the ingest URL raises: a 500 after the commit.
FinishRaises(h) ==
  /\ \/ pc[h] = "refresh" /\ ~Exists(target[h])
     \/ pc[h] = "answer" /\ IngestUrlRaises(h)
  /\ Goto(h, "failed")
  /\ UNCHANGED <<rows, born, op, target, loaded, keys, told, audit, peak, faults>>

\* The webhook test calls the ingest endpoint; an HTTP answer ends the test, a
\* transport error makes it count once more.
SelfCall(h) ==
  /\ pc[h] = "calling"
  /\ \E outcome \in {"answered", "rebump"} : Goto(h, outcome)
  /\ UNCHANGED <<rows, born, op, target, loaded, keys, told, audit, peak, faults>>

\* UPDATE ... SET events_received = events_received + 1: the rollback before
\* it undoes nothing, and a row that is gone is not missed.
Rebump(h) ==
  LET c == target[h] IN
  /\ pc[h] = "rebump"
  /\ IF Exists(c)
       THEN /\ rows' = [rows EXCEPT ![c].events = @ + 1]
            /\ peak' = [peak EXCEPT ![c] = Larger(@, rows[c].events + 1)]
       ELSE UNCHANGED <<rows, peak>>
  /\ Goto(h, "answered")
  /\ UNCHANGED <<born, op, target, loaded, keys, told, audit, faults>>

AwaitRaises(h) ==
  /\ Fault
  /\ pc[h] \in {"refresh", "rebump"}
  /\ Goto(h, "failed")
  /\ UNCHANGED <<rows, born, op, target, loaded, keys, told, audit, peak>>

InFlight(h) == pc[h] \in {"loaded", "refresh", "answer", "deleted", "calling", "rebump"}

Restart ==
  /\ Fault
  /\ \E h \in Handlers : InFlight(h)
  /\ pc' = [h \in Handlers |-> IF InFlight(h) THEN "lost" ELSE pc[h]]
  /\ UNCHANGED <<rows, born, op, target, loaded, keys, told, audit, peak>>

Next ==
  \/ Restart
  \/ \E h \in Handlers :
       \/ RefuseCreate(h) \/ Create(h) \/ Load(h)
       \/ Stale(h) \/ Rotate(h) \/ Test(h) \/ Delete(h) \/ DeleteEnds(h) \/ CommitRaises(h)
       \/ Refresh(h) \/ Finish(h) \/ FinishRaises(h) \/ SelfCall(h) \/ Rebump(h) \/ AwaitRaises(h)

Spec == Init /\ [][Next]_vars
--------------------------------------------------------------------------
(* Properties.                                                             *)

Cut(h) == pc[h] \in {"failed", "lost"}
Unlogged(h) == Cut(h) \/ pc[h] = "deleted"

\* "so an operator can reconstruct who registered which upstream": a connector
\* that is named as deleted is gone, one that is gone is named as deleted, and
\* one that is there is named as created, except where the handler that did it
\* was cut short or has yet to go on.
AuditTellsAll ==
  \A c \in born :
    /\ Entry("delete_source", c) \in audit => ~Exists(c)
    /\ ~Exists(c) => \/ Entry("delete_source", c) \in audit
                     \/ \E h \in Handlers : op[h] = "delete" /\ target[h] = c /\ Unlogged(h)
    /\ Exists(c) => \/ Entry("create_source", c) \in audit
                    \/ LET h == keys[c][1] IN Cut(h) \/ InFlight(h)

\* "the old one stops working the moment the row is committed": the key that
\* an answer shows is the answering handler's own or one committed after it,
\* never one that its own commit has replaced, however rotations of the same
\* connector overlap; so once the last rotation has answered, the operator
\* has the key that is in the row.
ToldKeyIsCurrent ==
  /\ \A t \in told : \E i, j \in DOMAIN keys[t.id] :
       i <= j /\ keys[t.id][i] = t.by /\ keys[t.id][j] = t.key
  /\ \A c \in born : Exists(c) /\ pc[rows[c].key] = "answered" =>
       \E t \in told : t.id = c /\ t.key = rows[c].key

\* Handlers that are about to answer with the row of c.
HasReread(c) == {h \in Handlers : pc[h] = "answer" /\ target[h] = c}

\* "there is no soft-delete": a row that is gone does not come back and gets no
\* key, no handler reads it any more, and the only answers that still show a key
\* of it are those of handlers whose refresh was before the DELETE.
DeletedStaysDeleted ==
  [][\A c \in born : ~Exists(c) =>
       /\ rows'[c] = Absent /\ keys'[c] = keys[c]
       /\ HasReread(c)' \subseteq HasReread(c)
       /\ \A t \in told' \ told : t.id = c => t.by \in HasReread(c)]_vars
--------------------------------------------------------------------------
(* What the documentation says and TLC refutes.                            *)

\* "monotonically increasing counter" (models/source.py).  Each test writes
\* the number it had read plus one, over what others wrote in between.
CounterNeverFalls == \A c \in born : Exists(c) => rows[c].events = peak[c]

\* "Returns the fresh secret exactly once (same contract as create)"
\* (rotate_key).  For syslog the key is committed and the answer is a 500.
RotationTold ==
  \A h \in Handlers : pc[h] = "failed" /\ faults = 0 => rows[target[h]] = Absent
=============================================================================
