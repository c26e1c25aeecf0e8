---------------------------- MODULE BatchIngest ----------------------------
(***************************************************************************)
(* The two HTTP ingest endpoints: the generic webhook                      *)
(* (api/v1/ingest_webhook.py) and the Cloudflare Logpush receiver          *)
(* (api/v1/ingest_cloudflare.py).  A request carries a batch; its records  *)
(* are inserted in one transaction that begins with an upsert of the       *)
(* endpoint's synthetic host, then the rows are read back and published to *)
(* the stream one by one, then an audit entry is written and the batch is  *)
(* answered.                                                               *)
(*                                                                         *)
(* The upsert holds the lock of the host row until the transaction ends.   *)
(* received_at defaults to now(), which in PostgreSQL is the time at which *)
(* the transaction began.                                                  *)
(***************************************************************************)
EXTENDS Naturals, Sequences, FiniteSets

CONSTANTS
  Requests,       \* batches that upstreams push
  KindOf,         \* the endpoint each is pushed to
  Bodies,         \* request bodies: [shape, items]
  Vendors,        \* values of ?vendor= or X-Event-Source that upstreams use
  MaxPushFaults   \* bound: faults, restarts, repeated pushes

Kinds  == {"webhook", "cloudflare"}
\* A good item is a record the endpoint stores, a bad one is a record it
\* rejects, a hollow one is a blank line or an item that is no mapping.
Items  == {"good", "bad", "hollow"}
Shapes == {"ndjson", "events", "record", "splunk", "elastic", "sumo", "malformed"}

NoRequest == "none"

IngestConstants ==
  /\ KindOf \in [Requests -> Kinds]
  /\ Bodies \subseteq [shape : Shapes, items : Seq(Items)]
  /\ MaxPushFaults \in Nat
  /\ NoRequest \notin Requests

ASSUME IngestAssumption == IngestConstants

VARIABLES
  pc,        \* where the handler of each request stands
  records,   \* the records translated from its body, by the number of their item
  items,     \* what the upstream sent
  tries,     \* how often the request was pushed
  began,     \* time at which its transaction began
  lock,      \* holder of the row lock of each synthetic host
  clock,
  rows,      \* events table: [req, try, n, at]
  todo,      \* rows the handler has read back and not yet published
  published, \* history: <<request, try, row>> added to the stream
  missed,    \* history: the same, for publications that failed
  audit,     \* entries [req, try, accepted, rejected]
  pushFaults

pushVars == <<pc, records, items, tries, began, lock, clock, rows, todo,
          published, missed, audit, pushFaults>>

Row == [req : Requests, try : Nat, n : Nat, at : Nat]
Publication == Requests \X Nat \X Row

PushTypeOK ==
  /\ pc \in [Requests -> {"new", "begun", "locked", "query", "publish", "answer",
                          "answered", "refused", "failed", "lost"}]
  /\ DOMAIN records = Requests
  /\ \A r \in Requests : /\ DOMAIN records[r] \subseteq Nat \ {0}
                         /\ records[r] \in [DOMAIN records[r] -> {"good", "bad"}]
  /\ items \in [Requests -> Seq(Items)]
  /\ tries \in [Requests -> Nat]
  /\ began \in [Requests -> Nat]
  /\ lock \in [Kinds -> Requests \cup {NoRequest}]
  /\ clock \in Nat
  /\ rows \subseteq Row
  /\ todo \in [Requests -> SUBSET Row]
  /\ published \subseteq Publication
  /\ missed \subseteq Publication
  /\ audit \subseteq [req : Requests, try : Nat, accepted : Nat, rejected : Nat]
  /\ pushFaults \in Nat

PushInit ==
  /\ pc = [r \in Requests |-> "new"]
  /\ records = [r \in Requests |-> <<>>]
  /\ items = [r \in Requests |-> <<>>]
  /\ tries = [r \in Requests |-> 0]
  /\ began = [r \in Requests |-> 0]
  /\ lock = [k \in Kinds |-> NoRequest]
  /\ clock = 0
  /\ rows = {} /\ published = {} /\ missed = {} /\ audit = {}
  /\ todo = [r \in Requests |-> {}]
  /\ pushFaults = 0

PushFault == pushFaults < MaxPushFaults /\ pushFaults' = pushFaults + 1
--------------------------------------------------------------------------
(* From a body to records.                                                 *)

\* What is hollow is left out; a record keeps the number of its item.
Mappings(is) == [i \in {j \in DOMAIN is : is[j] # "hollow"} |-> is[i]]

\* events[*], or the body itself as one record.  A vendor's envelope has none
\* of the recognised fields at its top level, so nothing of it is left.
TranslateGeneric(b) ==
  CASE b.shape = "events" -> Mappings(b.items)
    [] b.shape = "record" -> Mappings(b.items)
    [] OTHER -> <<"bad">>

TranslateSplunk(b)  == IF b.shape = "splunk" THEN Mappings(b.items) ELSE <<>>
TranslateElastic(b) == IF b.shape = "elastic" THEN Mappings(b.items) ELSE <<>>

\* A message without structure still becomes a record, without a src_ip.
TranslateSumo(b)    == IF b.shape = "sumo" THEN Mappings(b.items) ELSE <<>>

\* The name in the request chooses the translator; an unknown name is generic.
Translate(v, b) ==
  CASE v = "splunk_hec" -> TranslateSplunk(b)
    [] v = "elastic_webhook" -> TranslateElastic(b)
    [] v = "sumo_logic" -> TranslateSumo(b)
    [] OTHER -> TranslateGeneric(b)

\* NDJSON: blank lines are skipped; overlong lines, lines that do not parse
\* and lines that are no mapping are rejected.
Lines(b) == Mappings(b.items)

IsGood(x) == x = "good"
GoodOnes(r) == {i \in DOMAIN records[r] : IsGood(records[r][i])}
Accepted(r) == Cardinality(GoodOnes(r))
Rejected(r) == Cardinality(DOMAIN records[r] \ GoodOnes(r))
--------------------------------------------------------------------------
(* The handler of one request.                                             *)

Begin(r, b, recs) ==
  /\ pc[r] = "new"
  /\ tries' = [tries EXCEPT ![r] = 1]
  /\ items' = [items EXCEPT ![r] = b.items]
  /\ records' = [records EXCEPT ![r] = recs]
  /\ pc' = [pc EXCEPT ![r] = "begun"]
  /\ began' = [began EXCEPT ![r] = clock]
  /\ clock' = clock + 1
  /\ UNCHANGED <<lock, rows, todo, published, missed, audit, pushFaults>>

\* A request is pushed, and a transaction begins.
ArriveWebhook(r) ==
  /\ KindOf[r] = "webhook"
  /\ \E b \in Bodies, v \in Vendors :
       b.shape \notin {"ndjson", "malformed"} /\ Begin(r, b, Translate(v, b))

ArriveLogpush(r) ==
  /\ KindOf[r] = "cloudflare"
  /\ \E b \in Bodies : b.shape = "ndjson" /\ Begin(r, b, Lines(b))

\* Or it is refused with a 4xx status before anything else is done: too large
\* or empty; for the webhook, not a JSON object; for Logpush, not signed.
Refuse(r) ==
  /\ pc[r] = "new"
  /\ pc' = [pc EXCEPT ![r] = "refused"]
  /\ UNCHANGED <<records, items, tries, began, lock, clock, rows, todo, published,
                 missed, audit, pushFaults>>

RefuseWebhook(r) ==
  /\ KindOf[r] = "webhook"
  /\ \E b \in Bodies : b.shape = "malformed"
  /\ Refuse(r)

RefuseLogpush(r) == KindOf[r] = "cloudflare" /\ Refuse(r)

\* The upstream pushes the same batch again after an error or no answer.
Resend(r) ==
  /\ PushFault
  /\ pc[r] \in {"failed", "lost"}
  /\ tries' = [tries EXCEPT ![r] = @ + 1]
  /\ pc' = [pc EXCEPT ![r] = "begun"]
  /\ began' = [began EXCEPT ![r] = clock]
  /\ clock' = clock + 1
  /\ UNCHANGED <<records, items, lock, rows, todo, published, missed, audit>>

\* INSERT ... ON CONFLICT DO UPDATE of the host waits for the row lock.
LockHost(r) ==
  /\ pc[r] = "begun"
  /\ lock[KindOf[r]] = NoRequest
  /\ lock' = [lock EXCEPT ![KindOf[r]] = r]
  /\ pc' = [pc EXCEPT ![r] = "locked"]
  /\ UNCHANGED <<records, items, tries, began, clock, rows, todo, published, missed,
                 audit, pushFaults>>

EnsureWebhookHost(r) == KindOf[r] = "webhook" /\ LockHost(r)
EnsureLogpushHost(r) == KindOf[r] = "cloudflare" /\ LockHost(r)

\* The rows a batch inserts: one per good record, all with the same received_at.
NewRows(r) ==
  {[req |-> r, try |-> tries[r], n |-> n, at |-> began[r]] : n \in GoodOnes(r)}

Unlock(r) == lock' = [k \in Kinds |-> IF lock[k] = r THEN NoRequest ELSE lock[k]]

\* Mutant of Commit: the loop commits what it has when it meets a bad record.
CommitUpToBad(r) ==
  /\ pc[r] = "locked"
  /\ rows' = rows \cup
       {x \in NewRows(r) : \A i \in DOMAIN records[r] : i <= x.n => i \in GoodOnes(r)}
  /\ Unlock(r)
  /\ pc' = [pc EXCEPT ![r] = IF Accepted(r) > 0 THEN "query" ELSE "answer"]
  /\ UNCHANGED <<records, items, tries, began, clock, todo, published, missed, audit,
                 pushFaults>>

\* One commit covers the batch; nothing is read back when no record was good.
Commit(r) ==
  /\ pc[r] = "locked"
  /\ rows' = rows \cup NewRows(r)
  /\ Unlock(r)
  /\ pc' = [pc EXCEPT ![r] = IF Accepted(r) > 0 THEN "query" ELSE "answer"]
  /\ UNCHANGED <<records, items, tries, began, clock, todo, published, missed, audit,
                 pushFaults>>

\* Mutant of CommitRaises: the exception handler returns without rolling back.
CommitRaisesNoRollback(r) ==
  /\ PushFault
  /\ pc[r] \in {"begun", "locked"}
  /\ pc' = [pc EXCEPT ![r] = "failed"]
  /\ UNCHANGED <<records, items, tries, began, lock, clock, rows, todo, published,
                 missed, audit>>

\* A statement raises: the batch is rolled back and answered 500.  When it is
\* the commit whose answer is lost, the database may have carried it out.
CommitRaises(r) ==
  /\ PushFault
  /\ pc[r] \in {"begun", "locked"}
  /\ \/ rows' = rows
     \/ pc[r] = "locked" /\ rows' = rows \cup NewRows(r)
  /\ Unlock(r)
  /\ pc' = [pc EXCEPT ![r] = "failed"]
  /\ UNCHANGED <<records, items, tries, began, clock, todo, published, missed, audit>>

\* The rows of one endpoint's host and source.
RowsOf(kind) == {x \in rows : KindOf[x.req] = kind}

\* ORDER BY received_at DESC LIMIT accepted; rows of equal time in any order.
Newest(S, n) ==
  {T \in SUBSET S : /\ Cardinality(T) = n
                    /\ \A x \in T, y \in S \ T : x.at >= y.at}

\* Mutant of Own: the rows are asked for by host and source.
AllOfHost(r) == {RowsOf(KindOf[r])}

\* SELECT ... WHERE id IN (the ids of this batch).
Own(r) == {{x \in rows : x.req = r /\ x.try = tries[r]}}

ReadBack(r, choices) ==
  /\ pc[r] = "query"
  /\ \E T \in choices : todo' = [todo EXCEPT ![r] = T]
  /\ pc' = [pc EXCEPT ![r] = "publish"]
  /\ UNCHANGED <<records, items, tries, began, lock, clock, rows, published, missed,
                 audit, pushFaults>>

\* The rows are read back: the webhook asks for its ids, the Logpush receiver
\* for as many of the newest rows as it has accepted.
QueryOwn(r) == KindOf[r] = "webhook" /\ ReadBack(r, Own(r))
QueryNewest(r) ==
  KindOf[r] = "cloudflare" /\ ReadBack(r, Newest(RowsOf("cloudflare"), Accepted(r)))

\* Reading back raises: the handler ends with 500 after its rows are committed.
QueryRaises(r) ==
  /\ PushFault
  /\ pc[r] = "query"
  /\ pc' = [pc EXCEPT ![r] = "failed"]
  /\ UNCHANGED <<records, items, tries, began, lock, clock, rows, todo, published,
                 missed, audit>>

\* The next row of the loop: the Logpush receiver goes from old to new.
NextRow(r, x) ==
  /\ pc[r] = "publish"
  /\ x \in todo[r]
  /\ KindOf[r] = "cloudflare" => \A y \in todo[r] : x.at <= y.at
  /\ todo' = [todo EXCEPT ![r] = @ \ {x}]
  /\ pc' = [pc EXCEPT ![r] = IF todo[r] = {x} THEN "answer" ELSE "publish"]
  /\ UNCHANGED <<records, items, tries, began, lock, clock, rows, audit>>

PublishRow(r) ==
  \E x \in todo[r] :
    /\ NextRow(r, x)
    /\ published' = published \cup {<<r, tries[r], x>>}
    /\ UNCHANGED <<missed, pushFaults>>

\* Best effort: a publication that fails is logged and the loop goes on.
PublishRowRaises(r) ==
  \E x \in todo[r] :
    /\ PushFault
    /\ NextRow(r, x)
    /\ missed' = missed \cup {<<r, tries[r], x>>}
    /\ UNCHANGED published

\* audit.record, then 200 with the two counts.
Answer(r) ==
  /\ pc[r] = "answer"
  /\ audit' = audit \cup {[req |-> r, try |-> tries[r],
                           accepted |-> Accepted(r), rejected |-> Rejected(r)]}
  /\ pc' = [pc EXCEPT ![r] = "answered"]
  /\ UNCHANGED <<records, items, tries, began, lock, clock, rows, todo, published,
                 missed, pushFaults>>

InFlight(r) == pc[r] \in {"begun", "locked", "query", "publish", "answer"}

\* The process ends; its open transactions are rolled back.
Restart ==
  /\ PushFault
  /\ \E r \in Requests : InFlight(r)
  /\ pc' = [r \in Requests |-> IF InFlight(r) THEN "lost" ELSE pc[r]]
  /\ todo' = [r \in Requests |-> {}]
  /\ lock' = [k \in Kinds |-> NoRequest]
  /\ UNCHANGED <<records, items, tries, began, clock, rows, published, missed, audit>>

Handle(r) ==
  \/ EnsureWebhookHost(r) \/ EnsureLogpushHost(r)
  \/ Commit(r) \/ QueryOwn(r) \/ QueryNewest(r) \/ PublishRow(r) \/ Answer(r)

PushNext ==
  \/ Restart
  \/ \E r \in Requests :
       \/ ArriveWebhook(r) \/ ArriveLogpush(r)
       \/ RefuseWebhook(r) \/ RefuseLogpush(r) \/ Resend(r)
       \/ Handle(r)
       \/ CommitRaises(r) \/ QueryRaises(r) \/ PublishRowRaises(r)

\* The event loop runs every ready handler.  Weak fairness is enough for the
\* row lock: only finitely many other batches can take it first.
PushFairness == \A r \in Requests : WF_pushVars(Handle(r))

PushSpec == PushInit /\ [][PushNext]_pushVars
PushFairSpec == PushSpec /\ PushFairness
--------------------------------------------------------------------------
(* Properties.                                                             *)

RowsOfTry(r, t) == {x \in rows : x.req = r /\ x.try = t}

\* "so a partial-commit never counts as an accepted batch": an audit entry,
\* hence a 200, stands for exactly as many rows of that push as it says,
\* whatever failed, stopped or was pushed again around it; and a push leaves
\* all of its good records or none.
AuditMatchesRows ==
  /\ \A e \in audit : Cardinality(RowsOfTry(e.req, e.try)) = e.accepted
  /\ \A r \in Requests, t \in 1..MaxPushFaults + 1 :
       Cardinality(RowsOfTry(r, t)) \in {0, Accepted(r)}

PublishedBy(e) == {p \in published \cup missed : p[1] = e.req /\ p[2] = e.try}

\* An answered batch has published, or logged the failure of, as many stored
\* rows as it accepted; a webhook batch exactly its own, and no webhook row
\* is put into the stream twice.
AnsweredIsPublished ==
  /\ \A e \in audit :
       /\ Cardinality(PublishedBy(e)) = e.accepted
       /\ \A p \in PublishedBy(e) :
            /\ p[3] \in rows
            /\ KindOf[e.req] = "webhook" => p[3].req = e.req /\ p[3].try = e.try
  /\ \A p, q \in published :
       p[3] = q[3] /\ KindOf[p[3].req] = "webhook" => p = q

\* No batch waits for ever, neither for the host row another batch has locked
\* nor after an error.
BatchEnds == \A r \in Requests : InFlight(r) ~> ~InFlight(r)

\* What of that needs no fairness: the row of a host is locked by the one batch
\* that has a transaction open on it, never by one that has ended or is gone.
HostLockIsHeld ==
  /\ \A k \in Kinds :
       lock[k] # NoRequest => pc[lock[k]] = "locked" /\ KindOf[lock[k]] = k
  /\ \A r \in Requests : pc[r] = "locked" => lock[KindOf[r]] = r
--------------------------------------------------------------------------
(* What the documentation says and TLC refutes.                            *)

\* "We re-query the just-committed rows so the stream event carries the
\* server-assigned UUID" (ingest_cloudflare.py).  The newest rows are those of
\* another batch when two overlap.
RequeriesOwnRows == \A p \in published : p[3].req = p[1] /\ p[3].try = p[2]

\* "Malformed JSON or records missing src_ip count toward rejected"
\* (ingest_webhook.py).  An item that is no mapping counts for nothing, and an
\* envelope of another vendor for one record or none.
EveryItemCounted ==
  \A e \in audit : KindOf[e.req] = "webhook" => e.accepted + e.rejected = Len(items[e.req])
=============================================================================
