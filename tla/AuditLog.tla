----------------------------- MODULE AuditLog -----------------------------
(***************************************************************************)
(* The audit log (audit.py): a ring buffer in memory and, when a directory *)
(* is configured, one JSONL file per day.  record() runs on the event loop *)
(* and under a lock, so it is one step; what it does depends on whether    *)
(* closing, opening and flushing the file succeed.  Entries are numbered   *)
(* in the order in which they are recorded.                                *)
(***************************************************************************)
EXTENDS Naturals, Sequences

CONSTANTS
  AuditMax,   \* AUDIT_MAX: entries the ring holds
  MaxDay      \* bound: days

ASSUME AuditAssumption == AuditMax \in Nat \ {0} /\ MaxDay \in Nat \ {0}

Days == 1..MaxDay
NoHandle == 0

VARIABLES
  day,       \* today, UTC
  recorded,  \* number of entries so far
  ring,      \* _log
  files,     \* lines of each day's file
  handle,    \* day of the open file, or NoHandle
  buffer,    \* lines written to the handle and not flushed
  warned,    \* _persist_warned
  refused    \* history: entries the persistent tier has lost

auditVars == <<day, recorded, ring, files, handle, buffer, warned, refused>>

AuditTypeOK ==
  /\ day \in Days
  /\ recorded \in Nat
  /\ ring \in Seq(1..recorded) /\ Len(ring) <= AuditMax
  /\ files \in [Days -> Seq(1..recorded)]
  /\ handle \in {NoHandle} \cup Days
  /\ buffer \in Seq(1..recorded)
  /\ warned \in BOOLEAN
  /\ refused \subseteq 1..recorded

AuditInit ==
  /\ day = 1 /\ recorded = 0 /\ ring = <<>>
  /\ files = [d \in Days |-> <<>>]
  /\ handle = NoHandle /\ buffer = <<>> /\ warned = FALSE /\ refused = {}

Midnight ==
  /\ day < MaxDay
  /\ day' = day + 1
  /\ UNCHANGED <<recorded, ring, files, handle, buffer, warned, refused>>

Elements(s) == {s[i] : i \in DOMAIN s}
Last(s, n) == SubSeq(s, IF Len(s) > n THEN Len(s) - n + 1 ELSE 1, Len(s))

\* Mutant of Closed: the old handle is dropped without a close.
ClosedNot(ok) == files

\* Closing writes what is buffered, or loses it when that fails; the exception
\* is swallowed and the handle is done with.
Closed(ok) == IF handle # NoHandle /\ ok THEN [files EXCEPT ![handle] = @ \o buffer] ELSE files

LostByClose(ok) == IF ok THEN {} ELSE Elements(buffer)

\* Mutant of Flushed: the lines are kept for a second write after a good flush.
FlushedKept(fs, d, lines, ok) ==
  /\ files' = IF ok THEN [fs EXCEPT ![d] = @ \o lines] ELSE fs
  /\ buffer' = lines

\* Write and flush: a flush that fails leaves the lines in the buffer, and the
\* next one writes them first.
Flushed(fs, d, lines, ok) ==
  /\ files' = IF ok THEN [fs EXCEPT ![d] = @ \o lines] ELSE fs
  /\ buffer' = IF ok THEN <<>> ELSE lines

\* record: the ring always; the file unless the tier is disabled.  It is
\* opened for the first entry of a day.  A failing open disables the tier for
\* as long as the process lives.
Record(closes, opens, flushes) ==
  LET e == recorded + 1 IN
  /\ recorded' = e
  /\ ring' = Last(Append(ring, e), AuditMax)
  /\ \/ /\ warned
        /\ refused' = refused \cup {e}
        /\ UNCHANGED <<files, handle, buffer, warned>>
     \/ /\ ~warned /\ handle = day
        /\ Flushed(files, day, Append(buffer, e), flushes)
        /\ UNCHANGED <<handle, warned, refused>>
     \/ /\ ~warned /\ handle # day /\ opens
        /\ handle' = day
        /\ Flushed(Closed(closes), day, <<e>>, flushes)
        /\ refused' = refused \cup LostByClose(closes)
        /\ UNCHANGED warned
     \/ /\ ~warned /\ handle # day /\ ~opens
        /\ handle' = NoHandle /\ buffer' = <<>>
        /\ files' = Closed(closes)
        /\ warned' = TRUE
        /\ refused' = refused \cup LostByClose(closes) \cup {e}
  /\ UNCHANGED day

\* The process ends: ring, buffer and the disabled state go with it.
AuditRestart ==
  /\ ring' = <<>> /\ buffer' = <<>> /\ handle' = NoHandle /\ warned' = FALSE
  /\ refused' = refused \cup Elements(buffer)
  /\ UNCHANGED <<day, recorded, files>>

\* snapshot: the newest entries, newest first.
Snapshot(limit) ==
  LET s == Last(ring, limit) IN [i \in DOMAIN s |-> s[Len(s) - i + 1]]
--------------------------------------------------------------------------
OnDisk(d, i, e) == i \in DOMAIN files[d] /\ files[d][i] = e

\* "the order of snapshot() entries matches the order of lines on disk": of two
\* entries in a snapshot the newer one is on no earlier line, through failed
\* flushes, rotation and restarts; and an entry is on one line at most.
TiersAgree ==
  LET s == Snapshot(AuditMax) IN
  /\ \A i, j \in DOMAIN s : i < j =>
       \A d1, d2 \in Days : \A m \in DOMAIN files[d1], n \in DOMAIN files[d2] :
         OnDisk(d1, m, s[i]) /\ OnDisk(d2, n, s[j]) => d1 > d2 \/ (d1 = d2 /\ m > n)
  /\ \A e \in 1..recorded, d1, d2 \in Days :
       \A m \in DOMAIN files[d1], n \in DOMAIN files[d2] :
         OnDisk(d1, m, e) /\ OnDisk(d2, n, e) => d1 = d2 /\ m = n

\* An entry is on disk or waits in the buffer of the open file, unless the
\* tier was disabled or an error of the file system has lost it.
EntryAccounted ==
  \A e \in 1..recorded :
    \/ \E d \in Days : e \in Elements(files[d])
    \/ handle # NoHandle /\ e \in Elements(buffer)
    \/ e \in refused
=============================================================================
