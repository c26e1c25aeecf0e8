--------------------------- MODULE EvidenceLocker ---------------------------
(***************************************************************************)
(* The evidence locker (evidence.py): a client posts a bundle, the server  *)
(* checks the bundle's hash and writes bundle, sidecar and signature as    *)
(* three files, signed with its active key, which may be rotated.  submit  *)
(* is synchronous, so one server process handles one at a time, but a      *)
(* write may fail or the process stop in the middle of it; several         *)
(* processes may share the directory, each with keys of its own beyond the *)
(* configured one.                                                         *)
(*                                                                         *)
(* The client is external: it may post anything, again and again.  A hash  *)
(* is the content it is taken of.                                          *)
(***************************************************************************)
EXTENDS Naturals, FiniteSets

CONSTANTS
  Servers,     \* server processes
  Alerts,      \* alert ids
  Bundles,     \* contents of a tarball
  Details,     \* host, time, captured_by and source hashes, as posted
  MaxKey,      \* bound: keys rotate() makes
  MaxFaults,   \* bound: failing writes, stops, edits on disk
  None,        \* no file, no request
  Edited       \* the content of a file that was edited on disk or cut short

EnvKey == 0                    \* ZAQORIN_EVIDENCE_KEY
Keys == 0..MaxKey

Requests == [alert : Alerts, details : Details, claim : Bundles, body : Bundles]
Sidecars == [alert : Alerts, details : Details, claim : Bundles]
Signatures == [key : Keys, of : Sidecars]

ASSUME LockerAssumption ==
  /\ {MaxKey, MaxFaults} \subseteq Nat
  /\ None # Edited
  /\ {None, Edited} \cap (Servers \cup Requests \cup Sidecars) = {}
  /\ {None, Edited} \cap [key : Keys, of : Sidecars \cup {Edited}] = {}

VARIABLES
  pc, req,          \* where submit stands in each process, and with what
  keys, active,     \* EvidenceStore.keys and signing_key of each process
  made,             \* keys made by rotate() so far
  bundle, sidecar, sig,  \* the files of each alert
  accepted,         \* history: sidecars whose request passed the hash check
  alone,            \* history: processes whose alert nobody else has written to
                    \* since their submit began
  intact,           \* history: alerts answered 201 and not written to since
  turns,            \* history: rotations of each process since it started
  signed,           \* history: who signed, and after how many rotations
  faults

disk == <<bundle, sidecar, sig>>
store == <<keys, active, made, turns>>
vars == <<pc, req, store, disk, accepted, alone, intact, signed, faults>>

TypeOK ==
  /\ pc \in [Servers -> {"idle", "bundle", "sidecar", "sig", "answer"}]
  /\ req \in [Servers -> Requests \cup {None}]
  /\ \A s \in Servers : req[s] = None <=> pc[s] = "idle"
  /\ keys \in [Servers -> SUBSET (0..made)]
  /\ active \in [Servers -> 0..made]
  /\ \A s \in Servers : active[s] \in keys[s]
  /\ made \in Keys
  /\ bundle \in [Alerts -> Bundles \cup {None, Edited}]
  /\ sidecar \in [Alerts -> Sidecars \cup {None, Edited}]
  /\ sig \in [Alerts -> Signatures \cup {None, Edited}]
  /\ accepted \subseteq Sidecars
  /\ alone \subseteq Servers
  /\ intact \subseteq Alerts
  /\ turns \in [Servers -> 0..made]
  /\ signed \in [Alerts -> [by : Servers \cup {None}, turn : 0..made]]
  /\ faults \in Nat

Init ==
  /\ pc = [s \in Servers |-> "idle"]
  /\ req = [s \in Servers |-> None]
  /\ keys = [s \in Servers |-> {EnvKey}]
  /\ active = [s \in Servers |-> EnvKey]
  /\ made = 0
  /\ bundle = [a \in Alerts |-> None]
  /\ sidecar = [a \in Alerts |-> None]
  /\ sig = [a \in Alerts |-> None]
  /\ accepted = {} /\ alone = {} /\ intact = {}
  /\ turns = [s \in Servers |-> 0]
  /\ signed = [a \in Alerts |-> [by |-> None, turn |-> 0]]
  /\ faults = 0

Fault == faults < MaxFaults /\ faults' = faults + 1
--------------------------------------------------------------------------
(* submit.                                                                 *)

\* Mutant of HashMatches: the check is dropped.
HashMatchesAny(r) == TRUE

HashMatches(r) == r.body = r.claim

SidecarOf(r) == [alert |-> r.alert, details |-> r.details, claim |-> r.claim]

\* A request reaches process s; a mismatch is answered 400 and nothing is
\* written.
Receive(s) ==
  /\ pc[s] = "idle"
  /\ \E r \in Requests :
       IF HashMatches(r)
       THEN /\ pc' = [pc EXCEPT ![s] = "bundle"]
            /\ req' = [req EXCEPT ![s] = r]
            /\ accepted' = IF r.body = r.claim THEN accepted \cup {SidecarOf(r)} ELSE accepted
            /\ alone' = alone \cup {s}
       ELSE UNCHANGED <<pc, req, accepted, alone>>
  /\ UNCHANGED <<store, disk, intact, signed, faults>>

\* The processes whose submit is for alert a.
SubmitsOf(a) == {t \in Servers : req[t] # None /\ req[t].alert = a}

\* Process s has written to a file of its alert.
Written(s) ==
  /\ intact' = intact \ {req[s].alert}
  /\ alone' = alone \ (SubmitsOf(req[s].alert) \ {s})

WriteBundle(s) ==
  /\ pc[s] = "bundle"
  /\ bundle' = [bundle EXCEPT ![req[s].alert] = req[s].body]
  /\ pc' = [pc EXCEPT ![s] = "sidecar"]
  /\ Written(s)
  /\ UNCHANGED <<req, store, sidecar, sig, accepted, signed, faults>>

WriteSidecar(s) ==
  /\ pc[s] = "sidecar"
  /\ sidecar' = [sidecar EXCEPT ![req[s].alert] = SidecarOf(req[s])]
  /\ pc' = [pc EXCEPT ![s] = "sig"]
  /\ Written(s)
  /\ UNCHANGED <<req, store, bundle, sig, accepted, signed, faults>>

\* keys["current"].
SigningKey(s) == active[s]

WriteSig(s) ==
  /\ pc[s] = "sig"
  /\ sig' = [sig EXCEPT ![req[s].alert] = [key |-> SigningKey(s), of |-> SidecarOf(req[s])]]
  /\ signed' = [signed EXCEPT ![req[s].alert] = [by |-> s, turn |-> turns[s]]]
  /\ pc' = [pc EXCEPT ![s] = "answer"]
  /\ Written(s)
  /\ UNCHANGED <<req, store, bundle, sidecar, accepted, faults>>

Idle(s) ==
  /\ pc' = [pc EXCEPT ![s] = "idle"]
  /\ req' = [req EXCEPT ![s] = None]

\* 201, with the signature.
Answer(s) ==
  /\ pc[s] = "answer"
  /\ Idle(s)
  /\ intact' = IF s \in alone THEN intact \cup {req[s].alert} ELSE intact
  /\ UNCHANGED <<store, disk, accepted, alone, signed, faults>>

\* write_bytes truncates the file and then fills it.
CutShort(s) ==
  /\ \/ pc[s] = "bundle" /\ bundle' = [bundle EXCEPT ![req[s].alert] = Edited]
        /\ UNCHANGED <<sidecar, sig>>
     \/ pc[s] = "sidecar" /\ sidecar' = [sidecar EXCEPT ![req[s].alert] = Edited]
        /\ UNCHANGED <<bundle, sig>>
     \/ pc[s] = "sig" /\ sig' = [sig EXCEPT ![req[s].alert] = Edited]
        /\ UNCHANGED <<bundle, sidecar>>
  /\ Written(s)

\* submit ends where it stands; the write at hand may be cut short.
Stop(s) ==
  /\ Fault
  /\ Idle(s)
  /\ CutShort(s) \/ UNCHANGED <<disk, intact, alone>>
  /\ UNCHANGED <<made, accepted>>

\* A write or a chmod raises OSError: 500.
Fails(s) ==
  /\ pc[s] # "idle"
  /\ Stop(s)
  /\ UNCHANGED <<store, signed>>
--------------------------------------------------------------------------
(* The keys, and verify.                                                   *)

\* Mutant of RotatedKeys: the old key is not kept.
RotatedKeysNewOnly(s) == {made + 1}

\* The map rotate() leaves: new_id and "current" are the new key, "previous"
\* the one before.
RotatedKeys(s) == {active[s], made + 1}

Rotate(s) ==
  /\ pc[s] = "idle"
  /\ made < MaxKey
  /\ made' = made + 1
  /\ active' = [active EXCEPT ![s] = made + 1]
  /\ keys' = [keys EXCEPT ![s] = RotatedKeys(s)]
  /\ turns' = [turns EXCEPT ![s] = @ + 1]
  /\ UNCHANGED <<pc, req, disk, accepted, alone, intact, signed, faults>>

\* Process s stops, at any point of submit, and starts again: the store is
\* built from the configured key alone.
Restart(s) ==
  /\ Stop(s)
  /\ keys' = [keys EXCEPT ![s] = {EnvKey}]
  /\ active' = [active EXCEPT ![s] = EnvKey]
  /\ turns' = [turns EXCEPT ![s] = 0]
  /\ signed' = [a \in Alerts |->
                  IF signed[a].by = s THEN [signed[a] EXCEPT !.by = None] ELSE signed[a]]

\* Some key of the store gives the signature of the sidecar's bytes.
SignatureMatches(s, a) == \E k \in keys[s] : sig[a] = [key |-> k, of |-> sidecar[a]]

\* verify(alert_id) in process s: the keys are tried in turn.
Verify(s, a) == sidecar[a] # None /\ sig[a] # None /\ SignatureMatches(s, a)

\* Somebody changes a file of the locker.
Edit ==
  /\ Fault
  /\ \E a \in Alerts :
       /\ \/ bundle[a] # None /\ bundle' = [bundle EXCEPT ![a] = Edited]
             /\ UNCHANGED <<sidecar, sig>>
          \/ sidecar[a] # None /\ sidecar' = [sidecar EXCEPT ![a] = Edited]
             /\ UNCHANGED <<bundle, sig>>
          \/ sig[a] # None /\ sig' = [sig EXCEPT ![a] = Edited]
             /\ UNCHANGED <<bundle, sidecar>>
       /\ intact' = intact \ {a}
       /\ alone' = alone \ SubmitsOf(a)
  /\ UNCHANGED <<pc, req, store, accepted, signed>>

Next ==
  \/ Edit
  \/ \E s \in Servers :
       \/ Receive(s) \/ WriteBundle(s) \/ WriteSidecar(s) \/ WriteSig(s) \/ Answer(s)
       \/ Fails(s) \/ Rotate(s) \/ Restart(s)

Spec == Init /\ [][Next]_vars
--------------------------------------------------------------------------
(* Properties.                                                             *)

\* Whatever failing writes, stops, repeats, edits and processes did to the
\* three files, a locker that verifies holds a sidecar, unchanged, whose
\* bundle passed the hash check of submit.
VerifiedWasAccepted ==
  \A s \in Servers, a \in Alerts : Verify(s, a) => sidecar[a] \in accepted

\* rotate() keeps the key before: process s can verify what it has signed
\* itself up to one rotation ago, and what any process signed with the
\* configured key until its own second rotation.
KeyIsKept(s, a) ==
  /\ signed[a].by = s \/ signed[a].turn = 0
  /\ turns[s] <= signed[a].turn + 1

\* Evidence answered 201, whose files nobody else wrote to during the submit or
\* since, verifies in every process that has kept the key, and its bundle is
\* the one the sidecar speaks of.
AnsweredVerifies ==
  \A s \in Servers, a \in intact :
    KeyIsKept(s, a) => Verify(s, a) /\ bundle[a] = sidecar[a].claim

--------------------------------------------------------------------------
(* What the documentation says and TLC refutes on a small instance: the    *)
(* README gives the counterexamples.                                       *)

\* "any change to either the tarball or the sidecar invalidates the chain".
\* verify reads the sidecar and the signature only.
VerifiedHoldsBundle ==
  \A s \in Servers, a \in Alerts : Verify(s, a) => bundle[a] = sidecar[a].claim

\* "old keys are retained so old evidence still verifies".  rotate() keeps
\* one old key.
RotationKeepsEvidence ==
  faults = 0 => \A a \in intact : Verify(signed[a].by, a)
=============================================================================
