----------------------- MODULE EvidenceLockerProofs -----------------------
(***************************************************************************)
(* Proofs about EvidenceLocker, for any number of server processes that    *)
(* write to one directory, any alerts and any number of faults.            *)
(***************************************************************************)
EXTENDS EvidenceLocker, TLAPS

\* Nothing is written for a request that has not passed the hash check: the
\* requests under way and every signature on disk are of accepted sidecars.
UnderWayAccepted == \A s \in Servers : req[s] # None => SidecarOf(req[s]) \in accepted
SignedAccepted == \A a \in Alerts : sig[a] \in Signatures => sig[a].of \in accepted

\* The types the argument needs.
LockerTypes ==
  /\ req \in [Servers -> Requests \cup {None}]
  /\ pc \in [Servers -> {"idle", "bundle", "sidecar", "sig", "answer"}]
  /\ \A s \in Servers : req[s] = None => pc[s] = "idle"
  /\ bundle \in [Alerts -> Bundles \cup {None, Edited}]
  /\ sidecar \in [Alerts -> Sidecars \cup {None, Edited}]
  /\ sig \in [Alerts -> Signatures \cup {None, Edited}]
  /\ active \in [Servers -> Keys]
  /\ keys \in [Servers -> SUBSET Keys]
  /\ made \in Nat

IInv == LockerTypes /\ UnderWayAccepted /\ SignedAccepted

\* None and Edited are no values of the files and requests.
LEMMA NoneIsNew ==
  /\ None \notin Requests
  /\ None \notin Signatures /\ Edited \notin Signatures
  /\ None \notin Sidecars /\ Edited \notin Sidecars
  /\ None \notin Servers
  BY LockerAssumption DEF Signatures

\* The request a process works on.
LEMMA RequestParts ==
  ASSUME IInv, NEW s \in Servers, pc[s] # "idle"
  PROVE  /\ req[s] \in Requests /\ req[s] # None
         /\ req[s].alert \in Alerts /\ req[s].body \in Bundles
         /\ SidecarOf(req[s]) \in Sidecars /\ SidecarOf(req[s]).claim = req[s].claim
  <1>1. req[s] \in Requests /\ req[s] # None
    BY NoneIsNew DEF IInv, LockerTypes
  <1> QED
    BY <1>1 DEF Requests, Sidecars, SidecarOf

\* The empty locker satisfies the invariant.
LEMMA InitIInv == Init => IInv
  <1> SUFFICES ASSUME Init PROVE IInv
    OBVIOUS
  <1>1. EnvKey \in Keys
    BY LockerAssumption DEF Keys, EnvKey
  <1>2. LockerTypes
    BY <1>1 DEF Init, LockerTypes
  <1>3. UnderWayAccepted /\ SignedAccepted
    BY NoneIsNew DEF Init, UnderWayAccepted, SignedAccepted
  <1> QED
    BY <1>2, <1>3 DEF IInv

\* A step that writes no signature and receives nothing.
LEMMA IInvFrame ==
  ASSUME IInv, LockerTypes', UNCHANGED accepted,
         \A s \in Servers : req'[s] = req[s] \/ req'[s] = None,
         \A a \in Alerts : sig'[a] = sig[a] \/ sig'[a] = Edited
  PROVE  IInv'
  <1>1. UnderWayAccepted'
    BY DEF IInv, UnderWayAccepted, SidecarOf
  <1>2. SignedAccepted'
    BY NoneIsNew DEF IInv, SignedAccepted
  <1> QED
    BY <1>1, <1>2 DEF IInv

\* A write that is cut short, or none at all.
LEMMA StopTypes ==
  ASSUME LockerTypes, NEW s \in Servers, Stop(s)
  PROVE  /\ bundle' \in [Alerts -> Bundles \cup {None, Edited}]
         /\ sidecar' \in [Alerts -> Sidecars \cup {None, Edited}]
         /\ sig' \in [Alerts -> Signatures \cup {None, Edited}]
         /\ \A a \in Alerts : sig'[a] = sig[a] \/ sig'[a] = Edited
         /\ req' \in [Servers -> Requests \cup {None}]
         /\ pc' \in [Servers -> {"idle", "bundle", "sidecar", "sig", "answer"}]
         /\ \A t \in Servers : req'[t] = None => pc'[t] = "idle"
         /\ \A t \in Servers : req'[t] = req[t] \/ req'[t] = None
  <1>1. CASE CutShort(s)
    BY <1>1 DEF CutShort, LockerTypes, Stop, Idle
  <1>2. CASE UNCHANGED disk
    BY <1>2 DEF disk, LockerTypes, Stop, Idle
  <1> QED
    BY <1>1, <1>2 DEF Stop, disk

\* Every step keeps the invariant.
LEMMA IInvStep == IInv /\ [Next]_vars => IInv'
  <1> SUFFICES ASSUME IInv, [Next]_vars PROVE IInv'
    OBVIOUS
  <1>0. LockerTypes
    BY DEF IInv
  <1>1. CASE Edit
    <2>1. PICK a \in Alerts :
            \/ bundle' = [bundle EXCEPT ![a] = Edited] /\ UNCHANGED <<sidecar, sig>>
            \/ sidecar' = [sidecar EXCEPT ![a] = Edited] /\ UNCHANGED <<bundle, sig>>
            \/ sig' = [sig EXCEPT ![a] = Edited] /\ UNCHANGED <<bundle, sidecar>>
      BY <1>1 DEF Edit
    <2>2. UNCHANGED <<pc, req, keys, active, made, accepted>>
      BY <1>1 DEF Edit, store
    <2>3. LockerTypes' /\ \A b \in Alerts : sig'[b] = sig[b] \/ sig'[b] = Edited
      BY <1>0, <2>1, <2>2 DEF LockerTypes
    <2> QED
      BY <2>2, <2>3, IInvFrame
  <1>2. ASSUME NEW s \in Servers, Receive(s) PROVE IInv'
    <2>1. PICK r \in Requests :
            IF HashMatches(r)
            THEN /\ pc' = [pc EXCEPT ![s] = "bundle"]
                 /\ req' = [req EXCEPT ![s] = r]
                 /\ accepted' = IF r.body = r.claim THEN accepted \cup {SidecarOf(r)} ELSE accepted
            ELSE UNCHANGED <<pc, req, accepted>>
      BY <1>2 DEF Receive
    <2>2. UNCHANGED <<keys, active, made, bundle, sidecar, sig>>
      BY <1>2 DEF Receive, store, disk
    <2>3. r # None
      BY NoneIsNew
    <2>4. LockerTypes'
      BY <1>0, <2>1, <2>2, <2>3 DEF LockerTypes
    <2>5. CASE ~HashMatches(r)
      BY <2>1, <2>2, <2>4, <2>5, IInvFrame
    <2>6. CASE HashMatches(r)
      <3>1. /\ accepted' = accepted \cup {SidecarOf(r)}
            /\ req' = [req EXCEPT ![s] = r]
        BY <2>1, <2>6 DEF HashMatches
      <3>2. SignedAccepted'
        BY <2>2, <3>1 DEF IInv, SignedAccepted
      <3>3. ASSUME NEW t \in Servers, req'[t] # None PROVE SidecarOf(req'[t]) \in accepted'
        <4>1. CASE t = s
          BY <1>0, <3>1, <4>1 DEF LockerTypes
        <4>2. CASE t # s
          <5>1. req'[t] = req[t]
            BY <1>0, <3>1, <4>2 DEF LockerTypes
          <5> QED
            BY <3>1, <3>3, <5>1 DEF IInv, UnderWayAccepted
        <4> QED
          BY <4>1, <4>2
      <3>4. UnderWayAccepted'
        BY <3>3 DEF UnderWayAccepted, SidecarOf
      <3> QED
        BY <2>4, <3>2, <3>4 DEF IInv
    <2> QED
      BY <2>5, <2>6
  <1>3. ASSUME NEW s \in Servers, WriteBundle(s) \/ WriteSidecar(s) PROVE IInv'
    <2>1. pc[s] # "idle"
      BY <1>3 DEF WriteBundle, WriteSidecar
    <2>2. /\ req[s] # None /\ req[s].alert \in Alerts /\ req[s].body \in Bundles
          /\ SidecarOf(req[s]) \in Sidecars
      BY <2>1, RequestParts
    <2>3. LockerTypes'
      BY <1>0, <1>3, <2>2 DEF WriteBundle, WriteSidecar, LockerTypes, store
    <2> QED
      BY <1>3, <2>3, IInvFrame DEF WriteBundle, WriteSidecar
  <1>4. ASSUME NEW s \in Servers, WriteSig(s) PROVE IInv'
    <2>1. pc[s] # "idle"
      BY <1>4 DEF WriteSig
    <2>2. req[s] # None /\ req[s].alert \in Alerts /\ SidecarOf(req[s]) \in Sidecars
      BY <2>1, RequestParts
    <2> DEFINE new == [key |-> SigningKey(s), of |-> SidecarOf(req[s])]
    <2>3. new \in Signatures
      BY <1>0, <2>2 DEF LockerTypes, SigningKey, Signatures
    <2>4. /\ sig' = [sig EXCEPT ![req[s].alert] = new]
          /\ pc' = [pc EXCEPT ![s] = "answer"]
          /\ UNCHANGED <<req, keys, active, made, bundle, sidecar, accepted>>
      BY <1>4 DEF WriteSig, store
    <2>5. LockerTypes'
      BY <1>0, <2>2, <2>3, <2>4 DEF LockerTypes
    <2>6. UnderWayAccepted'
      BY <2>4 DEF IInv, UnderWayAccepted, SidecarOf
    <2>7. new.of \in accepted
      BY <2>2 DEF IInv, UnderWayAccepted
    <2>8. SignedAccepted'
      BY <1>0, <2>2, <2>4, <2>7 DEF IInv, SignedAccepted, LockerTypes
    <2> QED
      BY <2>5, <2>6, <2>8 DEF IInv
  <1>5. ASSUME NEW s \in Servers, Answer(s) PROVE IInv'
    <2>1. LockerTypes' /\ \A t \in Servers : req'[t] = req[t] \/ req'[t] = None
      BY <1>0, <1>5 DEF Answer, Idle, LockerTypes, store, disk
    <2> QED
      BY <1>5, <2>1, IInvFrame DEF Answer, disk
  <1>6. ASSUME NEW s \in Servers, Fails(s) PROVE IInv'
    <2>1. Stop(s) /\ UNCHANGED <<keys, active, made, accepted>>
      BY <1>6 DEF Fails, Stop, store
    <2>2. LockerTypes'
      BY <1>0, <2>1, StopTypes DEF LockerTypes
    <2> QED
      BY <1>0, <2>1, <2>2, StopTypes, IInvFrame
  <1>7. ASSUME NEW s \in Servers, Restart(s) PROVE IInv'
    <2>1. Stop(s) /\ UNCHANGED <<made, accepted>>
      BY <1>7 DEF Restart, Stop
    <2>2. EnvKey \in Keys
      BY LockerAssumption DEF Keys, EnvKey
    <2>3. active' \in [Servers -> Keys] /\ keys' \in [Servers -> SUBSET Keys]
      BY <1>0, <1>7, <2>2 DEF Restart, LockerTypes
    <2>4. LockerTypes'
      BY <1>0, <2>1, <2>3, StopTypes DEF LockerTypes
    <2> QED
      BY <1>0, <2>1, <2>4, StopTypes, IInvFrame
  <1>8. ASSUME NEW s \in Servers, Rotate(s) PROVE IInv'
    <2>1. made + 1 \in Keys /\ made + 1 \in Nat
      BY <1>0, <1>8, LockerAssumption DEF Rotate, LockerTypes, Keys
    <2>2. LockerTypes'
      BY <1>0, <1>8, <2>1 DEF Rotate, RotatedKeys, LockerTypes, disk
    <2> QED
      BY <1>8, <2>2, IInvFrame DEF Rotate, disk
  <1>9. CASE UNCHANGED vars
    <2>1. LockerTypes'
      BY <1>0, <1>9 DEF vars, LockerTypes, store, disk
    <2> QED
      BY <1>9, <2>1, IInvFrame DEF vars, disk
  <1> QED
    BY <1>1, <1>2, <1>3, <1>4, <1>5, <1>6, <1>7, <1>8, <1>9 DEF Next

\* A locker that verifies holds an unchanged sidecar of a bundle that passed
\* the hash check of submit, whatever failing writes, stops, repeats, edits,
\* rotations and concurrent processes did to the three files.
THEOREM VerifiedSafe == Spec => []VerifiedWasAccepted
  <1>1. IInv => VerifiedWasAccepted
    <2> SUFFICES ASSUME IInv, NEW s \in Servers, NEW a \in Alerts, Verify(s, a)
                 PROVE  sidecar[a] \in accepted
      BY DEF VerifiedWasAccepted
    <2>1. PICK k \in keys[s] : sig[a] = [key |-> k, of |-> sidecar[a]]
      BY DEF Verify, SignatureMatches
    <2>2. sig[a] # None /\ sig[a] \in Signatures \cup {None, Edited}
      BY DEF Verify, IInv, LockerTypes
    <2>3. CASE sig[a] \in Signatures
      BY <2>1, <2>3 DEF IInv, SignedAccepted
    <2>4. CASE sig[a] = Edited
      <3>1. sidecar[a] \in Sidecars \cup {Edited} /\ k \in Keys
        BY DEF Verify, IInv, LockerTypes
      <3>2. sig[a] \in [key : Keys, of : Sidecars \cup {Edited}]
        BY <2>1, <3>1
      <3> QED
        BY <2>4, <3>2, LockerAssumption
    <2> QED
      BY <2>2, <2>3, <2>4
  <1> QED
    BY InitIInv, IInvStep, <1>1, PTL DEF Spec
--------------------------------------------------------------------------
(* The keys a process keeps.                                               *)

KeyTypes ==
  /\ turns \in [Servers -> Nat]
  /\ signed \in [Alerts -> [by : Servers \cup {None}, turn : Nat]]

\* A process starts from the configured key and keeps it through one rotation.
Held ==
  \A s \in Servers :
    /\ active[s] \in keys[s]
    /\ turns[s] = 0 => active[s] = EnvKey
    /\ turns[s] <= 1 => EnvKey \in keys[s]

\* A signature of a process that has not rotated is of the configured key; one
\* of a later turn is of the key that process had then, and has until the next
\* but one rotation.
Signer ==
  \A a \in Alerts : sig[a] \in Signatures =>
    /\ signed[a].turn = 0 => sig[a].key = EnvKey
    /\ \A s \in Servers : signed[a].by = s =>
         /\ signed[a].turn <= turns[s]
         /\ signed[a].turn = turns[s] => sig[a].key = active[s]
         /\ turns[s] <= signed[a].turn + 1 => sig[a].key \in keys[s]

KInv == IInv /\ KeyTypes /\ Held /\ Signer

\* A step that leaves the keys alone and writes no signature.
LEMMA KInvFrame ==
  ASSUME KInv, IInv', UNCHANGED <<keys, active, turns, signed>>,
         \A a \in Alerts : sig'[a] = sig[a] \/ sig'[a] = Edited
  PROVE  KInv'
  <1>1. Signer'
    BY NoneIsNew DEF KInv, Signer
  <1> QED
    BY <1>1 DEF KInv, KeyTypes, Held

LEMMA KInvInit == Init => KInv
  <1> SUFFICES ASSUME Init PROVE KInv
    OBVIOUS
  <1>1. KeyTypes /\ Held
    BY DEF Init, KeyTypes, Held
  <1>2. Signer
    BY NoneIsNew DEF Init, Signer
  <1> QED
    BY <1>1, <1>2, InitIInv DEF KInv

LEMMA KInvStep == KInv /\ [Next]_vars => KInv'
  <1> SUFFICES ASSUME KInv, [Next]_vars PROVE KInv'
    OBVIOUS
  <1>0. IInv /\ IInv' /\ LockerTypes /\ KeyTypes
    BY IInvStep DEF KInv, IInv
  <1>1. CASE Edit
    <2>1. \A a \in Alerts : sig'[a] = sig[a] \/ sig'[a] = Edited
      BY <1>0, <1>1 DEF Edit, LockerTypes
    <2> QED
      BY <1>0, <1>1, <2>1, KInvFrame DEF Edit, store
  <1>2. ASSUME NEW s \in Servers, Receive(s) \/ WriteBundle(s) \/ WriteSidecar(s) \/ Answer(s)
        PROVE  KInv'
    BY <1>0, <1>2, KInvFrame DEF Receive, WriteBundle, WriteSidecar, Answer, store, disk
  <1>3. ASSUME NEW s \in Servers, Fails(s) PROVE KInv'
    <2>1. \A a \in Alerts : sig'[a] = sig[a] \/ sig'[a] = Edited
      BY <1>0, <1>3, StopTypes DEF Fails
    <2> QED
      BY <1>0, <1>3, <2>1, KInvFrame DEF Fails, store
  <1>4. ASSUME NEW s \in Servers, WriteSig(s) PROVE KInv'
    <2>1. pc[s] # "idle"
      BY <1>4 DEF WriteSig
    <2>2. req[s].alert \in Alerts /\ SidecarOf(req[s]) \in Sidecars
      BY <1>0, <2>1, RequestParts
    <2> DEFINE x == req[s].alert
               g == [key |-> active[s], of |-> SidecarOf(req[s])]
    <2>3. /\ sig' = [sig EXCEPT ![x] = g] /\ g.key = active[s] /\ x \in Alerts
          /\ signed' = [signed EXCEPT ![x] = [by |-> s, turn |-> turns[s]]]
      BY <1>4, <2>2 DEF WriteSig, SigningKey
    <2> HIDE DEF x, g
    <2>4. UNCHANGED <<keys, active, turns>>
      BY <1>4 DEF WriteSig, store
    <2>5. KeyTypes' /\ Held'
      BY <1>0, <2>3, <2>4 DEF KInv, KeyTypes, Held
    <2>6. /\ sig'[x] = g /\ signed'[x].by = s /\ signed'[x].turn = turns[s]
          /\ \A a \in Alerts \ {x} : sig'[a] = sig[a] /\ signed'[a] = signed[a]
      BY <1>0, <2>3 DEF LockerTypes, KeyTypes
    <2>7. turns[s] \in Nat /\ turns[s] <= turns[s]
      BY <1>0 DEF KeyTypes
    <2>8. Signer'
      BY <2>3, <2>4, <2>6, <2>7 DEF KInv, Signer, Held
    <2> QED
      BY <1>0, <2>5, <2>8 DEF KInv
  <1>5. ASSUME NEW s \in Servers, Rotate(s) PROVE KInv'
    <2>1. /\ keys'[s] = {active[s], made + 1} /\ active'[s] = made + 1 /\ turns'[s] = turns[s] + 1
          /\ \A t \in Servers \ {s} : keys'[t] = keys[t] /\ active'[t] = active[t] /\ turns'[t] = turns[t]
          /\ UNCHANGED <<sig, signed>>
      BY <1>0, <1>5 DEF Rotate, RotatedKeys, LockerTypes, KeyTypes, disk
    <2>2. turns' \in [Servers -> Nat] /\ turns[s] \in Nat
      BY <1>0, <1>5 DEF Rotate, KeyTypes
    <2>3. KeyTypes'
      BY <1>0, <2>1, <2>2 DEF KeyTypes
    <2>4. turns[s] + 1 # 0 /\ (turns[s] + 1 <= 1 => turns[s] = 0)
      BY <2>2
    <2>5. Held'
      BY <2>1, <2>4 DEF KInv, Held
    <2>6. Signer'
      <3>1. ASSUME NEW a \in Alerts, sig[a] \in Signatures, signed[a].by = s
            PROVE  /\ signed[a].turn <= turns[s] + 1
                   /\ signed[a].turn # turns[s] + 1
                   /\ turns[s] + 1 <= signed[a].turn + 1 => sig[a].key = active[s]
        <4>1. /\ signed[a].turn <= turns[s]
              /\ signed[a].turn = turns[s] => sig[a].key = active[s]
          BY <3>1 DEF KInv, Signer
        <4>2. signed[a].turn \in Nat
          BY <1>0 DEF KeyTypes
        <4> QED
          BY <2>2, <4>1, <4>2
      <3> QED
        BY <2>1, <3>1 DEF KInv, Signer
    <2> QED
      BY <1>0, <2>3, <2>5, <2>6 DEF KInv
  <1>6. ASSUME NEW s \in Servers, Restart(s) PROVE KInv'
    <2>1. /\ keys'[s] = {EnvKey} /\ active'[s] = EnvKey /\ turns'[s] = 0
          /\ \A t \in Servers \ {s} : keys'[t] = keys[t] /\ active'[t] = active[t] /\ turns'[t] = turns[t]
      BY <1>0, <1>6 DEF Restart, LockerTypes, KeyTypes
    <2>2. \A a \in Alerts : /\ signed'[a].turn = signed[a].turn
                            /\ signed'[a].by # s /\ (signed'[a].by = signed[a].by \/ signed'[a].by = None)
      BY <1>0, <1>6, NoneIsNew DEF Restart, KeyTypes
    <2>3. \A a \in Alerts : sig'[a] = sig[a] \/ sig'[a] = Edited
      BY <1>0, <1>6, StopTypes DEF Restart
    <2>4. KeyTypes'
      BY <1>0, <1>6 DEF Restart, KeyTypes
    <2>5. Held'
      BY <2>1 DEF KInv, Held
    <2>6. Signer'
      BY <2>1, <2>2, <2>3, NoneIsNew DEF KInv, Signer
    <2> QED
      BY <1>0, <2>4, <2>5, <2>6 DEF KInv
  <1>7. CASE UNCHANGED vars
    BY <1>0, <1>7, KInvFrame DEF vars, store, disk
  <1> QED
    BY <1>1, <1>2, <1>3, <1>4, <1>5, <1>6, <1>7 DEF Next
--------------------------------------------------------------------------
(* What was answered verifies.                                             *)

\* What a submit nobody interfered with has written so far is on disk.
Progress ==
  \A s \in Servers : req[s] # None =>
    /\ req[s].body = req[s].claim
    /\ s \in alone =>
         /\ pc[s] \in {"sidecar", "sig", "answer"} => bundle[req[s].alert] = req[s].body
         /\ pc[s] \in {"sig", "answer"} => sidecar[req[s].alert] = SidecarOf(req[s])
         /\ pc[s] = "answer" => /\ sig[req[s].alert] \in Signatures
                                /\ sig[req[s].alert].of = SidecarOf(req[s])

\* The three files of answered evidence belong together.
Whole(a) ==
  /\ a \in Alerts /\ sidecar[a] \in Sidecars
  /\ sig[a] \in Signatures /\ sig[a].of = sidecar[a]
  /\ bundle[a] = sidecar[a].claim

IntactWhole == \A a \in intact : Whole(a)

AInv == KInv /\ Progress /\ IntactWhole

\* A step of which nobody's submit but that of S sees a change of its files, and
\* that leaves the files of what stays intact.
LEMMA AInvFrame ==
  ASSUME AInv, KInv', NEW S \in SUBSET Servers,
         \A t \in Servers \ S : req'[t] # None => req'[t] = req[t] /\ pc'[t] = pc[t],
         \A t \in Servers \ S : t \in alone' /\ req'[t] # None =>
            /\ t \in alone
            /\ bundle'[req[t].alert] = bundle[req[t].alert]
            /\ sidecar'[req[t].alert] = sidecar[req[t].alert]
            /\ sig'[req[t].alert] = sig[req[t].alert],
         \A t \in S : req'[t] = None,
         intact' \subseteq intact,
         \A a \in intact' : bundle'[a] = bundle[a] /\ sidecar'[a] = sidecar[a] /\ sig'[a] = sig[a]
  PROVE  AInv'
  <1>1. Progress'
    <2> SUFFICES ASSUME NEW t \in Servers, req'[t] # None
                 PROVE  /\ req'[t].body = req'[t].claim
                        /\ t \in alone' =>
                             /\ pc'[t] \in {"sidecar", "sig", "answer"} =>
                                  bundle'[req'[t].alert] = req'[t].body
                             /\ pc'[t] \in {"sig", "answer"} =>
                                  sidecar'[req'[t].alert] = SidecarOf(req'[t])
                             /\ pc'[t] = "answer" =>
                                  /\ sig'[req'[t].alert] \in Signatures
                                  /\ sig'[req'[t].alert].of = SidecarOf(req'[t])
      BY DEF Progress, SidecarOf
    <2>1. t \in Servers \ S /\ req'[t] = req[t] /\ pc'[t] = pc[t]
      OBVIOUS
    <2> QED
      BY <2>1 DEF AInv, Progress
  <1>2. IntactWhole'
    BY DEF AInv, IntactWhole, Whole
  <1> QED
    BY <1>1, <1>2 DEF AInv

\* Reading a request: nothing is written, and nothing is claimed of it yet.
LEMMA ReceiveStep ==
  ASSUME AInv, KInv', NEW s \in Servers, Receive(s)
  PROVE  AInv'
  <1>0. req \in [Servers -> Requests \cup {None}] /\ pc \in [Servers -> {"idle", "bundle", "sidecar", "sig", "answer"}]
    BY DEF AInv, KInv, IInv, LockerTypes
  <1>1. PICK r \in Requests :
          IF HashMatches(r)
          THEN /\ pc' = [pc EXCEPT ![s] = "bundle"]
               /\ req' = [req EXCEPT ![s] = r]
               /\ alone' = alone \cup {s}
          ELSE UNCHANGED <<pc, req, alone>>
    BY DEF Receive
  <1>2. UNCHANGED <<bundle, sidecar, sig, intact>>
    BY DEF Receive, disk
  <1>3. IntactWhole'
    BY <1>2 DEF AInv, IntactWhole, Whole
  <1>4. CASE ~HashMatches(r)
    <2>1. Progress'
      BY <1>1, <1>2, <1>4 DEF AInv, Progress, SidecarOf
    <2> QED
      BY <1>3, <2>1 DEF AInv
  <1>5. CASE HashMatches(r)
    <2>1. /\ pc'[s] = "bundle" /\ req'[s] = r /\ r.body = r.claim
          /\ \A t \in Servers \ {s} : pc'[t] = pc[t] /\ req'[t] = req[t] /\ (t \in alone' <=> t \in alone)
      BY <1>0, <1>1, <1>5 DEF HashMatches
    <2>2. Progress'
      BY <1>2, <2>1 DEF AInv, Progress, SidecarOf
    <2> QED
      BY <1>3, <2>2 DEF AInv
  <1> QED
    BY <1>4, <1>5

\* The three writes of submit.
LEMMA WriteStep ==
  ASSUME AInv, KInv', NEW s \in Servers, WriteBundle(s) \/ WriteSidecar(s) \/ WriteSig(s)
  PROVE  AInv'
  <1>0. pc[s] # "idle" /\ IInv
    BY DEF WriteBundle, WriteSidecar, WriteSig, AInv, KInv
  <1>1. /\ req[s] \in Requests /\ req[s] # None
        /\ req[s].alert \in Alerts /\ req[s].body \in Bundles
        /\ SidecarOf(req[s]) \in Sidecars
    BY <1>0, RequestParts
  <1>2. PICK x \in Alerts : x = req[s].alert
    BY <1>1
  <1>3. /\ intact' = intact \ {x} /\ UNCHANGED req
        /\ alone' = alone \ (SubmitsOf(x) \ {s})
    BY <1>2 DEF WriteBundle, WriteSidecar, WriteSig, Written
  <1>4. /\ bundle \in [Alerts -> Bundles \cup {None, Edited}]
        /\ sidecar \in [Alerts -> Sidecars \cup {None, Edited}]
        /\ sig \in [Alerts -> Signatures \cup {None, Edited}]
        /\ pc \in [Servers -> {"idle", "bundle", "sidecar", "sig", "answer"}]
        /\ active[s] \in Keys
    BY <1>0 DEF IInv, LockerTypes
  <1>5. /\ req[s].body = req[s].claim
        /\ s \in alone =>
             /\ pc[s] \in {"sidecar", "sig", "answer"} => bundle[x] = req[s].body
             /\ pc[s] \in {"sig", "answer"} => sidecar[x] = SidecarOf(req[s])
    BY <1>1, <1>2 DEF AInv, Progress
  <1>6. /\ \A a \in Alerts \ {x} : /\ bundle'[a] = bundle[a] /\ sidecar'[a] = sidecar[a]
                                  /\ sig'[a] = sig[a]
        /\ \A t \in Servers \ {s} : pc'[t] = pc[t]
        /\ s \in alone =>
             /\ pc'[s] \in {"sidecar", "sig", "answer"} => bundle'[x] = req[s].body
             /\ pc'[s] \in {"sig", "answer"} => sidecar'[x] = SidecarOf(req[s])
             /\ pc'[s] = "answer" => sig'[x] \in Signatures /\ sig'[x].of = SidecarOf(req[s])
    <2>1. CASE WriteBundle(s)
      <3>1. /\ bundle' = [bundle EXCEPT ![x] = req[s].body] /\ pc' = [pc EXCEPT ![s] = "sidecar"]
            /\ sidecar' = sidecar /\ sig' = sig
        BY <1>2, <2>1 DEF WriteBundle
      <3> QED
        BY <1>4, <3>1
    <2>2. CASE WriteSidecar(s)
      <3>1. /\ sidecar' = [sidecar EXCEPT ![x] = SidecarOf(req[s])] /\ pc' = [pc EXCEPT ![s] = "sig"]
            /\ bundle' = bundle /\ sig' = sig /\ pc[s] = "sidecar"
        BY <1>2, <2>2 DEF WriteSidecar
      <3> QED
        BY <1>4, <1>5, <3>1
    <2>3. CASE WriteSig(s)
      <3>1. PICK g \in Signatures :
              /\ sig' = [sig EXCEPT ![x] = g] /\ pc' = [pc EXCEPT ![s] = "answer"]
              /\ g.of = SidecarOf(req[s])
              /\ bundle' = bundle /\ sidecar' = sidecar /\ pc[s] = "sig"
        BY <1>1, <1>2, <1>4, <2>3 DEF WriteSig, SigningKey, Signatures
      <3> QED
        BY <1>4, <1>5, <3>1
    <2> QED
      BY <2>1, <2>2, <2>3
  <1>7. IntactWhole'
    <2>1. \A a \in intact' : a # x /\ a \in Alerts /\ a \in intact
      BY <1>3 DEF AInv, IntactWhole, Whole
    <2> QED
      BY <1>6, <2>1 DEF AInv, IntactWhole, Whole
  <1>8. ASSUME NEW t \in Servers \ {s}, req[t] # None, t \in alone' PROVE req[t].alert \in Alerts \ {x} /\ t \in alone
    <2>1. t \notin SubmitsOf(x) /\ t \in alone
      BY <1>3, <1>8
    <2>2. req[t] \in Requests
      BY <1>0, <1>8 DEF IInv, LockerTypes
    <2> QED
      BY <1>8, <2>1, <2>2 DEF SubmitsOf, Requests
  <1>9. Progress'
    <2> SUFFICES ASSUME NEW t \in Servers, req[t] # None
                 PROVE  /\ req[t].body = req[t].claim
                        /\ t \in alone' =>
                             /\ pc'[t] \in {"sidecar", "sig", "answer"} =>
                                  bundle'[req[t].alert] = req[t].body
                             /\ pc'[t] \in {"sig", "answer"} =>
                                  sidecar'[req[t].alert] = SidecarOf(req[t])
                             /\ pc'[t] = "answer" =>
                                  /\ sig'[req[t].alert] \in Signatures
                                  /\ sig'[req[t].alert].of = SidecarOf(req[t])
      BY <1>3 DEF Progress, SidecarOf
    <2>1. CASE t = s
      BY <1>2, <1>3, <1>5, <1>6, <2>1
    <2>2. CASE t # s
      BY <1>6, <1>8, <2>2 DEF AInv, Progress
    <2> QED
      BY <2>1, <2>2
  <1> QED
    BY <1>7, <1>9 DEF AInv

\* 201: what is answered is whole, because Progress holds to the end.
LEMMA AnswerStep ==
  ASSUME AInv, KInv', NEW s \in Servers, Answer(s)
  PROVE  AInv'
  <1>1. pc[s] = "answer" /\ IInv
    BY DEF Answer, AInv, KInv
  <1>2. /\ req[s] \in Requests /\ req[s] # None
        /\ req[s].alert \in Alerts /\ req[s].body \in Bundles
        /\ SidecarOf(req[s]) \in Sidecars /\ SidecarOf(req[s]).claim = req[s].claim
    BY <1>1, RequestParts
  <1>3. /\ req' = [req EXCEPT ![s] = None] /\ pc' = [pc EXCEPT ![s] = "idle"]
        /\ intact' = IF s \in alone THEN intact \cup {req[s].alert} ELSE intact
        /\ UNCHANGED <<bundle, sidecar, sig, alone>>
    BY DEF Answer, Idle, disk
  <1>4. s \in alone => Whole(req[s].alert)
    <2>1. /\ req[s].body = req[s].claim
          /\ s \in alone => /\ bundle[req[s].alert] = req[s].body
                            /\ sidecar[req[s].alert] = SidecarOf(req[s])
                            /\ sig[req[s].alert] \in Signatures
                            /\ sig[req[s].alert].of = SidecarOf(req[s])
      BY <1>1, <1>2 DEF AInv, Progress
    <2> QED
      BY <1>2, <2>1 DEF Whole
  <1>5. IntactWhole'
    <2>1. \A a \in intact' : Whole(a)
      BY <1>3, <1>4 DEF AInv, IntactWhole
    <2> QED
      BY <1>3, <2>1 DEF IntactWhole, Whole
  <1>6. Progress'
    <2>1. req'[s] = None /\ \A t \in Servers \ {s} : req'[t] = req[t] /\ pc'[t] = pc[t]
      BY <1>1, <1>3 DEF IInv, LockerTypes
    <2> QED
      BY <1>3, <2>1 DEF AInv, Progress, SidecarOf
  <1> QED
    BY <1>5, <1>6 DEF AInv

\* A submit that ends where it stands: the file it may have cut short is not
\* intact, and no other submit for its alert counts as alone.
LEMMA StopStep ==
  ASSUME AInv, KInv', NEW s \in Servers, Stop(s)
  PROVE  AInv'
  <1>1. IInv /\ LockerTypes
    BY DEF AInv, KInv, IInv
  <1>2. req'[s] = None /\ \A t \in Servers \ {s} : req'[t] = req[t] /\ pc'[t] = pc[t]
    BY <1>1 DEF Stop, Idle, LockerTypes
  <1>3. {s} \in SUBSET Servers /\ \A t \in {s} : req'[t] = None
    BY <1>2
  <1>4. CASE UNCHANGED <<disk, intact, alone>>
    <2>1. UNCHANGED <<bundle, sidecar, sig, intact, alone>>
      BY <1>4 DEF disk
    <2> QED
      BY <1>2, <1>3, <2>1, AInvFrame
  <1>5. CASE CutShort(s)
    <2>1. pc[s] # "idle"
      BY <1>5 DEF CutShort
    <2>2. PICK x \in Alerts : x = req[s].alert
      BY <1>1, <2>1, RequestParts
    <2>3. /\ intact' = intact \ {x} /\ alone' = alone \ (SubmitsOf(x) \ {s})
          /\ \A a \in Alerts \ {x} : /\ bundle'[a] = bundle[a] /\ sidecar'[a] = sidecar[a]
                                     /\ sig'[a] = sig[a]
      BY <1>1, <1>5, <2>2 DEF CutShort, Written, LockerTypes
    <2>4. ASSUME NEW t \in Servers \ {s}, t \in alone', req'[t] # None
          PROVE  t \in alone /\ req[t].alert \in Alerts \ {x}
      <3>1. t \notin SubmitsOf(x) /\ t \in alone /\ req[t] # None
        BY <1>2, <2>3, <2>4
      <3>2. req[t] \in Requests
        BY <1>1, <3>1 DEF LockerTypes
      <3> QED
        BY <3>1, <3>2 DEF SubmitsOf, Requests
    <2>5. \A a \in intact' : a \in Alerts \ {x}
      BY <2>3 DEF AInv, IntactWhole, Whole
    <2> QED
      BY <1>2, <1>3, <2>3, <2>4, <2>5, AInvFrame
  <1> QED
    BY <1>4, <1>5 DEF Stop

\* Somebody edits a file: its alert is not intact, and no submit for it alone.
LEMMA EditStep ==
  ASSUME AInv, KInv', Edit
  PROVE  AInv'
  <1>1. LockerTypes
    BY DEF AInv, KInv, IInv
  <1>2. PICK x \in Alerts :
          /\ \/ bundle' = [bundle EXCEPT ![x] = Edited] /\ UNCHANGED <<sidecar, sig>>
             \/ sidecar' = [sidecar EXCEPT ![x] = Edited] /\ UNCHANGED <<bundle, sig>>
             \/ sig' = [sig EXCEPT ![x] = Edited] /\ UNCHANGED <<bundle, sidecar>>
          /\ intact' = intact \ {x}
          /\ alone' = alone \ SubmitsOf(x)
    BY DEF Edit
  <1>3. UNCHANGED <<req, pc>>
    BY DEF Edit
  <1>4. \A a \in Alerts \ {x} : bundle'[a] = bundle[a] /\ sidecar'[a] = sidecar[a] /\ sig'[a] = sig[a]
    BY <1>1, <1>2 DEF LockerTypes
  <1>5. ASSUME NEW t \in Servers, t \in alone', req'[t] # None
        PROVE  t \in alone /\ req[t].alert \in Alerts \ {x}
    <2>1. t \notin SubmitsOf(x) /\ t \in alone /\ req[t] # None
      BY <1>2, <1>3, <1>5
    <2>2. req[t] \in Requests
      BY <1>1, <2>1 DEF LockerTypes
    <2> QED
      BY <2>1, <2>2 DEF SubmitsOf, Requests
  <1>6. \A a \in intact' : a \in Alerts \ {x}
    BY <1>2 DEF AInv, IntactWhole, Whole
  <1>7. {} \in SUBSET Servers
    OBVIOUS
  <1> QED
    BY <1>2, <1>3, <1>4, <1>5, <1>6, <1>7, AInvFrame

\* Evidence that was answered 201 verifies, with the bundle its sidecar speaks
\* of, in every process that has kept its key: through overlapping submits of
\* other processes, repeated requests, failing writes, stops, rotations and
\* edits, as long as its files were not written to.
THEOREM AnsweredSafe == Spec => []AnsweredVerifies
  <1>1. Init => AInv
    <2> SUFFICES ASSUME Init PROVE AInv
      OBVIOUS
    <2>1. Progress /\ IntactWhole
      BY DEF Init, Progress, IntactWhole
    <2> QED
      BY <2>1, KInvInit DEF AInv
  <1>2. AInv /\ [Next]_vars => AInv'
    <2> SUFFICES ASSUME AInv, [Next]_vars PROVE AInv'
      OBVIOUS
    <2>1. KInv'
      BY KInvStep DEF AInv
    <2>2. CASE UNCHANGED <<req, pc, bundle, sidecar, sig, alone, intact>>
      <3>1. {} \in SUBSET Servers
        OBVIOUS
      <3> QED
        BY <2>1, <2>2, <3>1, AInvFrame
    <2>3. CASE UNCHANGED vars
      BY <2>2, <2>3 DEF vars, disk
    <2>4. ASSUME NEW s \in Servers, Rotate(s) PROVE AInv'
      BY <2>2, <2>4 DEF Rotate, disk
    <2>5. ASSUME NEW s \in Servers, Fails(s) \/ Restart(s) PROVE AInv'
      BY <2>1, <2>5, StopStep DEF Fails, Restart
    <2> QED
      BY <2>1, <2>3, <2>4, <2>5, EditStep, ReceiveStep, WriteStep, AnswerStep DEF Next
  <1>3. AInv => AnsweredVerifies
    <2> SUFFICES ASSUME AInv, NEW s \in Servers, NEW a \in intact, KeyIsKept(s, a)
                 PROVE  Verify(s, a) /\ bundle[a] = sidecar[a].claim
      BY DEF AnsweredVerifies
    <2>1. Whole(a)
      BY DEF AInv, IntactWhole
    <2>2. sig[a].key \in keys[s]
      <3>1. CASE signed[a].by = s
        BY <2>1, <3>1 DEF AInv, KInv, Signer, Whole, KeyIsKept
      <3>2. CASE signed[a].turn = 0
        <4>1. sig[a].key = EnvKey /\ turns[s] <= 0 + 1
          BY <2>1, <3>2 DEF AInv, KInv, Signer, Whole, KeyIsKept
        <4>2. turns[s] <= 1
          BY <4>1
        <4> QED
          BY <4>1, <4>2 DEF AInv, KInv, Held
      <3> QED
        BY <3>1, <3>2 DEF KeyIsKept
    <2>3. sig[a] = [key |-> sig[a].key, of |-> sidecar[a]]
      BY <2>1 DEF Whole, Signatures
    <2> QED
      BY <2>1, <2>2, <2>3, NoneIsNew DEF Whole, Verify, SignatureMatches
  <1> QED
    BY <1>1, <1>2, <1>3, PTL DEF Spec
=============================================================================
