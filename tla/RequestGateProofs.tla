------------------------- MODULE RequestGateProofs -------------------------
(***************************************************************************)
(* Proofs about RequestGate and the audit log it ends in.  Two arguments   *)
(* that do not touch each other:                                           *)
(*   - the audit log: what is on disk is in the order of recording, day by *)
(*     day and line by line; what is buffered is newer than all of it; and *)
(*     no file is newer than the open one.  Appending the buffer then      *)
(*     keeps the order, whichever file operation fails;                    *)
(*   - the limiters: the hits kept for a client are the end of the list of *)
(*     all that were admitted, and everything before them is older than    *)
(*     the window.                                                         *)
(***************************************************************************)
EXTENDS RequestGate, Integers, FiniteSetTheorems, WellFoundedInduction, TLAPS

(* The inductive invariant of the audit log.                               *)

\* Every line of fs is newer than the lines before it, in its file and in the
\* files of earlier days.
Ordered(fs) ==
  \A d1, d2 \in Days : \A m \in 1..Len(fs[d1]), n \in 1..Len(fs[d2]) :
    (d1 < d2 \/ (d1 = d2 /\ m < n)) => fs[d1][m] < fs[d2][n]

Increasing(s) == \A i, j \in 1..Len(s) : i < j => s[i] < s[j]

\* The lines are newer than everything on disk.
Newer(fs, lines) ==
  \A d \in Days : \A m \in 1..Len(fs[d]), i \in 1..Len(lines) : fs[d][m] < lines[i]

\* No file of a later day than d has a line.
NothingAfter(fs, d) == \A x \in Days : x > d => fs[x] = <<>>

\* The buffer is that of the open file, which is the newest.
BufferOfHandle ==
  /\ handle = NoHandle => buffer = <<>>
  /\ handle <= day
  /\ handle # NoHandle => NothingAfter(files, handle)
  /\ NothingAfter(files, day)

AuditInv ==
  /\ Ordered(files)
  /\ Increasing(buffer) /\ Newer(files, buffer)
  /\ BufferOfHandle
  /\ Increasing(ring)
  /\ EntryAccounted
--------------------------------------------------------------------------
(* Lemmas about lines, files and the ring.                                 *)

LEMMA ConcatParts ==
  ASSUME NEW T, NEW s \in Seq(T), NEW t \in Seq(T)
  PROVE  /\ s \o t \in Seq(T)
         /\ Len(s \o t) = Len(s) + Len(t)
         /\ \A i \in 1..Len(s) : (s \o t)[i] = s[i]
         /\ \A i \in 1..Len(t) : (s \o t)[Len(s) + i] = t[i]
         /\ \A i \in 1..Len(s) + Len(t) : i > Len(s) => (s \o t)[i] = t[i - Len(s)]
         /\ Elements(s \o t) = Elements(s) \cup Elements(t)
PROOF
<1>1. /\ s \o t \in Seq(T)
      /\ Len(s \o t) = Len(s) + Len(t)
      /\ \A i \in 1..Len(s) : (s \o t)[i] = s[i]
      /\ \A i \in 1..Len(t) : (s \o t)[Len(s) + i] = t[i]
      /\ \A i \in 1..Len(s) + Len(t) : i > Len(s) => (s \o t)[i] = t[i - Len(s)]
  OBVIOUS
<1>2. Elements(s \o t) = Elements(s) \cup Elements(t)
  <2>1. DOMAIN s = 1..Len(s) /\ DOMAIN t = 1..Len(t) /\ DOMAIN (s \o t) = 1..Len(s) + Len(t)
        /\ Len(s) \in Nat /\ Len(t) \in Nat
    BY <1>1
  <2>2. ASSUME NEW i \in 1..Len(t)
        PROVE  Len(s) + i \in 1..Len(s) + Len(t) /\ (s \o t)[Len(s) + i] = t[i]
    BY <1>1, <2>1
  <2>3. ASSUME NEW i \in 1..Len(s)
        PROVE  i \in 1..Len(s) + Len(t) /\ (s \o t)[i] = s[i]
    BY <1>1, <2>1
  <2>4. ASSUME NEW i \in 1..Len(s) + Len(t), i \notin 1..Len(s)
        PROVE  i - Len(s) \in 1..Len(t) /\ (s \o t)[i] = t[i - Len(s)]
    <3>1. i > Len(s) /\ i - Len(s) \in 1..Len(t) BY <2>1, <2>4
    <3> QED BY <1>1, <3>1
  <2> DEFINE u == s \o t
  <2>5. \A i \in 1..Len(s) + Len(t) : u[i] \in Elements(s) \cup Elements(t)
    BY <2>1, <2>3, <2>4 DEF Elements
  <2>6. \A i \in 1..Len(s) : s[i] \in Elements(u) BY <2>1, <2>3 DEF Elements
  <2>7. \A i \in 1..Len(t) : t[i] \in Elements(u) BY <2>1, <2>2 DEF Elements
  <2>8. DOMAIN u = 1..Len(s) + Len(t) BY <2>1
  <2> HIDE DEF u
  <2>9. Elements(u) \subseteq Elements(s) \cup Elements(t) BY <2>5, <2>8 DEF Elements
  <2>10. Elements(s) \cup Elements(t) \subseteq Elements(u) BY <2>6, <2>7, <2>1 DEF Elements
  <2> QED BY <2>9, <2>10 DEF u
<1> QED BY <1>1, <1>2

\* The files with the lines at the end of the file of day d.
Written(fs, d, lines) == [fs EXCEPT ![d] = @ \o lines]

LinesOf(N, fs, lines) == N \subseteq Int /\ fs \in [Days -> Seq(N)] /\ lines \in Seq(N)

\* Writing newer lines to the newest file keeps the order of the files.
LEMMA WriteOrdered ==
  ASSUME NEW N, NEW fs, NEW lines, NEW d \in Days, LinesOf(N, fs, lines),
         Ordered(fs), Increasing(lines), Newer(fs, lines), NothingAfter(fs, d)
  PROVE  /\ Written(fs, d, lines) \in [Days -> Seq(N)]
         /\ Ordered(Written(fs, d, lines))
         /\ NothingAfter(Written(fs, d, lines), d)
         /\ Elements(Written(fs, d, lines)[d]) = Elements(fs[d]) \cup Elements(lines)
         /\ \A x \in Days \ {d} : Written(fs, d, lines)[x] = fs[x]
PROOF
<1> USE DEF LinesOf
<1> DEFINE gs == [fs EXCEPT ![d] = @ \o lines]
<1>1. gs[d] = fs[d] \o lines /\ \A x \in Days \ {d} : gs[x] = fs[x]
  OBVIOUS
<1>2. /\ fs[d] \o lines \in Seq(N)
      /\ Len(gs[d]) = Len(fs[d]) + Len(lines)
      /\ \A i \in 1..Len(fs[d]) : gs[d][i] = fs[d][i]
      /\ \A i \in 1..Len(fs[d]) + Len(lines) : i > Len(fs[d]) => gs[d][i] = lines[i - Len(fs[d])]
      /\ Elements(gs[d]) = Elements(fs[d]) \cup Elements(lines)
  <2>1. fs[d] \in Seq(N) OBVIOUS
  <2> HIDE DEF gs
  <2> QED BY <1>1, <2>1, ConcatParts
<1>3. gs \in [Days -> Seq(N)]
  BY <1>2
<1>4. NothingAfter(gs, d)
  <2> SUFFICES ASSUME NEW x \in Days, x > d PROVE gs[x] = <<>>
    BY DEF NothingAfter
  <2> x # d BY DEF Days
  <2> QED BY <1>1 DEF NothingAfter
<1>5. Ordered(gs)
  <2> HIDE DEF gs
  <2> SUFFICES ASSUME NEW d1 \in Days, NEW d2 \in Days,
                      NEW m \in 1..Len(gs[d1]), NEW n \in 1..Len(gs[d2]),
                      d1 < d2 \/ (d1 = d2 /\ m < n)
               PROVE  gs[d1][m] < gs[d2][n]
    BY DEF Ordered
  <2>0. Len(fs[d1]) \in Nat /\ Len(fs[d2]) \in Nat /\ Len(fs[d]) \in Nat /\ Len(lines) \in Nat
        /\ d \in Nat /\ d1 \in Nat /\ d2 \in Nat
    BY DEF Days
  <2>1. CASE d1 # d /\ d2 # d
    BY <2>1, <1>1 DEF Ordered
  <2>2. CASE d1 = d /\ d2 # d
    <3>1. gs[d2] = <<>> BY <2>2, <2>0, <1>4 DEF NothingAfter
    <3> QED BY <3>1
  <2>3. CASE d1 # d /\ d2 = d /\ n <= Len(fs[d])
    <3>1. gs[d1] = fs[d1] /\ gs[d2][n] = fs[d][n] /\ n \in 1..Len(fs[d]) BY <2>3, <2>0, <1>1, <1>2
    <3> QED BY <3>1, <2>3 DEF Ordered
  <2>4. CASE d1 # d /\ d2 = d /\ n > Len(fs[d])
    <3>1. gs[d1] = fs[d1] /\ gs[d2][n] = lines[n - Len(fs[d])] /\ n - Len(fs[d]) \in 1..Len(lines)
      BY <2>4, <2>0, <1>1, <1>2
    <3> QED BY <3>1 DEF Newer
  <2>5. CASE d1 = d /\ d2 = d /\ n <= Len(fs[d])
    <3>1. gs[d1][m] = fs[d][m] /\ gs[d2][n] = fs[d][n] /\ n \in 1..Len(fs[d]) /\ m \in 1..Len(fs[d])
          /\ m < n
      BY <2>5, <2>0, <1>2
    <3> QED BY <3>1 DEF Ordered
  <2>6. CASE d1 = d /\ d2 = d /\ n > Len(fs[d]) /\ m <= Len(fs[d])
    <3>1. gs[d1][m] = fs[d][m] /\ m \in 1..Len(fs[d])
          /\ gs[d2][n] = lines[n - Len(fs[d])] /\ n - Len(fs[d]) \in 1..Len(lines)
      BY <2>6, <2>0, <1>2, SMTT(30)
    <3> QED BY <3>1 DEF Newer
  <2>7. CASE d1 = d /\ d2 = d /\ m > Len(fs[d])
    <3>1. gs[d1][m] = lines[m - Len(fs[d])] /\ m - Len(fs[d]) \in 1..Len(lines)
          /\ gs[d2][n] = lines[n - Len(fs[d])] /\ n - Len(fs[d]) \in 1..Len(lines)
          /\ m - Len(fs[d]) < n - Len(fs[d])
      BY <2>7, <2>0, <1>2
    <3> QED BY <3>1 DEF Increasing
  <2> QED BY <2>0, <2>1, <2>2, <2>3, <2>4, <2>5, <2>6, <2>7
<1> QED BY <1>1, <1>2, <1>3, <1>4, <1>5 DEF Written

LEMMA LastParts ==
  ASSUME NEW T, NEW s \in Seq(T), NEW k \in Nat \ {0}
  PROVE  /\ Last(s, k) \in Seq(T) /\ Len(Last(s, k)) <= k
         /\ \E o \in Nat : /\ Len(s) = o + Len(Last(s, k))
                           /\ \A i \in 1..Len(Last(s, k)) : Last(s, k)[i] = s[o + i]
PROOF
<1> DEFINE o == IF Len(s) > k THEN Len(s) - k ELSE 0
<1>1. o \in Nat /\ o <= Len(s) /\ Len(s) - o <= k /\ Len(s) \in Nat OBVIOUS
<1>2. Last(s, k) = SubSeq(s, o + 1, Len(s)) BY DEF Last
<1> HIDE DEF o
<1>3. /\ SubSeq(s, o + 1, Len(s)) \in Seq(T) /\ Len(SubSeq(s, o + 1, Len(s))) = Len(s) - o
      /\ \A i \in 1..Len(s) - o : SubSeq(s, o + 1, Len(s))[i] = s[o + i]
  BY <1>1
<1> QED BY <1>1, <1>2, <1>3

LEMMA AppendIncreasing ==
  ASSUME NEW n \in Nat, NEW s \in Seq(1..n), Increasing(s)
  PROVE  /\ Append(s, n + 1) \in Seq(1..n + 1) /\ Increasing(Append(s, n + 1))
         /\ Elements(Append(s, n + 1)) = Elements(s) \cup {n + 1}
PROOF
<1>1. /\ Append(s, n + 1) \in Seq(1..n + 1) /\ Len(Append(s, n + 1)) = Len(s) + 1
      /\ \A i \in 1..Len(s) : Append(s, n + 1)[i] = s[i] /\ s[i] \in 1..n
      /\ Append(s, n + 1)[Len(s) + 1] = n + 1 /\ Len(s) \in Nat
  <2>1. s \in Seq(1..n + 1)
    <3>1. \A i \in 1..Len(s) : s[i] \in 1..n + 1 OBVIOUS
    <3> QED BY <3>1
  <2> QED BY <2>1
<1> DEFINE t == Append(s, n + 1)
<1>2. DOMAIN t = 1..Len(s) + 1 /\ DOMAIN s = 1..Len(s) BY <1>1
<1> HIDE DEF t
<1>3. Increasing(t)
  <2>1. /\ Len(t) = Len(s) + 1 /\ Len(s) \in Nat /\ t[Len(s) + 1] = n + 1
        /\ \A i \in 1..Len(s) : t[i] = s[i] /\ s[i] \in 1..n
    BY <1>1 DEF t
  <2> SUFFICES ASSUME NEW i \in 1..Len(t), NEW j \in 1..Len(t), i < j PROVE t[i] < t[j]
    BY DEF Increasing
  <2>2. i \in 1..Len(s) /\ t[i] = s[i] /\ s[i] \in 1..n BY <2>1
  <2>3. CASE j = Len(s) + 1 BY <2>1, <2>2, <2>3
  <2>4. CASE j # Len(s) + 1
    <3>0. Len(t) = Len(s) + 1 /\ Len(s) \in Nat BY <2>1
    <3>1. j \in 1..Len(s) BY <3>0, <2>4
    <3> QED BY <2>1, <2>2, <3>1 DEF Increasing
  <2> QED BY <2>3, <2>4
<1>4. Elements(t) = Elements(s) \cup {n + 1}
  <2>1. \A i \in 1..Len(s) + 1 : i \in 1..Len(s) \/ i = Len(s) + 1 BY <1>1
  <2>2. \A i \in 1..Len(s) : i \in 1..Len(s) + 1 BY <1>1
  <2>3. Len(s) + 1 \in 1..Len(s) + 1 BY <1>1
  <2> QED BY <1>1, <1>2, <2>1, <2>2, <2>3 DEF Elements, t
<1> QED BY <1>1, <1>3, <1>4 DEF t

LEMMA ElementTyped ==
  ASSUME NEW T, NEW t \in Seq(T), NEW k \in 1..Len(t)
  PROVE  t[k] \in T
PROOF OBVIOUS

\* What is typed for n entries is typed for n + 1.
LEMMA Grown ==
  ASSUME NEW n \in Nat, NEW s \in Seq(1..n)
  PROVE  s \in Seq(1..n + 1)
PROOF
<1>1. \A i \in 1..Len(s) : s[i] \in 1..n + 1 OBVIOUS
<1> QED BY <1>1
--------------------------------------------------------------------------
(* The steps of the audit log.                                             *)

\* The primed invariant, part by part.
LEMMA AuditPrimed ==
  ASSUME Ordered(files'), Increasing(buffer'), Newer(files', buffer'),
         (handle' = NoHandle) => (buffer' = <<>>), handle' <= day',
         (handle' # NoHandle) => NothingAfter(files', handle'), NothingAfter(files', day'),
         Increasing(ring'), EntryAccounted'
  PROVE  AuditInv'
PROOF BY DEF AuditInv, BufferOfHandle, Ordered, Increasing, Newer, NothingAfter

\* record always puts the entry into the ring.
LEMMA RingStep ==
  ASSUME AuditTypeOK, Increasing(ring), ring' = Last(Append(ring, recorded + 1), AuditMax)
  PROVE  ring' \in Seq(1..recorded + 1) /\ Len(ring') <= AuditMax /\ Increasing(ring')
PROOF
<1> DEFINE s == Append(ring, recorded + 1)
<1>1. recorded \in Nat /\ ring \in Seq(1..recorded) /\ AuditMax \in Nat \ {0}
  BY AuditAssumption DEF AuditTypeOK
<1>2. s \in Seq(1..recorded + 1) /\ Increasing(s)
  BY <1>1, AppendIncreasing
<1> HIDE DEF s
<1>3. ring' = Last(s, AuditMax) BY DEF s
<1>4. /\ Last(s, AuditMax) \in Seq(1..recorded + 1) /\ Len(Last(s, AuditMax)) <= AuditMax
      /\ \E o \in Nat : /\ Len(s) = o + Len(Last(s, AuditMax))
                        /\ \A i \in 1..Len(Last(s, AuditMax)) : Last(s, AuditMax)[i] = s[o + i]
  BY <1>1, <1>2, LastParts
<1>5. PICK o \in Nat : /\ Len(s) = o + Len(ring')
                       /\ \A i \in 1..Len(ring') : ring'[i] = s[o + i]
  BY <1>3, <1>4
<1>6. Increasing(ring')
  <2> SUFFICES ASSUME NEW i \in 1..Len(ring'), NEW j \in 1..Len(ring'), i < j
               PROVE  ring'[i] < ring'[j]
    BY DEF Increasing
  <2>1. Len(ring') \in Nat /\ Len(s) \in Nat BY <1>2, <1>3, <1>4
  <2>2. o + i \in 1..Len(s) /\ o + j \in 1..Len(s) /\ o + i < o + j BY <1>5, <2>1
  <2> QED BY <1>2, <1>5, <2>2 DEF Increasing
<1> QED BY <1>3, <1>4, <1>6

\* Closing the old file: the lines it keeps are in order, and every line that
\* was buffered is in the file or lost.
LEMMA CloseStep ==
  ASSUME AuditTypeOK, AuditInv, NEW ok \in BOOLEAN
  PROVE  /\ Closed(ok) \in [Days -> Seq(1..recorded)]
         /\ Ordered(Closed(ok)) /\ NothingAfter(Closed(ok), day)
         /\ \A d \in Days : Elements(files[d]) \subseteq Elements(Closed(ok)[d])
         /\ \A e \in Elements(buffer) :
              (\E d \in Days : e \in Elements(Closed(ok)[d])) \/ e \in LostByClose(ok)
PROOF
<1>1. /\ files \in [Days -> Seq(1..recorded)] /\ buffer \in Seq(1..recorded)
      /\ handle \in {NoHandle} \cup Days /\ recorded \in Nat /\ day \in Days
  BY DEF AuditTypeOK
<1>2. /\ Ordered(files) /\ Increasing(buffer) /\ Newer(files, buffer)
      /\ (handle = NoHandle) => (buffer = <<>>)
      /\ handle <= day
      /\ (handle # NoHandle) => NothingAfter(files, handle)
      /\ NothingAfter(files, day)
  BY DEF AuditInv, BufferOfHandle
<1>3. CASE handle = NoHandle \/ ~ok
  <2>1. Closed(ok) = files BY <1>3 DEF Closed
  <2>2. handle = NoHandle => Elements(buffer) = {} BY <1>2 DEF Elements
  <2>3. ~ok => LostByClose(ok) = Elements(buffer) BY DEF LostByClose
  <2> QED BY <1>1, <1>2, <1>3, <2>1, <2>2, <2>3
<1>4. CASE handle # NoHandle /\ ok
  <2> DEFINE N == 1..recorded
  <2> DEFINE gs == Written(files, handle, buffer)
  <2>1. Closed(ok) = gs BY <1>4 DEF Closed, Written
  <2>2. handle \in Days /\ NothingAfter(files, handle) BY <1>1, <1>2, <1>4
  <2>3. N \subseteq Int BY <1>1
  <2>4. /\ gs \in [Days -> Seq(N)] /\ Ordered(gs)
        /\ Elements(gs[handle]) = Elements(files[handle]) \cup Elements(buffer)
        /\ \A x \in Days \ {handle} : gs[x] = files[x]
    <3> HIDE DEF N
    <3>1. LinesOf(N, files, buffer) BY <1>1, <2>3 DEF N, LinesOf
    <3> QED BY <1>2, <2>2, <3>1, WriteOrdered
  <2> HIDE DEF gs
  <2>5. NothingAfter(gs, day)
    <3> SUFFICES ASSUME NEW x \in Days, x > day PROVE gs[x] = <<>>
      BY DEF NothingAfter
    <3>1. x # handle BY <1>1, <1>2, <2>2 DEF Days
    <3> QED BY <1>2, <2>4, <3>1 DEF NothingAfter
  <2>6. \A d \in Days : Elements(files[d]) \subseteq Elements(gs[d]) BY <2>2, <2>4
  <2>7. \A e \in Elements(buffer) : \E d \in Days : e \in Elements(gs[d]) BY <2>2, <2>4
  <2> QED BY <2>1, <2>4, <2>5, <2>6, <2>7
<1> QED BY <1>3, <1>4

\* Writing and flushing: the lines are in the file or stay in the buffer, and
\* what is on disk stays.
LEMMA FlushStep ==
  ASSUME NEW n \in Nat, NEW d \in Days, NEW ok \in BOOLEAN,
         NEW fs, NEW lines, LinesOf(1..n, fs, lines),
         Ordered(fs), Increasing(lines), Newer(fs, lines), NothingAfter(fs, d),
         Flushed(fs, d, lines, ok)
  PROVE  /\ files' \in [Days -> Seq(1..n)] /\ buffer' \in Seq(1..n)
         /\ Ordered(files') /\ Increasing(buffer') /\ Newer(files', buffer')
         /\ NothingAfter(files', d)
         /\ \A x \in Days : Elements(fs[x]) \subseteq Elements(files'[x])
         /\ \A e \in Elements(lines) :
              (\E x \in Days : e \in Elements(files'[x])) \/ e \in Elements(buffer')
PROOF
<1>1. CASE ~ok
  BY <1>1 DEF Flushed, LinesOf
<1>2. CASE ok
  <2> DEFINE N == 1..n
  <2> DEFINE gs == Written(fs, d, lines)
  <2>1. files' = gs /\ buffer' = <<>> BY <1>2 DEF Flushed, Written
  <2>2. /\ gs \in [Days -> Seq(N)] /\ Ordered(gs) /\ NothingAfter(gs, d)
        /\ Elements(gs[d]) = Elements(fs[d]) \cup Elements(lines)
        /\ \A x \in Days \ {d} : gs[x] = fs[x]
    <3> HIDE DEF N
    <3>1. LinesOf(N, fs, lines) BY DEF N
    <3> QED BY <3>1, WriteOrdered
  <2> HIDE DEF gs
  <2>4. Increasing(buffer') /\ Newer(files', buffer') /\ buffer' \in Seq(1..n)
    BY <2>1 DEF Increasing, Newer
  <2>5. \A x \in Days : Elements(fs[x]) \subseteq Elements(gs[x]) BY <2>2
  <2>6. \A e \in Elements(lines) : \E x \in Days : e \in Elements(gs[x]) BY <2>2
  <2> QED BY <2>1, <2>2, <2>4, <2>5, <2>6
<1> QED BY <1>1, <1>2

\* Where an entry is after the step.
Kept(e) ==
  \/ \E d \in Days : e \in Elements(files'[d])
  \/ handle' # NoHandle /\ e \in Elements(buffer')
  \/ e \in refused'

LEMMA AccountStep ==
  ASSUME AuditTypeOK, EntryAccounted, recorded' \in {recorded, recorded + 1},
         \A d \in Days : Elements(files[d]) \subseteq Elements(files'[d]),
         refused \subseteq refused',
         \A e \in Elements(buffer) : Kept(e),
         recorded' # recorded => Kept(recorded + 1)
  PROVE  EntryAccounted'
PROOF
<1>1. ASSUME NEW e \in 1..recorded' PROVE Kept(e)
  <2>1. recorded \in Nat BY DEF AuditTypeOK
  <2>2. CASE e \in 1..recorded BY <2>2 DEF EntryAccounted, Kept
  <2>3. CASE e \notin 1..recorded
    <3>1. recorded' # recorded /\ e = recorded + 1 BY <2>1, <2>3
    <3> QED BY <3>1
  <2> QED BY <2>2, <2>3
<1> QED BY <1>1 DEF EntryAccounted, Kept, Elements

\* The types of the log, part by part.
LEMMA AuditTyped ==
  ASSUME AuditTypeOK
  PROVE  /\ day \in Days /\ day \in Nat \ {0} /\ recorded \in Nat
         /\ files \in [Days -> Seq(1..recorded)] /\ buffer \in Seq(1..recorded)
         /\ handle \in {NoHandle} \cup Days /\ refused \subseteq 1..recorded
         /\ files \in [Days -> Seq(1..recorded + 1)] /\ buffer \in Seq(1..recorded + 1)
         /\ 1..recorded + 1 \subseteq Int
PROOF
<1>1. /\ day \in Days /\ recorded \in Nat
      /\ files \in [Days -> Seq(1..recorded)] /\ buffer \in Seq(1..recorded)
      /\ handle \in {NoHandle} \cup Days /\ refused \subseteq 1..recorded
  BY DEF AuditTypeOK
<1>2. day \in Nat \ {0} BY <1>1 DEF Days
<1>3. buffer \in Seq(1..recorded + 1) BY <1>1, Grown
<1>4. \A d \in Days : files[d] \in Seq(1..recorded + 1) BY <1>1, Grown
<1>5. files \in [Days -> Seq(1..recorded + 1)] BY <1>1, <1>4
<1>6. 1..recorded + 1 \subseteq Int BY <1>1
<1> QED BY <1>1, <1>2, <1>3, <1>5, <1>6

LEMMA RecordStep ==
  ASSUME AuditTypeOK, AuditInv, NEW closes \in BOOLEAN, NEW opens \in BOOLEAN,
         NEW flushes \in BOOLEAN, Record(closes, opens, flushes)
  PROVE  AuditTypeOK' /\ AuditInv'
PROOF
<1> DEFINE e == recorded + 1
<1>0. /\ day \in Days /\ day \in Nat \ {0} /\ recorded \in Nat
      /\ files \in [Days -> Seq(1..recorded)] /\ buffer \in Seq(1..recorded)
      /\ handle \in {NoHandle} \cup Days /\ refused \subseteq 1..recorded
      /\ files \in [Days -> Seq(1..e)] /\ buffer \in Seq(1..e)
      /\ 1..e \subseteq Int /\ e \in Nat
  BY AuditTyped
<1>1. /\ Ordered(files) /\ Increasing(buffer) /\ Newer(files, buffer)
      /\ (handle = NoHandle) => (buffer = <<>>)
      /\ handle <= day
      /\ (handle # NoHandle) => NothingAfter(files, handle)
      /\ NothingAfter(files, day)
      /\ Increasing(ring) /\ EntryAccounted
  BY DEF AuditInv, BufferOfHandle
<1>2. recorded' = e /\ day' = day /\ warned \in BOOLEAN
  BY DEF Record, AuditTypeOK
<1>a. 1..recorded \subseteq 1..e /\ e \in 1..e BY <1>0
<1>b. e \in Nat /\ day \in Days BY <1>0
<1>3. ring' \in Seq(1..e) /\ Len(ring') <= AuditMax /\ Increasing(ring')
  <2>1. ring' = Last(Append(ring, recorded + 1), AuditMax) BY DEF Record
  <2> QED BY <1>1, <2>1, RingStep
<1>4. SUFFICES
        /\ files' \in [Days -> Seq(1..e)] /\ buffer' \in Seq(1..e)
        /\ handle' \in {NoHandle} \cup Days /\ warned' \in BOOLEAN /\ refused' \subseteq 1..e
        /\ Ordered(files') /\ Increasing(buffer') /\ Newer(files', buffer')
        /\ (handle' = NoHandle) => (buffer' = <<>>)
        /\ handle' <= day
        /\ (handle' # NoHandle) => NothingAfter(files', handle')
        /\ NothingAfter(files', day)
        /\ \A d \in Days : Elements(files[d]) \subseteq Elements(files'[d])
        /\ refused \subseteq refused'
        /\ \A x \in Elements(buffer) : Kept(x)
        /\ Kept(e)
  <2>1. AuditTypeOK' BY <1>0, <1>2, <1>3, <1>4 DEF AuditTypeOK
  <2>2. EntryAccounted' BY <1>0, <1>1, <1>2, <1>4, AccountStep
  <2>3. AuditInv' BY <1>2, <1>3, <1>4, <2>2, AuditPrimed
  <2> QED BY <2>1, <2>3
<1>5. CASE warned /\ refused' = refused \cup {e} /\ UNCHANGED <<files, handle, buffer, warned>>
  <2>1. \A x \in Elements(buffer) : Kept(x)
    <3>1. handle = NoHandle => Elements(buffer) = {} BY <1>1 DEF Elements
    <3> QED BY <1>5, <3>1 DEF Kept
  <2>2. Kept(e) BY <1>5 DEF Kept
  <2> QED BY <1>0, <1>1, <1>2, <1>5, <2>1, <2>2
<1>6. CASE /\ ~warned /\ handle = day
           /\ Flushed(files, day, Append(buffer, e), flushes)
           /\ UNCHANGED <<handle, warned, refused>>
  <2> DEFINE ls == Append(buffer, e)
  <2>1. ls \in Seq(1..e) /\ Increasing(ls) /\ Elements(ls) = Elements(buffer) \cup {e}
    BY <1>0, <1>1, AppendIncreasing
  <2>2. Newer(files, ls)
    <3> SUFFICES ASSUME NEW d \in Days, NEW m \in 1..Len(files[d]), NEW i \in 1..Len(ls)
                 PROVE  files[d][m] < ls[i]
      BY DEF Newer
    <3>1. files[d][m] \in 1..recorded BY <1>0, SMTT(30)
    <3>2. CASE i = Len(buffer) + 1
      <4>1. ls[i] = e BY <1>0, <3>2
      <4> QED BY <1>0, <3>1, <4>1, SMTT(30)
    <3>3. CASE i # Len(buffer) + 1
      <4>0. Len(ls) = Len(buffer) + 1 /\ Len(buffer) \in Nat BY <1>0
      <4>2. i \in 1..Len(buffer)
        <5> HIDE DEF ls
        <5> QED BY <3>3, <4>0
      <4>1. i \in 1..Len(buffer) /\ ls[i] = buffer[i] BY <1>0, <4>2
      <4> QED BY <1>1, <4>1 DEF Newer
    <3> QED BY <3>2, <3>3
  <2> HIDE DEF ls
  <2>3. LinesOf(1..e, files, ls) BY <1>0, <2>1 DEF LinesOf
  <2>4. Flushed(files, day, ls, flushes) BY <1>6 DEF ls
  <2>5. /\ files' \in [Days -> Seq(1..e)] /\ buffer' \in Seq(1..e)
        /\ Ordered(files') /\ Increasing(buffer') /\ Newer(files', buffer')
        /\ NothingAfter(files', day)
        /\ \A x \in Days : Elements(files[x]) \subseteq Elements(files'[x])
        /\ \A y \in Elements(ls) :
             (\E x \in Days : y \in Elements(files'[x])) \/ y \in Elements(buffer')
    <3> HIDE DEF e
    <3>1. Ordered(files) /\ NothingAfter(files, day) BY <1>1
    <3>2. Increasing(ls) BY <2>1
    <3> QED BY <1>b, <2>2, <2>3, <2>4, <3>1, <3>2, FlushStep
  <2>6. handle' = day /\ day # NoHandle BY <1>0, <1>6 DEF NoHandle
  <2>7. \A y \in Elements(ls) : Kept(y) BY <2>5, <2>6 DEF Kept
  <2>8. refused' \subseteq 1..e /\ refused \subseteq refused' BY <1>0, <1>6
  <2> QED BY <1>0, <1>2, <1>6, <2>1, <2>5, <2>6, <2>7, <2>8
<1>7. /\ Closed(closes) \in [Days -> Seq(1..recorded)]
      /\ Ordered(Closed(closes)) /\ NothingAfter(Closed(closes), day)
      /\ \A d \in Days : Elements(files[d]) \subseteq Elements(Closed(closes)[d])
      /\ \A x \in Elements(buffer) :
           (\E d \in Days : x \in Elements(Closed(closes)[d])) \/ x \in LostByClose(closes)
  BY CloseStep
<1>8. LostByClose(closes) \subseteq 1..recorded
  <2>1. Elements(buffer) \subseteq 1..recorded BY <1>0 DEF Elements
  <2> QED BY <2>1 DEF LostByClose
<1>9. PICK fs : fs = Closed(closes) OBVIOUS
<1>10. fs \in [Days -> Seq(1..e)]
  <2>1. \A d \in Days : fs[d] \in Seq(1..e) BY <1>0, <1>7, <1>9, Grown
  <2> QED BY <1>7, <1>9, <2>1
<1>11. CASE /\ ~warned /\ handle # day /\ opens /\ handle' = day
            /\ Flushed(Closed(closes), day, <<e>>, flushes)
            /\ refused' = refused \cup LostByClose(closes)
            /\ UNCHANGED warned
  <2> DEFINE ls == <<e>>
  <2>1. ls \in Seq(1..e) /\ Len(ls) = 1 /\ ls[1] = e BY <1>0
  <2>2. Elements(ls) = {e} BY DEF Elements
  <2> HIDE DEF ls
  <2>3. Increasing(ls) BY <2>1 DEF Increasing
  <2>4. Newer(fs, ls)
    <3> SUFFICES ASSUME NEW d \in Days, NEW m \in 1..Len(fs[d]), NEW i \in 1..Len(ls)
                 PROVE  fs[d][m] < ls[i]
      BY DEF Newer
    <3>0. fs[d] \in Seq(1..recorded) BY <1>7, <1>9
    <3>1. fs[d][m] \in 1..recorded BY <3>0, ElementTyped
    <3>2. ls[i] = e BY <2>1
    <3> QED BY <1>0, <3>1, <3>2
  <2>5. LinesOf(1..e, fs, ls) BY <1>0, <1>10, <2>1 DEF LinesOf
  <2>6. Flushed(fs, day, ls, flushes) BY <1>9, <1>11 DEF ls
  <2>7. /\ files' \in [Days -> Seq(1..e)] /\ buffer' \in Seq(1..e)
        /\ Ordered(files') /\ Increasing(buffer') /\ Newer(files', buffer')
        /\ NothingAfter(files', day)
        /\ \A x \in Days : Elements(fs[x]) \subseteq Elements(files'[x])
        /\ \A y \in Elements(ls) :
             (\E x \in Days : y \in Elements(files'[x])) \/ y \in Elements(buffer')
    <3> HIDE DEF e
    <3>1. Ordered(fs) /\ NothingAfter(fs, day) BY <1>7, <1>9
    <3> QED BY <1>b, <2>3, <2>4, <2>5, <2>6, <3>1, FlushStep
  <2>8. handle' = day /\ day # NoHandle BY <1>0, <1>11 DEF NoHandle
  <2>9. Kept(e) BY <2>2, <2>7, <2>8 DEF Kept
  <2>10. \A x \in Elements(buffer) : Kept(x) BY <1>7, <1>9, <1>11, <2>7 DEF Kept
  <2>11. \A d \in Days : Elements(files[d]) \subseteq Elements(files'[d]) BY <1>7, <1>9, <2>7
  <2>12. refused' \subseteq 1..e /\ refused \subseteq refused'
    <3>1. refused \subseteq 1..recorded BY <1>0
    <3> HIDE DEF e
    <3> QED BY <1>a, <1>8, <1>11, <3>1
  <2> QED BY <1>0, <1>2, <1>11, <2>7, <2>8, <2>9, <2>10, <2>11, <2>12
<1>12. CASE /\ ~warned /\ handle # day /\ ~opens
            /\ handle' = NoHandle /\ buffer' = <<>> /\ files' = Closed(closes) /\ warned' = TRUE
            /\ refused' = refused \cup LostByClose(closes) \cup {e}
  <2>1. Increasing(buffer') /\ Newer(files', buffer') /\ buffer' \in Seq(1..e)
    BY <1>12 DEF Increasing, Newer
  <2>2. files' \in [Days -> Seq(1..e)] /\ files' = Closed(closes) BY <1>9, <1>10, <1>12
  <2>3. Kept(e) BY <1>12 DEF Kept
  <2>4. \A x \in Elements(buffer) : Kept(x) BY <1>7, <1>12 DEF Kept
  <2>5. refused' \subseteq 1..e /\ refused \subseteq refused'
    <3>1. refused \subseteq 1..recorded BY <1>0
    <3> HIDE DEF e
    <3> QED BY <1>a, <1>8, <1>12, <3>1
  <2>6. handle' = NoHandle /\ NoHandle <= day /\ warned' \in BOOLEAN BY <1>0, <1>12 DEF NoHandle
  <2>7. (handle' = NoHandle) => (buffer' = <<>>) BY <1>12
  <2> QED BY <1>7, <2>1, <2>2, <2>3, <2>4, <2>5, <2>6, <2>7
<1> QED BY <1>5, <1>6, <1>11, <1>12 DEF Record

LEMMA AuditRestartStep ==
  ASSUME AuditTypeOK, AuditInv, AuditRestart
  PROVE  AuditTypeOK' /\ AuditInv'
PROOF
<1>0. /\ day \in Days /\ day \in Nat \ {0} /\ recorded \in Nat
      /\ files \in [Days -> Seq(1..recorded)] /\ buffer \in Seq(1..recorded)
      /\ handle \in {NoHandle} \cup Days /\ refused \subseteq 1..recorded
  BY AuditTyped
<1>1. /\ ring' = <<>> /\ buffer' = <<>> /\ handle' = NoHandle /\ warned' = FALSE
      /\ refused' = refused \cup Elements(buffer)
      /\ day' = day /\ recorded' = recorded /\ files' = files
  BY DEF AuditRestart
<1>2. Elements(buffer) \subseteq 1..recorded BY <1>0 DEF Elements
<1>3. AuditTypeOK'
  <2>1. warned' \in BOOLEAN BY <1>1
  <2>2. refused' \subseteq 1..recorded BY <1>0, <1>1, <1>2
  <2>3. ring' \in Seq(1..recorded) /\ Len(ring') <= AuditMax /\ buffer' \in Seq(1..recorded)
    BY <1>1, AuditAssumption
  <2> QED BY <1>0, <1>1, <2>1, <2>2, <2>3 DEF AuditTypeOK
<1>4. EntryAccounted'
  <2>1. \A x \in Elements(buffer) : Kept(x) BY <1>1 DEF Kept
  <2>2. EntryAccounted BY DEF AuditInv
  <2> QED BY <1>1, <2>1, <2>2, AccountStep
<1>5. /\ Increasing(buffer') /\ Newer(files', buffer') /\ Increasing(ring')
  BY <1>1 DEF Increasing, Newer
<1>6. Ordered(files') /\ NothingAfter(files', day') BY <1>1 DEF AuditInv, BufferOfHandle
<1>7. handle' <= day' BY <1>0, <1>1 DEF NoHandle
<1> QED BY <1>1, <1>3, <1>4, <1>5, <1>6, <1>7, AuditPrimed

LEMMA MidnightStep ==
  ASSUME AuditTypeOK, AuditInv, Midnight
  PROVE  AuditTypeOK' /\ AuditInv'
PROOF
<1>0. day \in Days /\ MaxDay \in Nat /\ handle \in {NoHandle} \cup Days
  BY AuditAssumption DEF AuditTypeOK
<1>1. /\ day < MaxDay /\ day' = day + 1
      /\ UNCHANGED <<recorded, ring, files, handle, buffer, warned, refused>>
  BY DEF Midnight
<1>2. day' \in Days BY <1>0, <1>1 DEF Days
<1>3. AuditTypeOK' BY <1>1, <1>2 DEF AuditTypeOK
<1>4. NothingAfter(files, day')
  <2> SUFFICES ASSUME NEW x \in Days, x > day' PROVE files[x] = <<>> BY DEF NothingAfter
  <2>1. x > day BY <1>0, <1>1 DEF Days
  <2> QED BY <2>1 DEF AuditInv, BufferOfHandle, NothingAfter
<1>5. handle <= day' BY <1>0, <1>1 DEF AuditInv, BufferOfHandle, Days, NoHandle
<1>6. EntryAccounted' BY <1>1 DEF AuditInv, EntryAccounted, Elements
<1>7. /\ Ordered(files') /\ Increasing(buffer') /\ Newer(files', buffer')
      /\ (handle' = NoHandle) => (buffer' = <<>>)
      /\ (handle' # NoHandle) => NothingAfter(files', handle')
      /\ Increasing(ring') /\ NothingAfter(files', day') /\ handle' <= day'
  BY <1>1, <1>4, <1>5 DEF AuditInv, BufferOfHandle
<1> QED BY <1>3, <1>6, <1>7, AuditPrimed

LEMMA AuditStutter ==
  ASSUME AuditTypeOK, AuditInv, UNCHANGED auditVars
  PROVE  AuditTypeOK' /\ AuditInv'
PROOF
<1>1. UNCHANGED <<day, recorded, ring, files, handle, buffer, warned, refused>>
  BY DEF auditVars
<1>2. AuditTypeOK' BY <1>1 DEF AuditTypeOK
<1>3. EntryAccounted' BY <1>1 DEF AuditInv, EntryAccounted, Elements
<1>4. /\ Ordered(files') /\ Increasing(buffer') /\ Newer(files', buffer')
      /\ (handle' = NoHandle) => (buffer' = <<>>)
      /\ (handle' # NoHandle) => NothingAfter(files', handle')
      /\ Increasing(ring') /\ NothingAfter(files', day') /\ handle' <= day'
  BY <1>1 DEF AuditInv, BufferOfHandle
<1> QED BY <1>2, <1>3, <1>4, AuditPrimed

LEMMA AuditInitial ==
  ASSUME AuditInit
  PROVE  AuditTypeOK /\ AuditInv
PROOF
<1>1. /\ day = 1 /\ recorded = 0 /\ ring = <<>> /\ files = [d \in Days |-> <<>>]
      /\ handle = NoHandle /\ buffer = <<>> /\ warned = FALSE /\ refused = {}
  BY DEF AuditInit
<1>2. 1 \in Days /\ AuditMax \in Nat BY AuditAssumption DEF Days
<1>3. AuditTypeOK
  <2>1. warned \in BOOLEAN BY <1>1
  <2>2. files \in [Days -> Seq(1..recorded)] BY <1>1
  <2> QED BY <1>1, <1>2, <2>1, <2>2 DEF AuditTypeOK
<1>4. EntryAccounted BY <1>1 DEF EntryAccounted
<1>5. Ordered(files) /\ Increasing(buffer) /\ Newer(files, buffer) /\ Increasing(ring)
      /\ BufferOfHandle
  BY <1>1 DEF Ordered, Increasing, Newer, BufferOfHandle, NothingAfter, NoHandle
<1> QED BY <1>3, <1>4, <1>5 DEF AuditInv
--------------------------------------------------------------------------
(* The limiters.  hs are the hits kept for a client, ac all that were      *)
(* admitted, n the limit, w the window and t the time.                     *)

\* The admitted ones are in the order of time; the kept ones are their end,
\* and what is not kept is older than the window; and any n admitted in a row
\* are followed by one more than a window later.
Tracked(hs, ac, n, w, t) ==
  /\ hs \in Seq(Nat) /\ ac \in Seq(Nat)
  /\ \A i, j \in 1..Len(ac) : i <= j => ac[i] <= ac[j]
  /\ \A i \in 1..Len(ac) : ac[i] <= t
  /\ Len(hs) <= Len(ac)
  /\ \A i \in 1..Len(hs) : hs[i] = ac[Len(ac) - Len(hs) + i]
  /\ \A i \in 1..Len(ac) - Len(hs) : ac[i] + w < t
  /\ \A i \in 1..Len(ac) : i + n <= Len(ac) => ac[i] + w < ac[i + n]

LEMMA LeastNatural ==
  ASSUME NEW S, S \subseteq Nat, S # {}
  PROVE  \E m \in S : \A y \in S : m <= y
PROOF
<1> DEFINE R == OpToRel(<, Nat)
<1>1. IsWellFoundedOn(R, Nat) BY NatLessThanWellFounded
<1>2. PICK m \in S : \A y \in S : ~(<<y, m>> \in R)
  <2> HIDE DEF R
  <2> QED BY <1>1, WFMin
<1>3. ASSUME NEW y \in S PROVE m <= y
  <2>1. y \in Nat /\ m \in Nat OBVIOUS
  <2>2. ~(<<y, m>> \in {ss \in Nat \X Nat : ss[1] < ss[2]})
    BY <1>2 DEF OpToRel
  <2> QED BY <2>1, <2>2
<1> QED BY <1>3

LEMMA DropParts ==
  ASSUME NEW T, NEW ts \in Seq(T), NEW k \in 0..Len(ts)
  PROVE  /\ Drop(ts, k) \in Seq(T) /\ Len(Drop(ts, k)) = Len(ts) - k
         /\ \A i \in 1..Len(ts) - k : Drop(ts, k)[i] = ts[k + i]
PROOF
<1>1. Len(ts) \in Nat /\ k \in Nat /\ k <= Len(ts) OBVIOUS
<1>2. /\ SubSeq(ts, k + 1, Len(ts)) \in Seq(T) /\ Len(SubSeq(ts, k + 1, Len(ts))) = Len(ts) - k
      /\ \A i \in 1..Len(ts) - k : SubSeq(ts, k + 1, Len(ts))[i] = ts[k + i]
  BY <1>1
<1> QED BY <1>2 DEF Drop

\* What the limiter's loop leaves: k hits are dropped, all of them too old, and
\* the first one left is not.
LEMMA AliveParts ==
  ASSUME NEW T, T \subseteq Nat, NEW ts \in Seq(T), NEW w \in Nat, now \in Nat
  PROVE  \E k \in 0..Len(ts) :
           /\ Alive(ts, w) \in Seq(T) /\ Len(Alive(ts, w)) = Len(ts) - k
           /\ \A i \in 1..Len(ts) - k : Alive(ts, w)[i] = ts[k + i]
           /\ \A i \in 1..k : ts[i] + w < now
           /\ k < Len(ts) => ts[k + 1] + w >= now
PROOF
<1> DEFINE Q(k) == /\ \A i \in 1..k : ts[i] + w < now
                   /\ k = Len(ts) \/ ts[k + 1] + w >= now
<1> DEFINE S == {k \in 0..Len(ts) : k = Len(ts) \/ ts[k + 1] + w >= now}
<1>1. Len(ts) \in Nat /\ Len(ts) \in S /\ S \subseteq Nat OBVIOUS
<1>2. PICK m \in S : \A y \in S : m <= y
  <2> HIDE DEF S
  <2> QED BY <1>1, LeastNatural
<1>3. Q(m)
  <2> SUFFICES ASSUME NEW i \in 1..m PROVE ts[i] + w < now
    OBVIOUS
  <2>1. m \in 0..Len(ts) /\ i - 1 \in 0..Len(ts) /\ i - 1 < m /\ i \in 1..Len(ts) BY <1>1
  <2>2. i - 1 \notin S BY <1>2, <2>1
  <2>3. ~(ts[(i - 1) + 1] + w >= now) BY <2>1, <2>2
  <2>a. ts[i] \in T BY <2>1, ElementTyped
  <2>b. i \in Int BY <2>1
  <2>c. ts[i] \in Nat BY <2>a
  <2>d. (i - 1) + 1 = i BY <2>b
  <2>4. (i - 1) + 1 = i /\ ts[i] \in Nat BY <2>c, <2>d
  <2>5. ~(ts[i] + w >= now) BY <2>3, <2>4
  <2> QED BY <2>4, <2>5
<1> DEFINE k == CHOOSE x \in 0..Len(ts) : Q(x)
<1>4. k \in 0..Len(ts) /\ Q(k)
  <2>1. \E x \in 0..Len(ts) : Q(x) BY <1>3
  <2> HIDE DEF Q
  <2> QED BY <2>1
<1>5. Alive(ts, w) = Drop(ts, k) BY DEF Alive
<1> HIDE DEF k
<1>6. /\ Drop(ts, k) \in Seq(T) /\ Len(Drop(ts, k)) = Len(ts) - k
      /\ \A i \in 1..Len(ts) - k : Drop(ts, k)[i] = ts[k + i]
  BY <1>4, DropParts
<1>7. k < Len(ts) => ts[k + 1] + w >= now BY <1>1, <1>4
<1> QED BY <1>4, <1>5, <1>6, <1>7

LEMMA TrackedLater ==
  ASSUME NEW hs, NEW ac, NEW n \in Nat, NEW w \in Nat, NEW t \in Nat, NEW u \in Nat, t <= u,
         Tracked(hs, ac, n, w, t)
  PROVE  Tracked(hs, ac, n, w, u)
PROOF
<1>1. \A i \in 1..Len(ac) : ac[i] \in Nat /\ ac[i] <= t BY DEF Tracked
<1>2. \A i \in 1..Len(ac) : ac[i] <= u BY <1>1
<1>3. \A i \in 1..Len(ac) - Len(hs) : i \in 1..Len(ac) /\ ac[i] + w < t BY DEF Tracked
<1>4. \A i \in 1..Len(ac) - Len(hs) : ac[i] + w < u BY <1>1, <1>3
<1> QED BY <1>2, <1>4 DEF Tracked

LEMMA TrackedAlive ==
  ASSUME NEW hs, NEW ac, NEW n \in Nat, NEW w \in Nat, now \in Nat, Tracked(hs, ac, n, w, now)
  PROVE  /\ Tracked(Alive(hs, w), ac, n, w, now)
         /\ Len(Alive(hs, w)) > 0 => Alive(hs, w)[1] + w >= now
PROOF
<1> DEFINE a == Alive(hs, w)
<1>1. hs \in Seq(Nat) BY DEF Tracked
<1>2. PICK k \in 0..Len(hs) :
           /\ a \in Seq(Nat) /\ Len(a) = Len(hs) - k
           /\ \A i \in 1..Len(hs) - k : a[i] = hs[k + i]
           /\ \A i \in 1..k : hs[i] + w < now
           /\ k < Len(hs) => hs[k + 1] + w >= now
  BY <1>1, AliveParts
<1> HIDE DEF a
<1>3. /\ ac \in Seq(Nat) /\ Len(hs) \in Nat /\ Len(ac) \in Nat /\ Len(a) \in Nat /\ k \in Nat
      /\ Len(hs) <= Len(ac) /\ k <= Len(hs)
  BY <1>1, <1>2 DEF Tracked
<1>4. ASSUME NEW i \in 1..Len(a) PROVE a[i] = ac[Len(ac) - Len(a) + i]
  <2>1. k + i \in 1..Len(hs) /\ a[i] = hs[k + i] BY <1>2, <1>3
  <2>2. hs[k + i] = ac[Len(ac) - Len(hs) + (k + i)] BY <2>1 DEF Tracked
  <2>3. Len(ac) - Len(hs) + (k + i) = Len(ac) - Len(a) + i BY <1>2, <1>3
  <2> QED BY <2>1, <2>2, <2>3
<1>5. ASSUME NEW i \in 1..Len(ac) - Len(a) PROVE ac[i] + w < now
  <2>1. CASE i <= Len(ac) - Len(hs)
    <3>1. i \in 1..Len(ac) - Len(hs) BY <1>3, <2>1
    <3> QED BY <3>1 DEF Tracked
  <2>2. CASE i > Len(ac) - Len(hs)
    <3> DEFINE j == i - (Len(ac) - Len(hs))
    <3>1. j \in 1..k /\ j \in 1..Len(hs) /\ Len(ac) - Len(hs) + j = i BY <1>2, <1>3, <2>2, SMTT(30)
    <3> HIDE DEF j
    <3>2. hs[j] = ac[Len(ac) - Len(hs) + j] BY <3>1 DEF Tracked
    <3> QED BY <1>2, <3>1, <3>2
  <2> QED BY <1>3, <2>1, <2>2
<1>6. Tracked(a, ac, n, w, now) BY <1>2, <1>3, <1>4, <1>5 DEF Tracked
<1>7. Len(a) > 0 => a[1] + w >= now
  <2> SUFFICES ASSUME Len(a) > 0 PROVE a[1] + w >= now OBVIOUS
  <2>1. k < Len(hs) /\ 1 \in 1..Len(hs) - k BY <1>2, <1>3
  <2> QED BY <1>2, <2>1
<1> QED BY <1>6, <1>7 DEF a

\* A hit is admitted while fewer than n are kept: the n-th before it is older
\* than the window.
LEMMA TrackedAdmit ==
  ASSUME NEW hs, NEW ac, NEW n \in Nat \ {0}, NEW w \in Nat, NEW t \in Nat,
         Tracked(hs, ac, n, w, t), Len(hs) < n
  PROVE  Tracked(Append(hs, t), Append(ac, t), n, w, t)
PROOF
<1> DEFINE h == Append(hs, t)
<1> DEFINE a == Append(ac, t)
<1>1. /\ hs \in Seq(Nat) /\ ac \in Seq(Nat) /\ Len(hs) \in Nat /\ Len(ac) \in Nat
      /\ Len(hs) <= Len(ac)
  BY DEF Tracked
<1>2. /\ h \in Seq(Nat) /\ Len(h) = Len(hs) + 1 /\ h[Len(hs) + 1] = t
      /\ \A i \in 1..Len(hs) : h[i] = hs[i]
  BY <1>1
<1>3. /\ a \in Seq(Nat) /\ Len(a) = Len(ac) + 1 /\ a[Len(ac) + 1] = t
      /\ \A i \in 1..Len(ac) : a[i] = ac[i]
  BY <1>1
<1> HIDE DEF h, a
<1>4. \A i \in 1..Len(ac) + 1 : i \in 1..Len(ac) \/ i = Len(ac) + 1 BY <1>1
<1>5. \A i \in 1..Len(ac) : ac[i] \in Nat /\ ac[i] <= t BY DEF Tracked
<1>6. \A i \in 1..Len(a) : a[i] <= t BY <1>3, <1>4, <1>5
<1>7. ASSUME NEW i \in 1..Len(a), NEW j \in 1..Len(a), i <= j PROVE a[i] <= a[j]
  <2>1. CASE j = Len(ac) + 1 BY <1>3, <1>6, <2>1
  <2>2. CASE j # Len(ac) + 1
    <3>1. Len(a) = Len(ac) + 1 BY <1>3
    <3>2. i \in 1..Len(ac) /\ j \in 1..Len(ac) BY <1>1, <2>2, <1>7, <3>1
    <3>3. ac[i] <= ac[j] BY <3>2, <1>7 DEF Tracked
    <3> QED BY <1>3, <3>2, <3>3
  <2> QED BY <2>1, <2>2
<1>8. ASSUME NEW i \in 1..Len(h) PROVE h[i] = a[Len(a) - Len(h) + i]
  <2>1. Len(a) - Len(h) = Len(ac) - Len(hs) BY <1>1, <1>2, <1>3
  <2>2. CASE i = Len(hs) + 1
    <3>1. Len(a) - Len(h) + i = Len(ac) + 1 BY <1>1, <2>1, <2>2
    <3> QED BY <1>2, <1>3, <2>2, <3>1
  <2>3. CASE i # Len(hs) + 1
    <3>0. Len(h) = Len(hs) + 1 BY <1>2
    <3>1. i \in 1..Len(hs) /\ Len(ac) - Len(hs) + i \in 1..Len(ac) BY <1>1, <2>3, <3>0
    <3>2. hs[i] = ac[Len(ac) - Len(hs) + i] BY <3>1 DEF Tracked
    <3> QED BY <1>2, <1>3, <2>1, <3>1, <3>2
  <2> QED BY <2>2, <2>3
<1>9. ASSUME NEW i \in 1..Len(a) - Len(h) PROVE a[i] + w < t
  <2>1. Len(a) - Len(h) = Len(ac) - Len(hs) BY <1>1, <1>2, <1>3
  <2>2. i \in 1..Len(ac) - Len(hs) /\ i \in 1..Len(ac) BY <1>1, <2>1
  <2>3. ac[i] + w < t BY <2>2 DEF Tracked
  <2> QED BY <1>3, <2>2, <2>3
<1>10. ASSUME NEW i \in 1..Len(a), i + n <= Len(a) PROVE a[i] + w < a[i + n]
  <2>0. Len(a) = Len(ac) + 1 BY <1>3
  <2>1. i \in 1..Len(ac) BY <1>1, <1>10, <2>0
  <2>2. CASE i + n = Len(ac) + 1
    <3>1. i \in 1..Len(ac) - Len(hs) BY <1>1, <2>1, <2>2
    <3>2. ac[i] + w < t BY <3>1 DEF Tracked
    <3> QED BY <1>3, <2>1, <2>2, <3>2
  <2>3. CASE i + n # Len(ac) + 1
    <3>0. Len(ac) \in Nat /\ i \in Nat \ {0} /\ i + n <= Len(ac) + 1 BY <1>1, <1>10, <2>0
    <3>1. i + n <= Len(ac) /\ i + n \in 1..Len(ac) BY <3>0, <2>3
    <3>2. ac[i] + w < ac[i + n] BY <2>1, <3>1 DEF Tracked
    <3> QED BY <1>3, <2>1, <3>1, <3>2
  <2> QED BY <2>2, <2>3
<1>11. Len(h) <= Len(a) BY <1>1, <1>2, <1>3
<1>12. Tracked(h, a, n, w, t) BY <1>2, <1>3, <1>6, <1>7, <1>8, <1>9, <1>10, <1>11 DEF Tracked
<1> QED BY <1>12 DEF h, a

LEMMA TrackedNone ==
  ASSUME NEW n \in Nat, NEW w \in Nat, NEW t \in Nat
  PROVE  Tracked(<<>>, <<>>, n, w, t)
PROOF BY DEF Tracked

\* When the last hit is older than the window, so are all of them.
LEMMA TrackedEvict ==
  ASSUME NEW hs, NEW ac, NEW n \in Nat, NEW w \in Nat, NEW t \in Nat,
         Tracked(hs, ac, n, w, t), hs # <<>>, hs[Len(hs)] + w < t
  PROVE  Tracked(<<>>, ac, n, w, t)
PROOF
<1>1. /\ hs \in Seq(Nat) /\ ac \in Seq(Nat) /\ Len(hs) \in Nat /\ Len(ac) \in Nat
      /\ Len(hs) <= Len(ac) /\ \A i \in 1..Len(ac) : ac[i] \in Nat
  BY DEF Tracked
<1>2. Len(hs) \in 1..Len(hs) /\ Len(ac) \in 1..Len(ac) BY <1>1
<1>3. hs[Len(hs)] = ac[Len(ac)]
  <2>1. hs[Len(hs)] = ac[Len(ac) - Len(hs) + Len(hs)] BY <1>2 DEF Tracked
  <2>2. Len(ac) - Len(hs) + Len(hs) = Len(ac) BY <1>1
  <2> QED BY <2>1, <2>2
<1>4. \A i \in 1..Len(ac) : ac[i] <= ac[Len(ac)] BY <1>1, <1>2 DEF Tracked
<1>5. \A i \in 1..Len(ac) : ac[i] + w < t
  <2> SUFFICES ASSUME NEW i \in 1..Len(ac) PROVE ac[i] + w < t OBVIOUS
  <2>1. ac[i] \in Nat /\ ac[Len(ac)] \in Nat /\ ac[i] <= ac[Len(ac)] BY <1>1, <1>2, <1>4
  <2>2. ac[Len(ac)] + w < t BY <1>3
  <2> QED BY <2>1, <2>2
<1>6. Len(ac) - Len(<<>>) = Len(ac) BY <1>1
<1> QED BY <1>1, <1>5, <1>6 DEF Tracked

\* No window of time, wherever it begins, has more than n admitted hits: two
\* of them n or more places apart are more than a window apart.
LEMMA TrackedBudget ==
  ASSUME NEW hs, NEW ac, NEW n \in Nat \ {0}, NEW w \in Nat, NEW t \in Nat,
         Tracked(hs, ac, n, w, t), NEW x \in 1..Len(ac)
  PROVE  Within(ac, ac[x], ac[x] + w) <= n
PROOF
<1> DEFINE S == {i \in DOMAIN ac : ac[i] >= ac[x] /\ ac[i] <= ac[x] + w}
<1>1. /\ ac \in Seq(Nat) /\ Len(ac) \in Nat /\ DOMAIN ac = 1..Len(ac)
      /\ \A i \in 1..Len(ac) : ac[i] \in Nat
  BY DEF Tracked
<1>2. x \in S /\ S \subseteq Nat BY <1>1
<1>3. PICK m \in S : \A y \in S : m <= y
  <2> HIDE DEF S
  <2> QED BY <1>2, LeastNatural
<1>4. ASSUME NEW y \in S PROVE y \in m..m + n - 1
  <2>1. m \in 1..Len(ac) /\ y \in 1..Len(ac) /\ m <= y BY <1>1, <1>3
  <2>2. y < m + n
    <3> SUFFICES ASSUME ~(y < m + n) PROVE FALSE OBVIOUS
    <3>1. m + n \in 1..Len(ac) /\ m + n <= Len(ac) /\ m + n <= y BY <1>1, <2>1, SMTT(30)
    <3>2. ac[m] + w < ac[m + n] BY <2>1, <3>1 DEF Tracked
    <3>3. ac[m + n] <= ac[y] BY <2>1, <3>1 DEF Tracked
    <3>4. ac[m] >= ac[x] /\ ac[y] <= ac[x] + w OBVIOUS
    <3>5. ac[m] \in Nat /\ ac[y] \in Nat /\ ac[x] \in Nat /\ ac[m + n] \in Nat BY <1>1, <2>1, <3>1
    <3> QED BY <3>2, <3>3, <3>4, <3>5, SMTT(30)
  <2> QED BY <2>1, <2>2
<1>5. m \in Nat BY <1>2
<1>6. IsFiniteSet(m..m + n - 1) /\ Cardinality(m..m + n - 1) = n
  <2>1. m \in Int /\ m + n - 1 \in Int /\ ~(m > m + n - 1) /\ (m + n - 1) - m + 1 = n BY <1>5
  <2> QED BY <2>1, FS_Interval
<1>7. S \in SUBSET (m..m + n - 1) BY <1>4
<1>8. Cardinality(S) <= n
  <2> HIDE DEF S
  <2> QED BY <1>6, <1>7, FS_Subset
<1> QED BY <1>8 DEF Within

\* When n are kept and the first of them is within the window, n have been
\* admitted within the window just past.
LEMMA TrackedDenied ==
  ASSUME NEW hs, NEW ac, NEW n \in Nat \ {0}, NEW w \in Nat, NEW t \in Nat,
         Tracked(hs, ac, n, w, t), Len(hs) >= n, hs[1] + w >= t
  PROVE  Within(ac, IF t > w THEN t - w ELSE 0, t) >= n
PROOF
<1> DEFINE from == IF t > w THEN t - w ELSE 0
<1> DEFINE S == {i \in DOMAIN ac : ac[i] >= from /\ ac[i] <= t}
<1> DEFINE o == Len(ac) - Len(hs)
<1>1. /\ ac \in Seq(Nat) /\ Len(ac) \in Nat /\ DOMAIN ac = 1..Len(ac) /\ Len(hs) \in Nat
      /\ \A i \in 1..Len(ac) : ac[i] \in Nat /\ ac[i] <= t
      /\ Len(hs) <= Len(ac)
  BY SMTT(30) DEF Tracked
<1>2. o \in Nat /\ o + Len(hs) = Len(ac) /\ 1 \in 1..Len(hs) /\ o + 1 \in 1..Len(ac) BY <1>1
<1>3. ac[o + 1] = hs[1] BY <1>2 DEF Tracked
<1> HIDE DEF o
<1>4. ASSUME NEW i \in o + 1..Len(ac) PROVE i \in S
  <2>1. i \in 1..Len(ac) /\ o + 1 <= i BY <1>1, <1>2
  <2>2. ac[o + 1] <= ac[i] BY <1>2, <2>1 DEF Tracked
  <2>3. ac[i] \in Nat /\ ac[o + 1] \in Nat /\ ac[i] <= t BY <1>1, <1>2, <2>1
  <2>4. ac[i] >= from BY <1>3, <2>2, <2>3
  <2> QED BY <1>1, <2>1, <2>3, <2>4
<1>5. IsFiniteSet(1..Len(ac)) BY <1>1, FS_Interval
<1>6. S \in SUBSET (1..Len(ac)) BY <1>1
<1>7. IsFiniteSet(S) /\ Cardinality(S) \in Nat
  <2> HIDE DEF S
  <2> QED BY <1>5, <1>6, FS_Subset, FS_CardinalityType
<1>8. Cardinality(o + 1..Len(ac)) = Len(hs)
  <2>a. Len(hs) \in Nat BY <1>1
  <2>b. Len(hs) \in Nat \ {0} BY <2>a
  <2>c. o \in Nat /\ Len(ac) = o + Len(hs) BY <1>2
  <2>0. Len(hs) \in Nat \ {0} /\ o \in Nat /\ Len(ac) = o + Len(hs) BY <2>b, <2>c
  <2>1. o + 1 \in Int /\ Len(ac) \in Int /\ ~(o + 1 > Len(ac)) /\ Len(ac) - (o + 1) + 1 = Len(hs)
    BY <2>0
  <2> QED BY <2>1, FS_Interval
<1>9. Cardinality(o + 1..Len(ac)) <= Cardinality(S)
  <2>1. o + 1..Len(ac) \in SUBSET S BY <1>4
  <2> HIDE DEF S
  <2> QED BY <1>7, <2>1, FS_Subset
<1>10. Cardinality(S) >= n BY <1>1, <1>7, <1>8, <1>9
<1> QED BY <1>10 DEF Within

LEMMA WithinGrows ==
  ASSUME NEW ac \in Seq(Nat), NEW t \in Nat, NEW a \in Nat, NEW b \in Nat, NEW n \in Nat,
         Within(ac, a, b) >= n
  PROVE  Within(Append(ac, t), a, b) >= n
PROOF
<1> DEFINE u == Append(ac, t)
<1> DEFINE S == {i \in DOMAIN ac : ac[i] >= a /\ ac[i] <= b}
<1> DEFINE R == {i \in DOMAIN u : u[i] >= a /\ u[i] <= b}
<1>1. /\ Len(ac) \in Nat /\ DOMAIN ac = 1..Len(ac) /\ DOMAIN u = 1..Len(ac) + 1
      /\ \A i \in 1..Len(ac) : u[i] = ac[i]
  OBVIOUS
<1>2. Within(ac, a, b) = Cardinality(S) /\ Within(u, a, b) = Cardinality(R) BY DEF Within
<1> HIDE DEF u
<1>3. S \in SUBSET R
  <2>1. \A i \in 1..Len(ac) : i \in 1..Len(ac) + 1 BY <1>1
  <2> QED BY <1>1, <2>1
<1>4. R \in SUBSET (1..Len(ac) + 1) BY <1>1
<1>5. S \in SUBSET (1..Len(ac)) BY <1>1
<1> HIDE DEF S, R
<1>6. IsFiniteSet(1..Len(ac) + 1) /\ IsFiniteSet(1..Len(ac))
  <2>1. 1 \in Int /\ Len(ac) \in Int /\ Len(ac) + 1 \in Int BY <1>1
  <2> QED BY <2>1, FS_Interval
<1>7. IsFiniteSet(R) /\ IsFiniteSet(S) BY <1>4, <1>5, <1>6, FS_Subset
<1>8. Cardinality(S) <= Cardinality(R) BY <1>3, <1>7, FS_Subset
<1>9. Cardinality(S) \in Nat /\ Cardinality(R) \in Nat BY <1>7, FS_CardinalityType
<1> QED BY <1>2, <1>8, <1>9 DEF u

\* Retry-After is neither a millisecond early nor a whole second late.
LEMMA RetryRounded ==
  ASSUME NEW hs, NEW r, hs[1] \in Nat, now \in Nat, hs[1] + Window >= now, r = RetrySeconds(hs)
  PROVE  /\ r \in Nat
         /\ 1000 * (now + r * TicksPerSec) + TicksPerSec > 1000 * (hs[1] + Window)
         /\ r = 1 \/ now + (r - 1) * TicksPerSec < hs[1] + Window
PROOF
<1>1. TicksPerSec \in Nat \ {0} /\ Window \in Nat BY GateAssumption
<1> DEFINE left == hs[1] + Window - now
<1> DEFINE q == Ceil(left)
<1> DEFINE a == 1000 * left + 999 * TicksPerSec
<1> DEFINE b == 1000 * TicksPerSec
<1>2. left \in Nat /\ a \in Nat /\ b \in Nat \ {0} BY <1>1
<1>3. q = a \div b BY DEF Ceil
<1>4. r = IF q < 1 THEN 1 ELSE q BY DEF RetrySeconds
<1>5. q \in Nat /\ b * q <= a /\ a < b * (q + 1)
  <2> HIDE DEF a, b, q
  <2> QED BY <1>2, <1>3
<1> HIDE DEF q
<1> DEFINE p == q * TicksPerSec
<1>6. p \in Int /\ b * q = 1000 * p /\ b * (q + 1) = 1000 * p + 1000 * TicksPerSec
  BY <1>1, <1>5
<1> HIDE DEF p
<1>7. 1000 * p <= 1000 * left + 999 * TicksPerSec
      /\ 1000 * left + 999 * TicksPerSec < 1000 * p + 1000 * TicksPerSec
  BY <1>5, <1>6
<1>8. CASE q < 1
  <2>1. r = 1 /\ q = 0 BY <1>4, <1>5, <1>8
  <2>2. p = 0 BY <1>1, <2>1 DEF p
  <2>3. r * TicksPerSec = TicksPerSec BY <1>1, <2>1
  <2>4. 1000 * left < TicksPerSec BY <1>1, <1>2, <1>7, <2>2
  <2> QED BY <1>1, <2>1, <2>3, <2>4
<1>9. CASE ~(q < 1)
  <2>1. r = q BY <1>4, <1>9
  <2>2. r * TicksPerSec = p /\ (r - 1) * TicksPerSec = p - TicksPerSec BY <1>1, <1>5, <2>1 DEF p
  <2>3. 1000 * (now + p) + TicksPerSec > 1000 * (hs[1] + Window) BY <1>1, <1>2, <1>6, <1>7
  <2>4. now + (p - TicksPerSec) < hs[1] + Window BY <1>1, <1>2, <1>6, <1>7
  <2> QED BY <1>5, <2>1, <2>2, <2>3, <2>4
<1> QED BY <1>8, <1>9
--------------------------------------------------------------------------
(* The inductive invariant of the gate and its steps.                      *)

Limiters ==
  \A c \in Clients :
    /\ Tracked(hits[c], accepted[c], Limit, Window, now)
    /\ Tracked(recent[c], reports[c], CspBudget, CspWindow, now)

IInv == TypeOK /\ AuditInv /\ Limiters /\ DeniedIsOverBudget

Denials == [client : Clients, at : Times, retry : Nat, hits : Seq(Times)]

\* The types, part by part.
LEMMA Typed ==
  ASSUME TypeOK
  PROVE  /\ AuditTypeOK /\ now \in Times /\ now \in Nat
         /\ hits \in [Clients -> Seq(Times)] /\ recent \in [Clients -> Seq(Times)]
         /\ accepted \in [Clients -> Seq(Times)] /\ reports \in [Clients -> Seq(Times)]
         /\ sincePrune \in 0..PruneEvery - 1 /\ waiting \in [Kinds \X Clients -> Nat]
         /\ stream \in Seq(Clients \X Times) /\ denied \subseteq Denials
         /\ arrived \in 0..MaxRequests /\ faults \in 0..MaxFaults
PROOF
<1>1. now \in Times /\ now \in Nat BY GateAssumption DEF TypeOK, Times
<1> QED BY <1>1 DEF TypeOK, Denials

LEMMA TypedPrimed ==
  ASSUME AuditTypeOK', now' \in Times,
         hits' \in [Clients -> Seq(Times)], recent' \in [Clients -> Seq(Times)],
         accepted' \in [Clients -> Seq(Times)], reports' \in [Clients -> Seq(Times)],
         sincePrune' \in 0..PruneEvery - 1, waiting' \in [Kinds \X Clients -> Nat],
         stream' \in Seq(Clients \X Times), denied' \subseteq Denials,
         arrived' \in 0..MaxRequests, faults' \in 0..MaxFaults
  PROVE  TypeOK'
PROOF BY DEF TypeOK, Denials

LEMMA LimitersPrimed ==
  ASSUME \A c \in Clients :
           /\ Tracked(hits'[c], accepted'[c], Limit, Window, now')
           /\ Tracked(recent'[c], reports'[c], CspBudget, CspWindow, now')
  PROVE  Limiters'
PROOF BY DEF Limiters, Tracked

\* The two halves of DeniedIsOverBudget, for one answer.
OverBudget(ac, d) == Within(ac, IF d.at > Window THEN d.at - Window ELSE 0, d.at) >= Limit
RetryFits(d) ==
  /\ 1000 * (d.at + d.retry * TicksPerSec) + TicksPerSec > 1000 * (d.hits[1] + Window)
  /\ d.retry = 1 \/ d.at + (d.retry - 1) * TicksPerSec < d.hits[1] + Window

LEMMA DeniedParts ==
  ASSUME DeniedIsOverBudget
  PROVE  \A d \in denied : OverBudget(accepted[d.client], d) /\ RetryFits(d)
PROOF BY DEF DeniedIsOverBudget, OverBudget, RetryFits

LEMMA DeniedPrimed ==
  ASSUME \A d \in denied' : OverBudget(accepted'[d.client], d) /\ RetryFits(d)
  PROVE  DeniedIsOverBudget'
PROOF
<1> SUFFICES ASSUME NEW d \in denied'
             PROVE  /\ Within(accepted'[d.client], IF d.at > Window THEN d.at - Window ELSE 0, d.at)
                         >= Limit
                    /\ 1000 * (d.at + d.retry * TicksPerSec) + TicksPerSec > 1000 * (d.hits[1] + Window)
                    /\ d.retry = 1 \/ d.at + (d.retry - 1) * TicksPerSec < d.hits[1] + Window
  BY DEF DeniedIsOverBudget, Within
<1>1. OverBudget(accepted'[d.client], d) /\ RetryFits(d) OBVIOUS
<1> QED BY <1>1 DEF OverBudget, RetryFits

LEMMA DeniedSame ==
  ASSUME DeniedIsOverBudget, UNCHANGED <<accepted, denied>>
  PROVE  DeniedIsOverBudget'
PROOF BY DeniedParts, DeniedPrimed

LEMMA Numbers ==
  /\ Limit \in Nat \ {0} /\ Window \in Nat \ {0} /\ PruneEvery \in Nat \ {0}
  /\ CspBudget \in Nat \ {0} /\ CspWindow \in Nat \ {0} /\ StreamMax \in Nat \ {0}
  /\ MaxRequests \in Nat /\ MaxTime \in Nat /\ MaxFaults \in Nat
  /\ Times \subseteq Nat
PROOF
<1>1. MaxTime \in Nat BY GateAssumption
<1>2. Times \subseteq Nat BY <1>1 DEF Times
<1> QED BY <1>1, <1>2, GateAssumption

LEMMA AliveTyped ==
  ASSUME NEW ts \in Seq(Times), NEW w \in Nat, now \in Nat
  PROVE  Alive(ts, w) \in Seq(Times)
PROOF BY Numbers, AliveParts

LEMMA AppendTime ==
  ASSUME NEW ts \in Seq(Times), now \in Times
  PROVE  Append(ts, now) \in Seq(Times)
PROOF OBVIOUS

\* Pruning, when it is due, drops only what is older than the window.
LEMMA PruneKeeps ==
  ASSUME now \in Times, sincePrune \in 0..PruneEvery - 1,
         NEW bs \in [Clients -> Seq(Times)], NEW ac,
         \A c \in Clients : Tracked(bs[c], ac[c], Limit, Window, now),
         PruneStep(bs)
  PROVE  /\ hits' \in [Clients -> Seq(Times)] /\ sincePrune' \in 0..PruneEvery - 1
         /\ \A c \in Clients : Tracked(hits'[c], ac[c], Limit, Window, now)
PROOF
<1>0. now \in Nat /\ Limit \in Nat /\ Window \in Nat /\ PruneEvery \in Nat \ {0} BY Numbers
<1>1. CASE sincePrune + 1 >= PruneEvery
  <2>1. hits' = [c \in Clients |-> Alive(bs[c], Window)] /\ sincePrune' = 0
    BY <1>1 DEF PruneStep, Pruned
  <2>2. ASSUME NEW c \in Clients
        PROVE  /\ Alive(bs[c], Window) \in Seq(Times)
               /\ Tracked(Alive(bs[c], Window), ac[c], Limit, Window, now)
    <3>1. bs[c] \in Seq(Times) OBVIOUS
    <3> QED BY <1>0, <3>1, AliveTyped, TrackedAlive
  <2>3. sincePrune' \in 0..PruneEvery - 1 BY <1>0, <2>1
  <2> QED BY <2>1, <2>2, <2>3
<1>2. CASE ~(sincePrune + 1 >= PruneEvery)
  <2>1. hits' = bs /\ sincePrune' = sincePrune + 1 BY <1>2 DEF PruneStep
  <2>2. sincePrune' \in 0..PruneEvery - 1 BY <1>0, <1>2, <2>1
  <2> QED BY <2>1, <2>2
<1> QED BY <1>1, <1>2

LEMMA InitIInv == Init => IInv
PROOF
<1> SUFFICES ASSUME Init PROVE IInv OBVIOUS
<1>1. AuditTypeOK /\ AuditInv BY AuditInitial DEF Init
<1>2. /\ now = 0 /\ sincePrune = 0 /\ arrived = 0 /\ faults = 0
      /\ hits = [c \in Clients |-> <<>>] /\ recent = [c \in Clients |-> <<>>]
      /\ accepted = [c \in Clients |-> <<>>] /\ reports = [c \in Clients |-> <<>>]
      /\ waiting = [q \in Kinds \X Clients |-> 0] /\ stream = <<>> /\ denied = {}
  BY DEF Init
<1>3. 0 \in Times /\ 0 \in 0..PruneEvery - 1 /\ 0 \in 0..MaxRequests /\ 0 \in 0..MaxFaults
  BY Numbers DEF Times
<1>4. TypeOK
  <2>1. {hits, recent, accepted, reports} \subseteq [Clients -> Seq(Times)] BY <1>2
  <2>2. waiting \in [Kinds \X Clients -> Nat] BY <1>2
  <2> QED BY <1>1, <1>2, <1>3, <2>1, <2>2 DEF TypeOK
<1>5. Limiters
  <2> SUFFICES ASSUME NEW c \in Clients
               PROVE  /\ Tracked(hits[c], accepted[c], Limit, Window, now)
                      /\ Tracked(recent[c], reports[c], CspBudget, CspWindow, now)
    BY DEF Limiters
  <2>1. hits[c] = <<>> /\ accepted[c] = <<>> /\ recent[c] = <<>> /\ reports[c] = <<>> BY <1>2
  <2> QED BY <1>2, <2>1, TrackedNone, Numbers
<1>6. DeniedIsOverBudget BY <1>2 DEF DeniedIsOverBudget
<1> QED BY <1>1, <1>4, <1>5, <1>6 DEF IInv

\* Time passes, or the day changes.
LEMMA ClockStep ==
  ASSUME IInv, Tick \/ NextDay
  PROVE  IInv'
PROOF
<1>0. TypeOK /\ AuditInv /\ Limiters /\ DeniedIsOverBudget BY DEF IInv
<1>1. /\ AuditTypeOK /\ now \in Times /\ now \in Nat
      /\ hits \in [Clients -> Seq(Times)] /\ recent \in [Clients -> Seq(Times)]
      /\ accepted \in [Clients -> Seq(Times)] /\ reports \in [Clients -> Seq(Times)]
      /\ sincePrune \in 0..PruneEvery - 1 /\ waiting \in [Kinds \X Clients -> Nat]
      /\ stream \in Seq(Clients \X Times) /\ denied \subseteq Denials
      /\ arrived \in 0..MaxRequests /\ faults \in 0..MaxFaults
  BY <1>0, Typed
<1>2. UNCHANGED <<hits, sincePrune, waiting, recent, stream, arrived, faults, accepted, denied,
                  reports>>
  BY DEF Tick, NextDay, gateVars
<1>3. now' \in Times /\ now' \in Nat /\ now <= now'
  BY <1>1, Numbers DEF Tick, NextDay, gateVars, Times
<1>4. AuditTypeOK' /\ AuditInv'
  BY <1>0, <1>1, MidnightStep, AuditStutter DEF Tick, NextDay
<1>5. TypeOK' BY <1>1, <1>2, <1>3, <1>4, TypedPrimed
<1>6. Limiters'
  <2>1. ASSUME NEW c \in Clients
        PROVE  /\ Tracked(hits[c], accepted[c], Limit, Window, now')
               /\ Tracked(recent[c], reports[c], CspBudget, CspWindow, now')
    <3>1. /\ Tracked(hits[c], accepted[c], Limit, Window, now)
          /\ Tracked(recent[c], reports[c], CspBudget, CspWindow, now)
      BY <1>0 DEF Limiters
    <3> QED BY <1>1, <1>3, <3>1, TrackedLater, Numbers
  <2> QED BY <1>2, <2>1, LimitersPrimed
<1>7. DeniedIsOverBudget' BY <1>0, <1>2, DeniedSame
<1> QED BY <1>4, <1>5, <1>6, <1>7 DEF IInv

\* A request of client c is admitted.
LEMMA AdmitStep ==
  ASSUME IInv, NEW kind \in Kinds, NEW c \in Clients, Admit(kind, c)
  PROVE  IInv'
PROOF
<1>0. TypeOK /\ AuditInv /\ Limiters /\ DeniedIsOverBudget BY DEF IInv
<1>1. /\ AuditTypeOK /\ now \in Times /\ now \in Nat
      /\ hits \in [Clients -> Seq(Times)] /\ recent \in [Clients -> Seq(Times)]
      /\ accepted \in [Clients -> Seq(Times)] /\ reports \in [Clients -> Seq(Times)]
      /\ sincePrune \in 0..PruneEvery - 1 /\ waiting \in [Kinds \X Clients -> Nat]
      /\ stream \in Seq(Clients \X Times) /\ denied \subseteq Denials
      /\ arrived \in 0..MaxRequests /\ faults \in 0..MaxFaults
  BY <1>0, Typed
<1> DEFINE hs == Alive(hits[c], Window)
<1>2. /\ arrived < MaxRequests /\ arrived' = arrived + 1 /\ Len(hs) < Limit
      /\ PruneStep([hits EXCEPT ![c] = Append(hs, now)])
      /\ accepted' = [accepted EXCEPT ![c] = Append(@, now)]
      /\ waiting' = [waiting EXCEPT ![<<kind, c>>] = @ + 1]
      /\ UNCHANGED <<now, recent, stream, faults, denied, reports, auditVars>>
  BY DEF Admit
<1>3. \A x \in Clients : /\ Tracked(hits[x], accepted[x], Limit, Window, now)
                         /\ Tracked(recent[x], reports[x], CspBudget, CspWindow, now)
  BY <1>0 DEF Limiters
<1>4. Tracked(hs, accepted[c], Limit, Window, now) BY <1>1, <1>3, TrackedAlive, Numbers
<1>5. hs \in Seq(Times)
  <2>1. hits[c] \in Seq(Times) BY <1>1
  <2> QED BY <1>1, <2>1, AliveTyped, Numbers
<1> HIDE DEF hs
<1>6. Tracked(Append(hs, now), Append(accepted[c], now), Limit, Window, now)
  BY <1>1, <1>2, <1>4, TrackedAdmit, Numbers
<1>7. PICK bs : bs = [hits EXCEPT ![c] = Append(hs, now)] OBVIOUS
<1>8. PICK h : h = Append(hs, now) OBVIOUS
<1>9. PICK a : a = Append(accepted[c], now) OBVIOUS
<1>10. h \in Seq(Times) /\ a \in Seq(Times)
  <2>1. accepted[c] \in Seq(Times) BY <1>1
  <2> QED BY <1>1, <1>5, <1>8, <1>9, <2>1, AppendTime
<1>11. bs \in [Clients -> Seq(Times)] /\ bs[c] = h /\ \A x \in Clients \ {c} : bs[x] = hits[x]
  BY <1>1, <1>7, <1>8, <1>10
<1>12. /\ accepted' \in [Clients -> Seq(Times)] /\ accepted'[c] = a
       /\ \A x \in Clients \ {c} : accepted'[x] = accepted[x]
  BY <1>1, <1>2, <1>9, <1>10
<1>13. \A x \in Clients : Tracked(bs[x], accepted'[x], Limit, Window, now)
  BY <1>3, <1>6, <1>8, <1>9, <1>11, <1>12
<1>14. PruneStep(bs) BY <1>2, <1>7
<1>15. /\ hits' \in [Clients -> Seq(Times)] /\ sincePrune' \in 0..PruneEvery - 1
       /\ \A x \in Clients : Tracked(hits'[x], accepted'[x], Limit, Window, now)
  BY <1>1, <1>11, <1>13, <1>14, PruneKeeps
<1>16. AuditTypeOK' /\ AuditInv' BY <1>0, <1>1, <1>2, AuditStutter
<1>17. TypeOK'
  <2>1. waiting' \in [Kinds \X Clients -> Nat] BY <1>1, <1>2
  <2>2. arrived' \in 0..MaxRequests BY <1>1, <1>2, Numbers
  <2> QED BY <1>1, <1>2, <1>12, <1>15, <1>16, <2>1, <2>2, TypedPrimed
<1>18. Limiters' BY <1>2, <1>3, <1>15, LimitersPrimed
<1>19. DeniedIsOverBudget'
  <2>0. denied' = denied BY <1>2
  <2> SUFFICES ASSUME NEW d \in denied PROVE OverBudget(accepted'[d.client], d)
    BY <1>0, <2>0, DeniedParts, DeniedPrimed
  <2> USE DEF OverBudget
  <2>1. Within(accepted[d.client], IF d.at > Window THEN d.at - Window ELSE 0, d.at) >= Limit
    BY <1>0, DeniedParts
  <2>2. d.client \in Clients /\ d.at \in Nat BY <1>1, Numbers DEF Denials
  <2>3. PICK from : from = IF d.at > Window THEN d.at - Window ELSE 0 OBVIOUS
  <2>4. from \in Nat BY <2>2, <2>3, Numbers
  <2>5. CASE d.client # c BY <1>12, <2>1, <2>2, <2>5
  <2>6. CASE d.client = c
    <3>1. accepted[c] \in Seq(Nat) BY <1>4 DEF Tracked
    <3>2. Within(accepted[c], from, d.at) >= Limit BY <2>1, <2>3, <2>6
    <3>3. Within(Append(accepted[c], now), from, d.at) >= Limit
      BY <1>1, <2>2, <2>4, <3>1, <3>2, WithinGrows, Numbers
    <3> QED BY <1>9, <1>12, <2>3, <2>6, <3>3
  <2> QED BY <2>5, <2>6
<1> QED BY <1>16, <1>17, <1>18, <1>19 DEF IInv

\* A request of client c is answered 429.
LEMMA DenyStep ==
  ASSUME IInv, NEW c \in Clients, Deny(c)
  PROVE  IInv'
PROOF
<1>0. TypeOK /\ AuditInv /\ Limiters /\ DeniedIsOverBudget BY DEF IInv
<1>1. /\ AuditTypeOK /\ now \in Times /\ now \in Nat
      /\ hits \in [Clients -> Seq(Times)] /\ recent \in [Clients -> Seq(Times)]
      /\ accepted \in [Clients -> Seq(Times)] /\ reports \in [Clients -> Seq(Times)]
      /\ sincePrune \in 0..PruneEvery - 1 /\ waiting \in [Kinds \X Clients -> Nat]
      /\ stream \in Seq(Clients \X Times) /\ denied \subseteq Denials
      /\ arrived \in 0..MaxRequests /\ faults \in 0..MaxFaults
  BY <1>0, Typed
<1> DEFINE hs == Alive(hits[c], Window)
<1> DEFINE r == RetrySeconds(hs)
<1> DEFINE new == [client |-> c, at |-> now, retry |-> r, hits |-> hs]
<1>2. /\ arrived < MaxRequests /\ arrived' = arrived + 1 /\ Len(hs) >= Limit
      /\ PruneStep([hits EXCEPT ![c] = hs])
      /\ denied' = denied \cup {new}
      /\ UNCHANGED <<now, waiting, recent, stream, faults, accepted, reports, auditVars>>
  BY DEF Deny
<1>3. \A x \in Clients : /\ Tracked(hits[x], accepted[x], Limit, Window, now)
                         /\ Tracked(recent[x], reports[x], CspBudget, CspWindow, now)
  BY <1>0 DEF Limiters
<1>4. /\ Tracked(hs, accepted[c], Limit, Window, now)
      /\ Len(hs) > 0 => hs[1] + Window >= now
  BY <1>1, <1>3, TrackedAlive, Numbers
<1>5. hs \in Seq(Times)
  <2>1. hits[c] \in Seq(Times) BY <1>1
  <2> QED BY <1>1, <2>1, AliveTyped, Numbers
<1> HIDE DEF hs
<1>6. Len(hs) \in Nat /\ Len(hs) > 0 /\ 1 \in 1..Len(hs)
  <2>1. Len(hs) \in Nat BY <1>5
  <2>2. Limit \in Nat \ {0} BY Numbers
  <2> QED BY <1>2, <2>1, <2>2
<1>7. hs[1] \in Nat /\ hs[1] + Window >= now
  <2>1. hs[1] \in Times BY <1>5, <1>6, ElementTyped
  <2> QED BY <1>4, <1>6, <2>1, Numbers
<1>8. /\ r \in Nat
      /\ 1000 * (now + r * TicksPerSec) + TicksPerSec > 1000 * (hs[1] + Window)
      /\ r = 1 \/ now + (r - 1) * TicksPerSec < hs[1] + Window
  <2> HIDE DEF r
  <2>1. r = RetrySeconds(hs) BY DEF r
  <2> QED BY <1>1, <1>7, <2>1, RetryRounded
<1> HIDE DEF r
<1>9. Within(accepted[c], IF now > Window THEN now - Window ELSE 0, now) >= Limit
  BY <1>1, <1>2, <1>4, <1>7, TrackedDenied, Numbers
<1>10. new \in Denials /\ new.client = c /\ new.at = now /\ new.retry = r /\ new.hits = hs
  BY <1>1, <1>5, <1>8 DEF Denials
<1> HIDE DEF new
<1>11. PICK bs : bs = [hits EXCEPT ![c] = hs] OBVIOUS
<1>12. bs \in [Clients -> Seq(Times)] /\ bs[c] = hs /\ \A x \in Clients \ {c} : bs[x] = hits[x]
  BY <1>1, <1>5, <1>11
<1>13. \A x \in Clients : Tracked(bs[x], accepted[x], Limit, Window, now) BY <1>3, <1>4, <1>12
<1>14. PruneStep(bs) BY <1>2, <1>11
<1>15. /\ hits' \in [Clients -> Seq(Times)] /\ sincePrune' \in 0..PruneEvery - 1
       /\ \A x \in Clients : Tracked(hits'[x], accepted[x], Limit, Window, now)
  BY <1>1, <1>12, <1>13, <1>14, PruneKeeps
<1>16. AuditTypeOK' /\ AuditInv' BY <1>0, <1>1, <1>2, AuditStutter
<1>17. TypeOK'
  <2>1. denied' \subseteq Denials BY <1>1, <1>2, <1>10
  <2>2. arrived' \in 0..MaxRequests BY <1>1, <1>2, Numbers
  <2> QED BY <1>1, <1>2, <1>15, <1>16, <2>1, <2>2, TypedPrimed
<1>18. Limiters' BY <1>2, <1>3, <1>15, LimitersPrimed
<1>19. DeniedIsOverBudget'
  <2>1. ASSUME NEW d \in denied' PROVE OverBudget(accepted[d.client], d) /\ RetryFits(d)
    <3>1. CASE d \in denied BY <1>0, <3>1, DeniedParts
    <3>2. CASE d = new BY <1>8, <1>9, <1>10, <3>2 DEF OverBudget, RetryFits
    <3> QED BY <1>2, <3>1, <3>2
  <2>2. accepted' = accepted BY <1>2
  <2> QED BY <2>1, <2>2, DeniedPrimed
<1> QED BY <1>16, <1>17, <1>18, <1>19 DEF IInv

\* A handler ends in an audit entry, whether or not the file system fails.
LEMMA ApiStep ==
  ASSUME IInv, NEW c \in Clients, ApiCall(c) \/ ApiCallFileFails(c)
  PROVE  IInv'
PROOF
<1>0. TypeOK /\ AuditInv /\ Limiters /\ DeniedIsOverBudget BY DEF IInv
<1>1. /\ AuditTypeOK /\ now \in Times /\ now \in Nat
      /\ hits \in [Clients -> Seq(Times)] /\ recent \in [Clients -> Seq(Times)]
      /\ accepted \in [Clients -> Seq(Times)] /\ reports \in [Clients -> Seq(Times)]
      /\ sincePrune \in 0..PruneEvery - 1 /\ waiting \in [Kinds \X Clients -> Nat]
      /\ stream \in Seq(Clients \X Times) /\ denied \subseteq Denials
      /\ arrived \in 0..MaxRequests /\ faults \in 0..MaxFaults
  BY <1>0, Typed
<1>2. /\ waiting[<<"api", c>>] > 0 /\ waiting' = [waiting EXCEPT ![<<"api", c>>] = @ - 1]
      /\ UNCHANGED <<now, hits, sincePrune, recent, stream, arrived, accepted, denied, reports>>
  BY DEF ApiCall, ApiCallFileFails, Leaves
<1>3. waiting' \in [Kinds \X Clients -> Nat]
  <2>1. <<"api", c>> \in Kinds \X Clients BY DEF Kinds
  <2>2. waiting[<<"api", c>>] \in Nat BY <1>1, <2>1
  <2>3. waiting[<<"api", c>>] - 1 \in Nat BY <1>2, <2>2
  <2> QED BY <1>1, <1>2, <2>3
<1>4. faults' \in 0..MaxFaults
  <2>1. faults' = faults \/ (faults < MaxFaults /\ faults' = faults + 1)
    BY DEF ApiCall, ApiCallFileFails
  <2>2. MaxFaults \in Nat /\ faults \in 0..MaxFaults BY <1>1, Numbers
  <2> QED BY <2>1, <2>2
<1>5. \E closes, opens, flushes \in BOOLEAN : Record(closes, opens, flushes)
  BY Zenon DEF ApiCall, ApiCallFileFails
<1>6. AuditTypeOK' /\ AuditInv' BY <1>0, <1>1, <1>5, RecordStep
<1>7. TypeOK' BY <1>1, <1>2, <1>3, <1>4, <1>6, TypedPrimed
<1>8. Limiters' BY <1>0, <1>2, LimitersPrimed DEF Limiters
<1>9. DeniedIsOverBudget' BY <1>0, <1>2, DeniedSame
<1> QED BY <1>6, <1>7, <1>8, <1>9 DEF IInv

\* A CSP report: addresses that are stale are forgotten, then c's throttle.
LEMMA CspStep ==
  ASSUME IInv, NEW c \in Clients, CspReport(c)
  PROVE  IInv'
PROOF
<1>0. TypeOK /\ AuditInv /\ Limiters /\ DeniedIsOverBudget BY DEF IInv
<1>1. /\ AuditTypeOK /\ now \in Times /\ now \in Nat
      /\ hits \in [Clients -> Seq(Times)] /\ recent \in [Clients -> Seq(Times)]
      /\ accepted \in [Clients -> Seq(Times)] /\ reports \in [Clients -> Seq(Times)]
      /\ sincePrune \in 0..PruneEvery - 1 /\ waiting \in [Kinds \X Clients -> Nat]
      /\ stream \in Seq(Clients \X Times) /\ denied \subseteq Denials
      /\ arrived \in 0..MaxRequests /\ faults \in 0..MaxFaults
  BY <1>0, Typed
<1> DEFINE rs == Alive(Evicted[c], CspWindow)
<1>2. /\ waiting[<<"csp", c>>] > 0 /\ waiting' = [waiting EXCEPT ![<<"csp", c>>] = @ - 1]
      /\ UNCHANGED <<now, hits, sincePrune, arrived, faults, accepted, denied, auditVars>>
  BY DEF CspReport, Leaves
<1>3. \A x \in Clients : /\ Tracked(hits[x], accepted[x], Limit, Window, now)
                         /\ Tracked(recent[x], reports[x], CspBudget, CspWindow, now)
  BY <1>0 DEF Limiters
<1>4. CspBudget \in Nat \ {0} /\ CspWindow \in Nat BY Numbers
<1>5. PICK ev : ev = Evicted OBVIOUS
<1>6. ev \in [Clients -> Seq(Times)]
      /\ \A x \in Clients : Tracked(ev[x], reports[x], CspBudget, CspWindow, now)
  <2>1. ev = [x \in Clients |->
                IF recent[x] # <<>> /\ recent[x][Len(recent[x])] + CspWindow < now
                THEN <<>> ELSE recent[x]]
    BY <1>5 DEF Evicted
  <2>2. ev \in [Clients -> Seq(Times)] BY <1>1, <2>1
  <2>3. ASSUME NEW x \in Clients PROVE Tracked(ev[x], reports[x], CspBudget, CspWindow, now)
    <3>1. CASE recent[x] # <<>> /\ recent[x][Len(recent[x])] + CspWindow < now
      <4>1. ev[x] = <<>> BY <2>1, <3>1
      <4>2. Tracked(<<>>, reports[x], CspBudget, CspWindow, now)
        BY <1>1, <1>3, <1>4, <3>1, TrackedEvict
      <4> QED BY <4>1, <4>2
    <3>2. CASE ~(recent[x] # <<>> /\ recent[x][Len(recent[x])] + CspWindow < now)
      <4>1. ev[x] = recent[x] BY <2>1, <3>2
      <4> QED BY <1>3, <4>1
    <3> QED BY <3>1, <3>2
  <2> QED BY <2>2, <2>3
<1>7. rs = Alive(ev[c], CspWindow) BY <1>5
<1>8. rs \in Seq(Times) /\ Tracked(rs, reports[c], CspBudget, CspWindow, now)
  <2> HIDE DEF rs
  <2>1. ev[c] \in Seq(Times) BY <1>6
  <2> QED BY <1>1, <1>4, <1>6, <1>7, <2>1, AliveTyped, TrackedAlive
<1>9. \/ Throttled(rs) /\ recent' = [Evicted EXCEPT ![c] = rs] /\ stream' = stream /\ reports' = reports
      \/ /\ ~Throttled(rs) /\ recent' = [Evicted EXCEPT ![c] = Append(rs, now)]
         /\ Emit(c) /\ reports' = [reports EXCEPT ![c] = Append(@, now)]
  BY DEF CspReport
<1> HIDE DEF rs
<1>10. SUFFICES /\ recent' \in [Clients -> Seq(Times)] /\ reports' \in [Clients -> Seq(Times)]
                /\ stream' \in Seq(Clients \X Times)
                /\ \A x \in Clients : Tracked(recent'[x], reports'[x], CspBudget, CspWindow, now)
  <2>1. waiting' \in [Kinds \X Clients -> Nat]
    <3>1. <<"csp", c>> \in Kinds \X Clients BY DEF Kinds
    <3>2. waiting[<<"csp", c>>] \in Nat BY <1>1, <3>1
    <3>3. waiting[<<"csp", c>>] - 1 \in Nat BY <1>2, <3>2
    <3> QED BY <1>1, <1>2, <3>3
  <2>2. AuditTypeOK' /\ AuditInv' BY <1>0, <1>1, <1>2, AuditStutter
  <2>3. TypeOK' BY <1>1, <1>2, <1>10, <2>1, <2>2, TypedPrimed
  <2>4. Limiters' BY <1>2, <1>3, <1>10, LimitersPrimed
  <2>5. DeniedIsOverBudget' BY <1>0, <1>2, DeniedSame
  <2> QED BY <2>2, <2>3, <2>4, <2>5 DEF IInv
<1>11. CASE Throttled(rs) /\ recent' = [Evicted EXCEPT ![c] = rs] /\ stream' = stream /\ reports' = reports
  <2>1. recent' = [ev EXCEPT ![c] = rs] BY <1>5, <1>11
  <2>2. /\ recent' \in [Clients -> Seq(Times)] /\ recent'[c] = rs
        /\ \A x \in Clients \ {c} : recent'[x] = ev[x]
    BY <1>6, <1>8, <2>1
  <2>3. \A x \in Clients : Tracked(recent'[x], reports'[x], CspBudget, CspWindow, now)
    BY <1>6, <1>8, <1>11, <2>2
  <2> QED BY <1>1, <1>11, <2>2, <2>3
<1>12. CASE /\ ~Throttled(rs) /\ recent' = [Evicted EXCEPT ![c] = Append(rs, now)]
            /\ Emit(c) /\ reports' = [reports EXCEPT ![c] = Append(@, now)]
  <2>1. Len(rs) < CspBudget
    <3>1. Len(rs) \in Nat BY <1>8
    <3> QED BY <1>4, <1>12, <3>1 DEF Throttled
  <2>2. PICK a : a = Append(rs, now) OBVIOUS
  <2>3. PICK b : b = Append(reports[c], now) OBVIOUS
  <2>4. a \in Seq(Times) /\ b \in Seq(Times)
    <3>1. reports[c] \in Seq(Times) BY <1>1
    <3> QED BY <1>1, <1>8, <2>2, <2>3, <3>1, AppendTime
  <2>5. Tracked(a, b, CspBudget, CspWindow, now)
    BY <1>1, <1>4, <1>8, <2>1, <2>2, <2>3, TrackedAdmit
  <2>6. recent' = [ev EXCEPT ![c] = a] BY <1>5, <1>12, <2>2
  <2>7. /\ recent' \in [Clients -> Seq(Times)] /\ recent'[c] = a
        /\ \A x \in Clients \ {c} : recent'[x] = ev[x]
    BY <1>6, <2>4, <2>6
  <2>8. /\ reports' \in [Clients -> Seq(Times)] /\ reports'[c] = b
        /\ \A x \in Clients \ {c} : reports'[x] = reports[x]
    BY <1>1, <1>12, <2>3, <2>4
  <2>9. \A x \in Clients : Tracked(recent'[x], reports'[x], CspBudget, CspWindow, now)
    BY <1>6, <2>5, <2>7, <2>8
  <2>10. stream' \in Seq(Clients \X Times)
    <3>1. PICK T : T = Clients \X Times OBVIOUS
    <3>2. PICK s : s = Append(stream, <<c, now>>) OBVIOUS
    <3>3. s \in Seq(T)
      <4>1. <<c, now>> \in T BY <1>1, <3>1
      <4>2. stream \in Seq(T) BY <1>1, <3>1
      <4> QED BY <3>2, <4>1, <4>2
    <3>4. stream' = Last(s, StreamMax) BY <1>12, <3>2 DEF Emit
    <3>5. stream' \in Seq(T) BY <3>3, <3>4, LastParts, Numbers
    <3> QED BY <3>1, <3>5
  <2> QED BY <2>7, <2>8, <2>9, <2>10
<1> QED BY <1>9, <1>11, <1>12

\* The process ends and another one begins.
LEMMA RestartStep ==
  ASSUME IInv, Restart
  PROVE  IInv'
PROOF
<1>0. TypeOK /\ AuditInv /\ Limiters /\ DeniedIsOverBudget BY DEF IInv
<1>1. /\ AuditTypeOK /\ now \in Times /\ now \in Nat
      /\ hits \in [Clients -> Seq(Times)] /\ recent \in [Clients -> Seq(Times)]
      /\ accepted \in [Clients -> Seq(Times)] /\ reports \in [Clients -> Seq(Times)]
      /\ sincePrune \in 0..PruneEvery - 1 /\ waiting \in [Kinds \X Clients -> Nat]
      /\ stream \in Seq(Clients \X Times) /\ denied \subseteq Denials
      /\ arrived \in 0..MaxRequests /\ faults \in 0..MaxFaults
  BY <1>0, Typed
<1>2. /\ faults < MaxFaults /\ faults' = faults + 1
      /\ hits' = [c \in Clients |-> <<>>] /\ recent' = [c \in Clients |-> <<>>]
      /\ accepted' = [c \in Clients |-> <<>>] /\ reports' = [c \in Clients |-> <<>>]
      /\ waiting' = [q \in Kinds \X Clients |-> 0]
      /\ stream' = <<>> /\ denied' = {} /\ sincePrune' = 0
      /\ now' = now /\ arrived' = arrived
  BY DEF Restart
<1>3. AuditTypeOK' /\ AuditInv' BY <1>0, <1>1, AuditRestartStep DEF Restart
<1>4. TypeOK'
  <2>1. waiting' \in [Kinds \X Clients -> Nat] BY <1>2
  <2>2. faults' \in 0..MaxFaults BY <1>1, <1>2, Numbers
  <2>3. sincePrune' \in 0..PruneEvery - 1 BY <1>2, Numbers
  <2>4. stream' \in Seq(Clients \X Times) BY <1>2
  <2>5. /\ hits' \in [Clients -> Seq(Times)] /\ recent' \in [Clients -> Seq(Times)]
        /\ accepted' \in [Clients -> Seq(Times)] /\ reports' \in [Clients -> Seq(Times)]
    BY <1>2
  <2>6. denied' \subseteq Denials BY <1>2
  <2> QED BY <1>1, <1>2, <1>3, <2>1, <2>2, <2>3, <2>4, <2>5, <2>6, TypedPrimed
<1>5. Limiters'
  <2>1. ASSUME NEW c \in Clients
        PROVE  /\ Tracked(hits'[c], accepted'[c], Limit, Window, now')
               /\ Tracked(recent'[c], reports'[c], CspBudget, CspWindow, now')
    <3>1. hits'[c] = <<>> /\ accepted'[c] = <<>> /\ recent'[c] = <<>> /\ reports'[c] = <<>> BY <1>2
    <3> QED BY <1>1, <1>2, <3>1, TrackedNone, Numbers
  <2> QED BY <2>1, LimitersPrimed
<1>6. DeniedIsOverBudget' BY <1>2 DEF DeniedIsOverBudget
<1> QED BY <1>3, <1>4, <1>5, <1>6 DEF IInv

LEMMA StutterStep ==
  ASSUME IInv, UNCHANGED vars
  PROVE  IInv'
PROOF
<1>0. TypeOK /\ AuditInv /\ Limiters /\ DeniedIsOverBudget BY DEF IInv
<1>1. /\ AuditTypeOK /\ now \in Times /\ now \in Nat
      /\ hits \in [Clients -> Seq(Times)] /\ recent \in [Clients -> Seq(Times)]
      /\ accepted \in [Clients -> Seq(Times)] /\ reports \in [Clients -> Seq(Times)]
      /\ sincePrune \in 0..PruneEvery - 1 /\ waiting \in [Kinds \X Clients -> Nat]
      /\ stream \in Seq(Clients \X Times) /\ denied \subseteq Denials
      /\ arrived \in 0..MaxRequests /\ faults \in 0..MaxFaults
  BY <1>0, Typed
<1>2. UNCHANGED <<now, hits, sincePrune, waiting, recent, stream, arrived, faults, accepted, denied,
                  reports, auditVars>>
  BY DEF vars, gateVars
<1>3. AuditTypeOK' /\ AuditInv' BY <1>0, <1>1, <1>2, AuditStutter
<1>4. TypeOK' BY <1>1, <1>2, <1>3, TypedPrimed
<1>5. Limiters' BY <1>0, <1>2, LimitersPrimed DEF Limiters
<1>6. DeniedIsOverBudget' BY <1>0, <1>2, DeniedSame
<1> QED BY <1>3, <1>4, <1>5, <1>6 DEF IInv

LEMMA NextIInv == IInv /\ [Next]_vars => IInv'
PROOF
<1> SUFFICES ASSUME IInv, [Next]_vars PROVE IInv' OBVIOUS
<1>1. CASE UNCHANGED vars BY <1>1, StutterStep
<1>2. CASE Next
  BY <1>2, ClockStep, RestartStep, AdmitStep, DenyStep, ApiStep, CspStep DEF Next
<1> QED BY <1>1, <1>2

\* The invariant holds in every state the server process reaches.
THEOREM GateInv == Spec => []IInv
PROOF BY InitIInv, NextIInv, PTL DEF Spec
--------------------------------------------------------------------------
(* The results.                                                            *)

\* Every variable keeps its type, for any limits and any number of clients:
\* among others the ring never holds more than AUDIT_MAX entries and the
\* pruning counter never reaches PRUNE_EVERY.
THEOREM TypeCorrect == Spec => []TypeOK
PROOF
<1>1. IInv => TypeOK BY DEF IInv
<1> QED BY <1>1, GateInv, PTL

\* The budgets of rate_limit.py and csp_violation_reporter.py hold in every
\* window of time, for every limit and window, whatever is pruned or evicted
\* in between.
THEOREM BudgetsHold == Spec => []BudgetHolds
PROOF
<1>1. IInv => BudgetHolds
  <2> SUFFICES ASSUME IInv, NEW c \in Clients
               PROVE  /\ \A i \in DOMAIN accepted[c] :
                           Within(accepted[c], accepted[c][i], accepted[c][i] + Window) <= Limit
                      /\ \A i \in DOMAIN reports[c] :
                           Within(reports[c], reports[c][i], reports[c][i] + CspWindow) <= CspBudget
    BY DEF BudgetHolds
  <2>1. /\ Tracked(hits[c], accepted[c], Limit, Window, now)
        /\ Tracked(recent[c], reports[c], CspBudget, CspWindow, now) /\ now \in Nat
    BY Typed DEF IInv, Limiters
  <2>2. DOMAIN accepted[c] = 1..Len(accepted[c]) /\ DOMAIN reports[c] = 1..Len(reports[c])
    BY <2>1 DEF Tracked
  <2>3. /\ Limit \in Nat \ {0} /\ Window \in Nat /\ CspBudget \in Nat \ {0} /\ CspWindow \in Nat
    BY Numbers
  <2>4. ASSUME NEW i \in 1..Len(accepted[c])
        PROVE  Within(accepted[c], accepted[c][i], accepted[c][i] + Window) <= Limit
    BY <2>1, <2>3, TrackedBudget
  <2>5. ASSUME NEW i \in 1..Len(reports[c])
        PROVE  Within(reports[c], reports[c][i], reports[c][i] + CspWindow) <= CspBudget
    BY <2>1, <2>3, TrackedBudget
  <2> QED BY <2>2, <2>4, <2>5
<1> QED BY <1>1, GateInv, PTL

\* A 429 is answered only to a client that has had its limit, and Retry-After
\* is rounded as dispatch means it to be, for every length of a tick.
THEOREM DenialsAreDue == Spec => []DeniedIsOverBudget
PROOF
<1>1. IInv => DeniedIsOverBudget BY DEF IInv
<1> QED BY <1>1, GateInv, PTL

\* No entry that audit.record took is unaccounted for, through rotation,
\* failing file operations and restarts.
THEOREM EntriesAccounted == Spec => []EntryAccounted
PROOF
<1>1. IInv => EntryAccounted BY DEF IInv, AuditInv
<1> QED BY <1>1, GateInv, PTL

\* The order of a snapshot is the order of the lines on disk, and no entry is
\* on two lines.
THEOREM TiersInOrder == Spec => []TiersAgree
PROOF
<1>1. IInv => TiersAgree
  <2> SUFFICES ASSUME IInv PROVE TiersAgree OBVIOUS
  <2>1. /\ files \in [Days -> Seq(1..recorded)] /\ recorded \in Nat /\ ring \in Seq(1..recorded)
        /\ AuditMax \in Nat \ {0}
    BY AuditAssumption, Typed DEF IInv, AuditTypeOK
  <2>2. Ordered(files) /\ Increasing(ring) BY DEF IInv, AuditInv
  <2>3. PICK l : l = Last(ring, AuditMax) OBVIOUS
  <2>4. l \in Seq(1..recorded)
        /\ \E o \in Nat : Len(ring) = o + Len(l) /\ \A i \in 1..Len(l) : l[i] = ring[o + i]
    BY <2>1, <2>3, LastParts
  <2>5. PICK o \in Nat : Len(ring) = o + Len(l) /\ \A i \in 1..Len(l) : l[i] = ring[o + i]
    BY <2>4
  <2>6. PICK s : s = Snapshot(AuditMax) OBVIOUS
  <2>7. Len(l) \in Nat /\ Len(ring) \in Nat /\ DOMAIN l = 1..Len(l) BY <2>1, <2>4
  <2>8. s = [i \in 1..Len(l) |-> l[Len(l) - i + 1]] BY <2>3, <2>6, <2>7 DEF Snapshot
  \* A snapshot is newest first.
  <2>9. ASSUME NEW i \in DOMAIN s, NEW j \in DOMAIN s, i < j PROVE s[i] > s[j]
    <3>1. i \in 1..Len(l) /\ j \in 1..Len(l) BY <2>8
    <3>2. Len(l) - i + 1 \in 1..Len(l) /\ Len(l) - j + 1 \in 1..Len(l) BY <2>7, <3>1
    <3>3. s[i] = ring[o + (Len(l) - i + 1)] /\ s[j] = ring[o + (Len(l) - j + 1)]
      BY <2>5, <2>8, <3>1, <3>2
    <3>4. PICK a, b : a = o + (Len(l) - i + 1) /\ b = o + (Len(l) - j + 1) OBVIOUS
    <3>5. a \in 1..Len(ring) /\ b \in 1..Len(ring) /\ b < a BY <2>5, <2>7, <2>9, <3>1, <3>2, <3>4, SMTT(30)
    <3>6. ring[b] < ring[a] BY <2>2, <3>5 DEF Increasing
    <3>7. ring[a] \in 1..recorded /\ ring[b] \in 1..recorded BY <2>1, <3>5, ElementTyped
    <3> QED BY <2>1, <3>3, <3>4, <3>6, <3>7
  \* Of two lines the one with the larger entry comes later.
  <2>10. ASSUME NEW d1 \in Days, NEW d2 \in Days, NEW m \in DOMAIN files[d1],
                NEW n \in DOMAIN files[d2]
         PROVE  /\ files[d1][m] > files[d2][n] => d1 > d2 \/ (d1 = d2 /\ m > n)
                /\ files[d1][m] = files[d2][n] => d1 = d2 /\ m = n
    <3>1. /\ files[d1] \in Seq(1..recorded) /\ files[d2] \in Seq(1..recorded)
      BY <2>1
    <3>2. m \in 1..Len(files[d1]) /\ n \in 1..Len(files[d2]) /\ m \in Nat /\ n \in Nat BY <3>1
    <3>3. d1 \in Nat /\ d2 \in Nat BY DEF Days
    <3>4. files[d1][m] \in 1..recorded /\ files[d2][n] \in 1..recorded BY <3>1, <3>2, ElementTyped
    <3>5. (d1 < d2 \/ (d1 = d2 /\ m < n)) => files[d1][m] < files[d2][n]
      BY <2>2, <3>2 DEF Ordered
    <3>6. (d2 < d1 \/ (d2 = d1 /\ n < m)) => files[d2][n] < files[d1][m]
      BY <2>2, <3>2 DEF Ordered
    <3>7. PICK x, y : x = files[d1][m] /\ y = files[d2][n] OBVIOUS
    <3>8. x \in Nat /\ y \in Nat BY <2>1, <3>4, <3>7
    <3>9. CASE d1 = d2 /\ m = n BY <3>8, <3>7, <3>9
    <3>10. CASE d1 < d2 \/ (d1 = d2 /\ m < n) BY <3>5, <3>7, <3>8, <3>10
    <3>11. CASE d2 < d1 \/ (d2 = d1 /\ n < m) BY <3>6, <3>7, <3>8, <3>11
    <3> QED BY <3>2, <3>3, <3>9, <3>10, <3>11
  <2>11. ASSUME NEW i \in DOMAIN s, NEW j \in DOMAIN s, i < j,
                NEW d1 \in Days, NEW d2 \in Days, NEW m \in DOMAIN files[d1],
                NEW n \in DOMAIN files[d2], OnDisk(d1, m, s[i]), OnDisk(d2, n, s[j])
         PROVE  d1 > d2 \/ (d1 = d2 /\ m > n)
    BY <2>9, <2>10, <2>11 DEF OnDisk
  <2>12. ASSUME NEW e \in 1..recorded, NEW d1 \in Days, NEW d2 \in Days,
                NEW m \in DOMAIN files[d1], NEW n \in DOMAIN files[d2],
                OnDisk(d1, m, e), OnDisk(d2, n, e)
         PROVE  d1 = d2 /\ m = n
    BY <2>10, <2>12 DEF OnDisk
  <2> QED BY <2>6, <2>11, <2>12 DEF TiersAgree
<1> QED BY <1>1, GateInv, PTL
=============================================================================
