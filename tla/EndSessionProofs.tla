-------------------------- MODULE EndSessionProofs --------------------------
(***************************************************************************)
(* Theorems about EndSession for every number of sessions and instances,   *)
(* and every size of the receipt buffer: the types, that no receipt is     *)
(* skipped silently, and that each receipt is counted once as long as the  *)
(* lock keeps the sessions apart.                                          *)
(***************************************************************************)
EXTENDS EndSession, TLAPS

\* A buffer of Buf has lost none of the receipts or all but the last Buf.
LEMMA RotatedType ==
  ASSUME NEW n \in Seqs
  PROVE  Rotated(n) \in Seqs /\ Rotated(n) <= n
BY SessionAssumption DEF Rotated, Seqs

\* What a session computes from a proxy's receipts is a row of the ledger.
LEMMA AggregateType ==
  ASSUME NEW i \in Insts, NEW n \in Seqs, NEW marks \in Marks
  PROVE  AggregateReceipts(i, n, marks) \in Row
<1>1. Rotated(n) \in Seqs
  BY RotatedType
<1>2. marks[i] \in Seqs /\ 0 \in Seqs
  BY SessionAssumption DEF Marks, Seqs
<1>3. [marks EXCEPT ![i] = n] \in Marks
  BY DEF Marks
<1> QED
  BY <1>1, <1>2, <1>3 DEF AggregateReceipts, Row

LEMMA IdleType == Idle \in Sess /\ OfflineRow \in Row
<1>1. 0 \in Seqs
  BY SessionAssumption DEF Seqs
<1>2. NoMarks \in Marks
  BY <1>1 DEF NoMarks, Marks
<1> QED
  BY <1>1, <1>2 DEF Idle, Sess, OfflineRow, Row, PCs

LEMMA InitTyped == Init => TypeOK
<1> SUFFICES ASSUME Init PROVE TypeOK
  OBVIOUS
<1>1. seq \in [Insts -> Seqs]
  BY SessionAssumption DEF Init, Seqs
<1>2. ledger \in Seq(Row)
  BY DEF Init
<1>3. lock \in Locks
  BY DEF Init, NoLock, Locks
<1>4. sess \in [Sessions -> Sess]
  BY IdleType DEF Init
<1> QED
  BY <1>1, <1>2, <1>3, <1>4 DEF TypeOK

LEMMA NextTyped == TypeOK /\ [Next]_vars => TypeOK'
<1> SUFFICES ASSUME TypeOK, [Next]_vars PROVE TypeOK'
  OBVIOUS
<1> USE DEF TypeOK
<1>1. CASE UNCHANGED vars
  BY <1>1 DEF vars
<1>2. CASE \E i \in Insts : Issue(i)
  BY <1>2, SessionAssumption DEF Issue, Seqs
<1>3. CASE Age
  BY <1>3 DEF Age, Locks
<1>4. ASSUME NEW p \in Sessions, Begin(p) \/ Step(p) \/ GiveUp(p) \/ Crash(p)
      PROVE  TypeOK'
  <2>1. ASSUME NEW pc \in PCs, Goto(p, pc) PROVE sess' \in [Sessions -> Sess]
    BY <2>1 DEF Goto, Sess
  <2>2. CASE Begin(p)
    BY <2>1, <2>2 DEF Begin, PCs
  <2>3. CASE Create(p)
    BY <2>1, <2>3 DEF Create, PCs, Locks
  <2>4. CASE WriteLock(p)
    <3>1. sess' \in [Sessions -> Sess]
      BY <2>4 DEF WriteLock, Sess, PCs
    <3> QED
      BY <2>4, <3>1 DEF WriteLock, Locks
  <2>5. CASE Exists(p)
    BY <2>1, <2>5 DEF Exists, PCs
  <2>6. CASE Inspect(p)
    BY <2>1, <2>6 DEF Inspect, PCs
  <2>7. CASE Unlink(p)
    BY <2>1, <2>7 DEF Unlink, NoLock, Locks, PCs
  <2>8. CASE Retry(p) \/ GiveUp(p)
    BY <2>1, <2>8 DEF Retry, GiveUp, PCs
  <2>9. CASE ReadReceiptWatermarks(p)
    BY <2>9 DEF ReadReceiptWatermarks, Sess, PCs
  <2>10. CASE Fetch(p)
    <3>1. \A i \in Insts : AggregateReceipts(i, seq[i], sess[p].marks) \in Row
      BY AggregateType DEF Sess
    <3>2. \E r \in Row : sess' = [sess EXCEPT ![p].pc = "append", ![p].row = r]
      BY <2>10, <3>1, IdleType DEF Fetch
    <3>3. sess' \in [Sessions -> Sess]
      BY <3>2 DEF Sess, PCs
    <3> QED
      BY <2>10, <3>3 DEF Fetch
  <2>11. CASE AppendRow(p)
    <3>1. sess[p].row \in Row
      BY DEF Sess
    <3>2. Append(ledger, sess[p].row) \in Seq(Row)
      BY <3>1
    <3> QED
      BY <2>1, <2>11, <3>2 DEF AppendRow, PCs
  <2>12. CASE AppendFails(p)
    BY <2>1, <2>12 DEF AppendFails, PCs
  <2>13. CASE Release(p)
    BY <2>13, IdleType DEF Release, NoLock, Locks
  <2>14. CASE Crash(p)
    BY <2>14, IdleType DEF Crash
  <2> QED
    BY <1>4, <2>2, <2>3, <2>4, <2>5, <2>6, <2>7, <2>8, <2>9, <2>10, <2>11,
       <2>12, <2>13, <2>14 DEF Step
<1> QED
  BY <1>1, <1>2, <1>3, <1>4 DEF Next

\* The four variables keep their types.
THEOREM Typing == Spec => []TypeOK
BY InitTyped, NextTyped, PTL DEF Spec

-----------------------------------------------------------------------------
(* No receipt is skipped silently.                                         *)

\* A row of the ledger L counts receipt n of instance i or admits it was missed.
Accounted(L, i, n) ==
  \E j \in DOMAIN L : Counts(L[j], i, n) \/ Admits(L[j], i, n)

\* What a session has in hand: watermarks whose receipts are accounted for, then
\* a row that accounts for whatever lies between them and its own.
SessionSound(p) ==
  /\ At(p, "fetch") =>
       \A i \in Insts : \A n \in 1..sess[p].marks[i] : Accounted(ledger, i, n)
  /\ At(p, "append") =>
       \A i \in Insts : \A n \in 1..sess[p].row.receipt_watermarks[i] :
         \/ Accounted(ledger, i, n)
         \/ Counts(sess[p].row, i, n) \/ Admits(sess[p].row, i, n)

SkipInv == TypeOK /\ NothingSkipped /\ \A p \in Sessions : SessionSound(p)

\* A row accounts for every receipt between the watermark read and its own.
LEMMA AggregateAccounts ==
  ASSUME NEW i \in Insts, NEW n \in Seqs, NEW marks \in Marks, NEW j \in Insts,
         NEW m \in 1..AggregateReceipts(i, n, marks).receipt_watermarks[j],
         ~(m \in 1..marks[j])
  PROVE  \/ Counts(AggregateReceipts(i, n, marks), j, m)
         \/ Admits(AggregateReceipts(i, n, marks), j, m)
<1> DEFINE r == AggregateReceipts(i, n, marks)
<1>1. n \in Nat /\ marks[i] \in Nat /\ marks[j] \in Nat
      /\ Rotated(n) \in Nat /\ Rotated(n) <= n
  BY RotatedType, SessionAssumption DEF Marks, Seqs
<1>2. j = i /\ n # 0 /\ m \in 1..n /\ m > marks[i]
  <2>1. r.receipt_watermarks = IF n = 0 THEN marks ELSE [marks EXCEPT ![i] = n]
    BY DEF AggregateReceipts
  <2>2. m \in 1..r.receipt_watermarks[j]
    OBVIOUS
  <2> QED
    BY <1>1, <2>1, <2>2 DEF Marks
<1>3. r.inst = i /\ r.hi = n /\ r.prev = marks[i]
  BY DEF AggregateReceipts
<1>4. CASE marks[i] = 0
  <2>1. r.lo = Rotated(n)
    BY <1>4 DEF AggregateReceipts
  <2> QED
    BY <1>1, <1>2, <1>3, <1>4, <2>1 DEF Counts, Admits
<1>5. CASE marks[i] # 0 /\ marks[i] <= Rotated(n)
  <2>1. r.lo = Rotated(n) /\ r.coverage = "partial"
    BY <1>5 DEF AggregateReceipts
  <2> QED
    BY <1>1, <1>2, <1>3, <2>1 DEF Counts, Admits
<1>6. CASE marks[i] # 0 /\ ~(marks[i] <= Rotated(n))
  <2>1. r.lo = marks[i]
    BY <1>6 DEF AggregateReceipts
  <2> QED
    BY <1>1, <1>2, <1>3, <2>1 DEF Counts
<1> QED
  BY <1>4, <1>5, <1>6

\* Rows are only added at the end, so nothing becomes unaccounted for.
LEMMA AppendKeeps ==
  ASSUME NEW L \in Seq(Row), NEW r \in Row
  PROVE  /\ DOMAIN Append(L, r) = 1..(Len(L) + 1)
         /\ DOMAIN L = 1..Len(L) /\ Len(L) \in Nat
         /\ \A j \in DOMAIN L : Append(L, r)[j] = L[j]
         /\ Append(L, r)[Len(L) + 1] = r
         /\ \A i, n : Accounted(L, i, n) => Accounted(Append(L, r), i, n)
<1>1. DOMAIN L = 1..Len(L) /\ Len(L) \in Nat
  OBVIOUS
<1>2. DOMAIN Append(L, r) = 1..(Len(L) + 1)
  OBVIOUS
<1>3. \A j \in DOMAIN L : Append(L, r)[j] = L[j]
  OBVIOUS
<1>4. Append(L, r)[Len(L) + 1] = r
  OBVIOUS
<1>5. \A j \in DOMAIN L : j \in DOMAIN Append(L, r)
  BY <1>1, <1>2
<1>6. ASSUME NEW i, NEW n, Accounted(L, i, n) PROVE Accounted(Append(L, r), i, n)
  BY <1>3, <1>5, <1>6 DEF Accounted
<1> QED
  BY <1>1, <1>2, <1>3, <1>4, <1>6

\* A watermark read from the file is that of some row, and so accounted for.
LEMMA MarkAccounted ==
  ASSUME TypeOK, NothingSkipped, NEW i \in Insts, NEW m \in Seqs, IsMark(i, m),
         NEW n \in 1..m
  PROVE  Accounted(ledger, i, n)
<1>1. m # 0
  BY SessionAssumption DEF Seqs
<1>2. PICK k \in DOMAIN ledger : m = ledger[k].receipt_watermarks[i]
  BY <1>1 DEF IsMark, Marking
<1>3. PICK j \in 1..k : Counts(ledger[j], i, n) \/ Admits(ledger[j], i, n)
  BY <1>2 DEF NothingSkipped
<1>4. j \in DOMAIN ledger
  BY <1>2, <1>3 DEF TypeOK
<1> QED
  BY <1>3, <1>4 DEF Accounted

LEMMA InitSkipInv == Init => SkipInv
<1> SUFFICES ASSUME Init PROVE SkipInv
  OBVIOUS
<1>1. NothingSkipped
  BY DEF Init, NothingSkipped
<1>2. \A p \in Sessions : SessionSound(p)
  BY DEF Init, SessionSound, At, Idle
<1> QED
  BY <1>1, <1>2, InitTyped DEF SkipInv

\* A step of p that leaves the ledger alone and ends outside the two places where
\* a session holds watermarks or a row.
LEMMA QuietStep ==
  ASSUME SkipInv, TypeOK', NEW p \in Sessions, ledger' = ledger,
         \A q \in Sessions \ {p} : sess'[q] = sess[q],
         SessionSound(p)'
  PROVE  SkipInv'
<1>1. NothingSkipped'
  BY DEF SkipInv, NothingSkipped
<1>2. \A q \in Sessions \ {p} : SessionSound(q)'
  BY DEF SkipInv, SessionSound, At
<1> QED
  BY <1>1, <1>2 DEF SkipInv

LEMMA NextSkipInv == SkipInv /\ [Next]_vars => SkipInv'
<1> SUFFICES ASSUME SkipInv, [Next]_vars PROVE SkipInv'
  OBVIOUS
<1>1. TypeOK /\ TypeOK'
  BY NextTyped DEF SkipInv
<1>2. CASE ledger' = ledger /\ sess' = sess
  BY <1>1, <1>2 DEF SkipInv, NothingSkipped, SessionSound, At
<1>3. ASSUME NEW p \in Sessions, Begin(p) \/ Step(p) \/ GiveUp(p) \/ Crash(p)
      PROVE  SkipInv'
  <2>1. ASSUME ledger' = ledger,
               \E s \in Sess : sess' = [sess EXCEPT ![p] = s],
               ~At(p, "fetch")', ~At(p, "append")'
        PROVE  SkipInv'
    <3>1. \A q \in Sessions \ {p} : sess'[q] = sess[q]
      BY <1>1, <2>1 DEF TypeOK
    <3> QED
      BY <1>1, <2>1, <3>1, QuietStep DEF SessionSound
  <2>2. ASSUME NEW pc \in PCs \ {"fetch", "append"}, Goto(p, pc), ledger' = ledger
        PROVE  SkipInv'
    <3>1. [sess[p] EXCEPT !.pc = pc] \in Sess
      BY <1>1 DEF TypeOK, Sess
    <3>2. sess' = [sess EXCEPT ![p] = [sess[p] EXCEPT !.pc = pc]]
      BY <2>2 DEF Goto
    <3>3. sess'[p].pc = pc
      BY <1>1, <3>2 DEF TypeOK, Sess
    <3> QED
      BY <2>1, <2>2, <3>1, <3>2, <3>3 DEF At
  <2>3. CASE Begin(p)       BY <2>2, <2>3 DEF Begin, PCs
  <2>4. CASE Create(p)      BY <2>2, <2>4 DEF Create, PCs
  <2>5. CASE WriteLock(p)
    <3>1. \A q \in Sessions \ {p} : sess'[q] = sess[q]
      BY <1>1, <2>5 DEF WriteLock, TypeOK
    <3>2. sess'[p].pc = "read"
      BY <1>1, <2>5 DEF WriteLock, TypeOK, Sess
    <3> QED
      BY <1>1, <2>5, <3>1, <3>2, QuietStep DEF WriteLock, SessionSound, At
  <2>6. CASE Exists(p)      BY <2>2, <2>6 DEF Exists, PCs
  <2>7. CASE Inspect(p)     BY <2>2, <2>7 DEF Inspect, PCs
  <2>8. CASE Unlink(p)      BY <2>2, <2>8 DEF Unlink, PCs
  <2>9. CASE Retry(p)       BY <2>2, <2>9 DEF Retry, PCs
  <2>10. CASE GiveUp(p)     BY <2>2, <2>10 DEF GiveUp, PCs
  <2>11. CASE AppendFails(p) BY <2>2, <2>11 DEF AppendFails, PCs
  <2>12. CASE Release(p) \/ Crash(p)
    <3>1. ledger' = ledger /\ sess' = [sess EXCEPT ![p] = Idle]
      BY <2>12 DEF Release, Crash
    <3>2. sess'[p].pc = "idle"
      BY <1>1, <3>1 DEF TypeOK, Idle
    <3> QED
      BY <2>1, <3>1, <3>2, IdleType DEF At
  <2>13. CASE ReadReceiptWatermarks(p)
    <3>1. PICK m \in Marks :
            /\ \A i \in Insts : IsMark(i, m[i])
            /\ sess' = [sess EXCEPT ![p].pc = "fetch", ![p].marks = m]
      BY <2>13 DEF ReadReceiptWatermarks
    <3>2. ledger' = ledger
      BY <2>13 DEF ReadReceiptWatermarks
    <3>3. sess'[p].pc = "fetch" /\ sess'[p].marks = m
          /\ \A q \in Sessions \ {p} : sess'[q] = sess[q]
      BY <1>1, <3>1 DEF TypeOK, Sess
    <3>4. \A i \in Insts : \A n \in 1..m[i] : Accounted(ledger, i, n)
      BY <1>1, <3>1, MarkAccounted DEF SkipInv, Marks
    <3>5. SessionSound(p)'
      BY <3>2, <3>3, <3>4 DEF SessionSound, At
    <3> QED
      BY <1>1, <3>2, <3>3, <3>5, QuietStep
  <2>14. CASE Fetch(p)
    <3> DEFINE marks == sess[p].marks
    <3>1. PICK r \in Row :
            /\ r = OfflineRow \/ \E i \in Insts : r = AggregateReceipts(i, seq[i], marks)
            /\ sess' = [sess EXCEPT ![p].pc = "append", ![p].row = r]
      <4>1. \A i \in Insts : AggregateReceipts(i, seq[i], marks) \in Row
        BY <1>1, AggregateType DEF TypeOK, Sess
      <4> QED
        BY <2>14, <4>1, IdleType DEF Fetch
    <3>2. ledger' = ledger
      BY <2>14 DEF Fetch
    <3>3. sess'[p].pc = "append" /\ sess'[p].row = r
          /\ \A q \in Sessions \ {p} : sess'[q] = sess[q]
      BY <1>1, <3>1 DEF TypeOK, Sess
    <3>4. ASSUME NEW j \in Insts, NEW n \in 1..r.receipt_watermarks[j]
          PROVE  Accounted(ledger, j, n) \/ Counts(r, j, n) \/ Admits(r, j, n)
      <4>1. CASE r = OfflineRow
        BY <4>1 DEF OfflineRow, NoMarks
      <4>2. ASSUME NEW i \in Insts, r = AggregateReceipts(i, seq[i], marks)
            PROVE  Accounted(ledger, j, n) \/ Counts(r, j, n) \/ Admits(r, j, n)
        <5>1. \A x \in 1..marks[j] : Accounted(ledger, j, x)
          BY <2>14 DEF Fetch, SkipInv, SessionSound
        <5>2. marks \in Marks /\ seq[i] \in Seqs
          BY <1>1 DEF TypeOK, Sess
        <5> HIDE DEF marks
        <5> QED
          BY <4>2, <5>1, <5>2, AggregateAccounts
      <4> QED
        BY <3>1, <4>1, <4>2
    <3>5. SessionSound(p)'
      BY <3>2, <3>3, <3>4 DEF SessionSound, At
    <3> QED
      BY <1>1, <3>2, <3>3, <3>5, QuietStep
  <2>15. CASE AppendRow(p)
    <3> DEFINE r == sess[p].row
               L == Append(ledger, r)
    <3>1. r \in Row /\ ledger \in Seq(Row)
      BY <1>1 DEF TypeOK, Sess
    <3>2. ledger' = L /\ sess' = [sess EXCEPT ![p].pc = "release"] /\ At(p, "append")
      BY <2>15 DEF AppendRow, Goto
    <3> HIDE DEF r, L
    <3>3. /\ DOMAIN L = 1..(Len(ledger) + 1)
          /\ DOMAIN ledger = 1..Len(ledger) /\ Len(ledger) \in Nat
          /\ \A j \in DOMAIN ledger : L[j] = ledger[j]
          /\ L[Len(ledger) + 1] = r
          /\ \A i, n : Accounted(ledger, i, n) => Accounted(L, i, n)
      BY <3>1, AppendKeeps DEF L
    <3>4. ASSUME NEW k \in DOMAIN L, NEW i \in Insts,
                 NEW n \in 1..L[k].receipt_watermarks[i]
          PROVE  \E j \in 1..k : Counts(L[j], i, n) \/ Admits(L[j], i, n)
      <4>1. CASE k \in DOMAIN ledger
        <5>1. PICK j \in 1..k : Counts(ledger[j], i, n) \/ Admits(ledger[j], i, n)
          BY <3>3, <4>1 DEF SkipInv, NothingSkipped
        <5>2. L[j] = ledger[j]
          BY <3>3, <4>1
        <5> QED
          BY <5>1, <5>2
      <4>2. CASE k = Len(ledger) + 1
        <5>1. Accounted(ledger, i, n) \/ Counts(r, i, n) \/ Admits(r, i, n)
          BY <3>2, <3>3, <4>2 DEF SkipInv, SessionSound, r
        <5>2. CASE Accounted(ledger, i, n)
          <6>1. PICK j \in DOMAIN L : Counts(L[j], i, n) \/ Admits(L[j], i, n)
            BY <3>3, <5>2 DEF Accounted
          <6> QED
            BY <3>3, <4>2, <6>1
        <5>3. CASE Counts(r, i, n) \/ Admits(r, i, n)
          BY <3>3, <4>2, <5>3
        <5> QED
          BY <5>1, <5>2, <5>3
      <4> QED
        BY <3>3, <4>1, <4>2
    <3>5. NothingSkipped'
      BY <3>2, <3>4 DEF NothingSkipped
    <3>6. \A q \in Sessions \ {p} : sess'[q] = sess[q]
      BY <1>1, <3>2 DEF TypeOK
    <3>7. sess'[p].pc = "release"
      BY <1>1, <3>2 DEF TypeOK, Sess
    <3>8. ASSUME NEW q \in Sessions PROVE SessionSound(q)'
      <4>1. CASE q = p
        BY <3>7, <4>1 DEF SessionSound, At
      <4>2. CASE q # p
        BY <3>2, <3>3, <3>6, <4>2 DEF SkipInv, SessionSound, At
      <4> QED
        BY <4>1, <4>2
    <3> QED
      BY <1>1, <3>5, <3>8 DEF SkipInv
  <2> QED
    BY <1>3, <2>3, <2>4, <2>5, <2>6, <2>7, <2>8, <2>9, <2>10, <2>11, <2>12,
       <2>13, <2>14, <2>15 DEF Step
<1> QED
  BY <1>2, <1>3 DEF Next, Issue, Age, vars

\* Whatever watermark a row writes, every receipt up to it was counted by a row
\* or admitted to be missed, however many sessions overlap without the lock.
THEOREM NoSilentSkip == Spec => []NothingSkipped
<1>1. SkipInv => NothingSkipped
  BY DEF SkipInv
<1> QED
  BY <1>1, InitSkipInv, NextSkipInv, PTL DEF Spec

-----------------------------------------------------------------------------
(* Sessions that take turns count each receipt once.                       *)

\* No row of the ledger carries, for instance i, a watermark above m.
Below(L, i, m) == \A k \in DOMAIN L : L[k].receipt_watermarks[i] <= m

\* A row counts only up to its own watermark.
RowSound(r) == r.inst \in Insts => r.hi <= r.receipt_watermarks[r.inst]

\* Watermarks rise along the file and never pass what was issued.
LedgerSound(L) ==
  /\ \A k \in DOMAIN L : RowSound(L[k])
  /\ \A k \in DOMAIN L : \A j \in 1..(k - 1) : \A i \in Insts :
       L[k].receipt_watermarks[i] # 0
         => L[j].receipt_watermarks[i] <= L[k].receipt_watermarks[i]
  /\ \A i \in Insts : Below(L, i, seq[i])

\* What the session holds is not behind the ledger, nor ahead of the proxies.
Current(p) ==
  /\ At(p, "fetch") =>
       \A i \in Insts : sess[p].marks[i] <= seq[i] /\ Below(ledger, i, sess[p].marks[i])
  /\ At(p, "append") =>
       LET r == sess[p].row IN
       /\ RowSound(r)
       /\ r.inst \in Insts => Below(ledger, r.inst, r.lo)
       /\ \A i \in Insts : /\ r.receipt_watermarks[i] <= seq[i]
                           /\ r.receipt_watermarks[i] # 0
                                => Below(ledger, i, r.receipt_watermarks[i])

\* A session has watermarks in hand from their reading until its row is appended, and
\* sessions take turns when at most one has.
InHand(p) == At(p, "fetch") \/ At(p, "append")
TakeTurns == \A p, q \in Sessions : InHand(p) /\ InHand(q) => p = q

OnceInv ==
  /\ TypeOK /\ CountedOnce /\ LedgerSound(ledger)
  /\ \A p \in Sessions : Current(p)

\* The numbers in a row, and in the rows of the ledger, are natural numbers.
LEMMA RowNumbers ==
  ASSUME NEW r \in Row
  PROVE  r.lo \in Nat /\ r.hi \in Nat /\ \A i \in Insts : r.receipt_watermarks[i] \in Nat
<1>1. Seqs \subseteq Nat
  BY SessionAssumption DEF Seqs
<1>2. r.lo \in Seqs /\ r.hi \in Seqs /\ r.receipt_watermarks \in [Insts -> Seqs]
  BY DEF Row, Marks
<1>3. \A i \in Insts : r.receipt_watermarks[i] \in Seqs
  BY <1>2
<1> QED
  BY <1>1, <1>2, <1>3

LEMMA LedgerNumbers ==
  ASSUME TypeOK
  PROVE  \A k \in DOMAIN ledger :
           /\ k \in Nat \ {0} /\ ledger[k] \in Row
           /\ \A i \in Insts : ledger[k].receipt_watermarks[i] \in Nat
<1>1. DOMAIN ledger = 1..Len(ledger) /\ Len(ledger) \in Nat
      /\ \A k \in DOMAIN ledger : ledger[k] \in Row
  BY DEF TypeOK
<1> QED
  BY <1>1, RowNumbers

\* The last watermark of the file is its largest.
LEMMA MarkIsLargest ==
  ASSUME TypeOK, LedgerSound(ledger), NEW i \in Insts, NEW m \in Seqs, IsMark(i, m)
  PROVE  m <= seq[i] /\ Below(ledger, i, m)
<1>1. /\ DOMAIN ledger \subseteq Nat /\ seq[i] \in Nat /\ m \in Nat
      /\ \A k \in DOMAIN ledger : ledger[k].receipt_watermarks[i] \in Nat
      /\ \A k \in DOMAIN ledger : k \in Nat \ {0}
  <2>1. seq[i] \in Nat /\ m \in Nat
    BY SessionAssumption DEF TypeOK, Seqs
  <2> QED
    BY <2>1, LedgerNumbers
<1>2. CASE Marking(i) = {} /\ m = 0
  BY <1>1, <1>2 DEF Marking, Below
<1>3. ASSUME NEW k \in Marking(i), \A j \in Marking(i) : j <= k,
             m = ledger[k].receipt_watermarks[i]
      PROVE  m <= seq[i] /\ Below(ledger, i, m)
  <2>1. k \in DOMAIN ledger /\ m # 0
    BY <1>3 DEF Marking
  <2>2. m <= seq[i]
    BY <1>3, <2>1 DEF LedgerSound, Below
  <2>3. ASSUME NEW j \in DOMAIN ledger PROVE ledger[j].receipt_watermarks[i] <= m
    <3>1. CASE ledger[j].receipt_watermarks[i] = 0
      BY <1>1, <3>1
    <3>2. CASE ledger[j].receipt_watermarks[i] # 0 /\ j # k
      <4>1. j <= k
        BY <1>3, <3>2 DEF Marking
      <4>2. j \in 1..(k - 1)
        BY <1>1, <2>1, <3>2, <4>1
      <4> QED
        BY <1>3, <2>1, <4>2 DEF LedgerSound
    <3>3. CASE j = k
      BY <1>1, <1>3, <3>3
    <3> QED
      BY <3>1, <3>2, <3>3
  <2> QED
    BY <2>2, <2>3 DEF Below
<1> QED
  BY <1>2, <1>3 DEF IsMark

\* The row made of current watermarks counts nothing below them.
LEMMA AggregateCurrent ==
  ASSUME TypeOK, NEW i \in Insts, NEW marks \in Marks,
         \A j \in Insts : marks[j] <= seq[j]
  PROVE  LET r == AggregateReceipts(i, seq[i], marks) IN
         /\ RowSound(r) /\ r.inst = i /\ marks[i] <= r.lo /\ r.lo \in Seqs
         /\ \A j \in Insts : /\ marks[j] <= r.receipt_watermarks[j]
                             /\ r.receipt_watermarks[j] <= seq[j]
<1> DEFINE r == AggregateReceipts(i, seq[i], marks)
<1>1. /\ Rotated(seq[i]) \in Seqs /\ Rotated(seq[i]) \in Nat
      /\ \A j \in Insts : marks[j] \in Nat /\ seq[j] \in Nat /\ marks[j] \in Seqs
      /\ Seqs \subseteq Nat
  BY RotatedType, SessionAssumption DEF TypeOK, Marks, Seqs
<1>2. r.inst = i /\ r.hi = seq[i]
  BY DEF AggregateReceipts
<1>3. r.receipt_watermarks = IF seq[i] = 0 THEN marks ELSE [marks EXCEPT ![i] = seq[i]]
  BY DEF AggregateReceipts
<1>4. marks[i] <= r.lo /\ r.lo \in Seqs
  <2>1. r.lo = IF marks[i] = 0 \/ (marks[i] # 0 /\ marks[i] <= Rotated(seq[i]))
               THEN Rotated(seq[i]) ELSE marks[i]
    BY DEF AggregateReceipts
  <2>2. CASE marks[i] = 0
    <3>1. r.lo = Rotated(seq[i])
      BY <2>1, <2>2
    <3> HIDE DEF r
    <3> QED
      BY <1>1, <2>2, <3>1
  <2>3. CASE marks[i] # 0 /\ marks[i] <= Rotated(seq[i])
    BY <1>1, <2>1, <2>3
  <2>4. CASE marks[i] # 0 /\ ~(marks[i] <= Rotated(seq[i]))
    BY <1>1, <2>1, <2>4
  <2> HIDE DEF r
  <2> QED
    BY <2>2, <2>3, <2>4
<1>5. \A j \in Insts : /\ marks[j] <= r.receipt_watermarks[j]
                      /\ r.receipt_watermarks[j] <= seq[j]
  BY <1>1, <1>3 DEF Marks
<1>6. r.hi <= r.receipt_watermarks[i]
  BY <1>1, <1>2, <1>3 DEF Marks
<1> QED
  BY <1>2, <1>4, <1>5, <1>6 DEF RowSound

LEMMA InitOnceInv == Init => OnceInv
<1> SUFFICES ASSUME Init PROVE OnceInv
  OBVIOUS
<1>1. CountedOnce /\ LedgerSound(ledger)
  BY DEF Init, CountedOnce, LedgerSound, Below
<1>2. \A p \in Sessions : Current(p)
  BY DEF Init, Current, At, Idle
<1> QED
  BY <1>1, <1>2, InitTyped DEF OnceInv

\* A step that adds no row and no receipt.
LEMMA QuietOnce ==
  ASSUME OnceInv, TypeOK', ledger' = ledger, seq' = seq,
         \A p \in Sessions : Current(p)'
  PROVE  OnceInv'
<1>1. CountedOnce'
  BY DEF OnceInv, CountedOnce
<1>2. LedgerSound(ledger)'
  BY DEF OnceInv, LedgerSound
<1> QED
  BY <1>1, <1>2 DEF OnceInv

\* A proxy issues another receipt.
LEMMA IssueOnce == ASSUME OnceInv, NEW i \in Insts, Issue(i) PROVE OnceInv'
<1>1. TypeOK /\ TypeOK'
  BY NextTyped DEF OnceInv, Next
<1>2. ledger' = ledger /\ sess' = sess /\ \A j \in Insts : seq[j] <= seq'[j]
  BY <1>1, SessionAssumption DEF Issue, TypeOK, Seqs
<1>3. \A j \in Insts : seq[j] \in Nat /\ seq'[j] \in Nat
  BY <1>1, SessionAssumption DEF TypeOK, Seqs
<1>4. \A k \in DOMAIN ledger : \A j \in Insts : ledger[k].receipt_watermarks[j] \in Nat
  BY <1>1, LedgerNumbers
<1>5. LedgerSound(ledger)'
  <2>1. \A j \in Insts : Below(ledger, j, seq'[j])
    BY <1>2, <1>3, <1>4 DEF OnceInv, LedgerSound, Below
  <2> QED
    BY <1>2, <2>1 DEF OnceInv, LedgerSound
<1>6. ASSUME NEW p \in Sessions PROVE Current(p)'
  <2>1. \A j \in Insts : sess[p].marks[j] \in Nat /\ sess[p].row.receipt_watermarks[j] \in Nat
    <3>1. sess[p].row \in Row /\ sess[p].marks \in Marks
      BY <1>1 DEF TypeOK, Sess
    <3>2. \A j \in Insts : sess[p].marks[j] \in Seqs
      BY <3>1 DEF Marks
    <3>3. Seqs \subseteq Nat
      BY SessionAssumption DEF Seqs
    <3> QED
      BY <3>1, <3>2, <3>3, RowNumbers
  <2>2. Current(p)
    BY DEF OnceInv
  <2> QED
    BY <1>2, <1>3, <2>1, <2>2 DEF Current, At
<1>7. CountedOnce'
  BY <1>2 DEF OnceInv, CountedOnce
<1> QED
  BY <1>1, <1>5, <1>6, <1>7 DEF OnceInv

\* The row appended by the only session with watermarks in hand counts only receipts
\* above every watermark, and the rows before it counted none of those.
LEMMA AppendOnce ==
  ASSUME OnceInv, TakeTurns, NEW p \in Sessions, AppendRow(p)
  PROVE  OnceInv'
<1> DEFINE r == sess[p].row
           L == Append(ledger, r)
<1>1. TypeOK /\ TypeOK'
  BY NextTyped DEF OnceInv, Next, Step
<1>2. r \in Row /\ ledger \in Seq(Row)
  BY <1>1 DEF TypeOK, Sess
<1>3. ledger' = L /\ seq' = seq /\ At(p, "append")
      /\ sess' = [sess EXCEPT ![p].pc = "release"]
  BY DEF AppendRow, Goto
<1>4. /\ RowSound(r)
      /\ r.inst \in Insts => Below(ledger, r.inst, r.lo)
      /\ \A i \in Insts : /\ r.receipt_watermarks[i] <= seq[i]
                          /\ r.receipt_watermarks[i] # 0
                               => Below(ledger, i, r.receipt_watermarks[i])
  BY <1>3 DEF OnceInv, Current
<1> HIDE DEF r, L
<1>5. /\ DOMAIN L = 1..(Len(ledger) + 1)
      /\ DOMAIN ledger = 1..Len(ledger) /\ Len(ledger) \in Nat
      /\ \A j \in DOMAIN ledger : L[j] = ledger[j]
      /\ L[Len(ledger) + 1] = r
  BY <1>2, AppendKeeps DEF L
<1>6. \A k \in DOMAIN L : k \in DOMAIN ledger \/ k = Len(ledger) + 1
  BY <1>5
<1>7. \A k \in DOMAIN L : \A j \in 1..(k - 1) : j \in DOMAIN ledger /\ L[j] = ledger[j]
  BY <1>5
<1>8. LedgerSound(L)
  <2>1. \A k \in DOMAIN L : RowSound(L[k])
    BY <1>4, <1>5, <1>6 DEF OnceInv, LedgerSound
  <2>2. ASSUME NEW k \in DOMAIN L, NEW j \in 1..(k - 1), NEW i \in Insts,
               L[k].receipt_watermarks[i] # 0
        PROVE  L[j].receipt_watermarks[i] <= L[k].receipt_watermarks[i]
    <3>1. CASE k \in DOMAIN ledger
      BY <1>5, <1>7, <2>2, <3>1 DEF OnceInv, LedgerSound
    <3>2. CASE k = Len(ledger) + 1
      BY <1>4, <1>5, <1>7, <2>2, <3>2 DEF Below
    <3> QED
      BY <1>6, <3>1, <3>2
  <2>3. \A i \in Insts : Below(L, i, seq[i])
    BY <1>4, <1>5, <1>6 DEF OnceInv, LedgerSound, Below
  <2> QED
    BY <2>1, <2>2, <2>3 DEF LedgerSound
<1>9. ASSUME NEW k \in DOMAIN L, NEW j \in 1..(k - 1), NEW i \in Insts,
             NEW n \in 1..MaxSeq, Counts(L[j], i, n), Counts(L[k], i, n)
      PROVE  FALSE
  <2>1. CASE k \in DOMAIN ledger
    BY <1>5, <1>7, <1>9, <2>1 DEF OnceInv, CountedOnce
  <2>2. CASE k = Len(ledger) + 1
    <3>1. r.inst = i /\ r.lo < n
      BY <1>5, <1>9, <2>2 DEF Counts
    <3>2. ledger[j].receipt_watermarks[i] <= r.lo
      BY <1>4, <1>7, <3>1 DEF Below
    <3>3. ledger[j].inst = i /\ n <= ledger[j].hi
      BY <1>7, <1>9 DEF Counts
    <3>4. ledger[j].hi <= ledger[j].receipt_watermarks[i]
      BY <1>7, <3>3 DEF OnceInv, LedgerSound, RowSound
    <3>5. /\ ledger[j].hi \in Nat /\ ledger[j].receipt_watermarks[i] \in Nat
          /\ r.lo \in Nat /\ n \in Nat
      <4>1. ledger[j] \in Row
        BY <1>2, <1>7
      <4>2. n \in Nat
        BY SessionAssumption
      <4> QED
        BY <1>2, <4>1, <4>2, RowNumbers
    <3> QED
      BY <3>1, <3>2, <3>3, <3>4, <3>5
  <2> QED
    BY <1>6, <2>1, <2>2
<1>10. CountedOnce'
  BY <1>3, <1>9 DEF CountedOnce
<1>11. ASSUME NEW q \in Sessions PROVE Current(q)'
  <2>1. CASE q = p
    <3>1. sess'[p].pc = "release"
      BY <1>1, <1>3 DEF TypeOK, Sess
    <3> QED
      BY <2>1, <3>1 DEF Current, At
  <2>2. CASE q # p
    <3>1. ~InHand(q)
      BY <1>3, <2>2 DEF TakeTurns, InHand
    <3>2. sess'[q] = sess[q]
      BY <1>1, <1>3, <2>2 DEF TypeOK
    <3> QED
      BY <3>1, <3>2 DEF Current, InHand, At
  <2> QED
    BY <2>1, <2>2
<1>12. LedgerSound(ledger)'
  BY <1>3, <1>8 DEF LedgerSound, Below
<1> QED
  BY <1>1, <1>10, <1>11, <1>12 DEF OnceInv

\* One step of a session leaves the others where they are.
LEMMA SessionIsLocal ==
  ASSUME TypeOK, NEW p \in Sessions, Begin(p) \/ Step(p) \/ GiveUp(p) \/ Crash(p)
  PROVE  \A q \in Sessions \ {p} : sess'[q] = sess[q]
<1>1. ASSUME NEW s, sess' = [sess EXCEPT ![p] = s]
      PROVE  \A q \in Sessions \ {p} : sess'[q] = sess[q]
  BY <1>1 DEF TypeOK
<1>2. CASE Begin(p) \/ GiveUp(p) \/ Crash(p)
  BY <1>1, <1>2 DEF Begin, GiveUp, Crash, Goto
<1>3. CASE Create(p) \/ WriteLock(p) \/ Exists(p) \/ Inspect(p) \/ Unlink(p) \/ Retry(p)
  BY <1>1, <1>3 DEF Create, WriteLock, Exists, Inspect, Unlink, Retry, Goto
<1>4. CASE ReadReceiptWatermarks(p) \/ Fetch(p)
  BY <1>1, <1>4 DEF ReadReceiptWatermarks, Fetch
<1>5. CASE AppendRow(p) \/ AppendFails(p) \/ Release(p)
  BY <1>1, <1>5 DEF AppendRow, AppendFails, Release, Goto
<1> QED
  BY <1>2, <1>3, <1>4, <1>5 DEF Step

LEMMA SessionOnce ==
  ASSUME OnceInv, TakeTurns, NEW p \in Sessions, Begin(p) \/ Step(p) \/ GiveUp(p) \/ Crash(p)
  PROVE  OnceInv'
<1>1. TypeOK /\ TypeOK'
  BY NextTyped DEF OnceInv, Next
<1>2. \A q \in Sessions \ {p} : sess'[q] = sess[q]
  BY <1>1, SessionIsLocal
\* Nothing changes for the other sessions as long as no row is added.
<1>3. ASSUME ledger' = ledger, seq' = seq, Current(p)' PROVE OnceInv'
  <2>1. \A q \in Sessions \ {p} : Current(q)'
    BY <1>2, <1>3 DEF OnceInv, Current, At
  <2> QED
    BY <1>1, <1>3, <2>1, QuietOnce
<1>4. CASE AppendRow(p)
  BY <1>4, AppendOnce
<1>5. CASE ReadReceiptWatermarks(p)
  <2>1. PICK m \in Marks :
          /\ \A i \in Insts : IsMark(i, m[i])
          /\ sess' = [sess EXCEPT ![p].pc = "fetch", ![p].marks = m]
    BY <1>5 DEF ReadReceiptWatermarks
  <2>2. ledger' = ledger /\ seq' = seq
    BY <1>5 DEF ReadReceiptWatermarks
  <2>3. sess'[p].pc = "fetch" /\ sess'[p].marks = m
    BY <1>1, <2>1 DEF TypeOK, Sess
  <2>4. \A i \in Insts : m[i] <= seq[i] /\ Below(ledger, i, m[i])
    BY <1>1, <2>1, MarkIsLargest DEF OnceInv, Marks
  <2>5. Current(p)'
    BY <2>2, <2>3, <2>4 DEF Current, At
  <2> QED
    BY <1>3, <2>2, <2>5
<1>6. CASE Fetch(p)
  <2> DEFINE marks == sess[p].marks
  <2>1. PICK r \in Row :
          /\ r = OfflineRow \/ \E i \in Insts : r = AggregateReceipts(i, seq[i], marks)
          /\ sess' = [sess EXCEPT ![p].pc = "append", ![p].row = r]
    <3>1. \A i \in Insts : AggregateReceipts(i, seq[i], marks) \in Row
      BY <1>1, AggregateType DEF TypeOK, Sess
    <3> QED
      BY <1>6, <3>1, IdleType DEF Fetch
  <2>2. ledger' = ledger /\ seq' = seq
    BY <1>6 DEF Fetch
  <2>3. sess'[p].pc = "append" /\ sess'[p].row = r
    BY <1>1, <2>1 DEF TypeOK, Sess
  <2>4. marks \in Marks
        /\ \A i \in Insts : marks[i] <= seq[i] /\ Below(ledger, i, marks[i])
    BY <1>1, <1>6 DEF Fetch, OnceInv, Current, TypeOK, Sess
  <2>5. /\ \A i \in Insts : marks[i] \in Nat /\ seq[i] \in Nat
                            /\ r.receipt_watermarks[i] \in Nat
        /\ \A k \in DOMAIN ledger : \A i \in Insts :
              ledger[k].receipt_watermarks[i] \in Nat
        /\ r.lo \in Nat
    <3>1. \A i \in Insts : marks[i] \in Seqs /\ seq[i] \in Seqs
      BY <1>1, <2>4 DEF TypeOK, Marks
    <3>2. Seqs \subseteq Nat
      BY SessionAssumption DEF Seqs
    <3> HIDE DEF marks
    <3> QED
      BY <1>1, <3>1, <3>2, RowNumbers, LedgerNumbers
  <2> HIDE DEF marks
  <2>6. /\ RowSound(r)
        /\ r.inst \in Insts => Below(ledger, r.inst, r.lo)
        /\ \A i \in Insts : /\ r.receipt_watermarks[i] <= seq[i]
                            /\ r.receipt_watermarks[i] # 0
                                 => Below(ledger, i, r.receipt_watermarks[i])
    <3>1. CASE r = OfflineRow
      <4>1. r.inst \notin Insts /\ \A i \in Insts : r.receipt_watermarks[i] = 0
        BY <3>1, SessionAssumption DEF OfflineRow, NoMarks
      <4> QED
        BY <2>5, <4>1 DEF RowSound
    <3>2. ASSUME NEW i \in Insts, r = AggregateReceipts(i, seq[i], marks)
          PROVE  /\ RowSound(r)
                 /\ r.inst \in Insts => Below(ledger, r.inst, r.lo)
                 /\ \A j \in Insts : /\ r.receipt_watermarks[j] <= seq[j]
                                     /\ Below(ledger, j, r.receipt_watermarks[j])
      <4>1. /\ RowSound(r) /\ r.inst = i /\ marks[i] <= r.lo
            /\ \A j \in Insts : /\ marks[j] <= r.receipt_watermarks[j]
                                /\ r.receipt_watermarks[j] <= seq[j]
        BY <1>1, <2>4, <3>2, AggregateCurrent
      <4>2. Below(ledger, i, r.lo)
        BY <2>4, <2>5, <4>1 DEF Below
      <4>3. \A j \in Insts : Below(ledger, j, r.receipt_watermarks[j])
        BY <2>4, <2>5, <4>1 DEF Below
      <4> QED
        BY <4>1, <4>2, <4>3
    <3> QED
      BY <2>1, <3>1, <3>2
  <2>7. Current(p)'
    BY <2>2, <2>3, <2>6 DEF Current, At
  <2> QED
    BY <1>3, <2>2, <2>7
<1>7. ASSUME ledger' = ledger, seq' = seq, ~At(p, "fetch")', ~At(p, "append")'
      PROVE  OnceInv'
  BY <1>3, <1>7 DEF Current
<1>8. ASSUME NEW pc \in PCs \ {"fetch", "append"}, Goto(p, pc), ledger' = ledger, seq' = seq
      PROVE  OnceInv'
  <2>1. sess'[p].pc = pc
    BY <1>1, <1>8 DEF Goto, TypeOK, Sess
  <2> QED
    BY <1>7, <1>8, <2>1 DEF At
<1>9. CASE Begin(p)       BY <1>8, <1>9 DEF Begin, PCs
<1>10. CASE Create(p)     BY <1>8, <1>10 DEF Create, PCs
<1>11. CASE WriteLock(p)
  <2>1. sess'[p].pc = "read"
    BY <1>1, <1>11 DEF WriteLock, TypeOK, Sess
  <2> QED
    BY <1>7, <1>11, <2>1 DEF WriteLock, At
<1>12. CASE Exists(p)     BY <1>8, <1>12 DEF Exists, PCs
<1>13. CASE Inspect(p)    BY <1>8, <1>13 DEF Inspect, PCs
<1>14. CASE Unlink(p)     BY <1>8, <1>14 DEF Unlink, PCs
<1>15. CASE Retry(p)      BY <1>8, <1>15 DEF Retry, PCs
<1>16. CASE GiveUp(p)     BY <1>8, <1>16 DEF GiveUp, PCs
<1>17. CASE AppendFails(p) BY <1>8, <1>17 DEF AppendFails, PCs
<1>18. CASE Release(p) \/ Crash(p)
  <2>1. sess'[p].pc = "idle"
    BY <1>1, <1>18 DEF Release, Crash, TypeOK, Idle
  <2> QED
    BY <1>7, <1>18, <2>1 DEF Release, Crash, At
<1> QED
  BY <1>4, <1>5, <1>6, <1>9, <1>10, <1>11, <1>12, <1>13, <1>14, <1>15, <1>16,
     <1>17, <1>18 DEF Step

LEMMA NextOnceInv == OnceInv /\ TakeTurns /\ [Next]_vars => OnceInv'
<1> SUFFICES ASSUME OnceInv, TakeTurns, [Next]_vars PROVE OnceInv'
  OBVIOUS
<1>1. TypeOK /\ TypeOK'
  BY NextTyped DEF OnceInv
<1>2. CASE UNCHANGED <<seq, ledger, sess>>
  <2>1. \A p \in Sessions : Current(p)'
    BY <1>2 DEF OnceInv, Current, At
  <2> QED
    BY <1>1, <1>2, <2>1, QuietOnce
<1>3. CASE \E i \in Insts : Issue(i)
  BY <1>3, IssueOnce
<1>4. CASE \E p \in Sessions : Begin(p) \/ Step(p) \/ GiveUp(p) \/ Crash(p)
  BY <1>4, SessionOnce
<1> QED
  BY <1>2, <1>3, <1>4 DEF Next, Age, vars

\* The only way to count a receipt twice is that two sessions have watermarks in hand at
\* once.  Any number of sessions that take turns count every receipt at most once,
\* whatever they meet: crashes and the locks they leave, proxies that are offline or
\* restarted, a buffer that rotates, rows that cannot be written.
THEOREM TurnsCountOnce == Spec /\ []TakeTurns => []CountedOnce
<1>1. OnceInv => CountedOnce
  BY DEF OnceInv
<1> QED
  BY <1>1, InitOnceInv, NextOnceInv, PTL DEF Spec

\* A lone session counts every receipt once, although it may go on without the lock.
THEOREM LoneSessionCountsOnce ==
  ASSUME NEW p \in Sessions, Sessions = {p} PROVE Spec => []CountedOnce
<1>1. TakeTurns
  BY DEF TakeTurns
<1> QED
  BY <1>1, TurnsCountOnce, PTL

-----------------------------------------------------------------------------
(* What the lock is worth.                                                 *)

\* A lock is in use from its creation until the session that made it has appended.
Using == {"write", "read", "fetch", "append"}
InUse == lock.is # "none" /\ sess[lock.by].pc \in Using

\* The two things acquire_ledger_lock and release_ledger_lock do that defeat the lock: a
\* session goes on without it after its deadline, and a path is unlinked (taken for
\* empty or stale, or not the file that was inspected or made) whose session has still
\* to append its row.  LockKept holds of the steps that do neither.
LockKept ==
  /\ \A p \in Sessions : At(p, "wait") => sess'[p].pc # "read"
  /\ InUse => lock' # NoLock

\* Whoever is between the creation of a lock and the end of its append made the lock
\* that is there.
LockInv ==
  /\ TypeOK
  /\ \A p \in Sessions : sess[p].pc \in Using => lock.by = p /\ lock.is # "none"

LEMMA NextLockInv == LockInv /\ [Next]_vars /\ [LockKept]_vars => LockInv'
<1> SUFFICES ASSUME LockInv, [Next]_vars, [LockKept]_vars,
                    NEW q \in Sessions, sess'[q].pc \in Using
             PROVE  lock'.by = q /\ lock'.is # "none"
  BY NextTyped DEF LockInv
<1>1. TypeOK /\ lock \in Locks /\ sess \in [Sessions -> Sess]
  BY DEF LockInv, TypeOK
<1>2. ASSUME sess[q].pc \in Using, lock' = lock PROVE lock'.by = q /\ lock'.is # "none"
  BY <1>2 DEF LockInv
<1>3. CASE UNCHANGED vars
  BY <1>2, <1>3 DEF vars
<1>4. CASE \E i \in Insts : Issue(i)
  BY <1>2, <1>4 DEF Issue
<1>5. CASE Age
  BY <1>1, <1>5 DEF Age, LockInv, Locks
<1>6. ASSUME NEW p \in Sessions, Begin(p) \/ Step(p) \/ GiveUp(p) \/ Crash(p)
      PROVE  lock'.by = q /\ lock'.is # "none"
  <2>1. CASE q # p
    <3>1. sess[q].pc \in Using /\ lock.by = q /\ lock.is # "none"
      BY <1>1, <1>6, <2>1, SessionIsLocal DEF LockInv
    <3>2. sess' # sess \/ lock' # lock => LockKept
      BY DEF vars
    <3>3. InUse
      BY <3>1 DEF InUse
    <3>4. lock' # NoLock \/ lock' = lock
      BY <3>2, <3>3 DEF LockKept
    <3>5. lock # NoLock
      BY <3>1 DEF NoLock
    <3>6. ~Create(p)
      BY <3>1 DEF Create
    <3>7. lock' = lock \/ lock' = NoLock \/ lock' = [lock EXCEPT !.is = "fresh"]
      BY <1>6, <3>6 DEF Begin, Step, GiveUp, Crash, WriteLock, Exists, Inspect, Unlink,
           Retry, ReadReceiptWatermarks, Fetch, AppendRow, AppendFails, Release
    <3> QED
      BY <1>1, <3>1, <3>4, <3>5, <3>7 DEF Locks
  <2>2. CASE q = p
    <3>1. ASSUME NEW pc, Goto(p, pc) PROVE sess'[p].pc = pc
      BY <1>1, <3>1 DEF Goto, Sess
    <3>2. CASE Begin(p) \/ Exists(p) \/ Inspect(p) \/ Unlink(p) \/ Retry(p) \/ AppendRow(p)
               \/ AppendFails(p)
      BY <2>2, <3>1, <3>2 DEF Begin, Exists, Inspect, Unlink, Retry, AppendRow, AppendFails,
                             Using
    <3>3. CASE Crash(p) \/ Release(p)
      <4>1. sess'[p] = Idle
        BY <1>1, <3>3 DEF Crash, Release
      <4> QED
        BY <2>2, <4>1 DEF Idle, Using
    <3>4. CASE GiveUp(p)
      <4>1. sess'[p].pc = "read" /\ At(p, "wait")
        BY <3>1, <3>4 DEF GiveUp
      <4>2. LockKept
        BY <4>1 DEF At, vars
      <4> QED
        BY <4>1, <4>2 DEF LockKept
    <3>5. CASE Create(p)
      BY <2>2, <3>5 DEF Create
    <3>6. CASE WriteLock(p)
      <4>1. lock.by = q /\ lock.is # "none"
        BY <2>2, <3>6 DEF WriteLock, At, LockInv, Using
      <4> QED
        BY <1>1, <3>6, <4>1 DEF WriteLock, Locks
    <3>7. CASE ReadReceiptWatermarks(p) \/ Fetch(p)
      <4>1. sess[q].pc \in Using /\ lock' = lock
        BY <2>2, <3>7 DEF ReadReceiptWatermarks, Fetch, At, Using
      <4> QED
        BY <1>2, <4>1
    <3> QED
      BY <1>6, <3>2, <3>3, <3>4, <3>5, <3>6, <3>7 DEF Step
  <2> QED
    BY <2>1, <2>2
<1> QED
  BY <1>3, <1>4, <1>5, <1>6 DEF Next

\* As long as nobody goes on without the lock and no lock is unlinked before its session
\* has appended, at most one session has watermarks in hand.
THEOREM LockMakesTurns == Spec /\ [][LockKept]_vars => []TakeTurns
<1>1. Init => LockInv
  BY InitTyped DEF Init, LockInv, Idle, Using
<1>2. LockInv => TakeTurns
  BY DEF LockInv, TakeTurns, InHand, At, Using
<1> QED
  BY <1>1, <1>2, NextLockInv, PTL DEF Spec

\* As long as the lock is kept so, any number of concurrent sessions count every receipt at
\* most once, as tests/test_genesis_daemon.py asks of "concurrent/duplicate runs".  The run
\* session_twice shows what happens when it is not.
THEOREM LockCountsOnce == Spec /\ [][LockKept]_vars => []CountedOnce
BY LockMakesTurns, TurnsCountOnce, PTL

=============================================================================
