----------------------------- MODULE EndSession -----------------------------
(***************************************************************************)
(* The end of a session (sleep/end_session.py): under a lock file, read    *)
(* the last receipt each proxy instance was billed for from ledger.jsonl,  *)
(* fetch the receipts a running proxy still buffers, and append one row    *)
(* that counts the newer ones and carries the new watermarks.              *)
(*                                                                         *)
(* A proxy numbers its receipts and prefixes the number with the time, so  *)
(* under a clock that does not step back their ids are ordered as they     *)
(* were issued; here an id is its number.  A restarted proxy is another    *)
(* instance.  Tokens and dollars are abstracted to which receipts a row    *)
(* sums.                                                                   *)
(***************************************************************************)
EXTENDS Integers, Sequences

CONSTANTS
  Sessions,  \* the processes that end a session
  Insts,     \* the proxy instances, one after the other or side by side
  Offline,   \* "no proxy answered"
  Buf,       \* RECEIPT_BUFFER_MAX and RECEIPT_LIMIT, which are equal
  MaxSeq,    \* bound: receipts one instance issues
  MaxRows    \* bound: rows of the ledger

ASSUME SessionAssumption ==
  /\ Offline \notin Insts
  /\ Buf \in Nat \ {0} /\ MaxSeq \in Nat /\ MaxRows \in Nat

Seqs  == 0..MaxSeq        \* 0: no receipt
Marks == [Insts -> Seqs]  \* per-instance watermarks; 0 where there is none
NoMarks == [i \in Insts |-> 0]

\* A row counts the receipts of `inst` in (lo, hi].  `prev` is the watermark the
\* session had read for that instance; the code does not write it to the file.
Row == [inst : Insts \cup {Offline}, prev : Seqs, lo : Seqs, hi : Seqs,
        coverage : {"full", "partial"}, receipt_watermarks : Marks]
OfflineRow == [inst |-> Offline, prev |-> 0, lo |-> 0, hi |-> 0,
               coverage |-> "full", receipt_watermarks |-> NoMarks]

PCs == {"idle", "create", "write", "inspect", "unlink", "wait", "read",
        "fetch", "append", "release"}

VARIABLES
  seq,     \* receipts each instance has issued
  ledger,  \* the rows of ledger.jsonl
  lock,    \* ledger.lock: whether it exists, who made it, what is in it
  sess     \* what each process is doing, and its local variables

vars == <<seq, ledger, lock, sess>>

\* "fresh" and "stale" are a written lock, at most or more than LOCK_STALE_S old.
NoLock == [by |-> Offline, is |-> "none"]
Locks  == [by : Sessions \cup {Offline}, is : {"none", "empty", "fresh", "stale"}]

Sess == [pc : PCs, owner : BOOLEAN, marks : Marks, row : Row]
Idle == [pc |-> "idle", owner |-> FALSE, marks |-> NoMarks, row |-> OfflineRow]

At(p, pc)   == sess[p].pc = pc
Goto(p, pc) == sess' = [sess EXCEPT ![p].pc = pc]

Init ==
  /\ seq = [i \in Insts |-> 0]
  /\ ledger = << >>
  /\ lock = NoLock
  /\ sess = [p \in Sessions |-> Idle]

-----------------------------------------------------------------------------
(* The proxy.                                                              *)

Issue(i) ==
  /\ seq[i] < MaxSeq
  /\ seq' = [seq EXCEPT ![i] = @ + 1]
  /\ UNCHANGED <<ledger, lock, sess>>

\* The number before the oldest of n receipts that a buffer of Buf still holds.
\* Mutant: no floor at zero.
Rotated_NoFloor(n) == n - Buf
Rotated(n) == IF n > Buf THEN n - Buf ELSE 0

-----------------------------------------------------------------------------
(* acquire_ledger_lock: at most ten seconds of attempts.                   *)

Begin(p) ==
  /\ At(p, "idle") /\ Goto(p, "create")
  /\ UNCHANGED <<seq, ledger, lock>>

\* O_CREAT | O_EXCL makes an empty file; its text is written afterwards.
Create(p) ==
  /\ At(p, "create") /\ lock.is = "none"
  /\ lock' = [by |-> p, is |-> "empty"]
  /\ Goto(p, "write")
  /\ UNCHANGED <<seq, ledger>>

\* The descriptor writes to p's file, which may have been unlinked since.
WriteLock(p) ==
  /\ At(p, "write")
  /\ lock' = IF lock.by = p /\ lock.is = "empty" THEN [lock EXCEPT !.is = "fresh"]
             ELSE lock
  /\ sess' = [sess EXCEPT ![p].pc = "read", ![p].owner = TRUE]
  /\ UNCHANGED <<seq, ledger>>

Exists(p) ==
  /\ At(p, "create") /\ lock.is # "none" /\ Goto(p, "inspect")
  /\ UNCHANGED <<seq, ledger, lock>>

\* A lock that is gone, not yet written or stale is unlinked; else wait.
Inspect(p) ==
  /\ At(p, "inspect")
  /\ Goto(p, IF lock.is = "fresh" THEN "wait" ELSE "unlink")
  /\ UNCHANGED <<seq, ledger, lock>>

Unlink(p) ==
  /\ At(p, "unlink") /\ lock' = NoLock /\ Goto(p, "create")
  /\ UNCHANGED <<seq, ledger>>

Retry(p) ==
  /\ At(p, "wait") /\ Goto(p, "create")
  /\ UNCHANGED <<seq, ledger, lock>>

\* The deadline passes while somebody's lock is there: main goes on without it.
\* Mutant: wait for the lock as long as it takes.
GiveUp_Never(p) ==
  /\ At(p, "wait") /\ lock.is = "none" /\ Goto(p, "read")
  /\ UNCHANGED <<seq, ledger, lock>>
GiveUp(p) ==
  /\ At(p, "wait") /\ Goto(p, "read")
  /\ UNCHANGED <<seq, ledger, lock>>

-----------------------------------------------------------------------------
(* The body of main, and the release in its `finally`.                     *)

\* The last watermark of an instance in the order of the file, 0 without any.
\* Mutant: only the last row of the file is read.
Marking(i) == {k \in DOMAIN ledger : ledger[k].receipt_watermarks[i] # 0}
IsMark_LastRow(i, m) ==
  m = IF ledger = << >> THEN 0 ELSE ledger[Len(ledger)].receipt_watermarks[i]
IsMark(i, m) ==
  \/ Marking(i) = {} /\ m = 0
  \/ \E k \in Marking(i) : /\ \A j \in Marking(i) : j <= k
                           /\ m = ledger[k].receipt_watermarks[i]

ReadReceiptWatermarks(p) ==
  /\ At(p, "read")
  /\ \E m \in Marks :
       /\ \A i \in Insts : IsMark(i, m[i])
       /\ sess' = [sess EXCEPT ![p].pc = "fetch", ![p].marks = m]
  /\ UNCHANGED <<seq, ledger, lock>>

\* aggregate_receipts on the n receipts of instance i and the marks read before.
\* Mutant: a watermark that rotated out of the buffer is still trusted to say
\* that nothing was missed.
AggregateReceipts_AlwaysFull(i, n, marks) ==
  [inst |-> i, prev |-> marks[i],
   lo |-> IF marks[i] > Rotated(n) THEN marks[i] ELSE Rotated(n), hi |-> n,
   coverage |-> "full",
   receipt_watermarks |-> IF n = 0 THEN marks ELSE [marks EXCEPT ![i] = n]]
AggregateReceipts(i, n, marks) ==
  LET rotatedOut == marks[i] # 0 /\ marks[i] <= Rotated(n) IN
  [inst |-> i, prev |-> marks[i],
   lo |-> IF marks[i] = 0 \/ rotatedOut THEN Rotated(n) ELSE marks[i], hi |-> n,
   coverage |-> IF rotatedOut THEN "partial" ELSE "full",
   receipt_watermarks |-> IF n = 0 THEN marks ELSE [marks EXCEPT ![i] = n]]

\* fetch_proxy_state: one proxy's receipts, or no answer in time.
Fetch(p) ==
  /\ At(p, "fetch")
  /\ \/ sess' = [sess EXCEPT ![p].pc = "append", ![p].row = OfflineRow]
     \/ \E i \in Insts :
          sess' = [sess EXCEPT
            ![p].pc = "append",
            ![p].row = AggregateReceipts(i, seq[i], sess[p].marks)]
  /\ UNCHANGED <<seq, ledger, lock>>

AppendRow(p) ==
  /\ At(p, "append") /\ Len(ledger) < MaxRows
  /\ ledger' = Append(ledger, sess[p].row)
  /\ Goto(p, "release")
  /\ UNCHANGED <<seq, lock>>

\* The file cannot be written: the exception reaches `finally` without a row.
AppendFails(p) ==
  /\ At(p, "append") /\ Goto(p, "release")
  /\ UNCHANGED <<seq, ledger, lock>>

\* Whoever acquired a lock unlinks the path, whatever file is there by now.
Release(p) ==
  /\ At(p, "release")
  /\ lock' = IF sess[p].owner THEN NoLock ELSE lock
  /\ sess' = [sess EXCEPT ![p] = Idle]
  /\ UNCHANGED <<seq, ledger>>

-----------------------------------------------------------------------------
\* The process dies; its lock stays.
Crash(p) ==
  /\ ~At(p, "idle")
  /\ sess' = [sess EXCEPT ![p] = Idle]
  /\ UNCHANGED <<seq, ledger, lock>>

\* More than LOCK_STALE_S seconds have passed since the lock was written.
Age ==
  /\ lock.is = "fresh" /\ lock' = [lock EXCEPT !.is = "stale"]
  /\ UNCHANGED <<seq, ledger, sess>>

Step(p) ==
  \/ Create(p) \/ WriteLock(p) \/ Exists(p) \/ Inspect(p) \/ Unlink(p)
  \/ Retry(p)
  \/ ReadReceiptWatermarks(p) \/ Fetch(p) \/ AppendRow(p) \/ AppendFails(p)
  \/ Release(p)

Next ==
  \/ \E p \in Sessions : Begin(p) \/ Step(p) \/ GiveUp(p) \/ Crash(p)
  \/ \E i \in Insts : Issue(i)
  \/ Age

Spec == Init /\ [][Next]_vars

\* A started process keeps running, and a process that waits for a lock again
\* and again finds its deadline passed some time.
FairSpec == Spec /\ \A p \in Sessions : WF_vars(Step(p)) /\ SF_vars(GiveUp(p))

-----------------------------------------------------------------------------
(* Properties.                                                             *)

\* Every variable has its type.
TypeOK ==
  /\ seq \in [Insts -> Seqs]
  /\ ledger \in Seq(Row)
  /\ lock \in Locks
  /\ sess \in [Sessions -> Sess]

Counts(row, i, n) == row.inst = i /\ row.lo < n /\ n <= row.hi

\* Receipts that had left the buffer when the row was made, with a watermark
\* that shows it: the row says "partial", or knew nothing of the instance.
Admits(row, i, n) ==
  row.inst = i /\ n <= row.lo /\ (row.coverage = "partial" \/ row.prev = 0)

\* However sessions overlap, fail and overwrite each other's watermarks: a
\* receipt below a watermark was counted, or a row admits that it was missed.
NothingSkipped ==
  \A k \in DOMAIN ledger : \A i \in Insts :
    \A n \in 1..ledger[k].receipt_watermarks[i] :
      \E j \in 1..k : Counts(ledger[j], i, n) \/ Admits(ledger[j], i, n)

\* tests/test_genesis_daemon.py: "concurrent/duplicate runs can't double-count".
CountedOnce ==
  \A k \in DOMAIN ledger : \A j \in 1..(k - 1) : \A i \in Insts : \A n \in 1..MaxSeq :
    ~(Counts(ledger[j], i, n) /\ Counts(ledger[k], i, n))

\* A lock left behind by a dead process keeps nobody from ending a session.
SessionEnds == \A p \in Sessions : ~At(p, "idle") ~> At(p, "idle")
=============================================================================
