------------------------- MODULE MemoryStoreProofs -------------------------
(***************************************************************************)
(* What MemoryStore guarantees for any number of processes, ids and        *)
(* conflicts, any cap and any set of tools.                                *)
(***************************************************************************)
EXTENDS MemoryStore, FiniteSetTheorems, TLAPS

-----------------------------------------------------------------------------
(* Operators on the tables.                                                *)

\* A call starts, and ends, as a well-formed record.
LEMMA NewCallType ==
  ASSUME NEW pc \in PCs, NEW id \in {None} \cup Ids, NEW by \in {None} \cup Ids,
         NEW cid \in {None} \cup ConfIds, NEW act \in {"none", "superseded", "dismissed"}
  PROVE  NewCall(pc, id, by, cid, act) \in CallRec
  BY MemoryAssumption DEF NewCall, CallRec, NoTodo

LEMMA CallsType ==
  ASSUME NEW op \in Ops PROVE CallsOf(op) \subseteq CallRec
  <1>1. op \in AllOps
    BY MemoryAssumption
  <1>2. \A c \in CallsOf(op) :
          \E pc \in PCs, id \in {None} \cup Ids, by \in {None} \cup Ids,
             cid \in {None} \cup ConfIds, act \in {"none", "superseded", "dismissed"} :
            c = NewCall(pc, id, by, cid, act)
    <2>1. CASE op = "remember"         BY <2>1 DEF CallsOf, PCs
    <2>2. CASE op = "forget"           BY <2>2 DEF CallsOf, PCs
    <2>3. CASE op = "invalidate"       BY <2>3 DEF CallsOf, PCs
    <2>4. CASE op = "resolve_conflict" BY <2>4 DEF CallsOf, PCs
    <2>5. CASE op = "challenge_rule"   BY <2>5 DEF CallsOf, PCs
    <2>6. CASE op = "reinforce"        BY <2>6 DEF CallsOf, PCs
    <2>7. CASE op = "sleep_now"        BY <2>7 DEF CallsOf, PCs
    <2> QED
      BY <1>1, <2>1, <2>2, <2>3, <2>4, <2>5, <2>6, <2>7 DEF AllOps
  <1> QED
    BY <1>2, NewCallType

LEMMA IdleType == Idle \in CallRec
  BY NewCallType DEF Idle, PCs

\* The statements of the program keep the tables well formed, whatever id they
\* are given.
LEMMA InsertRowType ==
  ASSUME NEW s \in Tables, NEW n \in Ids, NEW st \in Status
  PROVE  InsertRow(s, n, st) \in Tables
  BY DEF Tables, Row, InsertRow, None

LEMMA DeleteRowsType ==
  ASSUME NEW s \in Tables, NEW V PROVE DeleteRows(s, V) \in Tables
  BY DEF Tables, Row, DeleteRows, None

LEMMA MarkRowType ==
  ASSUME NEW s \in Tables, NEW i, NEW st \in Status, NEW by \in {None} \cup Ids
  PROVE  MarkRow(s, i, st, by) \in Tables
  BY DEF Tables, Row, MarkRow, Present

LEMMA SettleRowType ==
  ASSUME NEW s \in Tables, NEW i, NEW st \in Status
  PROVE  SettleRow(s, i, st) \in Tables
  <1>1. CASE i \in Present(s)
    <2>1. s.eps[i].by \in {None} \cup Ids
      BY <1>1 DEF Present, Tables, Row
    <2> QED
      BY <2>1, MarkRowType DEF SettleRow
  <1> QED
    BY <1>1 DEF SettleRow

LEMMA InsertConflictType ==
  ASSUME NEW s \in Tables, NEW c \in ConfIds, NEW new \in {None} \cup Ids,
         NEW old \in {None} \cup Ids, NEW st \in Open \cup {"resolved"}
  PROVE  InsertConflict(s, c, new, old, st) \in Tables
  BY DEF Tables, InsertConflict, Conflict

LEMMA CloseConflictType ==
  ASSUME NEW s \in Tables, NEW c \in ConfIds PROVE CloseConflict(s, c) \in Tables
  <1>1. s.conf[c].new \in {None} \cup Ids /\ s.conf[c].old \in {None} \cup Ids
    BY DEF Tables, Conflict
  <1> QED
    BY <1>1, InsertConflictType DEF CloseConflict

LEMMA ApplyTodoType ==
  ASSUME NEW s \in Tables, NEW todo \in [Ids -> Live \cup Dead \cup {Absent}]
  PROVE  ApplyTodo(s, todo) \in Tables
  <1>1. ASSUME NEW i \in Ids, todo[i] # Absent
        PROVE  [st |-> todo[i], by |-> s.eps[i].by] \in Row
    BY <1>1 DEF Tables, Row, Status
  <1> QED
    BY <1>1 DEF ApplyTodo, Tables

\* The rows a statement is applied to are rows of the table.
LEMMA ChoiceTypes ==
  ASSUME NEW s \in Tables
  PROVE  /\ NextId(s) \subseteq Ids /\ NextConf(s) \subseteq ConfIds
         /\ Present(s) \subseteq Ids
         /\ Victims(s) \subseteq SUBSET Ids
  BY DEF NextId, NextConf, Victims, Present

-----------------------------------------------------------------------------
(* Type correctness.                                                       *)

\* An answer leaves the process idle.
LEMMA ReturnType ==
  ASSUME TypeOK, NEW p \in Procs, NEW res \in Results, NEW id \in {None} \cup Ids,
         Return(p, res, id)
  PROVE  call' \in [Procs -> CallRec] /\ reply' \in [Procs -> Reply]
  BY IdleType DEF Return, Reply, TypeOK

\* A process moves on within its call.
LEMMA GotoType ==
  ASSUME TypeOK, NEW p \in Procs, NEW pc \in PCs, Goto(p, pc)
  PROVE  call' \in [Procs -> CallRec]
  BY DEF Goto, TypeOK, CallRec

\* A segment ends with well-formed tables.
LEMMA SegmentTypes ==
  ASSUME TypeOK, NEW p \in Procs, NEW s \in Tables, Commit(s) \/ Abandon(p, s)
  PROVE  db' \in Tables /\ wdb' \in Tables /\ writer' \in Procs \cup {NoProc}
  BY DEF Commit, Abandon, TypeOK

LEMMA EvictType ==
  ASSUME TypeOK, NEW p \in Procs, NEW s \in Tables, NEW n \in {None} \cup Ids,
         EvictAndReturn(p, s, n)
  PROVE  TypeOK'
  <1>1. PICK V \in Victims(s) :
          IF V \cap Referenced(s) = {}
          THEN Commit(DeleteRows(s, V)) /\ Return(p, "ok", n)
          ELSE Abandon(p, s) /\ Return(p, "error", None)
    BY DEF EvictAndReturn
  <1>2. DeleteRows(s, V) \in Tables
    BY DeleteRowsType
  <1>3. "ok" \in Results /\ "error" \in Results
    BY DEF Results
  <1> QED
    BY <1>1, <1>2, <1>3, SegmentTypes, ReturnType DEF TypeOK

\* The arguments of a call are there when a step of it needs them.
ArgumentsOf(k) ==
  /\ k.first \notin {"evict", "resolveWin", "challengeInsert"}
  /\ k.pc \in {"insert", "evict"} => k.first = "insert"
  /\ k.pc \in {"resolve", "resolveWin"} => k.first = "resolve"
  /\ k.pc \in {"challengeRead", "challengeInsert"} => k.first = "challengeRead"
  /\ k.pc = "reinforceRead" => k.first = "reinforceRead"
  /\ k.first = "resolve" => k.cid \in ConfIds
  /\ k.first \in {"challengeRead", "reinforceRead"} => k.id \in Ids
Arguments == \A p \in Procs : ArgumentsOf(call[p])

Typed == TypeOK /\ Arguments

LEMMA InitTyped == Init => Typed
  BY IdleType DEF Init, Typed, TypeOK, Arguments, ArgumentsOf, Idle, NewCall, Tables, Row,
                  Conflict, Reply, NoReply, Results

\* Every step of a call keeps the tables, the calls and the replies well formed.
LEMMA NextTyped == Typed /\ [Next]_vars => TypeOK'
  <1> SUFFICES ASSUME Typed, [Next]_vars PROVE TypeOK'
    OBVIOUS
  <1> USE DEF Typed
  <1>1. CASE UNCHANGED vars
    BY <1>1 DEF vars, TypeOK
  <1>2. ASSUME NEW p \in Procs, Begin(p) PROVE TypeOK'
    BY <1>2, CallsType DEF Begin, TypeOK, Reply, NoReply, Results
  <1>3. ASSUME NEW p \in Procs, Crash(p) PROVE TypeOK'
    BY <1>3, IdleType DEF Crash, TypeOK, Reply, NoReply, Results
  <1>4. ASSUME NEW p \in Procs, Step(p) PROVE TypeOK'
    <2> USE DEF Results, Status, Live, Dead, Open, PCs
    <2>0. /\ call[p] \in CallRec /\ db \in Tables
          /\ NextId(db) \subseteq Ids /\ NextConf(db) \subseteq ConfIds
      BY ChoiceTypes DEF TypeOK
    <2>1. CASE RejectSecret(p)
      BY <2>1, ReturnType DEF RejectSecret, TypeOK
    <2>2. CASE RememberInsert(p)
      <3>1. PICK n \in NextId(db) : RememberInsert(p)!2!(n)
        BY <2>2 DEF RememberInsert
      <3> DEFINE s == InsertRow(db, n, "active")
      <3>2. n \in Ids /\ s \in Tables /\ call[p].by \in {None} \cup Ids
        BY <2>0, InsertRowType DEF CallRec
      <3> HIDE DEF s
      <3>3. CASE EvictAndReturn(p, MarkRow(s, call[p].by, "superseded", n), n)
        BY <3>2, <3>3, MarkRowType, EvictType
      <3>4. CASE EvictAndReturn(p, s, n)
        BY <3>2, <3>4, EvictType
      <3>5. CASE /\ \E old \in Ids, c \in NextConf(db) :
                      Commit(InsertConflict(s, c, n, old, "pending"))
                 /\ call' = [call EXCEPT ![p].pc = "evict", ![p].id = n]
                 /\ UNCHANGED reply
        <4>1. call' \in [Procs -> CallRec]
          BY <2>0, <3>2, <3>5 DEF TypeOK, CallRec
        <4> QED
          BY <2>0, <3>2, <3>5, <4>1, InsertConflictType, SegmentTypes DEF TypeOK
      <3>6. QED
        BY <3>1, <3>3, <3>4, <3>5 DEF s, NextConf, InsertRow
    <2>3. CASE RememberEvict(p)
      BY <2>0, <2>3, EvictType DEF RememberEvict, CallRec
    <2>4. CASE ForgetDelete(p)
      <3>1. CASE call[p].id \in Present(db) \cap Referenced(db)
        BY <2>0, <2>4, <3>1, SegmentTypes, ReturnType DEF ForgetDelete, TypeOK
      <3>2. CASE call[p].id \notin Present(db) \cap Referenced(db)
        BY <2>0, <2>4, <3>2, DeleteRowsType, SegmentTypes, ReturnType DEF ForgetDelete, TypeOK
      <3> QED
        BY <3>1, <3>2
    <2>5. CASE InvalidateMark(p)
      <3>1. call[p].by \in {None} \cup Ids
        BY <2>0 DEF CallRec
      <3>2. \A st \in Dead : MarkRow(db, call[p].id, st, call[p].by) \in Tables
        BY <2>0, <3>1, MarkRowType
      <3> QED
        BY <2>5, <3>2, SegmentTypes, ReturnType DEF InvalidateMark, TypeOK
    <2>6. CASE ResolveUnknown(p)
      BY <2>6, ReturnType DEF ResolveUnknown, TypeOK
    <2>7. CASE ResolveDismiss(p)
      <3>1. call[p].cid \in ConfIds
        BY <2>7 DEF ResolveDismiss, Arguments, ArgumentsOf, At
      <3> QED
        BY <2>0, <2>7, <3>1, SettleRowType, CloseConflictType, SegmentTypes, ReturnType
           DEF ResolveDismiss, TypeOK
    <2>8. CASE ResolveLoser(p)
      <3>1. Winner(p) \in {None} \cup Ids
        BY <2>0, <2>8 DEF ResolveLoser, Arguments, ArgumentsOf, At, Winner, CallRec, Tables, Conflict
      <3>2. MarkRow(db, Loser(p), "superseded", Winner(p)) \in Tables
        BY <2>0, <3>1, MarkRowType
      <3> QED
        BY <2>8, <3>2, SegmentTypes, GotoType DEF ResolveLoser, TypeOK
    <2>9. CASE ResolveWinner(p)
      <3>1. call[p].cid \in ConfIds
        BY <2>9 DEF ResolveWinner, Arguments, ArgumentsOf, At
      <3> QED
        BY <2>0, <2>9, <3>1, SettleRowType, CloseConflictType, SegmentTypes, ReturnType
           DEF ResolveWinner, TypeOK
    <2>10. CASE ChallengeRead(p)
      BY <2>10, ReturnType, GotoType DEF ChallengeRead, TypeOK
    <2>11. CASE ChallengeInsert(p)
      <3>1. PICK n \in NextId(db), c \in NextConf(db) : ChallengeInsert(p)!2!(n, c)
        BY <2>11 DEF ChallengeInsert
      <3> DEFINE s == InsertRow(db, n, "pending_challenge")
      <3>2. n \in Ids /\ c \in ConfIds /\ s \in Tables /\ call[p].id \in {None} \cup Ids
        BY <2>0, InsertRowType DEF CallRec
      <3> HIDE DEF s
      <3>3. InsertConflict(s, c, n, call[p].id, "challenge_pending") \in Tables
        BY <3>2, InsertConflictType
      <3>4. \/ /\ Commit(InsertConflict(s, c, n, call[p].id, "challenge_pending"))
               /\ Return(p, "ok", n)
            \/ Abandon(p, s) /\ Return(p, "error", None)
        BY <3>1 DEF s
      <3> QED
        BY <3>2, <3>3, <3>4, SegmentTypes, ReturnType DEF TypeOK
    <2>12. CASE ReinforceRead(p)
      <3>1. call[p].id \in Ids
        BY <2>12 DEF ReinforceRead, Arguments, ArgumentsOf, At
      <3>2. CASE Return(p, "error", None)
        BY <2>12, <3>2, ReturnType DEF ReinforceRead, TypeOK
      <3>3. CASE /\ \E st \in Classify(db.eps[call[p].id].st) :
                      call' = [call EXCEPT ![p].pc = "writeBack",
                                 ![p].todo = [NoTodo EXCEPT ![call[p].id] = st]]
                 /\ UNCHANGED reply
        <4>1. Classify(db.eps[call[p].id].st) \subseteq Live \cup Dead
          BY MemoryAssumption DEF Classify
        <4>2. PICK st \in Classify(db.eps[call[p].id].st) :
                call' = [call EXCEPT ![p].pc = "writeBack",
                           ![p].todo = [NoTodo EXCEPT ![call[p].id] = st]]
          BY <3>3
        <4> DEFINE list == [NoTodo EXCEPT ![call[p].id] = st]
        <4>3. list \in [Ids -> Live \cup Dead \cup {Absent}]
          BY <3>1, <4>1 DEF NoTodo
        <4> HIDE DEF list
        <4>4. call' = [call EXCEPT ![p].pc = "writeBack", ![p].todo = list]
          BY <4>2 DEF list
        <4>5. call' \in [Procs -> CallRec]
          BY <2>0, <4>3, <4>4 DEF TypeOK, CallRec
        <4> QED
          BY <2>12, <3>3, <4>5 DEF ReinforceRead, TypeOK
      <3> QED
        BY <2>12, <3>2, <3>3 DEF ReinforceRead
    <2>13. CASE DecayRead(p)
      <3>1. PICK todo \in [Decayable(db) -> Bands] : DecayRead(p)!2!(todo)
        BY <2>13 DEF DecayRead
      <3> DEFINE changed == {i \in Decayable(db) : todo[i] # db.eps[i].st}
                 list == [i \in Ids |-> IF i \in changed THEN todo[i] ELSE Absent]
      <3>2. list \in [Ids -> Live \cup Dead \cup {Absent}]
        BY MemoryAssumption
      <3> HIDE DEF changed, list
      <3>3. CASE Return(p, "ok", None)
        BY <2>13, <3>3, ReturnType DEF DecayRead, TypeOK
      <3>4. CASE /\ call' = [call EXCEPT ![p].pc = "writeBack", ![p].todo = list]
                 /\ UNCHANGED reply
        BY <2>0, <2>13, <3>2, <3>4 DEF DecayRead, TypeOK, CallRec
      <3> QED
        BY <3>1, <3>3, <3>4 DEF changed, list
    <2>14. CASE WriteBack(p)
      BY <2>0, <2>14, ApplyTodoType, SegmentTypes, ReturnType
         DEF WriteBack, TypeOK, CallRec
    <2>15. CASE LockError(p)
      BY <2>0, <2>15, ReturnType DEF LockError, TypeOK, CallRec, NoTodo
    <2>16. CASE OutOfIds(p)
      BY <2>16, ReturnType DEF OutOfIds, TypeOK
    <2> QED
      BY <1>4, <2>1, <2>2, <2>3, <2>4, <2>5, <2>6, <2>7, <2>8, <2>9, <2>10, <2>11,
         <2>12, <2>13, <2>14, <2>15, <2>16 DEF Step
  <1> QED
    BY <1>1, <1>2, <1>3, <1>4 DEF Next

\* A step of a call returns, moves on within the call or starts it again.
LEMMA StepMoves ==
  ASSUME NEW p \in Procs, Step(p)
  PROVE  \/ \E res, id : Return(p, res, id)
         \/ \E n : At(p, "insert") /\ call' = [call EXCEPT ![p].pc = "evict", ![p].id = n]
         \/ ResolveLoser(p)
         \/ Goto(p, "challengeInsert") /\ At(p, "challengeRead")
         \/ \E todo : call' = [call EXCEPT ![p].pc = "writeBack", ![p].todo = todo]
         \/ \E tries : call' = [call EXCEPT ![p].pc = call[p].first, ![p].todo = NoTodo,
                                  ![p].tries = tries]
  <1>1. ASSUME NEW s, NEW n, EvictAndReturn(p, s, n) PROVE \E res, id : Return(p, res, id)
    BY <1>1 DEF EvictAndReturn
  <1>2. CASE RememberInsert(p)
    BY <1>1, <1>2 DEF RememberInsert
  <1>3. CASE RememberEvict(p)
    BY <1>1, <1>3 DEF RememberEvict
  <1>4. CASE RejectSecret(p) \/ ForgetDelete(p) \/ InvalidateMark(p)
             \/ ResolveUnknown(p) \/ ResolveDismiss(p) \/ ResolveWinner(p)
             \/ ChallengeInsert(p) \/ WriteBack(p) \/ OutOfIds(p)
    BY <1>4 DEF RejectSecret, ForgetDelete, InvalidateMark, ResolveUnknown,
                ResolveDismiss, ResolveWinner, ChallengeInsert, WriteBack, OutOfIds
  <1>5. CASE ResolveLoser(p) \/ ChallengeRead(p)
    BY <1>5 DEF ResolveLoser, ChallengeRead
  <1>6. CASE ReinforceRead(p)
    BY <1>6 DEF ReinforceRead
  <1>7. CASE DecayRead(p)
    BY <1>7 DEF DecayRead
  <1>8. CASE LockError(p)
    BY <1>8 DEF LockError
  <1> QED
    BY <1>2, <1>3, <1>4, <1>5, <1>6, <1>7, <1>8 DEF Step

\* ... and its arguments stay those of the call it belongs to.
LEMMA NextArguments == Typed /\ [Next]_vars => Arguments'
  <1> SUFFICES ASSUME Typed, [Next]_vars PROVE Arguments'
    OBVIOUS
  <1> USE DEF Arguments
  <1>0. call \in [Procs -> CallRec] /\ Arguments
    BY DEF Typed, TypeOK
  <1>1. ArgumentsOf(Idle)
    BY DEF ArgumentsOf, Idle, NewCall
  <1>2. ASSUME NEW p \in Procs, NEW res, NEW id, Return(p, res, id) PROVE Arguments'
    BY <1>0, <1>1, <1>2 DEF Return
  <1>3. CASE UNCHANGED vars
    BY <1>0, <1>3 DEF vars
  <1>4. ASSUME NEW p \in Procs, Begin(p) PROVE Arguments'
    <2>1. PICK op \in Ops : \E c \in CallsOf(op) : call' = [call EXCEPT ![p] = c]
      BY <1>4 DEF Begin
    <2>2. PICK c \in CallsOf(op) : call' = [call EXCEPT ![p] = c]
      BY <2>1
    <2>3. op \in AllOps
      BY MemoryAssumption
    <2>4. ArgumentsOf(c)
      <3> USE DEF CallsOf, NewCall, ArgumentsOf
      <3>1. CASE op = "remember"         BY <3>1
      <3>2. CASE op = "forget"           BY <3>2
      <3>3. CASE op = "invalidate"       BY <3>3
      <3>4. CASE op = "resolve_conflict" BY <3>4
      <3>5. CASE op = "challenge_rule"   BY <3>5
      <3>6. CASE op = "reinforce"        BY <3>6
      <3>7. CASE op = "sleep_now"        BY <3>7
      <3> HIDE DEF CallsOf, NewCall, ArgumentsOf
      <3> QED
        BY <2>3, <3>1, <3>2, <3>3, <3>4, <3>5, <3>6, <3>7 DEF AllOps
    <2> QED
      BY <1>0, <2>2, <2>4
  <1>5. ASSUME NEW p \in Procs, Crash(p) PROVE Arguments'
    BY <1>0, <1>1, <1>5 DEF Crash
  <1>6. ASSUME NEW p \in Procs, Step(p) PROVE Arguments'
    <2>1. CASE \E n : At(p, "insert") /\ call' = [call EXCEPT ![p].pc = "evict", ![p].id = n]
      BY <1>0, <2>1 DEF ArgumentsOf, At, CallRec
    <2>2. CASE ResolveLoser(p)
      BY <1>0, <2>2 DEF ResolveLoser, ArgumentsOf, Goto, At, CallRec
    <2>3. CASE Goto(p, "challengeInsert") /\ At(p, "challengeRead")
      BY <1>0, <2>3 DEF ArgumentsOf, Goto, At, CallRec
    <2>4. CASE \E todo : call' = [call EXCEPT ![p].pc = "writeBack", ![p].todo = todo]
      BY <1>0, <2>4 DEF ArgumentsOf, CallRec
    <2>5. CASE \E tries : call' = [call EXCEPT ![p].pc = call[p].first, ![p].todo = NoTodo,
                                     ![p].tries = tries]
      BY <1>0, <2>5 DEF ArgumentsOf, CallRec
    <2> QED
      BY <1>2, <1>6, <2>1, <2>2, <2>3, <2>4, <2>5, StepMoves
  <1> QED
    BY <1>3, <1>4, <1>5, <1>6 DEF Next

\* Every reachable state is well typed, whatever the tools are called with and
\* however their steps interleave.
THEOREM Typing == Spec => []TypeOK
  <1>1. Typed /\ [Next]_vars => Typed'
    BY NextTyped, NextArguments DEF Typed
  <1> QED
    BY <1>1, InitTyped, PTL DEF Spec, Typed

-----------------------------------------------------------------------------
(* The write lock.                                                         *)

\* A step leaves the other processes alone, and starts from a call.
LEMMA StepIsLocal ==
  ASSUME Typed, NEW p \in Procs, Step(p)
  PROVE  /\ ~At(p, "idle")
         /\ \A q \in Procs \ {p} : call'[q] = call[q] /\ reply'[q] = reply[q]
  <1>1. ~At(p, "idle")
    BY DEF Step, At, RejectSecret, RememberInsert, RememberEvict, ForgetDelete,
           InvalidateMark, ResolveUnknown, ResolveDismiss, ResolveLoser, ResolveWinner,
           ChallengeRead, ChallengeInsert, ReinforceRead, DecayRead, WriteBack,
           LockError, OutOfIds, Writing
  <1>2. \A q \in Procs \ {p} : call'[q] = call[q]
    BY StepMoves DEF Typed, TypeOK, Return, Goto, ResolveLoser
  <1>3. \A q \in Procs \ {p} : reply'[q] = reply[q]
    BY DEF Step, Return, Typed, TypeOK, EvictAndReturn,
           RejectSecret, RememberInsert, RememberEvict, ForgetDelete,
           InvalidateMark, ResolveUnknown, ResolveDismiss, ResolveLoser, ResolveWinner,
           ChallengeRead, ChallengeInsert, ReinforceRead, DecayRead, WriteBack,
           LockError, OutOfIds
  <1> QED
    BY <1>1, <1>2, <1>3

\* Every process keeps to itself: one step is one process's.
LEMMA StepsAreLocal ==
  ASSUME Typed, NEW p \in Procs, Begin(p) \/ Step(p) \/ Crash(p)
  PROVE  \A q \in Procs \ {p} : call'[q] = call[q]
  BY StepIsLocal DEF Begin, Crash, Typed, TypeOK

\* Only a step that answers with an error keeps the lock.
LEMMA StepLock ==
  ASSUME NEW p \in Procs, Step(p)
  PROVE  UNCHANGED writer \/ (writer' = p /\ Return(p, "error", None))
  BY DEF Step, Commit, Abandon, EvictAndReturn, RejectSecret, RememberInsert,
         RememberEvict, ForgetDelete, InvalidateMark, ResolveUnknown, ResolveDismiss,
         ResolveLoser, ResolveWinner, ChallengeRead, ChallengeInsert, ReinforceRead,
         DecayRead, WriteBack, LockError, OutOfIds

\* A transaction is left open only by a call that has answered with an error, so
\* the lock it holds is released as soon as its process calls again or dies.
THEOREM LockRelease == Spec => []LockOutlivesOnlyErrors
  <1>1. Init => LockOutlivesOnlyErrors
    BY DEF Init, LockOutlivesOnlyErrors
  <1>2. Typed /\ LockOutlivesOnlyErrors /\ [Next]_vars => LockOutlivesOnlyErrors'
    <2> SUFFICES ASSUME Typed, LockOutlivesOnlyErrors, [Next]_vars
                 PROVE  LockOutlivesOnlyErrors'
      OBVIOUS
    <2> USE MemoryAssumption DEF LockOutlivesOnlyErrors, At
    <2>1. CASE UNCHANGED vars
      BY <2>1 DEF vars
    <2>2. ASSUME NEW p \in Procs, Begin(p) PROVE LockOutlivesOnlyErrors'
      BY <2>2 DEF Begin, Typed, TypeOK
    <2>3. ASSUME NEW p \in Procs, Crash(p) PROVE LockOutlivesOnlyErrors'
      BY <2>3 DEF Crash, Typed, TypeOK
    <2>4. ASSUME NEW p \in Procs, Step(p) PROVE LockOutlivesOnlyErrors'
      <3>1. CASE writer' = p /\ Return(p, "error", None)
        BY <3>1 DEF Return, Typed, TypeOK, Idle, NewCall
      <3>2. CASE UNCHANGED writer
        BY <2>4, <3>2, StepIsLocal DEF Typed, TypeOK
      <3> QED
        BY <2>4, <3>1, <3>2, StepLock
    <2> QED
      BY <2>1, <2>2, <2>3, <2>4 DEF Next
  <1>3. Typed /\ [Next]_vars => Typed'
    BY NextTyped, NextArguments DEF Typed
  <1> QED
    BY <1>1, <1>2, <1>3, InitTyped, PTL DEF Spec

-----------------------------------------------------------------------------
(* Conflicts and the memories they name.                                   *)

Sound(s) == s \in Tables /\ RefsStored(s) /\ Settled(s)

\* From s to t conflicts stay and name the same memories, and the newer memory
\* of a conflict does not start to wait for a verdict.
Keeps(s, t) ==
  /\ \A c \in Known(s) : /\ c \in Known(t)
                         /\ t.conf[c].new = s.conf[c].new
                         /\ t.conf[c].old = s.conf[c].old
  /\ \A c \in Known(s) : s.eps[s.conf[c].new].st # "pending_challenge"
                           => t.eps[s.conf[c].new].st # "pending_challenge"

LEMMA KeepsTransitive ==
  ASSUME NEW s, NEW t, NEW u, Keeps(s, t), Keeps(t, u) PROVE Keeps(s, u)
  BY DEF Keeps

\* Each statement, used as the tools use it, is sound.
LEMMA InsertRowSound ==
  ASSUME NEW s, Sound(s), NEW n \in NextId(s), NEW st \in Status
  PROVE  Sound(InsertRow(s, n, st)) /\ Keeps(s, InsertRow(s, n, st))
         /\ n \in Present(InsertRow(s, n, st))
         /\ Present(s) \subseteq Present(InsertRow(s, n, st))
  <1> DEFINE t == InsertRow(s, n, st)
  <1>1. s \in Tables /\ n \in Ids /\ n \notin Present(s)
    BY MemoryAssumption DEF Sound, NextId, Ids
  <1>2. t \in Tables
    BY <1>1, InsertRowType
  <1>3. n \in Present(t) /\ Present(s) \subseteq Present(t)
    BY <1>1 DEF Present, InsertRow, Tables, Status, Live, Dead, Absent
  <1>4. t.conf = s.conf /\ \A i \in Ids \ {n} : t.eps[i] = s.eps[i]
    BY <1>1 DEF InsertRow, Tables
  <1>5. \A c \in Known(s) : s.conf[c].new \in Present(s) /\ s.conf[c].new # n
    BY <1>1 DEF Sound, RefsStored
  <1> QED
    BY <1>1, <1>2, <1>3, <1>4, <1>5 DEF Sound, RefsStored, Settled, Keeps, Known,
      Present, Absent

LEMMA DeleteRowsSound ==
  ASSUME NEW s, Sound(s), NEW V, V \cap Referenced(s) = {}
  PROVE  Sound(DeleteRows(s, V)) /\ Keeps(s, DeleteRows(s, V))
  <1> DEFINE t == DeleteRows(s, V)
  <1>1. s \in Tables /\ t \in Tables
    BY DeleteRowsType DEF Sound
  <1>2. t.conf = s.conf /\ \A i \in Ids : \/ t.eps[i] = s.eps[i]
                                          \/ i \in V /\ t.eps[i].st = Absent
    BY <1>1 DEF DeleteRows, Tables
  <1>3. \A c \in Known(s) : /\ s.conf[c].new \in Present(s) \ V
                            /\ s.conf[c].old \in Present(s) \ V
    BY DEF Sound, RefsStored, Referenced, Known, Present
  <1> QED
    BY <1>1, <1>2, <1>3 DEF Sound, RefsStored, Settled, Keeps, Known, Present, Absent

\* An UPDATE of the statuses of stored rows.
LEMMA UpdateSound ==
  ASSUME NEW s, Sound(s), NEW t \in Tables, t.conf = s.conf,
         \A i \in Ids : t.eps[i].st = s.eps[i].st
                        \/ (i \in Present(s) /\ t.eps[i].st \in Live \cup Dead)
  PROVE  Sound(t) /\ Keeps(s, t) /\ Present(t) = Present(s)
  <1>1. Present(t) = Present(s)
    BY DEF Present, Live, Dead, Absent
  <1>2. \A i \in Ids : t.eps[i].st = "pending_challenge" => s.eps[i].st = "pending_challenge"
    BY DEF Live, Dead
  <1>3. \A c \in Known(s) : s.conf[c].new \in Ids
    BY DEF Sound, RefsStored, Present
  <1> QED
    BY <1>1, <1>2, <1>3 DEF Sound, RefsStored, Settled, Keeps, Known, Absent

LEMMA MarkRowSound ==
  ASSUME NEW s, Sound(s), NEW i, NEW st \in Live \cup Dead, NEW by \in {None} \cup Ids
  PROVE  /\ Sound(MarkRow(s, i, st, by)) /\ Keeps(s, MarkRow(s, i, st, by))
         /\ Present(MarkRow(s, i, st, by)) = Present(s)
  <1> DEFINE t == MarkRow(s, i, st, by)
  <1>1. t \in Tables /\ s \in Tables
    BY MarkRowType DEF Sound, Status
  <1>2. /\ t.conf = s.conf
        /\ \A j \in Ids : t.eps[j].st = s.eps[j].st
                          \/ (j \in Present(s) /\ t.eps[j].st \in Live \cup Dead)
    BY <1>1 DEF MarkRow, Tables, Present
  <1> HIDE DEF t
  <1> QED
    BY <1>1, <1>2, UpdateSound DEF t

LEMMA SettleRowSound ==
  ASSUME NEW s, Sound(s), NEW i, NEW st \in Live \cup Dead
  PROVE  /\ Sound(SettleRow(s, i, st)) /\ Keeps(s, SettleRow(s, i, st))
         /\ i \in Present(s) => SettleRow(s, i, st).eps[i].st # "pending_challenge"
  <1>1. Keeps(s, s)
    BY DEF Keeps
  <1>2. CASE i \in Present(s) /\ s.eps[i].st = "pending_challenge"
    <2>1. s.eps[i].by \in {None} \cup Ids
      BY <1>2 DEF Sound, Tables, Row, Present
    <2>2. SettleRow(s, i, st).eps[i].st = st
      BY <1>2 DEF SettleRow, MarkRow, Sound, Tables, Present
    <2> QED
      BY <1>2, <2>1, <2>2, MarkRowSound DEF SettleRow, Live, Dead
  <1>3. CASE ~(i \in Present(s) /\ s.eps[i].st = "pending_challenge")
    BY <1>1, <1>3 DEF SettleRow
  <1> QED
    BY <1>2, <1>3

LEMMA ApplyTodoSound ==
  ASSUME NEW s, Sound(s), NEW todo \in [Ids -> Live \cup Dead \cup {Absent}]
  PROVE  Sound(ApplyTodo(s, todo)) /\ Keeps(s, ApplyTodo(s, todo))
  <1> DEFINE t == ApplyTodo(s, todo)
  <1>1. t \in Tables /\ s \in Tables
    BY ApplyTodoType DEF Sound
  <1>2. /\ t.conf = s.conf
        /\ \A j \in Ids : t.eps[j].st = s.eps[j].st
                          \/ (j \in Present(s) /\ t.eps[j].st \in Live \cup Dead)
    BY <1>1 DEF ApplyTodo, Tables, Present
  <1> HIDE DEF t
  <1> QED
    BY <1>1, <1>2, UpdateSound DEF t

LEMMA InsertConflictSound ==
  ASSUME NEW s, Sound(s), NEW c \in NextConf(s), NEW new \in Present(s),
         NEW old \in Present(s), NEW st \in Open
  PROVE  Sound(InsertConflict(s, c, new, old, st))
         /\ Keeps(s, InsertConflict(s, c, new, old, st))
  <1> DEFINE t == InsertConflict(s, c, new, old, st)
  <1>1. s \in Tables /\ c \in ConfIds /\ c \notin Known(s) /\ new \in Ids /\ old \in Ids
    BY DEF Sound, NextConf, Known, Present
  <1>2. t \in Tables
    BY <1>1, InsertConflictType DEF Sound
  <1>3. /\ t.eps = s.eps /\ \A d \in ConfIds \ {c} : t.conf[d] = s.conf[d]
        /\ t.conf[c] = [st |-> st, new |-> new, old |-> old]
    BY <1>1 DEF InsertConflict, Tables
  <1>4. st # "resolved" /\ st # Absent
    BY DEF Open, Absent
  <1> HIDE DEF t
  <1>5. Sound(t)
    BY <1>1, <1>2, <1>3, <1>4 DEF Sound, RefsStored, Settled, Known, Present
  <1>6. Keeps(s, t)
    BY <1>1, <1>3, <1>4 DEF Keeps, Known
  <1> QED
    BY <1>5, <1>6 DEF t

LEMMA CloseConflictSound ==
  ASSUME NEW s, Sound(s), NEW c \in ConfIds,
         c \in Known(s) => s.eps[s.conf[c].new].st # "pending_challenge"
  PROVE  Sound(CloseConflict(s, c)) /\ Keeps(s, CloseConflict(s, c))
  <1> DEFINE t == CloseConflict(s, c)
  <1>1. CASE c \notin Known(s)
    BY <1>1 DEF CloseConflict, Known, Keeps
  <1>2. CASE c \in Known(s)
    <2>1. s \in Tables /\ t \in Tables
      BY CloseConflictType DEF Sound
    <2>2. /\ t.eps = s.eps /\ \A d \in ConfIds \ {c} : t.conf[d] = s.conf[d]
          /\ t.conf[c] = [st |-> "resolved", new |-> s.conf[c].new, old |-> s.conf[c].old]
      BY <1>2, <2>1 DEF CloseConflict, InsertConflict, Tables, Known
    <2> HIDE DEF t
    <2>3. Sound(t)
      BY <1>2, <2>1, <2>2 DEF Sound, RefsStored, Settled, Known, Present, Absent
    <2>4. Keeps(s, t)
      BY <1>2, <2>1, <2>2 DEF Keeps, Known, Absent
    <2> QED
      BY <2>3, <2>4 DEF t
  <1> QED
    BY <1>1, <1>2

\* The invariant: the tables are sound, so are those of a transaction left open,
\* and the second half of resolve_conflict finds its challenger settled unless
\* that is what it is about to do.
WinnerReady ==
  \A p \in Procs : At(p, "resolveWin") =>
    LET c == call[p].cid IN
    /\ c \in Known(db)
    /\ \/ call[p].by \in {None, db.conf[c].new}
       \/ db.eps[db.conf[c].new].st # "pending_challenge"

ConflictInv ==
  /\ Typed
  /\ Sound(db) /\ Sound(wdb) /\ Keeps(db, wdb)
  /\ LockFree => wdb = db
  /\ WinnerReady

\* What a segment must do to the tables to preserve the invariant.
SoundSegment(p, s) == Sound(s) /\ Keeps(db, s) /\ (Commit(s) \/ Abandon(p, s))

LEMMA EvictSound ==
  ASSUME NEW p, NEW s, NEW n, Sound(s), Keeps(db, s), EvictAndReturn(p, s, n)
  PROVE  \E t : SoundSegment(p, t)
  <1>1. PICK V \in Victims(s) :
          IF V \cap Referenced(s) = {}
          THEN Commit(DeleteRows(s, V)) /\ Return(p, "ok", n)
          ELSE Abandon(p, s) /\ Return(p, "error", None)
    BY DEF EvictAndReturn
  <1>2. CASE V \cap Referenced(s) = {}
    BY <1>1, <1>2, DeleteRowsSound, KeepsTransitive DEF SoundSegment
  <1>3. CASE V \cap Referenced(s) # {}
    BY <1>1, <1>3 DEF SoundSegment
  <1> QED
    BY <1>2, <1>3

\* Every step of a call ends a sound segment or leaves the tables alone.
LEMMA StepSound ==
  ASSUME ConflictInv, NEW p \in Procs, Step(p)
  PROVE  UNCHANGED <<db, wdb, writer>> \/ \E s : SoundSegment(p, s)
  <1> USE DEF ConflictInv
  <1>0. Sound(db) /\ Keeps(db, db) /\ call[p] \in CallRec
    BY DEF Keeps, Typed, TypeOK
  <1>1. CASE RememberInsert(p)
    <2>1. PICK n \in NextId(db) : RememberInsert(p)!2!(n)
      BY <1>1 DEF RememberInsert
    <2> DEFINE s == InsertRow(db, n, "active")
    <2>2. Sound(s) /\ Keeps(db, s) /\ n \in Present(s) /\ n \in Ids
      BY <1>0, InsertRowSound DEF Status, Live, NextId
    <2>3. call[p].by \in {None} \cup Ids
      BY <1>0 DEF CallRec
    <2> HIDE DEF s
    <2>4. CASE EvictAndReturn(p, MarkRow(s, call[p].by, "superseded", n), n)
      BY <2>2, <2>4, MarkRowSound, KeepsTransitive, EvictSound DEF Dead
    <2>5. CASE EvictAndReturn(p, s, n)
      BY <2>2, <2>5, EvictSound
    <2>6. CASE \E old \in Ids, c \in NextConf(s) :
                 /\ s.eps[old].st = "active"
                 /\ Commit(InsertConflict(s, c, n, old, "pending"))
      <3>1. PICK old \in Ids, c \in NextConf(s) :
              /\ s.eps[old].st = "active"
              /\ Commit(InsertConflict(s, c, n, old, "pending"))
        BY <2>6
      <3>2. old \in Present(s) /\ "pending" \in Open
        BY <3>1 DEF Present, Absent, Open
      <3> QED
        BY <2>2, <3>1, <3>2, InsertConflictSound, KeepsTransitive DEF SoundSegment
    <2> QED
      BY <2>1, <2>4, <2>5, <2>6 DEF s
  <1>2. CASE RememberEvict(p)
    BY <1>0, <1>2, EvictSound DEF RememberEvict
  <1>3. CASE ForgetDelete(p)
    <2>1. CASE call[p].id \in Present(db) \cap Referenced(db)
      BY <1>0, <1>3, <2>1 DEF ForgetDelete, SoundSegment
    <2>2. CASE call[p].id \in Referenced(db) \ Present(db)
      BY <2>2 DEF Sound, RefsStored, Referenced, Known
    <2>3. CASE call[p].id \notin Referenced(db)
      BY <1>0, <1>3, <2>3, DeleteRowsSound DEF ForgetDelete, SoundSegment
    <2> QED
      BY <2>1, <2>2, <2>3
  <1>4. CASE InvalidateMark(p)
    <2>1. call[p].by \in {None} \cup Ids
      BY <1>0 DEF CallRec
    <2>2. PICK st \in Dead : Commit(MarkRow(db, call[p].id, st, call[p].by))
      BY <1>4 DEF InvalidateMark, Dead
    <2> QED
      BY <1>0, <2>1, <2>2, MarkRowSound DEF SoundSegment
  <1>5. CASE ResolveDismiss(p)
    <2> DEFINE c == call[p].cid
               s == SettleRow(db, db.conf[c].new, "invalidated")
    <2>1. c \in ConfIds /\ c \in Known(db)
      BY <1>5 DEF ResolveDismiss, Typed, Arguments, ArgumentsOf, At, Known
    <2>2. db.conf[c].new \in Present(db)
      BY <1>0, <2>1 DEF Sound, RefsStored
    <2>3. Sound(s) /\ Keeps(db, s) /\ s.eps[db.conf[c].new].st # "pending_challenge"
      BY <1>0, <2>2, SettleRowSound DEF Dead
    <2>4. s.conf[c].new = db.conf[c].new
      BY <2>1, <2>3 DEF Keeps
    <2> HIDE DEF s
    <2>5. Sound(CloseConflict(s, c)) /\ Keeps(s, CloseConflict(s, c))
      BY <2>1, <2>3, <2>4, CloseConflictSound
    <2>6. Commit(CloseConflict(s, c))
      BY <1>5 DEF ResolveDismiss, s
    <2> QED
      BY <2>3, <2>5, <2>6, KeepsTransitive DEF SoundSegment
  <1>6. CASE ResolveLoser(p)
    <2>1. Winner(p) \in {None} \cup Ids
      BY <1>0, <1>6 DEF ResolveLoser, Typed, Arguments, ArgumentsOf, At, Winner, CallRec,
                        Sound, Tables, Conflict
    <2> QED
      BY <1>0, <1>6, <2>1, MarkRowSound DEF ResolveLoser, SoundSegment, Dead
  <1>7. CASE ResolveWinner(p)
    <2> DEFINE c == call[p].cid
               s == SettleRow(db, Winner(p), "active")
    <2>1. c \in ConfIds /\ c \in Known(db)
      BY <1>7 DEF ResolveWinner, WinnerReady, At, Known
    <2>2. db.conf[c].new \in Present(db)
      BY <1>0, <2>1 DEF Sound, RefsStored
    <2>3. Sound(s) /\ Keeps(db, s)
          /\ (Winner(p) \in Present(db) => s.eps[Winner(p)].st # "pending_challenge")
      BY <1>0, SettleRowSound DEF Live
    <2>4. s.conf[c].new = db.conf[c].new
      BY <2>1, <2>3 DEF Keeps
    <2> HIDE DEF s
    <2>5. s.eps[db.conf[c].new].st # "pending_challenge"
      <3>1. CASE call[p].by \in {None, db.conf[c].new}
        BY <2>2, <2>3, <3>1 DEF Winner
      <3>2. CASE db.eps[db.conf[c].new].st # "pending_challenge"
        BY <2>1, <2>3, <3>2 DEF Keeps
      <3> QED
        BY <1>7, <3>1, <3>2 DEF WinnerReady, ResolveWinner
    <2>6. Sound(CloseConflict(s, c)) /\ Keeps(s, CloseConflict(s, c))
      BY <2>1, <2>3, <2>4, <2>5, CloseConflictSound
    <2>7. Commit(CloseConflict(s, c))
      BY <1>7 DEF ResolveWinner, s
    <2> QED
      BY <2>3, <2>6, <2>7, KeepsTransitive DEF SoundSegment
  <1>8. CASE ChallengeInsert(p)
    <2>1. PICK n \in NextId(db), c \in NextConf(db) : ChallengeInsert(p)!2!(n, c)
      BY <1>8 DEF ChallengeInsert
    <2> DEFINE s == InsertRow(db, n, "pending_challenge")
    <2>2. Sound(s) /\ Keeps(db, s) /\ n \in Present(s)
      BY <1>0, InsertRowSound DEF Status
    <2>3. c \in NextConf(s) /\ "challenge_pending" \in Open
      BY DEF NextConf, InsertRow, Open
    <2> HIDE DEF s
    <2>4. CASE call[p].id \in Present(s)
      <3>1. Commit(InsertConflict(s, c, n, call[p].id, "challenge_pending"))
        BY <2>1, <2>4 DEF s
      <3> QED
        BY <2>2, <2>3, <2>4, <3>1, InsertConflictSound, KeepsTransitive DEF SoundSegment
    <2>5. CASE call[p].id \notin Present(s)
      BY <2>1, <2>2, <2>5 DEF s, SoundSegment
    <2> QED
      BY <2>4, <2>5
  <1>9. CASE WriteBack(p)
    <2>1. call[p].todo \in [Ids -> Live \cup Dead \cup {Absent}]
      BY <1>0 DEF CallRec
    <2> QED
      BY <1>0, <1>9, <2>1, ApplyTodoSound DEF WriteBack, SoundSegment
  <1>10. CASE RejectSecret(p) \/ ResolveUnknown(p) \/ ChallengeRead(p)
              \/ ReinforceRead(p) \/ DecayRead(p) \/ LockError(p) \/ OutOfIds(p)
    BY <1>10 DEF RejectSecret, ResolveUnknown, ChallengeRead, ReinforceRead, DecayRead,
                 LockError, OutOfIds
  <1> QED
    BY <1>1, <1>2, <1>3, <1>4, <1>5, <1>6, <1>7, <1>8, <1>9, <1>10 DEF Step

\* A step moves the tables as one segment does, or swaps in tables that were
\* sound already.
LEMMA TablesSound ==
  ASSUME ConflictInv, [Next]_vars
  PROVE  /\ Sound(db') /\ Sound(wdb') /\ Keeps(db', wdb') /\ Keeps(db, db')
         /\ writer' = NoProc => wdb' = db'
  <1> USE MemoryAssumption DEF ConflictInv, LockFree
  <1>0. \A s : Keeps(s, s)
    BY DEF Keeps
  <1>1. CASE UNCHANGED <<db, wdb, writer>>
    BY <1>0, <1>1
  <1>2. ASSUME NEW p \in Procs, Begin(p), ~UNCHANGED <<db, wdb, writer>>
        PROVE  db' = wdb /\ wdb' = wdb
    BY <1>2 DEF Begin
  <1>3. ASSUME NEW p \in Procs, Crash(p), ~UNCHANGED <<db, wdb, writer>>
        PROVE  db' = db /\ wdb' = db
    BY <1>3 DEF Crash
  <1>4. ASSUME NEW p \in Procs, NEW s, SoundSegment(p, s)
        PROVE  /\ Sound(db') /\ Sound(wdb') /\ Keeps(db', wdb') /\ Keeps(db, db')
               /\ writer' = NoProc => wdb' = db'
    BY <1>0, <1>4 DEF SoundSegment, Commit, Abandon
  <1>5. CASE UNCHANGED vars
    BY <1>1, <1>5 DEF vars
  <1> QED
    BY <1>0, <1>1, <1>2, <1>3, <1>4, <1>5, StepSound DEF Next

LEMMA WinnerStaysReady ==
  ASSUME ConflictInv, [Next]_vars PROVE WinnerReady'
  <1> USE DEF ConflictInv
  <1>0. Keeps(db, db') /\ call \in [Procs -> CallRec] /\ db \in Tables
    BY TablesSound DEF Typed, TypeOK
  <1>1. ASSUME NEW q \in Procs, At(q, "resolveWin")
        PROVE  /\ call[q].cid \in Known(db')
               /\ \/ call[q].by \in {None, db'.conf[call[q].cid].new}
                  \/ db'.eps[db'.conf[call[q].cid].new].st # "pending_challenge"
    BY <1>0, <1>1 DEF WinnerReady, Keeps
  <1>2. ASSUME NEW p \in Procs, call'[p].pc # "resolveWin",
               \A q \in Procs \ {p} : call'[q] = call[q]
        PROVE  WinnerReady'
    BY <1>1, <1>2 DEF WinnerReady, At
  <1>3. CASE UNCHANGED vars
    BY <1>1, <1>3 DEF vars, WinnerReady, At
  <1>4. ASSUME NEW p \in Procs, Begin(p) PROVE WinnerReady'
    <2>1. PICK op \in Ops : \E c \in CallsOf(op) : call' = [call EXCEPT ![p] = c]
      BY <1>4 DEF Begin
    <2>2. op \in AllOps
      BY MemoryAssumption
    <2>3. \A c \in CallsOf(op) : c.pc # "resolveWin"
      <3> USE DEF CallsOf, NewCall
      <3>1. CASE op = "remember"         BY <3>1
      <3>2. CASE op = "forget"           BY <3>2
      <3>3. CASE op = "invalidate"       BY <3>3
      <3>4. CASE op = "resolve_conflict" BY <3>4
      <3>5. CASE op = "challenge_rule"   BY <3>5
      <3>6. CASE op = "reinforce"        BY <3>6
      <3>7. CASE op = "sleep_now"        BY <3>7
      <3> HIDE DEF CallsOf, NewCall
      <3> QED
        BY <2>2, <3>1, <3>2, <3>3, <3>4, <3>5, <3>6, <3>7 DEF AllOps
    <2> QED
      BY <1>0, <1>2, <2>1, <2>3
  <1>5. ASSUME NEW p \in Procs, Crash(p) PROVE WinnerReady'
    BY <1>0, <1>2, <1>5 DEF Crash, Idle, NewCall
  <1>6. ASSUME NEW p \in Procs, Step(p) PROVE WinnerReady'
    <2>0. \A q \in Procs \ {p} : call'[q] = call[q]
      BY <1>6, StepIsLocal
    <2>1. CASE \E res, id : Return(p, res, id)
      <3>1. call'[p] = Idle
        BY <1>0, <2>1 DEF Return
      <3> QED
        BY <1>2, <2>0, <3>1 DEF Idle, NewCall
    <2>2. CASE \E n : At(p, "insert") /\ call' = [call EXCEPT ![p].pc = "evict", ![p].id = n]
      <3>1. call'[p].pc = "evict"
        BY <1>0, <2>2 DEF CallRec
      <3> QED
        BY <1>2, <2>0, <3>1
    <2>3. CASE Goto(p, "challengeInsert")
      <3>1. call'[p].pc = "challengeInsert"
        BY <1>0, <2>3 DEF Goto, CallRec
      <3> QED
        BY <1>2, <2>0, <3>1
    <2>4. CASE \E todo : call' = [call EXCEPT ![p].pc = "writeBack", ![p].todo = todo]
      <3>1. call'[p].pc = "writeBack"
        BY <1>0, <2>4 DEF CallRec
      <3> QED
        BY <1>2, <2>0, <3>1
    <2>5. CASE \E tries : call' = [call EXCEPT ![p].pc = call[p].first, ![p].todo = NoTodo,
                                     ![p].tries = tries]
      <3>1. call'[p].pc = call[p].first
        BY <1>0, <2>5 DEF CallRec
      <3>2. call[p].first # "resolveWin"
        BY DEF Typed, Arguments, ArgumentsOf
      <3> QED
        BY <1>2, <2>0, <3>1, <3>2
    <2>6. CASE ResolveLoser(p)
      <3> DEFINE c == call[p].cid
      <3>1. c \in ConfIds
        BY <2>6 DEF ResolveLoser, At, Typed, Arguments, ArgumentsOf
      <3>2. c \in Known(db) /\ db.conf[c].new \in Present(db)
        BY <2>6, <3>1 DEF ResolveLoser, Known, Sound, RefsStored
      <3>3. call[p].by \in {None, db.conf[c].new}
            \/ db'.eps[db.conf[c].new].st # "pending_challenge"
        BY <1>0, <2>6, <3>2 DEF ResolveLoser, Commit, Loser, Winner, MarkRow, Tables, Present
      <3>4. call'[p].cid = c /\ call'[p].by = call[p].by
        BY <1>0, <2>6 DEF ResolveLoser, Goto, CallRec
      <3>5. /\ c \in Known(db') /\ db'.conf[c].new = db.conf[c].new
        BY <1>0, <3>2 DEF Keeps
      <3>6. ASSUME NEW q \in Procs \ {p}, call'[q].pc = "resolveWin"
            PROVE  /\ call'[q].cid \in Known(db')
                   /\ \/ call'[q].by \in {None, db'.conf[call'[q].cid].new}
                      \/ db'.eps[db'.conf[call'[q].cid].new].st # "pending_challenge"
        BY <1>1, <2>0, <3>6 DEF At
      <3> QED
        BY <3>3, <3>4, <3>5, <3>6 DEF WinnerReady, At
    <2> QED
      BY <1>6, <2>1, <2>2, <2>3, <2>4, <2>5, <2>6, StepMoves
  <1> QED
    BY <1>3, <1>4, <1>5, <1>6 DEF Next

LEMMA InitConflictInv == Init => ConflictInv
  BY InitTyped DEF Init, ConflictInv, Typed, TypeOK, Sound, RefsStored, Settled, Keeps,
                   Known, WinnerReady, At, Idle, NewCall, Absent

LEMMA NextConflictInv == ConflictInv /\ [Next]_vars => ConflictInv'
  BY TablesSound, WinnerStaysReady, NextTyped, NextArguments
     DEF ConflictInv, Typed, Sound, RefsStored, Settled, Keeps, Known, Present, LockFree

\* Foreign keys hold whatever forget, remember's eviction, retries and crashes do:
\* both memories of every conflict stay stored.
THEOREM ConflictRefs == Spec => []ConflictRefsStored
  <1>1. ConflictInv => ConflictRefsStored
    BY DEF ConflictInv, Sound, ConflictRefsStored
  <1> QED
    BY <1>1, InitConflictInv, NextConflictInv, PTL DEF Spec

\* Wherever resolve_conflict is cut short and whoever writes between its two
\* commits, a resolved conflict leaves no challenger waiting for its verdict.
THEOREM ResolvedSettles == Spec => []ResolvedSettlesChallenger
  <1>1. ConflictInv => ResolvedSettlesChallenger
    BY DEF ConflictInv, Sound, ResolvedSettlesChallenger
  <1> QED
    BY <1>1, InitConflictInv, NextConflictInv, PTL DEF Spec

-----------------------------------------------------------------------------
(* The cap.                                                                *)

\* Deleting the rows beyond the cap leaves as many as the cap allows.
LEMMA EvictionReachesCap ==
  ASSUME NEW s \in Tables, NEW V \in Victims(s)
  PROVE  Cardinality(Present(DeleteRows(s, V))) <= Cap
  <1>1. IsFiniteSet(Present(s))
    <2>1. MaxId \in Int /\ 1 \in Int
      BY MemoryAssumption
    <2>2. IsFiniteSet(Ids)
      BY <2>1, FS_Interval DEF Ids
    <2>3. Present(s) \in SUBSET Ids
      BY DEF Present
    <2> QED
      BY <2>2, <2>3, FS_Subset
  <1>2. V \subseteq Present(s) /\ Cardinality(V) = Excess(s)
    BY DEF Victims
  <1>3. Present(DeleteRows(s, V)) = Present(s) \ V
    BY <1>2 DEF Present, DeleteRows
  <1>4. Present(s) \cap V = V
    BY <1>2
  <1>5. Cardinality(Present(s) \ V) = Cardinality(Present(s)) - Cardinality(V)
    BY <1>1, <1>4, FS_Difference
  <1>6. Cardinality(Present(s)) \in Nat
    BY <1>1, FS_CardinalityType
  <1> HIDE DEF Present, Victims, DeleteRows
  <1> QED
    BY <1>2, <1>3, <1>5, <1>6, MemoryAssumption DEF Excess

\* A process in the middle of a call has not answered yet.
Silent == \A p \in Procs : ~At(p, "idle") => reply[p] = NoReply

LEMMA StepAnswers ==
  ASSUME TypeOK, NEW p \in Procs, Step(p)
  PROVE  UNCHANGED reply \/ call'[p] = Idle
  BY DEF Step, Return, TypeOK, EvictAndReturn,
         RejectSecret, RememberInsert, RememberEvict, ForgetDelete, InvalidateMark,
         ResolveUnknown, ResolveDismiss, ResolveLoser, ResolveWinner, ChallengeRead,
         ChallengeInsert, ReinforceRead, DecayRead, WriteBack, LockError, OutOfIds

LEMMA NextSilent == Typed /\ Silent /\ [Next]_vars => Silent'
  <1> SUFFICES ASSUME Typed, Silent, [Next]_vars PROVE Silent'
    OBVIOUS
  <1> USE DEF Silent, At
  <1>1. CASE UNCHANGED vars
    BY <1>1 DEF vars
  <1>2. ASSUME NEW p \in Procs, Begin(p) PROVE Silent'
    BY <1>2 DEF Begin, Typed, TypeOK
  <1>3. ASSUME NEW p \in Procs, Crash(p) PROVE Silent'
    BY <1>3 DEF Crash, Typed, TypeOK
  <1>4. ASSUME NEW p \in Procs, Step(p) PROVE Silent'
    <2>1. \A q \in Procs \ {p} : call'[q] = call[q] /\ reply'[q] = reply[q]
      BY <1>4, StepIsLocal
    <2>2. call'[p].pc # "idle" => reply'[p] = NoReply
      <3>1. call[p].pc # "idle"
        BY <1>4, StepIsLocal
      <3>2. Idle.pc = "idle"
        BY DEF Idle, NewCall
      <3> QED
        BY <1>4, <3>1, <3>2, StepAnswers DEF Typed
    <2> QED
      BY <2>1, <2>2
  <1> QED
    BY <1>1, <1>2, <1>3, <1>4 DEF Next

\* A remember that evicts and succeeds leaves the rows at or below the cap.
LEMMA EvictCaps ==
  ASSUME TypeOK, NEW p \in Procs, NEW s \in Tables, NEW n, EvictAndReturn(p, s, n),
         reply'[p].res = "ok"
  PROVE  Cardinality(Present(db')) <= Cap
  <1>1. PICK V \in Victims(s) :
          IF V \cap Referenced(s) = {}
          THEN Commit(DeleteRows(s, V)) /\ Return(p, "ok", n)
          ELSE Abandon(p, s) /\ Return(p, "error", None)
    BY DEF EvictAndReturn
  <1>2. V \cap Referenced(s) = {}
    BY <1>1 DEF Return, TypeOK
  <1> QED
    BY <1>1, <1>2, EvictionReachesCap DEF Commit

\* Whatever failed evictions, challenges and other processes left behind, a remember
\* that succeeds leaves at most EPISODES_MAX memories.
THEOREM CapHolds == Spec => CapAfterRemember
  <1> DEFINE Keeping == \A p \in Procs :
        (At(p, "insert") \/ At(p, "evict")) /\ reply'[p].res = "ok"
          => Cardinality(Present(db')) <= Cap
  <1>1. Typed /\ Silent /\ [Next]_vars => [Keeping]_vars
    <2> SUFFICES ASSUME Typed, Silent, Next, NEW p \in Procs,
                        At(p, "insert") \/ At(p, "evict"), reply'[p].res = "ok"
                 PROVE  Cardinality(Present(db')) <= Cap
      OBVIOUS
    <2>1. reply[p].res # "ok" /\ reply \in [Procs -> Reply] /\ call \in [Procs -> CallRec]
      BY DEF Silent, At, NoReply, Typed, TypeOK
    <2>2. PICK q \in Procs : Begin(q) \/ Step(q) \/ Crash(q)
      BY DEF Next
    <2>3. ~Begin(q) /\ ~Crash(q)
      BY <2>1 DEF Begin, Crash, NoReply
    <2>4. q = p
      BY <2>1, <2>2, <2>3, StepIsLocal
    <2>5. RejectSecret(p) \/ RememberInsert(p) \/ RememberEvict(p) \/ LockError(p)
          \/ OutOfIds(p)
      BY <2>2, <2>3, <2>4 DEF Step, At, ForgetDelete, InvalidateMark, ResolveUnknown,
           ResolveDismiss, ResolveLoser, ResolveWinner, ChallengeRead, ChallengeInsert,
           ReinforceRead, DecayRead, WriteBack
    <2>6. ~RejectSecret(p) /\ ~LockError(p) /\ ~OutOfIds(p)
      BY <2>1 DEF RejectSecret, LockError, OutOfIds, Return
    <2>7. CASE RememberEvict(p)
      BY <2>7, EvictCaps DEF RememberEvict, Typed, TypeOK
    <2>8. CASE RememberInsert(p)
      <3>1. PICK n \in NextId(db) : RememberInsert(p)!2!(n)
        BY <2>8 DEF RememberInsert
      <3> DEFINE s == InsertRow(db, n, "active")
      <3>2. s \in Tables /\ n \in Ids /\ call[p].by \in {None} \cup Ids
        BY <2>1, InsertRowType DEF NextId, Typed, TypeOK, Status, Live, CallRec
      <3> HIDE DEF s
      <3>3. MarkRow(s, call[p].by, "superseded", n) \in Tables
        BY <3>2, MarkRowType DEF Status, Dead
      <3>4. reply' # reply
        BY <2>1
      <3>5. \/ EvictAndReturn(p, MarkRow(s, call[p].by, "superseded", n), n)
            \/ EvictAndReturn(p, s, n)
        BY <3>1, <3>4 DEF s
      <3> QED
        BY <3>2, <3>3, <3>5, EvictCaps DEF Typed
    <2> QED
      BY <2>5, <2>6, <2>7, <2>8
  <1>2. Init => Typed /\ Silent
    BY InitTyped DEF Init, Silent, At, Idle, NewCall
  <1>3. Typed /\ Silent /\ [Next]_vars => Typed' /\ Silent'
    BY NextTyped, NextArguments, NextSilent DEF Typed
  <1> QED
    BY <1>1, <1>2, <1>3, PTL DEF Spec, CapAfterRemember

-----------------------------------------------------------------------------
(***************************************************************************)
(* What holds as long as one process has the file to itself, for any       *)
(* number of ids and conflicts: with two, another process may forget the   *)
(* target of a challenge between its read and its insert, or supersede a   *)
(* memory between the read and the write of a decay, and none of the       *)
(* theorems below survives.                                                *)
(***************************************************************************)

-----------------------------------------------------------------------------
(* Conflicts and challengers.                                              *)

Named(s) ==
  \A c \in Known(s) : /\ s.conf[c].old < s.conf[c].new
                      /\ \A d \in Known(s) \ {c} : s.conf[d].new # s.conf[c].new
Staged(s) ==
  \A i \in Ids : s.eps[i].st = "pending_challenge"
    => \E c \in Known(s) : s.conf[c].new = i /\ s.conf[c].st # "resolved"
Fine(s) == Named(s) /\ Staged(s)

\* From s to t no memory starts to wait, and a conflict is at most resolved, once
\* its newer memory does not wait.
Calms(s, t) ==
  /\ \A i \in Ids : t.eps[i].st = "pending_challenge" => s.eps[i].st = "pending_challenge"
  /\ Known(t) = Known(s)
  /\ \A c \in Known(s) :
       /\ t.conf[c].new = s.conf[c].new /\ t.conf[c].old = s.conf[c].old
       /\ \/ t.conf[c].st = s.conf[c].st
          \/ t.eps[s.conf[c].new].st # "pending_challenge"

\* From s to t a memory above all others is in conflict with one of them.
Opens(s, t) ==
  \E c \in ConfIds \ Known(s), n \in Ids, old \in Present(s), st \in Open :
    /\ \A i \in Present(s) : i < n
    /\ t.conf = [s.conf EXCEPT ![c] = [st |-> st, new |-> n, old |-> old]]
    /\ \A i \in Ids \ {n} :
         t.eps[i].st = "pending_challenge" => s.eps[i].st = "pending_challenge"

LEMMA CalmsFine ==
  ASSUME NEW s, Sound(s), NEW t, Fine(s), Calms(s, t) PROVE Fine(t)
  <1>1. Named(t)
    BY DEF Fine, Named, Calms
  <1>2. ASSUME NEW i \in Ids, t.eps[i].st = "pending_challenge"
        PROVE  \E c \in Known(t) : t.conf[c].new = i /\ t.conf[c].st # "resolved"
    <2>1. PICK c \in Known(s) : s.conf[c].new = i /\ s.conf[c].st # "resolved"
      BY <1>2 DEF Fine, Staged, Calms
    <2> QED
      BY <1>2, <2>1 DEF Calms
  <1> QED
    BY <1>1, <1>2 DEF Fine, Staged

LEMMA OpensFine ==
  ASSUME NEW s, Sound(s), NEW t, Fine(s), Opens(s, t) PROVE Fine(t)
  <1>1. PICK c \in ConfIds \ Known(s), n \in Ids, old \in Present(s), st \in Open :
          /\ \A i \in Present(s) : i < n
          /\ t.conf = [s.conf EXCEPT ![c] = [st |-> st, new |-> n, old |-> old]]
          /\ \A i \in Ids \ {n} :
               t.eps[i].st = "pending_challenge" => s.eps[i].st = "pending_challenge"
    BY DEF Opens
  <1>2. st # "resolved" /\ st # Absent
    BY DEF Open, Absent
  <1>3. /\ t.conf[c] = [st |-> st, new |-> n, old |-> old]
        /\ \A d \in ConfIds \ {c} : t.conf[d] = s.conf[d]
        /\ Known(t) = Known(s) \cup {c}
    BY <1>1, <1>2 DEF Sound, Tables, Known
  <1>4. \A d \in Known(s) : d # c /\ d \in ConfIds /\ s.conf[d].new # n
    <2>1. \A i \in Present(s) : i # n
      BY <1>1 DEF Present, Ids
    <2> QED
      BY <1>1, <2>1 DEF Sound, RefsStored, Known
  <1>5. old < n
    BY <1>1
  <1>6. Named(t)
    BY <1>3, <1>4, <1>5 DEF Fine, Named
  <1>7. ASSUME NEW i \in Ids, t.eps[i].st = "pending_challenge"
        PROVE  \E d \in Known(t) : t.conf[d].new = i /\ t.conf[d].st # "resolved"
    <2>1. CASE i = n
      BY <1>2, <1>3, <2>1
    <2>2. CASE i # n
      <3>1. PICK d \in Known(s) : s.conf[d].new = i /\ s.conf[d].st # "resolved"
        BY <1>1, <1>7, <2>2 DEF Fine, Staged
      <3> QED
        BY <1>3, <1>4, <3>1
    <2> QED
      BY <2>1, <2>2
  <1> QED
    BY <1>6, <1>7 DEF Fine, Staged

LEMMA CalmsTransitive ==
  ASSUME NEW s, NEW t, NEW u, \A c \in Known(s) : s.conf[c].new \in Ids,
         Calms(s, t), Calms(t, u)
  PROVE  Calms(s, u)
  BY DEF Calms

\* What each statement does.
LEMMA InsertRowCalms ==
  ASSUME NEW s \in Tables, NEW n \in Ids, NEW st, st # "pending_challenge"
  PROVE  Calms(s, InsertRow(s, n, st))
  BY DEF Calms, InsertRow, Tables, Known

LEMMA DeleteRowsCalms ==
  ASSUME NEW s \in Tables, NEW V PROVE Calms(s, DeleteRows(s, V))
  BY DEF Calms, DeleteRows, Tables, Known, Absent

LEMMA MarkRowCalms ==
  ASSUME NEW s \in Tables, NEW i, NEW st, st # "pending_challenge", NEW by
  PROVE  Calms(s, MarkRow(s, i, st, by))
  BY DEF Calms, MarkRow, Tables, Known, Present

LEMMA SettleRowCalms ==
  ASSUME NEW s \in Tables, NEW i, NEW st, st # "pending_challenge"
  PROVE  Calms(s, SettleRow(s, i, st))
  <1>1. Calms(s, s)
    BY DEF Calms
  <1> QED
    BY <1>1, MarkRowCalms DEF SettleRow

LEMMA ApplyTodoCalms ==
  ASSUME NEW s \in Tables, NEW todo \in [Ids -> Live \cup Dead \cup {Absent}]
  PROVE  Calms(s, ApplyTodo(s, todo))
  <1>1. \A i \in Ids : todo[i] # "pending_challenge"
    BY DEF Live, Dead, Absent
  <1> QED
    BY <1>1 DEF Calms, ApplyTodo, Tables, Known

LEMMA CloseConflictCalms ==
  ASSUME NEW s \in Tables, NEW c \in ConfIds,
         c \in Known(s) => s.eps[s.conf[c].new].st # "pending_challenge"
  PROVE  Calms(s, CloseConflict(s, c))
  <1>1. CASE c \notin Known(s)
    BY <1>1 DEF CloseConflict, Known, Calms
  <1>2. CASE c \in Known(s)
    <2> DEFINE t == CloseConflict(s, c)
    <2>1. /\ t.eps = s.eps /\ \A d \in ConfIds \ {c} : t.conf[d] = s.conf[d]
          /\ t.conf[c] = [st |-> "resolved", new |-> s.conf[c].new, old |-> s.conf[c].old]
      BY <1>2 DEF CloseConflict, InsertConflict, Tables, Known
    <2> HIDE DEF t
    <2>2. Known(t) = Known(s)
      BY <1>2, <2>1 DEF Known, Absent
    <2> QED
      BY <1>2, <2>1, <2>2 DEF Calms, Known, t
  <1> QED
    BY <1>1, <1>2

\* What two processes would have to respect, and nothing in the code makes them: no
\* target of a challenge is erased between the read of challenge_rule and its INSERTs.
\* The commit that breaks it is the one the run orphan finds.
TargetsKept ==
  \A p \in Procs : At(p, "challengeInsert") /\ call[p].id \in Present(db)
                     => call[p].id \in Present(db')

\* A challenge that is about to be inserted finds its target.
TargetThere ==
  \A p \in Procs : At(p, "challengeInsert") => call[p].id \in Present(db)

FineSegment(p, s) == (Calms(db, s) \/ Opens(db, s)) /\ (Commit(s) \/ Abandon(p, s))

LEMMA EvictCalms ==
  ASSUME NEW p, NEW s \in Tables, NEW n,
         \A c \in Known(db) : db.conf[c].new \in Ids,
         Calms(db, s), EvictAndReturn(p, s, n)
  PROVE  \E t : FineSegment(p, t)
  <1>1. PICK V \in Victims(s) :
          IF V \cap Referenced(s) = {}
          THEN Commit(DeleteRows(s, V)) /\ Return(p, "ok", n)
          ELSE Abandon(p, s) /\ Return(p, "error", None)
    BY DEF EvictAndReturn
  <1>2. Calms(db, DeleteRows(s, V))
    BY DeleteRowsCalms, CalmsTransitive
  <1> QED
    BY <1>1, <1>2 DEF FineSegment

LEMMA StepFine ==
  ASSUME ConflictInv, TargetThere, NEW p \in Procs, Step(p)
  PROVE  UNCHANGED <<db, wdb, writer>> \/ \E s : FineSegment(p, s)
  <1> USE DEF ConflictInv
  <1>0. /\ db \in Tables /\ Calms(db, db) /\ call[p] \in CallRec
        /\ \A c \in Known(db) : db.conf[c].new \in Ids
    BY DEF Calms, Typed, TypeOK, Sound, RefsStored, Present
  <1>1. CASE RememberInsert(p)
    <2>1. PICK n \in NextId(db) : RememberInsert(p)!2!(n)
      BY <1>1 DEF RememberInsert
    <2> DEFINE s == InsertRow(db, n, "active")
    <2>2. n \in Ids /\ \A i \in Present(db) : i < n
      BY DEF NextId
    <2>3. s \in Tables /\ Calms(db, s) /\ s.conf = db.conf
      BY <1>0, <2>2, InsertRowType, InsertRowCalms DEF Status, Live, InsertRow
    <2>4. \A i \in Ids \ {n} : s.eps[i] = db.eps[i]
      BY <1>0, <2>2 DEF InsertRow, Tables
    <2>5. call[p].by \in {None} \cup Ids
      BY <1>0 DEF CallRec
    <2> HIDE DEF s
    <2>6. CASE EvictAndReturn(p, MarkRow(s, call[p].by, "superseded", n), n)
      <3>1. MarkRow(s, call[p].by, "superseded", n) \in Tables
        BY <2>2, <2>3, MarkRowType DEF Status, Dead
      <3>2. Calms(db, MarkRow(s, call[p].by, "superseded", n))
        BY <1>0, <2>3, MarkRowCalms, CalmsTransitive
      <3> QED
        BY <1>0, <2>6, <3>1, <3>2, EvictCalms
    <2>7. CASE EvictAndReturn(p, s, n)
      BY <1>0, <2>3, <2>7, EvictCalms
    <2>8. CASE \E old \in Ids, c \in NextConf(s) :
                 /\ old # n /\ s.eps[old].st = "active"
                 /\ Commit(InsertConflict(s, c, n, old, "pending"))
      <3>1. PICK old \in Ids, c \in NextConf(s) :
              /\ old # n /\ s.eps[old].st = "active"
              /\ Commit(InsertConflict(s, c, n, old, "pending"))
        BY <2>8
      <3> DEFINE t == InsertConflict(s, c, n, old, "pending")
      <3>2. old \in Present(db) /\ "pending" \in Open
        BY <2>4, <3>1 DEF Present, Absent, Open
      <3>3. c \in ConfIds \ Known(db)
        BY <2>3, <3>1 DEF NextConf, Known
      <3>4. /\ t.conf = [db.conf EXCEPT ![c] = [st |-> "pending", new |-> n, old |-> old]]
            /\ t.eps = s.eps
        BY <2>3 DEF InsertConflict
      <3> HIDE DEF t
      <3>5. Opens(db, t)
        BY <2>2, <2>4, <3>2, <3>3, <3>4 DEF Opens
      <3> QED
        BY <3>1, <3>5 DEF FineSegment, t
    <2> QED
      BY <2>1, <2>6, <2>7, <2>8 DEF s
  <1>2. CASE RememberEvict(p)
    BY <1>0, <1>2, EvictCalms DEF RememberEvict
  <1>3. CASE ForgetDelete(p)
    <2>1. CASE call[p].id \in Present(db) \cap Referenced(db)
      BY <1>0, <1>3, <2>1 DEF ForgetDelete, FineSegment
    <2>2. CASE call[p].id \notin Present(db) \cap Referenced(db)
      BY <1>0, <1>3, <2>2, DeleteRowsCalms DEF ForgetDelete, FineSegment
    <2> QED
      BY <2>1, <2>2
  <1>4. CASE InvalidateMark(p)
    <2>1. PICK st \in Dead : Commit(MarkRow(db, call[p].id, st, call[p].by))
      BY <1>4 DEF InvalidateMark, Dead
    <2>2. st # "pending_challenge"
      BY DEF Dead
    <2> QED
      BY <1>0, <2>1, <2>2, MarkRowCalms DEF FineSegment
  <1>5. CASE ResolveDismiss(p)
    <2> DEFINE c == call[p].cid
               s == SettleRow(db, db.conf[c].new, "invalidated")
    <2>1. c \in ConfIds /\ c \in Known(db)
      BY <1>5 DEF ResolveDismiss, Typed, Arguments, ArgumentsOf, At, Known
    <2>2. db.conf[c].new \in Present(db)
      BY <2>1 DEF Sound, RefsStored
    <2>3. /\ s \in Tables /\ Calms(db, s)
          /\ s.eps[db.conf[c].new].st # "pending_challenge"
      BY <1>0, <2>2, SettleRowSound, SettleRowCalms DEF Sound, Dead
    <2>4. s.conf[c].new = db.conf[c].new
      BY <2>1, <2>3 DEF Calms
    <2> HIDE DEF s
    <2>5. Calms(s, CloseConflict(s, c))
      BY <2>1, <2>3, <2>4, CloseConflictCalms
    <2>6. Commit(CloseConflict(s, c))
      BY <1>5 DEF ResolveDismiss, s
    <2> QED
      BY <1>0, <2>3, <2>5, <2>6, CalmsTransitive DEF FineSegment
  <1>6. CASE ResolveLoser(p)
    BY <1>0, <1>6, MarkRowCalms DEF ResolveLoser, FineSegment
  <1>7. CASE ResolveWinner(p)
    <2> DEFINE c == call[p].cid
               s == SettleRow(db, Winner(p), "active")
    <2>1. c \in ConfIds /\ c \in Known(db)
      BY <1>7 DEF ResolveWinner, WinnerReady, At, Known
    <2>2. db.conf[c].new \in Present(db)
      BY <2>1 DEF Sound, RefsStored
    <2>3. /\ s \in Tables /\ Calms(db, s)
          /\ Winner(p) \in Present(db) => s.eps[Winner(p)].st # "pending_challenge"
      BY <1>0, SettleRowSound, SettleRowCalms DEF Sound, Live
    <2>4. s.conf[c].new = db.conf[c].new
      BY <2>1, <2>3 DEF Calms
    <2> HIDE DEF s
    <2>5. s.eps[db.conf[c].new].st # "pending_challenge"
      <3>1. CASE call[p].by \in {None, db.conf[c].new}
        BY <2>2, <2>3, <3>1 DEF Winner
      <3>2. CASE db.eps[db.conf[c].new].st # "pending_challenge"
        BY <1>0, <2>1, <2>3, <3>2 DEF Calms
      <3> QED
        BY <1>7, <3>1, <3>2 DEF WinnerReady, ResolveWinner
    <2>6. Calms(s, CloseConflict(s, c))
      BY <2>1, <2>3, <2>4, <2>5, CloseConflictCalms
    <2>7. Commit(CloseConflict(s, c))
      BY <1>7 DEF ResolveWinner, s
    <2> QED
      BY <1>0, <2>3, <2>6, <2>7, CalmsTransitive DEF FineSegment
  <1>8. CASE ChallengeInsert(p)
    <2>1. PICK n \in NextId(db), c \in NextConf(db) : ChallengeInsert(p)!2!(n, c)
      BY <1>8 DEF ChallengeInsert
    <2> DEFINE s == InsertRow(db, n, "pending_challenge")
               t == InsertConflict(s, c, n, call[p].id, "challenge_pending")
    <2>2. call[p].id \in Present(db)
      BY <1>8 DEF ChallengeInsert, TargetThere
    <2>3. n \in Ids /\ \A i \in Present(db) : i < n
      BY DEF NextId
    <2>4. s.conf = db.conf /\ \A i \in Ids \ {n} : s.eps[i] = db.eps[i]
      BY <1>0, <2>3 DEF InsertRow, Tables
    <2>5. call[p].id \in Present(s)
      BY <2>2, <2>3, <2>4 DEF Present, Ids
    <2>6. Commit(t)
      BY <2>1, <2>5
    <2>7. c \in ConfIds \ Known(db) /\ "challenge_pending" \in Open
      BY DEF NextConf, Known, Open
    <2>8. /\ t.conf = [db.conf EXCEPT
                        ![c] = [st |-> "challenge_pending", new |-> n, old |-> call[p].id]]
          /\ t.eps = s.eps
      BY <2>4 DEF InsertConflict
    <2> HIDE DEF t
    <2>9. Opens(db, t)
      BY <2>2, <2>3, <2>4, <2>7, <2>8 DEF Opens
    <2> QED
      BY <2>6, <2>9 DEF FineSegment
  <1>9. CASE WriteBack(p)
    <2>1. call[p].todo \in [Ids -> Live \cup Dead \cup {Absent}]
      BY <1>0 DEF CallRec
    <2> QED
      BY <1>0, <1>9, <2>1, ApplyTodoCalms DEF WriteBack, FineSegment
  <1>10. CASE RejectSecret(p) \/ ResolveUnknown(p) \/ ChallengeRead(p)
              \/ ReinforceRead(p) \/ DecayRead(p) \/ LockError(p) \/ OutOfIds(p)
    BY <1>10 DEF RejectSecret, ResolveUnknown, ChallengeRead, ReinforceRead, DecayRead,
                 LockError, OutOfIds
  <1> QED
    BY <1>1, <1>2, <1>3, <1>4, <1>5, <1>6, <1>7, <1>8, <1>9, <1>10 DEF Step

KeptInv == ConflictInv /\ TargetThere /\ Fine(db) /\ Fine(wdb)

LEMMA NextFine == KeptInv /\ [Next]_vars => Fine(db') /\ Fine(wdb')
  <1> SUFFICES ASSUME KeptInv, [Next]_vars PROVE Fine(db') /\ Fine(wdb')
    OBVIOUS
  <1> USE DEF KeptInv
  <1>1. CASE UNCHANGED <<db, wdb>>
    BY <1>1
  <1>2. ASSUME NEW p \in Procs, Begin(p) \/ Crash(p) PROVE Fine(db') /\ Fine(wdb')
    BY <1>2 DEF Begin, Crash
  <1>3. ASSUME NEW p \in Procs, NEW s, FineSegment(p, s) PROVE Fine(db') /\ Fine(wdb')
    <2>1. Fine(s)
      BY <1>3, CalmsFine, OpensFine DEF FineSegment, ConflictInv
    <2> QED
      BY <1>3, <2>1 DEF FineSegment, Commit, Abandon
  <1> QED
    BY <1>1, <1>2, <1>3, StepFine DEF Next, vars

\* The step that takes a process to the INSERTs of a challenge has just seen its target.
LEMMA TargetRead ==
  ASSUME KeptInv, NEW p \in Procs, Begin(p) \/ Step(p) \/ Crash(p),
         call'[p].pc = "challengeInsert"
  PROVE  call'[p].id \in Present(db')
  <1> USE DEF KeptInv
  <1>0. call \in [Procs -> CallRec] /\ Arguments
    BY DEF ConflictInv, Typed, TypeOK
  <1>1. ASSUME Begin(p) PROVE call'[p].pc # "challengeInsert"
    <2>1. PICK op \in Ops : \E c \in CallsOf(op) : call' = [call EXCEPT ![p] = c]
      BY <1>1 DEF Begin
    <2>2. op \in AllOps
      BY MemoryAssumption
    <2>3. \A c \in CallsOf(op) : c.pc # "challengeInsert"
      <3> USE DEF CallsOf, NewCall
      <3>1. CASE op = "remember"         BY <3>1
      <3>2. CASE op = "forget"           BY <3>2
      <3>3. CASE op = "invalidate"       BY <3>3
      <3>4. CASE op = "resolve_conflict" BY <3>4
      <3>5. CASE op = "challenge_rule"   BY <3>5
      <3>6. CASE op = "reinforce"        BY <3>6
      <3>7. CASE op = "sleep_now"        BY <3>7
      <3> HIDE DEF CallsOf, NewCall
      <3> QED
        BY <2>2, <3>1, <3>2, <3>3, <3>4, <3>5, <3>6, <3>7 DEF AllOps
    <2> QED
      BY <1>0, <2>1, <2>3
  <1>2. ASSUME Crash(p) PROVE call'[p].pc # "challengeInsert"
    BY <1>0, <1>2 DEF Crash, Idle, NewCall
  <1>3. CASE Step(p)
    <2>1. ASSUME NEW res, NEW id, Return(p, res, id) PROVE FALSE
      <3>1. call'[p] = Idle
        BY <1>0, <2>1 DEF Return
      <3> QED
        BY <1>3, <3>1 DEF Idle, NewCall
    <2>2. ASSUME NEW n, call' = [call EXCEPT ![p].pc = "evict", ![p].id = n]
          PROVE  FALSE
      BY <1>0, <1>3, <2>2 DEF CallRec
    <2>3. ASSUME ResolveLoser(p) PROVE FALSE
      BY <1>0, <1>3, <2>3 DEF ResolveLoser, Goto, CallRec
    <2>4. ASSUME NEW todo, call' = [call EXCEPT ![p].pc = "writeBack", ![p].todo = todo]
          PROVE  FALSE
      BY <1>0, <1>3, <2>4 DEF CallRec
    <2>5. ASSUME NEW tries, call' = [call EXCEPT ![p].pc = call[p].first,
                                       ![p].todo = NoTodo, ![p].tries = tries]
          PROVE  FALSE
      BY <1>0, <1>3, <2>5 DEF CallRec, Arguments, ArgumentsOf
    <2>6. Goto(p, "challengeInsert") /\ At(p, "challengeRead")
      BY <1>3, <2>1, <2>2, <2>3, <2>4, <2>5, StepMoves
    <2>7. ChallengeRead(p)
      BY <1>3, <2>6 DEF Step, At, RejectSecret, RememberInsert, RememberEvict, ForgetDelete,
           InvalidateMark, ResolveUnknown, ResolveDismiss, ResolveLoser, ResolveWinner,
           ChallengeInsert, ReinforceRead, DecayRead, WriteBack, LockError, OutOfIds, Writing
    <2>8. db.eps[call[p].id].st = "solidified" /\ db' = db
      <3>1. ~\E res, id : Return(p, res, id)
        BY <2>1
      <3> QED
        BY <2>7, <3>1 DEF ChallengeRead
    <2>9. call'[p].id = call[p].id /\ call[p].id \in Ids
      BY <1>0, <2>6 DEF Goto, CallRec, At, Arguments, ArgumentsOf
    <2> QED
      BY <2>8, <2>9 DEF TargetThere, At, Present, Absent
  <1> QED
    BY <1>1, <1>2, <1>3

LEMMA TargetStays == KeptInv /\ [Next]_vars /\ TargetsKept => TargetThere'
  <1> SUFFICES ASSUME KeptInv, [Next]_vars, TargetsKept,
                      NEW p \in Procs, call'[p].pc = "challengeInsert"
               PROVE  call'[p].id \in Present(db')
    BY DEF TargetThere, At
  <1> USE DEF KeptInv
  <1>1. CASE call'[p] = call[p]
    BY <1>1 DEF TargetThere, TargetsKept, At
  <1>2. CASE call'[p] # call[p]
    <2>1. PICK q \in Procs : Begin(q) \/ Step(q) \/ Crash(q)
      BY <1>2 DEF Next, vars
    <2>2. p = q
      BY <1>2, <2>1, StepsAreLocal DEF ConflictInv
    <2> QED
      BY <2>1, <2>2, TargetRead
  <1> QED
    BY <1>1, <1>2

LEMMA InitKeptInv == Init => KeptInv
  BY InitConflictInv DEF Init, KeptInv, TargetThere, At, Idle, NewCall, Fine, Named, Staged,
                         Known, Absent

LEMMA KeptInvariant == Spec /\ [][TargetsKept]_vars => []KeptInv
  <1>1. KeptInv /\ [Next]_vars /\ [TargetsKept]_vars => KeptInv'
    <2>1. KeptInv /\ UNCHANGED vars => KeptInv'
      BY NextConflictInv DEF KeptInv, TargetThere, At, Present, Fine, Named, Staged, Known, vars
    <2> QED
      BY <2>1, NextConflictInv, NextFine, TargetStays DEF KeptInv, Fine, Named, Staged, Known
  <1> QED
    BY <1>1, InitKeptInv, PTL DEF Spec

\* With any number of processes, as long as none of them erases the target of a
\* challenge between its read and its INSERTs, the newer memory of a conflict was
\* inserted after the older one and belongs to no other conflict, although rowids are
\* used again after forget and eviction.
THEOREM ConflictNames == Spec /\ [][TargetsKept]_vars => []ConflictsNameTheirMemories
  <1>1. KeptInv => ConflictsNameTheirMemories
    BY DEF KeptInv, Fine, Named, ConflictsNameTheirMemories
  <1> QED
    BY <1>1, KeptInvariant, PTL

\* With any number of processes, as long as none of them erases the target of a
\* challenge between its read and its INSERTs, a challenger that waits for the user has
\* an open conflict to be judged by, wherever challenge_rule and resolve_conflict fail,
\* are retried or crash: the run orphan shows the only way to lose it.
THEOREM ChallengerKeeps == Spec /\ [][TargetsKept]_vars => []ChallengerHasConflict
  <1>1. KeptInv => ChallengerHasConflict
    BY DEF KeptInv, Fine, Staged, ChallengerHasConflict
  <1> QED
    BY <1>1, KeptInvariant, PTL

\* A process that has the file to itself erases no target of its own challenge.
LEMMA LoneKeepsTargets ==
  ASSUME NEW lone, Procs = {lone} PROVE Spec => [][TargetsKept]_vars
  <1>1. Typed /\ [Next]_vars => [TargetsKept]_vars
    <2> SUFFICES ASSUME Typed, Begin(lone) \/ Step(lone) \/ Crash(lone),
                        At(lone, "challengeInsert"), call[lone].id \in Present(db)
                 PROVE  call[lone].id \in Present(db')
      BY DEF Next, TargetsKept
    <2>0. db \in Tables
      BY DEF Typed, TypeOK
    <2>1. CASE db' = db
      BY <2>1
    <2>2. CASE db' # db
      <3>1. ChallengeInsert(lone)
        BY <2>2 DEF Begin, Crash, Step, At, RejectSecret, RememberInsert, RememberEvict,
             ForgetDelete, InvalidateMark, ResolveUnknown, ResolveDismiss, ResolveLoser,
             ResolveWinner, ChallengeRead, ReinforceRead, DecayRead, WriteBack, LockError,
             OutOfIds
      <3>2. PICK n \in NextId(db), c \in NextConf(db) : ChallengeInsert(lone)!2!(n, c)
        BY <3>1 DEF ChallengeInsert
      <3>3. db'.eps = InsertRow(db, n, "pending_challenge").eps
        BY <2>2, <3>2 DEF Commit, Abandon, InsertConflict
      <3> QED
        BY <2>0, <3>3 DEF InsertRow, Present, Tables, Absent
    <2> QED
      BY <2>1, <2>2
  <1>2. Init => Typed
    BY InitTyped
  <1>3. Typed /\ [Next]_vars => Typed'
    BY NextTyped, NextArguments DEF Typed
  <1> QED
    BY <1>1, <1>2, <1>3, PTL DEF Spec

\* As long as one process has the file to itself, conflicts name their memories.
THEOREM LoneConflictNames ==
  ASSUME NEW lone, Procs = {lone} PROVE Spec => []ConflictsNameTheirMemories
  BY LoneKeepsTargets, ConflictNames, PTL

\* As long as one process has the file to itself, no challenger loses its conflict.
THEOREM LoneChallenger ==
  ASSUME NEW lone, Procs = {lone} PROVE Spec => []ChallengerHasConflict
  BY LoneKeepsTargets, ChallengerKeeps, PTL

-----------------------------------------------------------------------------
(* The lifecycle.                                                          *)

\* What the mapping makes of a status.
LEMMA LifeOf ==
  ASSUME NEW st \in Status \cup {Absent}
  PROVE  /\ Life(st) \in Lifecycle!Lives
         /\ Life(st) = "none" <=> st = Absent
         /\ Life(st) = "staged" <=> st = "pending_challenge"
         /\ Life(st) = "current" <=> st \in Live
         /\ Life(st) = "dead" <=> st \in Dead
  <1> USE DEF Status, Live, Dead, Absent
  <1>1. CASE st = Absent               BY <1>1 DEF Life, Lifecycle!Lives
  <1>2. CASE st = "pending_challenge"  BY <1>2 DEF Life, Lifecycle!Lives
  <1>3. CASE st \in Live               BY <1>3 DEF Life, Lifecycle!Lives
  <1>4. CASE st \in Dead               BY <1>4 DEF Life, Lifecycle!Lives
  <1> QED BY <1>1, <1>2, <1>3, <1>4

LEMMA StageOf ==
  ASSUME NEW st \in Open \cup {"resolved", Absent}
  PROVE  /\ Stage(st) \in Lifecycle!Stages
         /\ Stage(st) = "none" <=> st = Absent
         /\ Stage(st) = "open" <=> st \in Open
         /\ Stage(st) = "closed" <=> st = "resolved"
  <1> USE DEF Open, Absent
  <1>1. CASE st = Absent      BY <1>1 DEF Stage, Lifecycle!Stages
  <1>2. CASE st = "resolved"  BY <1>2 DEF Stage, Lifecycle!Stages
  <1>3. CASE st \in Open      BY <1>3 DEF Stage, Lifecycle!Stages
  <1> QED BY <1>1, <1>2, <1>3

\* From s to t a staged memory is not erased and a dead one does not come back ...
RowsFollow(s, t) ==
  \A i \in Ids :
    /\ s.eps[i].st = "pending_challenge" => t.eps[i].st # Absent
    /\ s.eps[i].st \in Dead => t.eps[i].st \in Dead \cup {Absent}
    /\ s.eps[i].st \in Live => t.eps[i].st # "pending_challenge"
\* ... and a conflict stays on record, and closed once it is.
ConflictsFollow(s, t) ==
  \A c \in ConfIds :
    /\ t.conf[c].st = "resolved" => s.conf[c].st # Absent
    /\ s.conf[c].st # Absent => t.conf[c].st # Absent
    /\ s.conf[c].st = "resolved" => t.conf[c].st = "resolved"
Follows(s, t) == RowsFollow(s, t) /\ ConflictsFollow(s, t)

LEMMA FollowsIsLifecycle ==
  ASSUME NEW s \in Tables, NEW t \in Tables, Follows(s, t)
  PROVE  /\ \A i \in Ids : Life(t.eps[i].st) \in Lifecycle!MayBecome(Life(s.eps[i].st))
         /\ \A c \in ConfIds : Stage(t.conf[c].st) \in Lifecycle!MayReach(Stage(s.conf[c].st))
  <1>1. ASSUME NEW i \in Ids
        PROVE  Life(t.eps[i].st) \in Lifecycle!MayBecome(Life(s.eps[i].st))
    <2> DEFINE a == s.eps[i].st
               b == t.eps[i].st
    <2>1. a \in Status \cup {Absent} /\ b \in Status \cup {Absent}
      BY DEF Tables, Row
    <2>2. /\ a = "pending_challenge" => b # Absent
          /\ a \in Dead => b \in Dead \cup {Absent}
          /\ a \in Live => b # "pending_challenge"
      BY DEF Follows, RowsFollow
    <2> HIDE DEF a, b
    <2>3. Life(a) \in Lifecycle!Lives /\ Life(b) \in Lifecycle!Lives
      BY <2>1, LifeOf
    <2>8. Life(b) \in Lifecycle!MayBecome(Life(a))
      <3>4. CASE Life(a) = "none"
        BY <2>3, <3>4 DEF Lifecycle!MayBecome
      <3>5. CASE Life(a) = "staged"
        <4>1. Life(b) # "none"
          BY <2>1, <2>2, <3>5, LifeOf
        <4> QED BY <2>3, <3>5, <4>1 DEF Lifecycle!MayBecome, Lifecycle!Lives
      <3>6. CASE Life(a) = "current"
        <4>1. Life(b) # "staged"
          BY <2>1, <2>2, <3>6, LifeOf
        <4> QED BY <2>3, <3>6, <4>1 DEF Lifecycle!MayBecome, Lifecycle!Lives
      <3>7. CASE Life(a) = "dead"
        <4>1. Life(b) \in {"dead", "none"}
          BY <2>1, <2>2, <3>7, LifeOf
        <4> QED BY <3>7, <4>1 DEF Lifecycle!MayBecome
      <3> QED BY <2>3, <3>4, <3>5, <3>6, <3>7 DEF Lifecycle!Lives
    <2> QED BY <2>8 DEF a, b
  <1>2. ASSUME NEW c \in ConfIds
        PROVE  Stage(t.conf[c].st) \in Lifecycle!MayReach(Stage(s.conf[c].st))
    <2> DEFINE a == s.conf[c].st
               b == t.conf[c].st
    <2>1. a \in Open \cup {"resolved", Absent} /\ b \in Open \cup {"resolved", Absent}
      BY DEF Tables, Conflict
    <2>2. /\ b = "resolved" => a # Absent
          /\ a # Absent => b # Absent
          /\ a = "resolved" => b = "resolved"
      BY DEF Follows, ConflictsFollow
    <2> HIDE DEF a, b
    <2>3. Stage(a) \in Lifecycle!Stages /\ Stage(b) \in Lifecycle!Stages
      BY <2>1, StageOf
    <2>8. Stage(b) \in Lifecycle!MayReach(Stage(a))
      <3>4. CASE Stage(a) = "none"
        <4>1. Stage(b) # "closed"
          BY <2>1, <2>2, <3>4, StageOf
        <4> QED BY <2>3, <3>4, <4>1 DEF Lifecycle!MayReach, Lifecycle!Stages
      <3>5. CASE Stage(a) = "open"
        <4>1. Stage(b) # "none"
          BY <2>1, <2>2, <3>5, StageOf DEF Open, Absent
        <4> QED BY <2>3, <3>5, <4>1 DEF Lifecycle!MayReach, Lifecycle!Stages
      <3>6. CASE Stage(a) = "closed"
        <4>1. Stage(b) = "closed"
          BY <2>1, <2>2, <3>6, StageOf
        <4> QED BY <3>6, <4>1 DEF Lifecycle!MayReach
      <3> QED BY <2>3, <3>4, <3>5, <3>6 DEF Lifecycle!Stages
    <2> QED BY <2>8 DEF a, b
  <1> QED BY <1>1, <1>2

\* What each statement does to the rows.
LEMMA InsertRowFollows ==
  ASSUME NEW s \in Tables, NEW n \in Ids \ Present(s), NEW st
  PROVE  RowsFollow(s, InsertRow(s, n, st))
  BY DEF RowsFollow, InsertRow, Tables, Present, Live, Dead, Absent

LEMMA MarkRowFollows ==
  ASSUME NEW s, NEW t \in Tables, RowsFollow(s, t), NEW i, NEW st \in Dead, NEW by
  PROVE  RowsFollow(s, MarkRow(t, i, st, by))
  BY DEF RowsFollow, MarkRow, Tables, Present, Dead, Absent

LEMMA SettleRowFollows ==
  ASSUME NEW s \in Tables, NEW i, NEW st \in Live \cup Dead
  PROVE  RowsFollow(s, SettleRow(s, i, st))
  BY DEF RowsFollow, SettleRow, MarkRow, Tables, Present, Live, Dead, Absent

\* A staged memory is in a conflict, and what is in a conflict is not deleted.
LEMMA DeleteRowsFollows ==
  ASSUME NEW s \in Tables, NEW t \in Tables, RowsFollow(s, t), Staged(s), t.conf = s.conf,
         NEW V, V \cap Referenced(t) = {}
  PROVE  RowsFollow(s, DeleteRows(t, V))
  <1> DEFINE u == DeleteRows(t, V)
  <1>1. \A i \in Ids : IF i \in V THEN u.eps[i].st = Absent ELSE u.eps[i] = t.eps[i]
    BY DEF DeleteRows, Tables
  <1>2. \A i \in Ids : s.eps[i].st = "pending_challenge" => i \notin V
    BY DEF Staged, Known, Referenced
  <1>3. Absent # "pending_challenge"
    BY DEF Absent
  <1> HIDE DEF u
  <1>4. RowsFollow(s, u)
    BY <1>1, <1>2, <1>3 DEF RowsFollow
  <1> QED BY <1>4 DEF u

\* ... and to the conflicts.
LEMMA InsertConflictFollows ==
  ASSUME NEW s \in Tables, NEW t \in Tables, t.conf = s.conf, NEW c \in NextConf(t),
         NEW new, NEW old, NEW st \in Open
  PROVE  ConflictsFollow(s, InsertConflict(t, c, new, old, st))
  BY DEF ConflictsFollow, InsertConflict, NextConf, Tables, Open, Absent

LEMMA CloseConflictFollows ==
  ASSUME NEW s \in Tables, NEW t \in Tables, t.conf = s.conf, NEW c \in ConfIds
  PROVE  ConflictsFollow(s, CloseConflict(t, c))
  BY DEF ConflictsFollow, CloseConflict, InsertConflict, Tables, Absent

\* A decay or reinforcement about to be written finds no memory it revives dead.
TodoLive ==
  \A p \in Procs : At(p, "writeBack") =>
    \A i \in Ids : call[p].todo[i] \in Live => db.eps[i].st \notin Dead

LEMMA ApplyTodoFollows ==
  ASSUME NEW s \in Tables, NEW todo \in [Ids -> Live \cup Dead \cup {Absent}],
         \A i \in Ids : todo[i] \in Live => s.eps[i].st \notin Dead
  PROVE  RowsFollow(s, ApplyTodo(s, todo))
  <1>1. \A i \in Ids : \/ ApplyTodo(s, todo).eps[i] = s.eps[i]
                       \/ /\ ApplyTodo(s, todo).eps[i].st = todo[i]
                          /\ todo[i] \in Live \cup Dead
    BY DEF ApplyTodo
  <1> QED
    BY <1>1 DEF RowsFollow, Live, Dead, Absent

FollowSegment(p, s) == s \in Tables /\ Follows(db, s) /\ (Commit(s) \/ Abandon(p, s))

LEMMA EvictFollows ==
  ASSUME Typed, NEW p, NEW s \in Tables, NEW n, s.conf = db.conf, RowsFollow(db, s),
         Staged(db), EvictAndReturn(p, s, n)
  PROVE  \E t : FollowSegment(p, t)
  <1>1. PICK V \in Victims(s) :
          IF V \cap Referenced(s) = {}
          THEN Commit(DeleteRows(s, V)) /\ Return(p, "ok", n)
          ELSE Abandon(p, s) /\ Return(p, "error", None)
    BY DEF EvictAndReturn
  <1>2. ConflictsFollow(db, s) /\ db \in Tables
    BY DEF ConflictsFollow, Typed, TypeOK, Absent
  <1>3. CASE V \cap Referenced(s) # {}
    BY <1>1, <1>2, <1>3 DEF FollowSegment, Follows
  <1>4. CASE V \cap Referenced(s) = {}
    <2> DEFINE t == DeleteRows(s, V)
    <2>1. t \in Tables /\ RowsFollow(db, t)
      BY <1>2, <1>4, DeleteRowsType, DeleteRowsFollows
    <2>2. ConflictsFollow(db, t)
      BY <1>2 DEF ConflictsFollow, DeleteRows
    <2>3. Commit(t)
      BY <1>1, <1>4
    <2> HIDE DEF t
    <2> QED BY <2>1, <2>2, <2>3 DEF FollowSegment, Follows
  <1> QED BY <1>3, <1>4

LEMMA StepFollows ==
  ASSUME KeptInv, TodoLive, NEW p \in Procs, Step(p)
  PROVE  UNCHANGED <<db, wdb, writer>> \/ \E s : FollowSegment(p, s)
  <1> USE DEF KeptInv, ConflictInv
  <1>0. /\ db \in Tables /\ call[p] \in CallRec /\ Staged(db)
        /\ RowsFollow(db, db) /\ ConflictsFollow(db, db)
    BY DEF Typed, TypeOK, Fine, RowsFollow, ConflictsFollow, Live, Dead, Absent
  <1>1. CASE RememberInsert(p)
    <2>1. PICK n \in NextId(db) : RememberInsert(p)!2!(n)
      BY <1>1 DEF RememberInsert
    <2> DEFINE s == InsertRow(db, n, "active")
    <2>2. n \in Ids \ Present(db)
      BY MemoryAssumption DEF NextId, Ids
    <2>3. s \in Tables /\ s.conf = db.conf /\ RowsFollow(db, s)
      BY <1>0, <2>2, InsertRowType, InsertRowFollows DEF Status, Live, InsertRow
    <2>4. call[p].by \in {None} \cup Ids
      BY <1>0 DEF CallRec
    <2> HIDE DEF s
    <2>5. CASE EvictAndReturn(p, MarkRow(s, call[p].by, "superseded", n), n)
      <3> DEFINE t == MarkRow(s, call[p].by, "superseded", n)
      <3>1. t \in Tables
        BY <2>2, <2>3, MarkRowType DEF Status, Dead
      <3>2. RowsFollow(db, t) /\ t.conf = db.conf
        BY <2>3, MarkRowFollows DEF MarkRow, Dead
      <3>3. EvictAndReturn(p, t, n)
        BY <2>5
      <3> HIDE DEF t
      <3> QED BY <1>0, <3>1, <3>2, <3>3, EvictFollows
    <2>6. CASE EvictAndReturn(p, s, n)
      BY <1>0, <2>3, <2>6, EvictFollows
    <2>7. CASE \E old \in Ids, c \in NextConf(s) :
                 Commit(InsertConflict(s, c, n, old, "pending"))
      <3>1. PICK old \in Ids, c \in NextConf(s) :
              Commit(InsertConflict(s, c, n, old, "pending"))
        BY <2>7
      <3> DEFINE t == InsertConflict(s, c, n, old, "pending")
      <3>2. "pending" \in Open /\ c \in ConfIds
        BY DEF Open, NextConf
      <3>3. t \in Tables /\ ConflictsFollow(db, t)
        BY <1>0, <2>2, <2>3, <3>2, InsertConflictType, InsertConflictFollows
      <3>4. RowsFollow(db, t)
        BY <2>3 DEF RowsFollow, InsertConflict
      <3> HIDE DEF t
      <3> QED BY <3>1, <3>3, <3>4 DEF FollowSegment, Follows, t
    <2> QED
      BY <2>1, <2>5, <2>6, <2>7 DEF s
  <1>2. CASE RememberEvict(p)
    BY <1>0, <1>2, EvictFollows DEF RememberEvict
  <1>3. CASE ForgetDelete(p)
    <2>1. CASE call[p].id \in Present(db) \cap Referenced(db)
      BY <1>0, <1>3, <2>1 DEF ForgetDelete, FollowSegment, Follows
    <2>2. CASE call[p].id \notin Present(db) \cap Referenced(db)
      <3> DEFINE t == DeleteRows(db, {call[p].id})
      <3>1. {call[p].id} \cap Referenced(db) = {}
        BY <2>2 DEF Sound, RefsStored, Referenced, Known
      <3>2. t \in Tables /\ RowsFollow(db, t) /\ ConflictsFollow(db, t)
        BY <1>0, <3>1, DeleteRowsType, DeleteRowsFollows DEF DeleteRows, ConflictsFollow
      <3>3. Commit(t)
        BY <1>3, <2>2 DEF ForgetDelete
      <3> HIDE DEF t
      <3> QED BY <3>2, <3>3 DEF FollowSegment, Follows
    <2> QED
      BY <2>1, <2>2
  <1>4. CASE InvalidateMark(p)
    <2>1. PICK st \in Dead : Commit(MarkRow(db, call[p].id, st, call[p].by))
      BY <1>4 DEF InvalidateMark, Dead
    <2>2. call[p].by \in {None} \cup Ids /\ st \in Status
      BY <1>0 DEF CallRec, Status
    <2> QED
      BY <1>0, <2>1, <2>2, MarkRowType, MarkRowFollows
         DEF FollowSegment, Follows, ConflictsFollow, MarkRow
  <1>5. CASE ResolveDismiss(p)
    <2> DEFINE c == call[p].cid
               s == SettleRow(db, db.conf[c].new, "invalidated")
    <2>1. c \in ConfIds
      BY <1>5 DEF ResolveDismiss, Typed, Arguments, ArgumentsOf, At
    <2>2. s \in Tables /\ RowsFollow(db, s) /\ s.conf = db.conf
      BY <1>0, SettleRowType, SettleRowFollows DEF Status, Dead, SettleRow, MarkRow
    <2> HIDE DEF s
    <2>3. CloseConflict(s, c) \in Tables /\ ConflictsFollow(db, CloseConflict(s, c))
      BY <1>0, <2>1, <2>2, CloseConflictType, CloseConflictFollows
    <2>4. RowsFollow(db, CloseConflict(s, c))
      BY <2>2 DEF RowsFollow, CloseConflict, InsertConflict
    <2>5. Commit(CloseConflict(s, c))
      BY <1>5 DEF ResolveDismiss, s
    <2> QED
      BY <2>3, <2>4, <2>5 DEF FollowSegment, Follows
  <1>6. CASE ResolveLoser(p)
    <2>1. Winner(p) \in {None} \cup Ids
      BY <1>0, <1>6 DEF ResolveLoser, Typed, Arguments, ArgumentsOf, At, Winner, CallRec,
                        Tables, Conflict
    <2>2. MarkRow(db, Loser(p), "superseded", Winner(p)) \in Tables
      BY <1>0, <2>1, MarkRowType DEF Status, Dead
    <2>3. Follows(db, MarkRow(db, Loser(p), "superseded", Winner(p)))
      BY <1>0, MarkRowFollows DEF Follows, ConflictsFollow, MarkRow, Dead
    <2> QED
      BY <1>6, <2>2, <2>3 DEF ResolveLoser, FollowSegment
  <1>7. CASE ResolveWinner(p)
    <2> DEFINE c == call[p].cid
               s == SettleRow(db, Winner(p), "active")
    <2>1. c \in ConfIds
      BY <1>7 DEF ResolveWinner, Typed, Arguments, ArgumentsOf, At
    <2>2. s \in Tables /\ RowsFollow(db, s) /\ s.conf = db.conf
      BY <1>0, SettleRowType, SettleRowFollows DEF Status, Live, SettleRow, MarkRow
    <2> HIDE DEF s
    <2>3. CloseConflict(s, c) \in Tables /\ ConflictsFollow(db, CloseConflict(s, c))
      BY <1>0, <2>1, <2>2, CloseConflictType, CloseConflictFollows
    <2>4. RowsFollow(db, CloseConflict(s, c))
      BY <2>2 DEF RowsFollow, CloseConflict, InsertConflict
    <2>5. Commit(CloseConflict(s, c))
      BY <1>7 DEF ResolveWinner, s
    <2> QED
      BY <2>3, <2>4, <2>5 DEF FollowSegment, Follows
  <1>8. CASE ChallengeInsert(p)
    <2>1. PICK n \in NextId(db), c \in NextConf(db) : ChallengeInsert(p)!2!(n, c)
      BY <1>8 DEF ChallengeInsert
    <2> DEFINE s == InsertRow(db, n, "pending_challenge")
               t == InsertConflict(s, c, n, call[p].id, "challenge_pending")
    <2>2. n \in Ids \ Present(db)
      BY MemoryAssumption DEF NextId, Ids
    <2>3. s \in Tables /\ s.conf = db.conf /\ RowsFollow(db, s)
      BY <1>0, <2>2, InsertRowType, InsertRowFollows DEF Status, InsertRow
    <2>4. "challenge_pending" \in Open /\ c \in ConfIds /\ c \in NextConf(s)
      BY <2>3 DEF Open, NextConf
    <2>5. call[p].id \in {None} \cup Ids
      BY <1>0 DEF CallRec
    <2>8. Commit(t) \/ Abandon(p, s)
      BY <2>1
    <2> HIDE DEF s
    <2>6. /\ t \in Tables
          /\ ConflictsFollow(db, t)
          /\ ConflictsFollow(db, s)
      <3>1. ConflictsFollow(db, s)
        BY <2>3 DEF ConflictsFollow, Absent, Open
      <3>2. n \in {None} \cup Ids /\ "challenge_pending" \in Open \cup {"resolved"}
        BY <2>2, <2>4
      <3>3. t \in Tables
        BY <2>3, <2>4, <2>5, <3>2, InsertConflictType
      <3>4. db \in Tables
        BY <1>0
      <3>5. ConflictsFollow(db, t)
        BY <2>3, <2>4, <3>4, InsertConflictFollows
      <3> QED
        BY <3>1, <3>3, <3>5
    <2>7. RowsFollow(db, t)
      BY <2>3 DEF RowsFollow, InsertConflict
    <2> HIDE DEF t
    <2> QED
      BY <2>3, <2>6, <2>7, <2>8 DEF FollowSegment, Follows
  <1>9. CASE WriteBack(p)
    <2>1. call[p].todo \in [Ids -> Live \cup Dead \cup {Absent}]
      BY <1>0 DEF CallRec
    <2>2. \A i \in Ids : call[p].todo[i] \in Live => db.eps[i].st \notin Dead
      BY <1>9 DEF WriteBack, TodoLive
    <2>3. /\ ApplyTodo(db, call[p].todo) \in Tables
          /\ RowsFollow(db, ApplyTodo(db, call[p].todo))
      BY <1>0, <2>1, <2>2, ApplyTodoType, ApplyTodoFollows
    <2>4. ConflictsFollow(db, ApplyTodo(db, call[p].todo))
      BY <1>0 DEF ConflictsFollow, ApplyTodo
    <2> QED
      BY <1>9, <2>3, <2>4 DEF WriteBack, FollowSegment, Follows
  <1>10. CASE RejectSecret(p) \/ ResolveUnknown(p) \/ ChallengeRead(p)
              \/ ReinforceRead(p) \/ DecayRead(p) \/ LockError(p) \/ OutOfIds(p)
    BY <1>10 DEF RejectSecret, ResolveUnknown, ChallengeRead, ReinforceRead, DecayRead,
                 LockError, OutOfIds
  <1> QED
    BY <1>1, <1>2, <1>3, <1>4, <1>5, <1>6, <1>7, <1>8, <1>9, <1>10 DEF Step

LifeInv == KeptInv /\ TodoLive /\ Follows(db, wdb)

\* Every step moves the committed tables, and those of an open transaction, along the
\* lifecycle.
LEMMA NextFollows ==
  ASSUME LifeInv, [Next]_vars PROVE Follows(db, db') /\ Follows(db', wdb')
  <1> USE DEF LifeInv
  <1>0. \A s \in Tables : Follows(s, s)
    BY DEF Follows, RowsFollow, ConflictsFollow, Live, Dead, Absent
  <1>1. db \in Tables /\ wdb \in Tables
    BY DEF KeptInv, ConflictInv, Typed, TypeOK
  <1>2. CASE UNCHANGED <<db, wdb>>
    BY <1>0, <1>1, <1>2
  <1>3. ASSUME NEW p \in Procs, Begin(p) \/ Crash(p)
        PROVE  Follows(db, db') /\ Follows(db', wdb')
    BY <1>0, <1>1, <1>3 DEF Begin, Crash
  <1>4. ASSUME NEW p \in Procs, NEW s, FollowSegment(p, s)
        PROVE  Follows(db, db') /\ Follows(db', wdb')
    BY <1>0, <1>1, <1>4 DEF FollowSegment, Commit, Abandon
  <1> QED
    BY <1>2, <1>3, <1>4, StepFollows DEF Next, vars

\* The other thing processes would have to respect: no memory dies between the read of
\* its weight and the UPDATE of its status.  The run revived finds the commit that does.
ReadsKept ==
  \A p \in Procs : \A i \in Ids :
    At(p, "writeBack") /\ call[p].todo[i] \in Live /\ db.eps[i].st \notin Dead
      => db'.eps[i].st \notin Dead

\* The step that computes a list of updates has just seen which memories are dead.
LEMMA TodoRead ==
  ASSUME LifeInv, NEW p \in Procs, Begin(p) \/ Step(p) \/ Crash(p),
         call'[p].pc = "writeBack"
  PROVE  \A i \in Ids : call'[p].todo[i] \in Live => db'.eps[i].st \notin Dead
  <1> USE DEF LifeInv, KeptInv
  <1>0. call \in [Procs -> CallRec] /\ Arguments
    BY DEF ConflictInv, Typed, TypeOK
  <1>1. ASSUME Begin(p) PROVE call'[p].pc # "writeBack"
    <2>1. PICK op \in Ops : \E c \in CallsOf(op) : call' = [call EXCEPT ![p] = c]
      BY <1>1 DEF Begin
    <2>2. op \in AllOps
      BY MemoryAssumption
    <2>3. \A c \in CallsOf(op) : c.pc # "writeBack"
      <3> USE DEF CallsOf, NewCall
      <3>1. CASE op = "remember"         BY <3>1
      <3>2. CASE op = "forget"           BY <3>2
      <3>3. CASE op = "invalidate"       BY <3>3
      <3>4. CASE op = "resolve_conflict" BY <3>4
      <3>5. CASE op = "challenge_rule"   BY <3>5
      <3>6. CASE op = "reinforce"        BY <3>6
      <3>7. CASE op = "sleep_now"        BY <3>7
      <3> HIDE DEF CallsOf, NewCall
      <3> QED
        BY <2>2, <3>1, <3>2, <3>3, <3>4, <3>5, <3>6, <3>7 DEF AllOps
    <2> QED
      BY <1>0, <2>1, <2>3
  <1>2. ASSUME Crash(p) PROVE call'[p].pc # "writeBack"
    BY <1>0, <1>2 DEF Crash, Idle, NewCall
  <1>3. CASE Step(p)
    <2>1. ASSUME NEW res, NEW id, Return(p, res, id) PROVE FALSE
      <3>1. call'[p] = Idle
        BY <1>0, <2>1 DEF Return
      <3> QED
        BY <1>3, <3>1 DEF Idle, NewCall
    <2>2. CASE ReinforceRead(p)
      <3> DEFINE i == call[p].id
      <3>1. i \in Ids /\ db' = db
        BY <2>2 DEF ReinforceRead, At, Arguments, ArgumentsOf, ConflictInv, Typed
      <3>2. PICK st \in Classify(db.eps[i].st) :
              call' = [call EXCEPT ![p].pc = "writeBack",
                                   ![p].todo = [NoTodo EXCEPT ![i] = st]]
        BY <2>1, <2>2 DEF ReinforceRead
      <3> DEFINE list == [NoTodo EXCEPT ![i] = st]
      <3>3. /\ \A j \in Ids \ {i} : list[j] = Absent
            /\ list[i] = st
        BY <3>1 DEF NoTodo
      <3>4. st \in Live => db.eps[i].st \notin Dead
        BY DEF Classify, Live, Dead
      <3> HIDE DEF i, list
      <3>5. call'[p].todo = list
        BY <1>0, <3>2 DEF CallRec, list, i
      <3> QED
        BY <3>1, <3>3, <3>4, <3>5 DEF Live, Absent
    <2>3. CASE DecayRead(p)
      <3>1. PICK todo \in [Decayable(db) -> Bands] : DecayRead(p)!2!(todo)
        BY <2>3 DEF DecayRead
      <3> DEFINE changed == {i \in Decayable(db) : todo[i] # db.eps[i].st}
                 list == [i \in Ids |-> IF i \in changed THEN todo[i] ELSE Absent]
      <3>2. \A i \in Ids : list[i] \in Live => db.eps[i].st \notin Dead
        BY DEF Decayable, Live, Dead, Absent
      <3>3. call' = [call EXCEPT ![p].pc = "writeBack", ![p].todo = list]
        BY <2>1, <3>1
      <3> HIDE DEF changed, list
      <3>4. call'[p].todo = list
        BY <1>0, <3>3 DEF CallRec
      <3>5. db' = db
        BY <2>3 DEF DecayRead
      <3> QED
        BY <3>2, <3>4, <3>5
    <2>4. CASE ~ReinforceRead(p) /\ ~DecayRead(p)
      <3>1. CASE LockError(p)
        <4>1. PICK tries : call' = [call EXCEPT ![p].pc = call[p].first,
                                      ![p].todo = NoTodo, ![p].tries = tries]
          BY <2>1, <3>1 DEF LockError
        <4>2. call'[p].todo = NoTodo
          BY <1>0, <4>1 DEF CallRec
        <4> QED
          BY <4>2 DEF NoTodo, Live, Absent
      <3>2. CASE RememberInsert(p)
        <4>1. \E n : call' = [call EXCEPT ![p].pc = "evict", ![p].id = n]
          BY <2>1, <3>2 DEF RememberInsert, EvictAndReturn
        <4> QED
          BY <1>0, <1>3, <4>1 DEF CallRec
      <3>3. CASE ResolveLoser(p) \/ ChallengeRead(p)
        <4>1. Goto(p, "resolveWin") \/ Goto(p, "challengeInsert")
          BY <2>1, <3>3 DEF ResolveLoser, ChallengeRead
        <4> QED
          BY <1>0, <1>3, <4>1 DEF Goto, CallRec
      <3>4. CASE RejectSecret(p) \/ RememberEvict(p) \/ ForgetDelete(p)
                 \/ InvalidateMark(p) \/ ResolveUnknown(p) \/ ResolveDismiss(p)
                 \/ ResolveWinner(p) \/ ChallengeInsert(p) \/ WriteBack(p)
                 \/ OutOfIds(p)
        BY <2>1, <3>4 DEF RejectSecret, RememberEvict, EvictAndReturn, ForgetDelete,
           InvalidateMark, ResolveUnknown, ResolveDismiss, ResolveWinner, ChallengeInsert,
           WriteBack, OutOfIds
      <3> QED
        BY <1>3, <2>4, <3>1, <3>2, <3>3, <3>4 DEF Step
    <2> QED
      BY <2>2, <2>3, <2>4
  <1> QED
    BY <1>1, <1>2, <1>3

LEMMA TodoStays == LifeInv /\ [Next]_vars /\ ReadsKept => TodoLive'
  <1> SUFFICES ASSUME LifeInv, [Next]_vars, ReadsKept,
                      NEW p \in Procs, call'[p].pc = "writeBack",
                      NEW i \in Ids, call'[p].todo[i] \in Live
               PROVE  db'.eps[i].st \notin Dead
    BY DEF TodoLive, At
  <1> USE DEF LifeInv
  <1>1. CASE call'[p] = call[p]
    BY <1>1 DEF TodoLive, ReadsKept, At
  <1>2. CASE call'[p] # call[p]
    <2>1. PICK q \in Procs : Begin(q) \/ Step(q) \/ Crash(q)
      BY <1>2 DEF Next, vars
    <2>2. p = q
      BY <1>2, <2>1, StepsAreLocal DEF KeptInv, ConflictInv
    <2> QED
      BY <2>1, <2>2, TodoRead
  <1> QED
    BY <1>1, <1>2

\* With any number of processes, as long as no target of a challenge is erased and no
\* memory about to be updated dies between a read and the write that rests on it, the
\* committed tables implement the lifecycle the user is promised: whatever is
\* remembered, superseded, challenged, evicted, decayed, left uncommitted or lost in a
\* crash, in any interleaving, no dead memory is current again, no staged one is erased
\* and no conflict is reopened.  The two races the runs orphan and revived find are the
\* only ones that break it.
THEOREM KeptLifecycle ==
  Spec /\ [][TargetsKept]_vars /\ [][ReadsKept]_vars => FollowsLifecycle
  <1>1. Init => Lifecycle!Init
    <2>1. Life(Absent) = "none" /\ Stage(Absent) = "none"
      BY LifeOf, StageOf
    <2>2. Init => /\ \A i \in Ids : db.eps[i].st = Absent
                  /\ \A c \in ConfIds : db.conf[c].st = Absent
      BY DEF Init
    <2> QED
      BY <2>1, <2>2 DEF Lifecycle!Init
  <1>2. Init => LifeInv
    BY InitKeptInv DEF Init, LifeInv, TodoLive, At, Idle, NewCall, Follows, RowsFollow,
                       ConflictsFollow, Live, Dead, Absent
  <1>3. LifeInv /\ [Next]_vars /\ [TargetsKept]_vars /\ [ReadsKept]_vars => LifeInv'
    <2>1. CASE UNCHANGED vars
      BY <2>1, NextConflictInv
         DEF LifeInv, KeptInv, TargetThere, TodoLive, Follows, RowsFollow, ConflictsFollow,
             At, Present, Fine, Named, Staged, Known, vars
    <2>2. KeptInv /\ [Next]_vars /\ TargetsKept => KeptInv'
      BY NextConflictInv, NextFine, TargetStays DEF KeptInv, Fine, Named, Staged, Known
    <2>3. LifeInv /\ [Next]_vars => Follows(db', wdb')
      BY NextFollows
    <2>4. LifeInv /\ [Next]_vars /\ ReadsKept => TodoLive'
      BY TodoStays
    <2> QED
      BY <2>1, <2>2, <2>3, <2>4 DEF LifeInv, Follows, RowsFollow, ConflictsFollow
  <1>4. LifeInv /\ [Next]_vars => [Lifecycle!Next]_<<[i \in Ids |-> Life(db.eps[i].st)],
                                                  [c \in ConfIds |-> Stage(db.conf[c].st)]>>
    <2> SUFFICES ASSUME LifeInv, [Next]_vars PROVE Lifecycle!Next
      OBVIOUS
    <2>1. db \in Tables /\ db' \in Tables
      BY NextTyped DEF LifeInv, KeptInv, ConflictInv, Typed, TypeOK
    <2>2. Follows(db, db')
      BY NextFollows
    <2>3. /\ \A i \in Ids : Life(db'.eps[i].st) \in Lifecycle!MayBecome(Life(db.eps[i].st))
          /\ \A c \in ConfIds :
               Stage(db'.conf[c].st) \in Lifecycle!MayReach(Stage(db.conf[c].st))
      BY <2>1, <2>2, FollowsIsLifecycle
    <2>4. /\ \A i \in Ids : Life(db'.eps[i].st) \in Lifecycle!Lives
          /\ \A c \in ConfIds : Stage(db'.conf[c].st) \in Lifecycle!Stages
      BY <2>1, LifeOf, StageOf DEF Tables, Row, Conflict
    <2> QED
      BY <2>3, <2>4 DEF Lifecycle!Next
  <1> QED
    BY <1>1, <1>2, <1>3, <1>4, PTL DEF Spec, FollowsLifecycle, Lifecycle!Spec

\* A process that has the file to itself overtakes no read of its own.
LEMMA LoneKeepsReads ==
  ASSUME NEW lone, Procs = {lone} PROVE Spec => [][ReadsKept]_vars
  <1>1. Typed /\ [Next]_vars => [ReadsKept]_vars
    <2> SUFFICES ASSUME Typed, Begin(lone) \/ Step(lone) \/ Crash(lone),
                        At(lone, "writeBack"), NEW i \in Ids,
                        call[lone].todo[i] \in Live, db.eps[i].st \notin Dead
                 PROVE  db'.eps[i].st \notin Dead
      BY DEF Next, ReadsKept
    <2>1. CASE db' = db
      BY <2>1
    <2>2. CASE db' # db
      <3>1. WriteBack(lone)
        BY <2>2 DEF Begin, Crash, Step, At, RejectSecret, RememberInsert, RememberEvict,
             ForgetDelete, InvalidateMark, ResolveUnknown, ResolveDismiss, ResolveLoser,
             ResolveWinner, ChallengeRead, ChallengeInsert, ReinforceRead, DecayRead,
             LockError, OutOfIds
      <3>2. db' = ApplyTodo(db, call[lone].todo)
        BY <3>1 DEF WriteBack, Commit
      <3> QED
        BY <3>2 DEF ApplyTodo, Live, Dead
    <2> QED
      BY <2>1, <2>2
  <1>2. Init => Typed
    BY InitTyped
  <1>3. Typed /\ [Next]_vars => Typed'
    BY NextTyped, NextArguments DEF Typed
  <1> QED
    BY <1>1, <1>2, <1>3, PTL DEF Spec

\* As long as one process has the file to itself, the tables follow the lifecycle.
THEOREM LoneLifecycle ==
  ASSUME NEW lone, Procs = {lone} PROVE Spec => FollowsLifecycle
  BY LoneKeepsTargets, LoneKeepsReads, KeptLifecycle, PTL

-----------------------------------------------------------------------------
(* Every call is finite work.                                              *)

\* The segments a call has left at most: those of this attempt, and two for each retry
\* handle() still allows.
Ahead(pc) == IF pc = "idle" THEN 0
             ELSE IF pc \in {"evict", "resolveWin", "challengeInsert", "writeBack"} THEN 1
             ELSE 2
Left(p) == IF At(p, "idle") THEN 0
           ELSE 2 * (Retries - call[p].tries) + Ahead(call[p].pc)

\* At most 2 * Retries + 2 of them ...
WorkBounded == \A p \in Procs : Left(p) \in 0..(2 * Retries + 2)

\* ... and whatever happens to a call, it has less left afterwards.
WorkDone ==
  [][\A p \in Procs : At(p, "idle") \/ call'[p] = call[p] \/ Left(p)' < Left(p)]_vars

LEMMA LeftBounded == TypeOK => WorkBounded
  <1> SUFFICES ASSUME TypeOK, NEW p \in Procs PROVE Left(p) \in 0..(2 * Retries + 2)
    BY DEF WorkBounded
  <1>1. call[p].tries \in 0..Retries /\ Retries \in Nat
    BY MemoryAssumption DEF TypeOK, CallRec
  <1>2. Ahead(call[p].pc) \in 0..2
    BY DEF Ahead
  <1> QED
    BY <1>1, <1>2 DEF Left

\* A step of p that returns, goes on within the call, or starts it again after counting.
LEMMA StepWorks ==
  ASSUME Typed, NEW p \in Procs, Step(p)
  PROVE  Left(p)' < Left(p)
  <1>1. /\ call \in [Procs -> CallRec] /\ call[p] \in CallRec
        /\ call[p].tries \in Nat /\ Retries \in Nat /\ call[p].tries <= Retries
    BY MemoryAssumption DEF Typed, TypeOK, CallRec
  <1>2. ~At(p, "idle")
    BY StepIsLocal
  <1>3. Ahead(call[p].pc) \in {1, 2} /\ Left(p) = 2 * (Retries - call[p].tries) + Ahead(call[p].pc)
    BY <1>2 DEF Ahead, Left, At
  <1>4. ASSUME NEW res, NEW id, Return(p, res, id) PROVE Left(p)' < Left(p)
    <2>1. call'[p].pc = "idle"
      BY <1>1, <1>4 DEF Return, Idle, NewCall
    <2>2. Left(p)' = 0
      BY <2>1 DEF Left, At
    <2> QED
      BY <1>1, <1>3, <2>2
  <1>5. ASSUME Ahead(call[p].pc) = 2, Ahead(call'[p].pc) = 1, call'[p].tries = call[p].tries
        PROVE  Left(p)' < Left(p)
    <2>1. Left(p)' = 2 * (Retries - call[p].tries) + 1
      BY <1>5 DEF Left, At, Ahead
    <2> QED
      BY <1>1, <1>3, <1>5, <2>1
  <1>6. ASSUME NEW n, At(p, "insert"), call' = [call EXCEPT ![p].pc = "evict", ![p].id = n]
        PROVE  Left(p)' < Left(p)
    <2>1. call'[p].pc = "evict" /\ call'[p].tries = call[p].tries
      BY <1>1, <1>6 DEF CallRec
    <2> QED
      BY <1>5, <1>6, <2>1 DEF Ahead, At
  <1>7. ASSUME ResolveLoser(p) PROVE Left(p)' < Left(p)
    <2>1. call'[p].pc = "resolveWin" /\ call'[p].tries = call[p].tries
      BY <1>1, <1>7 DEF ResolveLoser, Goto, CallRec
    <2> QED
      BY <1>5, <1>7, <2>1 DEF ResolveLoser, Ahead, At
  <1>8. ASSUME Goto(p, "challengeInsert"), At(p, "challengeRead") PROVE Left(p)' < Left(p)
    <2>1. call'[p].pc = "challengeInsert" /\ call'[p].tries = call[p].tries
      BY <1>1, <1>8 DEF Goto, CallRec
    <2> QED
      BY <1>5, <1>8, <2>1 DEF Ahead, At
  <1>9. ASSUME NEW todo, At(p, "reinforceRead") \/ At(p, "decayRead"),
               call' = [call EXCEPT ![p].pc = "writeBack", ![p].todo = todo]
        PROVE  Left(p)' < Left(p)
    <2>1. call'[p].pc = "writeBack" /\ call'[p].tries = call[p].tries
      BY <1>1, <1>9 DEF CallRec
    <2> QED
      BY <1>5, <1>9, <2>1 DEF Ahead, At
  <1>10. ASSUME call[p].tries < Retries,
                call' = [call EXCEPT ![p].pc = call[p].first, ![p].todo = NoTodo,
                           ![p].tries = call[p].tries + 1]
         PROVE  Left(p)' < Left(p)
    <2>1. call'[p].tries = call[p].tries + 1 /\ Ahead(call'[p].pc) \in 0..2
      BY <1>1, <1>10 DEF CallRec, Ahead
    <2>2. Left(p)' \in {0, 2 * (Retries - (call[p].tries + 1)) + Ahead(call'[p].pc)}
      BY <2>1 DEF Left
    <2> QED
      BY <1>1, <1>3, <1>10, <2>1, <2>2
  <1>11. CASE LockError(p)
    BY <1>4, <1>10, <1>11 DEF LockError
  <1>12. CASE RememberInsert(p) \/ RememberEvict(p)
    BY <1>4, <1>6, <1>12 DEF RememberInsert, RememberEvict, EvictAndReturn
  <1>13. CASE ChallengeRead(p)
    BY <1>4, <1>8, <1>13 DEF ChallengeRead
  <1>14. CASE ReinforceRead(p)
    BY <1>4, <1>9, <1>14 DEF ReinforceRead
  <1>15. CASE DecayRead(p)
    BY <1>4, <1>9, <1>15 DEF DecayRead
  <1>16. CASE RejectSecret(p) \/ ForgetDelete(p) \/ InvalidateMark(p) \/ ResolveUnknown(p)
              \/ ResolveDismiss(p) \/ ResolveWinner(p) \/ ChallengeInsert(p) \/ WriteBack(p)
              \/ OutOfIds(p)
    BY <1>4, <1>16 DEF RejectSecret, ForgetDelete, InvalidateMark, ResolveUnknown,
       ResolveDismiss, ResolveWinner, ChallengeInsert, WriteBack, OutOfIds
  <1> QED
    BY <1>7, <1>11, <1>12, <1>13, <1>14, <1>15, <1>16 DEF Step

\* The safety half of CallReturns, for any number of retries and of processes, and
\* whoever holds the write lock for how long: no call takes more than 2 * Retries + 2
\* segments, for a lost race is counted and a segment never repeated without one.
THEOREM CallsAreFinite == Spec => []WorkBounded /\ WorkDone
  <1>1. ASSUME Typed, [Next]_vars
        PROVE  [\A p \in Procs : At(p, "idle") \/ call'[p] = call[p] \/ Left(p)' < Left(p)]_vars
    <2> SUFFICES ASSUME NEW p \in Procs, ~At(p, "idle"), call'[p] # call[p]
                 PROVE  Left(p)' < Left(p)
      OBVIOUS
    <2>1. PICK q \in Procs : Begin(q) \/ Step(q) \/ Crash(q)
      BY <1>1 DEF Next, vars
    <2>2. p = q
      BY <1>1, <2>1, StepsAreLocal
    <2>3. CASE Crash(p)
      <3>1. call'[p].pc = "idle"
        BY <1>1, <2>3 DEF Crash, Idle, NewCall, Typed, TypeOK
      <3>2. Left(p)' = 0
        BY <3>1 DEF Left, At
      <3>3. call[p].tries \in 0..Retries /\ Retries \in Nat /\ Ahead(call[p].pc) \in {1, 2}
        BY <1>1, MemoryAssumption DEF Typed, TypeOK, CallRec, Ahead, At
      <3> QED
        BY <3>2, <3>3 DEF Left
    <2>4. ~Begin(p)
      BY DEF Begin
    <2> QED
      BY <1>1, <2>1, <2>2, <2>3, <2>4, StepWorks
  <1>2. Typed => WorkBounded
    BY LeftBounded DEF Typed
  <1>3. Init => Typed
    BY InitTyped
  <1>4. Typed /\ [Next]_vars => Typed'
    BY NextTyped, NextArguments DEF Typed
  <1> QED
    BY <1>1, <1>2, <1>3, <1>4, PTL DEF Spec, WorkDone

=============================================================================
