---------------------------- MODULE MemoryStore ----------------------------
(***************************************************************************)
(* The episodic memory of GENESIS: the `episodes` and `conflicts` tables   *)
(* of one SQLite file, shared by the Store of every daemon process         *)
(* (daemon/server.py), by the Hebbian engine (core/hebbian_engine.py) and  *)
(* by the sleep cycle (sleep/sleep_daemon.py).                             *)
(*                                                                         *)
(* A tool call is a sequence of steps.  A step is what one process does    *)
(* between two commits, or a read made outside any transaction.  SQLite    *)
(* has one writer at a time: from its first DML statement to its commit a  *)
(* connection holds the write lock, so such a segment is one step.  A      *)
(* statement that fails inside a segment leaves Python's implicit          *)
(* transaction open: the lock and the uncommitted rows stay with the       *)
(* process after its call has returned an error.                           *)
(*                                                                         *)
(* Texts, projects and kinds are abstracted: whether a new memory collides *)
(* with an active one is a free choice, and so is the rank that orders     *)
(* evictions, because the caller chooses the utility it is made of.        *)
(***************************************************************************)
EXTENDS Naturals, FiniteSets

CONSTANTS
  Procs,     \* the processes that open the file
  NoProc,    \* "nobody holds the write lock"
  Ops,       \* the tools clients call, a subset of AllOps
  Cap,       \* EPISODES_MAX
  Retries,   \* DEFAULT_RETRIES, the lock errors handle() absorbs
  Bands,     \* the states a synaptic weight can put a memory in
  MaxId,     \* bound: rowids the episodes table may use
  MaxConf    \* bound: rows the conflicts table may use

AllOps == {"remember", "forget", "invalidate", "resolve_conflict",
           "challenge_rule", "reinforce", "sleep_now"}

Live == {"active", "dormant", "solidified", "prune_candidate"}

ASSUME MemoryAssumption ==
  /\ NoProc \notin Procs
  /\ Ops \subseteq AllOps
  /\ {"active", "solidified"} \subseteq Bands /\ Bands \subseteq Live
  /\ Cap \in Nat /\ Retries \in Nat /\ MaxId \in Nat /\ MaxConf \in Nat

Ids     == 1..MaxId
ConfIds == 1..MaxConf
None    == 0              \* SQL NULL, and an optional argument left out

Dead   == {"superseded", "invalidated"}
Status == Live \cup Dead \cup {"pending_challenge"}
Absent == "absent"        \* no row has this id

Open == {"pending", "challenge_pending"}

Row      == [st : Status \cup {Absent}, by : {None} \cup Ids]
Conflict == [st : Open \cup {"resolved", Absent},
             new : {None} \cup Ids, old : {None} \cup Ids]
Tables   == [eps : [Ids -> Row], conf : [ConfIds -> Conflict]]

VARIABLES
  db,      \* the committed tables
  wdb,     \* the tables as the holder of the write lock sees them
  writer,  \* the process holding the write lock between two steps
  call,    \* the call each process is executing
  reply    \* what each process last answered, and the id it returned

vars == <<db, wdb, writer, call, reply>>

-----------------------------------------------------------------------------
(* Calls and their local variables.                                        *)

PCs == {"idle", "insert", "evict", "delete", "mark", "resolve", "resolveWin",
        "challengeRead", "challengeInsert", "reinforceRead", "decayRead",
        "writeBack"}

\* `todo` is the list of (status, id) updates computed from rows already read.
CallRec == [pc : PCs, first : PCs, id : {None} \cup Ids, by : {None} \cup Ids,
            cid : {None} \cup ConfIds,
            act : {"none", "superseded", "dismissed"},
            todo : [Ids -> Live \cup Dead \cup {Absent}], tries : 0..Retries]

NoTodo == [i \in Ids |-> Absent]
NewCall(pc, id, by, cid, act) ==
  [pc |-> pc, first |-> pc, id |-> id, by |-> by, cid |-> cid, act |-> act,
   todo |-> NoTodo, tries |-> 0]
Idle == NewCall("idle", None, None, None, "none")

Results == {"none", "ok", "error", "locked"}
Reply   == [res : Results, id : {None} \cup Ids]
NoReply == [res |-> "none", id |-> None]

\* The calls a client may make of a tool: the arguments are any ids it has seen.
CallsOf(op) ==
  CASE op = "remember" ->
         {NewCall("insert", None, by, None, "none") : by \in {None} \cup Ids}
    [] op = "forget" -> {NewCall("delete", i, None, None, "none") : i \in Ids}
    [] op = "invalidate" ->
         {NewCall("mark", i, by, None, "none") : i \in Ids, by \in {None} \cup Ids}
    [] op = "resolve_conflict" ->
         {NewCall("resolve", None, win, c, act) : win \in {None} \cup Ids,
            c \in ConfIds, act \in {"superseded", "dismissed"}}
    [] op = "challenge_rule" ->
         {NewCall("challengeRead", i, None, None, "none") : i \in Ids}
    [] op = "reinforce" -> {NewCall("reinforceRead", i, None, None, "none") : i \in Ids}
    [] op = "sleep_now" -> {NewCall("decayRead", None, None, None, "none")}

At(p, pc) == call[p].pc = pc
Goto(p, pc) == call' = [call EXCEPT ![p].pc = pc]
Return(p, res, id) ==
  /\ call' = [call EXCEPT ![p] = Idle]
  /\ reply' = [reply EXCEPT ![p] = [res |-> res, id |-> id]]

-----------------------------------------------------------------------------
(* Rows, and how statements change them.                                   *)

Present(s) == {i \in Ids : s.eps[i].st # Absent}

\* INTEGER PRIMARY KEY without AUTOINCREMENT: one more than the largest rowid.
\* Mutant: take the smallest free rowid.
NextId_Smallest(s) == {n \in Ids \ Present(s) : \A m \in 1..(n - 1) : m \in Present(s)}
NextId(s) == {n \in Ids : /\ \A i \in Present(s) : i < n
                          /\ n = 1 \/ n - 1 \in Present(s)}
NextConf(s) == {c \in ConfIds : /\ s.conf[c].st = Absent
                                /\ c = 1 \/ s.conf[c - 1].st # Absent}

\* Rows a conflict refers to; its status makes no difference to a foreign key.
Referenced(s) ==
  {i \in Ids : \E c \in ConfIds : /\ s.conf[c].st # Absent
                                  /\ i \in {s.conf[c].new, s.conf[c].old}}

InsertRow(s, n, st) ==
  [eps |-> [s.eps EXCEPT ![n] = [st |-> st, by |-> None]], conf |-> s.conf]
DeleteRows(s, V) ==
  [eps |-> [i \in Ids |-> IF i \in V THEN [st |-> Absent, by |-> None] ELSE s.eps[i]],
   conf |-> s.conf]
\* UPDATE episodes SET status, superseded_by WHERE id = i
MarkRow(s, i, st, by) ==
  IF i \notin Present(s) THEN s
  ELSE [eps |-> [s.eps EXCEPT ![i] = [st |-> st, by |-> by]], conf |-> s.conf]
\* UPDATE episodes SET status WHERE id = i AND status = 'pending_challenge'
SettleRow(s, i, st) ==
  IF i \in Present(s) /\ s.eps[i].st = "pending_challenge"
  THEN MarkRow(s, i, st, s.eps[i].by) ELSE s
InsertConflict(s, c, new, old, st) ==
  [eps |-> s.eps,
   conf |-> [s.conf EXCEPT ![c] = [st |-> st, new |-> new, old |-> old]]]
\* UPDATE conflicts SET status = 'resolved' WHERE id = c
CloseConflict(s, c) ==
  IF s.conf[c].st = Absent THEN s
  ELSE InsertConflict(s, c, s.conf[c].new, s.conf[c].old, "resolved")

\* The rows beyond EPISODES_MAX in some order of utility + accesses.
\* Mutant: LIMIT -1 OFFSET EPISODES_MAX + 1.
Excess_OffsetPlusOne(s) == IF Cardinality(Present(s)) > Cap + 1
                           THEN Cardinality(Present(s)) - (Cap + 1) ELSE 0
Excess(s) == IF Cardinality(Present(s)) > Cap
             THEN Cardinality(Present(s)) - Cap ELSE 0
Victims(s) == {V \in SUBSET Present(s) : Cardinality(V) = Excess(s)}

-----------------------------------------------------------------------------
(* Segments: a commit, or a transaction abandoned by a failed statement.   *)

LockFree == writer = NoProc
Commit(s) == db' = s /\ wdb' = s /\ UNCHANGED writer
Abandon(p, s) == wdb' = s /\ writer' = p /\ UNCHANGED db

-----------------------------------------------------------------------------
Init ==
  /\ db = [eps |-> [i \in Ids |-> [st |-> Absent, by |-> None]],
           conf |-> [c \in ConfIds |-> [st |-> Absent, new |-> None,
                                        old |-> None]]]
  /\ wdb = db
  /\ writer = NoProc
  /\ call = [p \in Procs |-> Idle]
  /\ reply = [p \in Procs |-> NoReply]

(* Every tool starts with _inc_counter, which commits the connection: also *)
(* what an earlier call of the process left uncommitted.                   *)
Begin(p) ==
  /\ At(p, "idle")
  /\ \E op \in Ops : \E c \in CallsOf(op) : call' = [call EXCEPT ![p] = c]
  /\ reply' = [reply EXCEPT ![p] = NoReply]
  /\ IF writer = p THEN db' = wdb /\ writer' = NoProc /\ UNCHANGED wdb
                   ELSE UNCHANGED <<db, wdb, writer>>

\* remember and challenge_rule refuse a text with a secret in it.
RejectSecret(p) ==
  /\ At(p, "insert") \/ At(p, "challengeInsert")
  /\ call[p].tries = 0
  /\ Return(p, "error", None)
  /\ UNCHANGED <<db, wdb, writer>>

(* The last statements of remember: evict beyond EPISODES_MAX and commit.  *)
(* The DELETE fails as a whole when a foreign key refers to a victim.      *)
\* Mutant: remember returns without its last commit.
EvictAndReturn_NoCommit(p, s, n) ==
  \E V \in Victims(s) :
    IF V \cap Referenced(s) = {}
    THEN Abandon(p, DeleteRows(s, V)) /\ Return(p, "ok", n)
    ELSE Abandon(p, s) /\ Return(p, "error", None)
EvictAndReturn(p, s, n) ==
  \E V \in Victims(s) :
    IF V \cap Referenced(s) = {}
    THEN Commit(DeleteRows(s, V)) /\ Return(p, "ok", n)
    ELSE Abandon(p, s) /\ Return(p, "error", None)

RememberInsert(p) ==
  /\ At(p, "insert") /\ LockFree
  /\ \E n \in NextId(db) :
       LET s == InsertRow(db, n, "active") IN
       \/ /\ call[p].by # None
          /\ EvictAndReturn(p, MarkRow(s, call[p].by, "superseded", n), n)
       \/ /\ call[p].by = None
          /\ EvictAndReturn(p, s, n)
       \/ \* an active memory collides: stage it and commit with the counter
          /\ call[p].by = None
          /\ \E old \in Ids, c \in NextConf(s) :
               /\ old # n /\ s.eps[old].st = "active"
               /\ Commit(InsertConflict(s, c, n, old, "pending"))
          /\ call' = [call EXCEPT ![p].pc = "evict", ![p].id = n]
          /\ UNCHANGED reply

RememberEvict(p) ==
  /\ At(p, "evict") /\ LockFree
  /\ EvictAndReturn(p, db, call[p].id)

\* Mutant: the connection was opened without PRAGMA foreign_keys = ON.
ForgetDelete_NoForeignKeys(p) ==
  /\ At(p, "delete") /\ LockFree
  /\ Commit(DeleteRows(db, {call[p].id})) /\ Return(p, "ok", None)

ForgetDelete(p) ==
  /\ At(p, "delete") /\ LockFree
  /\ LET i == call[p].id IN
     IF i \in Present(db) \cap Referenced(db)
     THEN Abandon(p, db) /\ Return(p, "error", None)
     ELSE Commit(DeleteRows(db, {i})) /\ Return(p, "ok", None)

InvalidateMark(p) ==
  /\ At(p, "mark") /\ LockFree
  /\ LET by == call[p].by IN
     Commit(MarkRow(db, call[p].id,
                    IF by # None THEN "superseded" ELSE "invalidated", by))
  /\ Return(p, "ok", None)

-----------------------------------------------------------------------------
(* resolve_conflict.                                                       *)

\* winner_id if the caller gave one, the newer memory otherwise; not checked.
Winner(p) == IF call[p].by # None THEN call[p].by ELSE db.conf[call[p].cid].new
Loser(p)  == LET k == db.conf[call[p].cid] IN
             IF Winner(p) = k.new THEN k.old ELSE k.new

ResolveUnknown(p) ==
  /\ At(p, "resolve") /\ db.conf[call[p].cid].st = Absent
  /\ Return(p, "error", None)
  /\ UNCHANGED <<db, wdb, writer>>

ResolveDismiss(p) ==
  /\ At(p, "resolve") /\ LockFree /\ call[p].act = "dismissed"
  /\ db.conf[call[p].cid].st # Absent
  /\ LET c == call[p].cid IN
     Commit(CloseConflict(SettleRow(db, db.conf[c].new, "invalidated"), c))
  /\ Return(p, "ok", None)

\* 'superseded': invalidate() commits the loser's end first ...
\* Mutant: the conflict is closed with the first commit.
ResolveLoser_ClosesFirst(p) ==
  /\ At(p, "resolve") /\ LockFree /\ call[p].act = "superseded"
  /\ db.conf[call[p].cid].st # Absent
  /\ Commit(CloseConflict(MarkRow(db, Loser(p), "superseded", Winner(p)),
                          call[p].cid))
  /\ Goto(p, "resolveWin")
  /\ UNCHANGED reply
ResolveLoser(p) ==
  /\ At(p, "resolve") /\ LockFree /\ call[p].act = "superseded"
  /\ db.conf[call[p].cid].st # Absent
  /\ Commit(MarkRow(db, Loser(p), "superseded", Winner(p)))
  /\ Goto(p, "resolveWin")
  /\ UNCHANGED reply

\* ... and a second transaction promotes the winner and closes the conflict.
ResolveWinner(p) ==
  /\ At(p, "resolveWin") /\ LockFree
  /\ Commit(CloseConflict(SettleRow(db, Winner(p), "active"), call[p].cid))
  /\ Return(p, "ok", None)

-----------------------------------------------------------------------------
(* challenge_rule: the target is read first, outside any transaction.      *)

ChallengeRead(p) ==
  /\ At(p, "challengeRead")
  /\ LET st == db.eps[call[p].id].st IN
     \/ st = Absent /\ Return(p, "error", None)
     \/ st \notin {Absent, "solidified"} /\ Return(p, "ok", None)
     \/ st = "solidified" /\ Goto(p, "challengeInsert") /\ UNCHANGED reply
  /\ UNCHANGED <<db, wdb, writer>>

\* Mutant: the challenger is committed before its conflict is inserted.
ChallengeInsert_SplitCommit(p) ==
  /\ At(p, "challengeInsert") /\ LockFree
  /\ \E n \in NextId(db), c \in NextConf(db) :
       /\ Commit(InsertRow(db, n, "pending_challenge"))
       /\ Return(p, "ok", n)

ChallengeInsert(p) ==
  /\ At(p, "challengeInsert") /\ LockFree
  /\ \E n \in NextId(db), c \in NextConf(db) :
       LET s == InsertRow(db, n, "pending_challenge")
           old == call[p].id IN
       IF old \in Present(s)
       THEN /\ Commit(InsertConflict(s, c, n, old, "challenge_pending"))
            /\ Return(p, "ok", n)
       ELSE Abandon(p, s) /\ Return(p, "error", None)

-----------------------------------------------------------------------------
(* reinforce and the decay of a sleep cycle: read rows, compute their next *)
(* status, then UPDATE by id.  The weight that decides is abstracted to    *)
(* the set of states it can lead to.                                       *)

\* Mutant: only 'superseded' is kept.
Classify_ForgetsInvalidated(st) == IF st = "superseded" THEN {st} ELSE Bands
Classify(st) == IF st \in Dead THEN {st} ELSE Bands

ReinforceRead(p) ==
  /\ At(p, "reinforceRead")
  /\ LET i == call[p].id IN
     \/ db.eps[i].st = Absent /\ Return(p, "error", None)
     \/ /\ db.eps[i].st # Absent
        /\ \E st \in Classify(db.eps[i].st) :
             call' = [call EXCEPT ![p].pc = "writeBack",
                                  ![p].todo = [NoTodo EXCEPT ![i] = st]]
        /\ UNCHANGED reply
  /\ UNCHANGED <<db, wdb, writer>>

Decayable(s) == {i \in Ids : s.eps[i].st \in {"active", "dormant", "solidified"}}

DecayRead(p) ==
  /\ At(p, "decayRead")
  /\ \E todo \in [Decayable(db) -> Bands] :
       LET changed == {i \in Decayable(db) : todo[i] # db.eps[i].st} IN
       IF changed = {} THEN Return(p, "ok", None)
       ELSE /\ call' = [call EXCEPT
                 ![p].pc = "writeBack",
                 ![p].todo = [i \in Ids |-> IF i \in changed THEN todo[i]
                                                             ELSE Absent]]
            /\ UNCHANGED reply
  /\ UNCHANGED <<db, wdb, writer>>

ApplyTodo(s, todo) ==
  [eps |-> [i \in Ids |-> IF todo[i] # Absent /\ i \in Present(s)
                          THEN [st |-> todo[i], by |-> s.eps[i].by] ELSE s.eps[i]],
   conf |-> s.conf]

WriteBack(p) ==
  /\ At(p, "writeBack") /\ LockFree
  /\ Commit(ApplyTodo(db, call[p].todo))
  /\ Return(p, "ok", None)

-----------------------------------------------------------------------------
(* Failures.                                                               *)

Writing == {"insert", "evict", "delete", "mark", "resolve", "resolveWin",
            "challengeInsert", "writeBack"}

(* The busy timeout expires: handle() rolls back and runs the call again   *)
(* from its start, or answers "database is locked" after its last retry.   *)
\* Mutant: handle() never gives up, or never stops counting.
LockError_Forever(p) ==
  /\ call[p].pc \in Writing /\ ~LockFree
  /\ call' = [call EXCEPT ![p].pc = call[p].first, ![p].todo = NoTodo]
  /\ UNCHANGED <<db, wdb, writer, reply>>
LockError_NoLimit(p) ==
  /\ call[p].pc \in Writing /\ ~LockFree
  /\ call' = [call EXCEPT ![p].pc = call[p].first, ![p].tries = call[p].tries + 1]
  /\ UNCHANGED <<db, wdb, writer, reply>>
LockError(p) ==
  /\ call[p].pc \in Writing /\ ~LockFree
  /\ At(p, "resolve") => db.conf[call[p].cid].st # Absent
  /\ IF call[p].tries < Retries
     THEN /\ call' = [call EXCEPT ![p].pc = call[p].first, ![p].todo = NoTodo,
                        ![p].tries = call[p].tries + 1]
          /\ UNCHANGED reply
     ELSE Return(p, "locked", None)
  /\ UNCHANGED <<db, wdb, writer>>

\* Bound: an INSERT beyond MaxId or MaxConf ends the call.
OutOfIds(p) ==
  /\ At(p, "insert") \/ At(p, "challengeInsert")
  /\ LockFree
  /\ NextId(db) = {} \/ (At(p, "challengeInsert") /\ NextConf(db) = {})
  /\ Return(p, "error", None)
  /\ UNCHANGED <<db, wdb, writer>>

\* The process dies; SQLite drops what it had not committed.
Crash(p) ==
  /\ ~At(p, "idle") \/ writer = p
  /\ call' = [call EXCEPT ![p] = Idle]
  /\ reply' = [reply EXCEPT ![p] = NoReply]
  /\ IF writer = p THEN wdb' = db /\ writer' = NoProc ELSE UNCHANGED <<wdb, writer>>
  /\ UNCHANGED db

\* Everything a process does to finish the call it is in.
Step(p) ==
  \/ RejectSecret(p) \/ RememberInsert(p) \/ RememberEvict(p)
  \/ ForgetDelete(p) \/ InvalidateMark(p)
  \/ ResolveUnknown(p) \/ ResolveDismiss(p) \/ ResolveLoser(p) \/ ResolveWinner(p)
  \/ ChallengeRead(p) \/ ChallengeInsert(p)
  \/ ReinforceRead(p) \/ DecayRead(p) \/ WriteBack(p)
  \/ LockError(p) \/ OutOfIds(p)

Next == \E p \in Procs : Begin(p) \/ Step(p) \/ Crash(p)

Spec == Init /\ [][Next]_vars

\* A process that has started a call keeps executing it (one thread, no waits
\* but the bounded ones of busy_timeout and handle()).
FairSpec == Spec /\ \A p \in Procs : WF_vars(Step(p))

-----------------------------------------------------------------------------
(* Properties.                                                             *)

\* Every variable has its type.
TypeOK ==
  /\ db \in Tables /\ wdb \in Tables
  /\ writer \in Procs \cup {NoProc}
  /\ call \in [Procs -> CallRec]
  /\ reply \in [Procs -> Reply]

Known(s) == {c \in ConfIds : s.conf[c].st # Absent}

\* Whatever is forgotten or evicted, in whatever order, both memories of every
\* conflict are still stored, in the file and in any transaction left open.
RefsStored(s) ==
  \A c \in Known(s) : {s.conf[c].new, s.conf[c].old} \subseteq Present(s)
ConflictRefsStored == RefsStored(db) /\ RefsStored(wdb)

\* A conflict's newer memory was inserted after the older one and is in no other
\* conflict's place: a reused rowid never slips into an old conflict.  One process
\* alone guarantees it; a second one that forgets the target of a challenge between
\* its read and its insert lets the challenger take the target's rowid.
ConflictsNameTheirMemories ==
  \A s \in {db, wdb} : \A c \in Known(s) :
    /\ s.conf[c].old < s.conf[c].new
    /\ \A d \in Known(s) \ {c} : s.conf[d].new # s.conf[c].new

\* resolve_conflict commits twice; wherever it is cut short, a conflict marked
\* resolved has left no challenger waiting for a verdict nobody can ask for.
Settled(s) ==
  \A c \in ConfIds : s.conf[c].st = "resolved"
                       => s.eps[s.conf[c].new].st # "pending_challenge"
ResolvedSettlesChallenger == Settled(db) /\ Settled(wdb)

\* The write lock outlives a call only if the call answered with an error.
LockOutlivesOnlyErrors ==
  writer # NoProc => At(writer, "idle") /\ reply[writer].res = "error"

\* Every challenger waiting for the user has a conflict the user can resolve, as
\* challenge_rule's docstring promises.  One process alone guarantees it; a second
\* one that forgets the target in between makes the INSERT of the conflict fail, and
\* the next call of the process commits the challenger without it.
ChallengerHasConflict ==
  \A i \in Ids : db.eps[i].st = "pending_challenge"
    => \E c \in Known(db) : db.conf[c].new = i /\ db.conf[c].st # "resolved"

\* A remember that succeeds leaves at most EPISODES_MAX rows, whatever failed
\* evictions, challenges and other processes left behind before it.
CapAfterRemember ==
  [][\A p \in Procs :
       (At(p, "insert") \/ At(p, "evict")) /\ reply'[p].res = "ok"
         => Cardinality(Present(db')) <= Cap]_vars

\* A superseded or invalidated memory never comes back.
DeadStaysDead ==
  [][\A i \in Ids : db.eps[i].st \in Dead
                      => db'.eps[i].st \in Dead \cup {Absent}]_vars

\* Every call ends: with an answer, or with the process.
CallReturns == \A p \in Procs : ~At(p, "idle") ~> At(p, "idle")

-----------------------------------------------------------------------------
(* The promise to the user, as an abstract machine over the same rows.     *)

Life(st) == CASE st = Absent -> "none"
              [] st = "pending_challenge" -> "staged"
              [] st \in Live -> "current"
              [] st \in Dead -> "dead"
Stage(st) == CASE st = Absent -> "none"
               [] st \in Open -> "open"
               [] st = "resolved" -> "closed"

Lifecycle == INSTANCE MemoryLifecycle WITH
  life  <- [i \in Ids |-> Life(db.eps[i].st)],
  stage <- [c \in ConfIds |-> Stage(db.conf[c].st)]

\* Seen from the file, memories and conflicts follow their lifecycle: no dead
\* memory is current again, no staged one is erased, no conflict is reopened.  With
\* a second process DeadStaysDead fails first.
FollowsLifecycle == Lifecycle!Spec

=============================================================================
