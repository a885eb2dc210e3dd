-------------------------- MODULE SupervisorProofs --------------------------
(***************************************************************************)
(* Theorems about Supervisor, for any sets of starting and of stopping     *)
(* commands, finite or not, and any number of attempts on the lock.        *)
(***************************************************************************)
EXTENDS Supervisor, TLAPS

USE SupervisorAssumption

(***************************************************************************)
(* How the three ways of writing `proc` change it.                         *)
(***************************************************************************)

\* A step of `p` that leaves the local variables of the others alone.
Local(p) == \A q \in Procs \ {p} : proc'[q] = proc[q]

\* A step of `p` that moves it on and leaves its other local variables alone.
Moves(p, pc) ==
  /\ Local(p) /\ proc'[p].pc = pc
  /\ proc'[p].tries = proc[p].tries /\ proc'[p].fd = proc[p].fd
  /\ proc'[p].target = proc[p].target /\ proc'[p].result = proc[p].result

LEMMA GotoEffect ==
  ASSUME TypeOK, NEW p \in Procs, NEW pc \in PCs, Goto(p, pc)
  PROVE  proc' \in [Procs -> Process] /\ Moves(p, pc)
<1> DEFINE h == [proc[p] EXCEPT !.pc = pc]
<1>1. proc[p] \in Process /\ proc \in [Procs -> Process]
  BY DEF TypeOK
<1>2. /\ h \in Process /\ h.pc = pc
      /\ h.tries = proc[p].tries /\ h.fd = proc[p].fd
      /\ h.target = proc[p].target /\ h.result = proc[p].result
  BY <1>1 DEF Process
<1>3. proc' = [proc EXCEPT ![p] = h]
  BY DEF Goto
<1> HIDE DEF h
<1> QED BY <1>1, <1>2, <1>3 DEF Moves, Local

\* A step of `p` that ends its part of the work.
Leaves(p, pc, result) ==
  /\ Local(p) /\ proc'[p].pc = pc /\ proc'[p].result = result
  /\ proc'[p].tries = 0 /\ proc'[p].target = proc[p].target

LEMMA ReturnEffect ==
  ASSUME TypeOK, NEW p \in Procs, NEW result \in {"yes", "no"}, Return(p, result)
  PROVE  proc' \in [Procs -> Process] /\ Leaves(p, "done", result)
<1> DEFINE h == [proc[p] EXCEPT !.pc = "done", !.result = result, !.tries = 0]
<1>1. proc[p] \in Process /\ proc \in [Procs -> Process]
  BY DEF TypeOK
<1>2. 0 \in 0..Tries
  OBVIOUS
<1>3. /\ h \in Process /\ h.pc = "done" /\ h.result = result
      /\ h.tries = 0 /\ h.target = proc[p].target
  BY <1>1, <1>2 DEF Process, PCs, Ended
<1>4. proc' = [proc EXCEPT ![p] = h]
  BY DEF Return
<1> HIDE DEF h
<1> QED BY <1>1, <1>3, <1>4 DEF Leaves, Local

LEMMA ReleaseEffect ==
  ASSUME TypeOK, NEW p \in Procs, NEW result \in {"yes", "no"}, Release(p, result)
  PROVE  proc' \in [Procs -> Process] /\ Leaves(p, "release", result)
<1> DEFINE h == [proc[p] EXCEPT !.pc = "release", !.result = result,
                                !.tries = 0, !.fd = Nobody]
<1>1. proc[p] \in Process /\ proc \in [Procs -> Process]
  BY DEF TypeOK
<1>2. 0 \in 0..Tries
  OBVIOUS
<1>3. /\ h \in Process /\ h.pc = "release" /\ h.result = result
      /\ h.tries = 0 /\ h.target = proc[p].target
  BY <1>1, <1>2 DEF Process, PCs, EnsurePCs
<1>4. proc' = [proc EXCEPT ![p] = h]
  BY DEF Release
<1> HIDE DEF h
<1> QED BY <1>1, <1>3, <1>4 DEF Leaves, Local

LEMMA RetryEffect ==
  ASSUME TypeOK, NEW p \in Procs, proc[p].tries < Tries,
         proc' = [proc EXCEPT ![p].tries = @ + 1, ![p].pc = "clean"]
  PROVE  /\ proc' \in [Procs -> Process] /\ Local(p)
         /\ proc'[p].pc = "clean" /\ proc'[p].tries = proc[p].tries + 1
         /\ proc'[p].target = proc[p].target /\ proc'[p].result = proc[p].result
<1> DEFINE n == proc[p].tries + 1
           h == [proc[p] EXCEPT !.tries = n, !.pc = "clean"]
<1>1. proc[p] \in Process /\ proc \in [Procs -> Process]
  BY DEF TypeOK
<1>2. n \in 0..Tries
  BY <1>1 DEF Process
<1>3. proc' = [proc EXCEPT ![p] = h]
  OBVIOUS
<1> HIDE DEF n
<1>4. /\ h \in Process /\ h.pc = "clean" /\ h.tries = n
      /\ h.target = proc[p].target /\ h.result = proc[p].result
  BY <1>1, <1>2 DEF Process, PCs, CleanPCs
<1> HIDE DEF h
<1> QED BY <1>1, <1>3, <1>4 DEF Local, n

LEMMA TruncateEffect ==
  ASSUME TypeOK, NEW p \in Procs, Truncate(p)
  PROVE  \E by \in Procs :
           /\ proc' \in [Procs -> Process] /\ Local(p)
           /\ proc'[p].pc = "record" /\ proc'[p].fd = by
           /\ proc'[p].tries = proc[p].tries
           /\ proc'[p].target = proc[p].target /\ proc'[p].result = proc[p].result
           /\ pidfile' = [by |-> by, pid |-> Nobody]
<1> DEFINE by == IF pidfile.by = Nobody THEN p ELSE pidfile.by
           h == [proc[p] EXCEPT !.pc = "record", !.fd = by]
<1>1. proc[p] \in Process /\ proc \in [Procs -> Process]
  BY DEF TypeOK
<1>2. by \in Procs
  BY DEF TypeOK, PidFile
<1>3. proc' = [proc EXCEPT ![p] = h] /\ pidfile' = [by |-> by, pid |-> Nobody]
  BY DEF Truncate
<1> HIDE DEF by
<1>4. /\ h \in Process /\ h.pc = "record" /\ h.fd = by /\ h.tries = proc[p].tries
      /\ h.target = proc[p].target /\ h.result = proc[p].result
  BY <1>1, <1>2 DEF Process, PCs, EnsurePCs
<1> HIDE DEF h
<1> QED BY <1>1, <1>2, <1>3, <1>4 DEF Local

\* A stop takes a child as its target.
Takes(p, k, pc) == proc' = [proc EXCEPT ![p].target = k, ![p].pc = pc]

LEMMA TargetEffect ==
  ASSUME TypeOK, NEW p \in Procs, NEW k \in Procs, NEW pc \in PCs, Takes(p, k, pc)
  PROVE  /\ proc' \in [Procs -> Process] /\ Local(p)
         /\ proc'[p].pc = pc /\ proc'[p].target = k
         /\ proc'[p].tries = proc[p].tries /\ proc'[p].result = proc[p].result
<1> DEFINE h == [proc[p] EXCEPT !.target = k, !.pc = pc]
<1>1. proc[p] \in Process /\ proc \in [Procs -> Process]
  BY DEF TypeOK
<1>3. proc' = [proc EXCEPT ![p] = h]
  BY DEF Takes
<1>4. /\ h \in Process /\ h.pc = pc /\ h.target = k
      /\ h.tries = proc[p].tries /\ h.result = proc[p].result
  BY <1>1 DEF Process
<1> HIDE DEF h
<1> QED BY <1>1, <1>3, <1>4 DEF Local

-----------------------------------------------------------------------------
(***************************************************************************)
(* Types.                                                                  *)
(***************************************************************************)

LEMMA ProcTyped ==
  ASSUME TypeOK, NEW p \in Procs, Begin(p) \/ Command(p) \/ Die(p)
  PROVE  proc' \in [Procs -> Process]
<1> USE DEF PCs, EnsurePCs, CleanPCs, StopPCs, Ended
<1>1. CASE Begin(p) \/ Die(p)
  BY <1>1, GotoEffect DEF Begin, Die
<1>2. ASSUME AfterClean(p) PROVE proc' \in [Procs -> Process]
  BY <1>2, GotoEffect, ReturnEffect DEF AfterClean
<1>3. CASE CleanCheck(p) \/ CleanParse(p) \/ DropCorrupt(p) \/ DropStale(p) \/ DropStalePid(p)
  BY <1>2, <1>3, GotoEffect DEF CleanCheck, CleanParse, DropCorrupt, DropStale, DropStalePid
<1>4. CASE Probe(p) \/ Watch(p)
  BY <1>4, GotoEffect, ReturnEffect DEF Probe, Watch
<1>5. CASE Create(p)
  BY <1>5, GotoEffect, RetryEffect DEF Create
<1>6. CASE NoLockFor(p) \/ Fill(p) \/ Record(p) \/ ReleaseCheck(p) \/ ReleaseRead(p)
           \/ ReleaseDrop(p)
  BY <1>6, GotoEffect DEF NoLockFor, Fill, Record, ReleaseCheck, ReleaseRead, ReleaseDrop
<1>7. CASE Recheck(p) \/ Spawn(p) \/ RecordFails(p) \/ Await(p)
  BY <1>7, GotoEffect, ReleaseEffect DEF Recheck, Spawn, RecordFails, Await
<1>8. CASE Truncate(p)
  BY <1>8, TruncateEffect
<1>9. CASE StopRead(p)
  <2>1. CASE Return(p, "no")
    BY <2>1, ReturnEffect
  <2>2. CASE ~Return(p, "no")
    <3>1. pidfile.pid \in Procs
      BY <1>9, <2>2 DEF StopRead, TypeOK, PidFile
    <3>2. PICK pc \in {"term", "unpid"} : Takes(p, pidfile.pid, pc)
      BY <1>9, <2>2 DEF StopRead, Takes
    <3> QED BY <3>1, <3>2, TargetEffect
  <2> QED BY <2>1, <2>2
<1>10. CASE StopCheck(p) \/ KillCheck(p) \/ DropPid(p)
  BY <1>10, GotoEffect DEF StopCheck, KillCheck, DropPid
<1>11. CASE Terminate(p) \/ Kill(p) \/ DropLock(p)
  BY <1>11, GotoEffect, ReturnEffect DEF Terminate, Kill, DropLock
<1> QED BY <1>1, <1>3, <1>4, <1>5, <1>6, <1>7, <1>8, <1>9, <1>10, <1>11 DEF Command

LEMMA OthersStay ==
  ASSUME TypeOK, NEW p \in Procs, Begin(p) \/ Command(p) \/ Die(p),
         NEW q \in Procs, q # p
  PROVE  proc'[q] = proc[q]
<1>1. ASSUME NEW h, proc' = [proc EXCEPT ![p] = h] PROVE proc'[q] = proc[q]
  BY <1>1 DEF TypeOK
<1>2. \E h : proc' = [proc EXCEPT ![p] = h]
  BY DEF Begin, Command, Die, Goto, Return, Release, AfterClean, CleanCheck, CleanParse,
         DropCorrupt, DropStale, DropStalePid, Probe, Create, NoLockFor, Fill, Recheck,
         Spawn, Truncate, Record, RecordFails, Await, ReleaseCheck, ReleaseRead,
         ReleaseDrop, Watch, StopCheck, StopRead, Terminate, KillCheck, Kill, DropPid,
         DropLock
<1> QED BY <1>1, <1>2

LEMMA LockTyped ==
  ASSUME TypeOK, NEW p \in Procs, Begin(p) \/ Command(p) \/ Bind(p) \/ ChildEnds(p) \/ Die(p)
  PROVE  lock' \in LockFile
<1>1. NoLock \in LockFile /\ [by |-> p, text |-> "empty"] \in LockFile
  BY DEF NoLock, LockFile
<1>2. [lock EXCEPT !.text = "full"] \in LockFile
  BY DEF TypeOK, LockFile
<1>3. lock' \in {lock, NoLock, [by |-> p, text |-> "empty"], [lock EXCEPT !.text = "full"]}
  BY DEF Begin, Command, Bind, ChildEnds, Die, files, Unlink, CleanCheck, CleanParse,
         DropCorrupt, DropStale, DropStalePid, Probe, Create, NoLockFor, Fill, Recheck,
         Spawn, Truncate, Record, RecordFails, Await, ReleaseCheck, ReleaseRead,
         ReleaseDrop, Watch, StopCheck, StopRead, Terminate, KillCheck, Kill, DropPid,
         DropLock
<1> QED BY <1>1, <1>2, <1>3 DEF TypeOK

LEMMA KidTyped ==
  ASSUME TypeOK, NEW p \in Procs, Begin(p) \/ Command(p) \/ Bind(p) \/ ChildEnds(p) \/ Die(p)
  PROVE  kid' \in [Procs -> Kids]
<1>1. \E k \in Procs, s \in Kids : kid' = [kid EXCEPT ![k] = s] \/ kid' = kid
  <2>1. CASE Spawn(p) \/ Bind(p) \/ ChildEnds(p)
    BY <2>1 DEF Spawn, Bind, ChildEnds, Kids
  <2>2. CASE Terminate(p) \/ Kill(p)
    <3>1. kid' = kid \/ proc[p].target \in Procs
      BY <2>2 DEF TypeOK, Process, Terminate, Kill, Alive
    <3> QED BY <2>2, <3>1 DEF Terminate, Kill, Kids
  <2>3. CASE ~(Spawn(p) \/ Bind(p) \/ ChildEnds(p) \/ Terminate(p) \/ Kill(p))
    BY <2>3 DEF Begin, Command, Die, CleanCheck, CleanParse,
           DropCorrupt, DropStale, DropStalePid, Probe, Create, NoLockFor, Fill, Recheck,
           Truncate, Record, RecordFails, Await, ReleaseCheck, ReleaseRead,
           ReleaseDrop, Watch, StopCheck, StopRead, KillCheck, DropPid, DropLock, Kids
  <2> QED BY <2>1, <2>2, <2>3
<1> QED BY <1>1 DEF TypeOK

LEMMA PidTyped ==
  ASSUME TypeOK, NEW p \in Procs, Begin(p) \/ Command(p) \/ Bind(p) \/ ChildEnds(p) \/ Die(p)
  PROVE  pidfile' \in PidFile
<1>1. CASE Truncate(p)
  <2>1. PICK by \in Procs : pidfile' = [by |-> by, pid |-> Nobody]
    BY <1>1, TruncateEffect
  <2> QED BY <2>1 DEF PidFile
<1>2. CASE ~Truncate(p)
  <2>1. NoPid \in PidFile /\ [pidfile EXCEPT !.pid = p] \in PidFile
    BY DEF NoPid, PidFile, TypeOK
  <2>2. pidfile' \in {pidfile, NoPid, [pidfile EXCEPT !.pid = p]}
    BY <1>2 DEF Begin, Command, Bind, ChildEnds, Die, files, CleanCheck, CleanParse,
           DropCorrupt, DropStale, DropStalePid, Probe, Create, NoLockFor, Fill, Recheck,
           Spawn, Record, RecordFails, Await, ReleaseCheck, ReleaseRead,
           ReleaseDrop, Watch, StopCheck, StopRead, Terminate, KillCheck, Kill, DropPid,
           DropLock
  <2> QED BY <2>1, <2>2 DEF TypeOK
<1> QED BY <1>1, <1>2

LEMMA GhostsTyped ==
  ASSUME TypeOK, NEW p \in Procs, Begin(p) \/ Command(p) \/ Bind(p) \/ ChildEnds(p) \/ Die(p)
  PROVE  upset' \in {"no", "yes"} /\ company' \in SUBSET Procs
<1>1. upset' \in {upset, "yes"}
  BY DEF Begin, Command, Bind, ChildEnds, Die, Mishap, MishapIf, CleanCheck, CleanParse,
         DropCorrupt, DropStale, DropStalePid, Probe, Create, NoLockFor, Fill, Recheck,
         Spawn, Truncate, Record, RecordFails, Await, ReleaseCheck, ReleaseRead,
         ReleaseDrop, Watch, StopCheck, StopRead, Terminate, KillCheck, Kill, DropPid,
         DropLock
<1>2. company' \in {company, company \cup {q \in Procs : Runs(q)} \cup {p}}
  BY DEF Begin, Command, Bind, ChildEnds, Die, CleanCheck, CleanParse,
         DropCorrupt, DropStale, DropStalePid, Probe, Create, NoLockFor, Fill, Recheck,
         Spawn, Truncate, Record, RecordFails, Await, ReleaseCheck, ReleaseRead,
         ReleaseDrop, Watch, StopCheck, StopRead, Terminate, KillCheck, Kill, DropPid,
         DropLock
<1> QED BY <1>1, <1>2 DEF TypeOK

LEMMA MishapsLast ==
  ASSUME TypeOK, NEW p \in Procs, upset' = "no",
         Begin(p) \/ Command(p) \/ Bind(p) \/ ChildEnds(p) \/ Die(p)
  PROVE  upset = "no"
BY DEF TypeOK, Begin, Command, Bind, ChildEnds, Die, Mishap, MishapIf, CleanCheck, CleanParse,
       DropCorrupt, DropStale, DropStalePid, Probe, Create, NoLockFor, Fill, Recheck,
       Spawn, Truncate, Record, RecordFails, Await, ReleaseCheck, ReleaseRead,
       ReleaseDrop, Watch, StopCheck, StopRead, Terminate, KillCheck, Kill, DropPid,
       DropLock

LEMMA InitTyped == Init => TypeOK
BY DEF Init, TypeOK, NewProcess, Process, PCs, NoLock, LockFile, NoPid, PidFile, Kids

LEMMA NextTyped == TypeOK /\ [Next]_vars => TypeOK'
<1> SUFFICES ASSUME TypeOK, [Next]_vars PROVE TypeOK'
  OBVIOUS
<1>1. CASE UNCHANGED vars
  BY <1>1 DEF TypeOK, vars, files
<1>2. ASSUME NEW p \in Procs,
             Begin(p) \/ Command(p) \/ Bind(p) \/ ChildEnds(p) \/ Die(p)
      PROVE  TypeOK'
  <2>1. proc' \in [Procs -> Process]
    BY <1>2, ProcTyped DEF Bind, ChildEnds, TypeOK
  <2> QED BY <1>2, <2>1, LockTyped, KidTyped, PidTyped, GhostsTyped DEF TypeOK
<1> QED BY <1>1, <1>2 DEF Next, AllEnded

(* Every variable has its type in every reachable state: in particular no  *)
(* start tries the lock more often than its deadline allows.               *)
THEOREM SupervisorTyping == Spec => []TypeOK
BY InitTyped, NextTyped, PTL DEF Spec

-----------------------------------------------------------------------------
(***************************************************************************)
(* A stop that reports success has killed its target.                      *)
(***************************************************************************)

LivingKids == {"starting", "serving", "stopping"}
\* What comes before a child is spawned, or a target found.
Before == {"idle", "probe", "create", "fill", "recheck", "spawn", "pid"} \cup CleanPCs
Stops  == {"term", "kill", "kill9", "unpid", "unlock"}

StopOk(p) ==
  /\ proc[p].pc \in Before =>
       kid[p] = "none" /\ proc[p].result = "none"
  /\ proc[p].pc \notin Stops \cup Ended => proc[p].target = Nobody
  /\ proc[p].pc \in StopPCs => proc[p].result = "none"
  /\ proc[p].pc \in Stops => proc[p].target \in Procs
  /\ proc[p].pc \in {"truncate", "record"} => kid[p] # "none"
  /\ proc[p].target # Nobody => kid[proc[p].target] # "none"
  /\ proc[p].pc \in {"unpid", "unlock"} => kid[proc[p].target] \notin LivingKids
  /\ proc[p].result = "yes" /\ proc[p].target # Nobody =>
       kid[proc[p].target] \notin LivingKids

StopInv ==
  /\ \A p \in Procs : StopOk(p)
  /\ pidfile.pid # Nobody => kid[pidfile.pid] # "none"

\* A child that was spawned stays spawned, a dead one stays dead, and only the
\* process it bears the name of spawns it.
KidSteps(p) ==
  /\ \A k \in Procs : kid[k] # "none" =>
       kid'[k] # "none" /\ (kid[k] \notin LivingKids => kid'[k] \notin LivingKids)
  /\ \A k \in Procs : kid[k] = "none" =>
       kid'[k] = "none" \/ (k = p /\ Spawn(p) /\ proc'[p].pc = "truncate")

LEMMA KidStep ==
  ASSUME TypeOK, StopInv, NEW p \in Procs,
         Begin(p) \/ Command(p) \/ Bind(p) \/ ChildEnds(p) \/ Die(p)
  PROVE  KidSteps(p)
<1> USE DEF LivingKids, TypeOK
<1>1. CASE Spawn(p)
  <2>1. kid[p] = "none"
    BY <1>1 DEF StopInv, StopOk, Before, Spawn, At
  <2>2. CASE kid' = [kid EXCEPT ![p] = "starting"] /\ Goto(p, "truncate")
    <3>1. proc'[p].pc = "truncate"
      BY <2>2, GotoEffect DEF PCs, EnsurePCs, Moves
    <3> QED BY <1>1, <2>1, <2>2, <3>1 DEF KidSteps
  <2>3. CASE kid' = kid
    BY <2>3 DEF KidSteps
  <2> QED BY <1>1, <2>2, <2>3 DEF Spawn
<1>2. CASE Bind(p) \/ ChildEnds(p)
  BY <1>2 DEF Bind, ChildEnds, Alive, KidSteps
<1>3. CASE Terminate(p) \/ Kill(p)
  BY <1>3 DEF Terminate, Kill, Alive, KidSteps
<1>4. CASE kid' = kid
  BY <1>4 DEF KidSteps
<1>5. CASE ~(Spawn(p) \/ Bind(p) \/ ChildEnds(p) \/ Terminate(p) \/ Kill(p))
  BY <1>4, <1>5 DEF Begin, Command, Die, CleanCheck, CleanParse,
         DropCorrupt, DropStale, DropStalePid, Probe, Create, NoLockFor, Fill, Recheck,
         Truncate, Record, RecordFails, Await, ReleaseCheck, ReleaseRead,
         ReleaseDrop, Watch, StopCheck, StopRead, KillCheck, DropPid, DropLock
<1> QED BY <1>1, <1>2, <1>3, <1>5

(* The processes that do not act. *)
LEMMA StopOthers ==
  ASSUME TypeOK, StopInv, NEW p \in Procs, KidSteps(p), NEW q \in Procs,
         proc'[q] = proc[q], q # p \/ ~Spawn(p)
  PROVE  StopOk(q)'
<1>1. StopOk(q) /\ proc[q].target \in Procs \cup {Nobody}
  BY DEF StopInv, TypeOK, Process
<1> QED BY <1>1 DEF StopOk, KidSteps, Stops

(* The one that does, where its local variables change in the usual ways.  *)
LEMMA StopMoves ==
  ASSUME TypeOK, StopInv, NEW p \in Procs, NEW pc \in PCs, KidSteps(p), Moves(p, pc),
         pc \in Before => proc[p].pc \in Before /\ ~Spawn(p),
         pc \notin Stops \cup Ended => proc[p].pc \notin Stops \cup Ended,
         pc \in StopPCs => proc[p].pc \in StopPCs \cup Before,
         pc \in Stops => proc[p].pc \in Stops,
         pc \in {"truncate", "record"} => kid'[p] # "none",
         pc \in {"unpid", "unlock"} => kid'[proc[p].target] \notin LivingKids
  PROVE  StopOk(p)'
<1>1. StopOk(p) /\ proc[p].target \in Procs \cup {Nobody}
  BY DEF StopInv, TypeOK, Process
<1> QED BY <1>1 DEF StopOk, KidSteps, Moves

LEMMA StopLeaves ==
  ASSUME TypeOK, StopInv, NEW p \in Procs, NEW pc \in {"done", "release"},
         NEW result \in {"yes", "no"}, KidSteps(p), Leaves(p, pc, result),
         pc = "release" => proc[p].pc \notin Stops \cup Ended,
         result = "yes" => proc[p].pc \notin Stops \cup Ended \/ proc[p].pc = "unlock"
  PROVE  StopOk(p)'
<1>1. StopOk(p) /\ proc[p].target \in Procs \cup {Nobody}
  BY DEF StopInv, TypeOK, Process
<1> QED BY <1>1 DEF StopOk, KidSteps, Leaves, Before, CleanPCs, StopPCs, Stops, Ended

LEMMA StopSelf ==
  ASSUME TypeOK, StopInv, NEW p \in Procs, KidSteps(p), Begin(p) \/ Command(p) \/ Die(p)
  PROVE  StopOk(p)'
<1> USE DEF At, PCs, EnsurePCs, CleanPCs, StopPCs, Ended, Before, Stops
<1>0. StopOk(p)
  BY DEF StopInv
<1>1. CASE Begin(p)
  <2>1. PICK pc \in {"probe", "pid"} : Goto(p, pc)
    BY <1>1 DEF Begin
  <2>2. Moves(p, pc) /\ proc[p].pc = "idle" /\ ~Spawn(p)
    BY <1>1, <2>1, GotoEffect DEF Begin, Spawn
  <2> QED BY <2>1, <2>2, StopMoves
<1>2. CASE Die(p)
  BY <1>2, GotoEffect, StopMoves DEF Die
<1>3. ASSUME AfterClean(p), proc[p].pc \in CleanPCs PROVE StopOk(p)'
  <2>1. CASE Goto(p, "create")
    BY <1>3, <2>1, GotoEffect, StopMoves DEF Spawn
  <2>2. CASE Return(p, "yes")
    BY <1>3, <2>2, ReturnEffect, StopLeaves
  <2> QED BY <1>3, <2>1, <2>2 DEF AfterClean
<1>4. ASSUME NEW pc \in Before, Goto(p, pc), proc[p].pc \in Before, ~Spawn(p)
      PROVE  StopOk(p)'
  BY <1>4, GotoEffect, StopMoves
<1>5. CASE CleanCheck(p) \/ CleanParse(p) \/ DropCorrupt(p) \/ DropStale(p) \/ DropStalePid(p)
  <2>1. proc[p].pc \in CleanPCs /\ ~Spawn(p)
    BY <1>5 DEF CleanCheck, CleanParse, DropCorrupt, DropStale, DropStalePid, Spawn
  <2>2. AfterClean(p) \/ \E pc \in CleanPCs : Goto(p, pc)
    BY <1>5 DEF CleanCheck, CleanParse, DropCorrupt, DropStale, DropStalePid
  <2> QED BY <2>1, <2>2, <1>3, <1>4
<1>6. CASE Probe(p) \/ Watch(p)
  <2>1. proc[p].pc \in {"probe", "watch"} /\ ~Spawn(p)
    BY <1>6 DEF Probe, Watch, Spawn
  <2>2. CASE Probe(p) /\ Goto(p, "clean")
    BY <2>1, <2>2, <1>4 DEF Probe
  <2>3. ASSUME NEW result \in {"yes", "no"}, Return(p, result) PROVE StopOk(p)'
    BY <2>1, <2>3, ReturnEffect, StopLeaves
  <2> QED BY <1>6, <2>2, <2>3 DEF Probe, Watch
<1>7. CASE Create(p)
  <2>1. CASE Goto(p, "fill")
    BY <1>7, <2>1, <1>4 DEF Create, Spawn
  <2>2. CASE ~Goto(p, "fill")
    <3>1. /\ proc'[p].pc = "clean" /\ proc[p].pc = "create" /\ ~Spawn(p)
          /\ proc'[p].target = proc[p].target /\ proc'[p].result = proc[p].result
      BY <1>7, <2>2, RetryEffect DEF Create, Spawn
    <3> QED BY <1>0, <3>1 DEF StopOk, KidSteps, TypeOK
  <2> QED BY <2>1, <2>2
<1>8. CASE NoLockFor(p) \/ Fill(p)
  BY <1>8, GotoEffect, StopMoves DEF NoLockFor, Fill, Spawn
<1>9. CASE Recheck(p) \/ Spawn(p) \/ RecordFails(p) \/ Await(p)
  <2>1. proc[p].pc \in {"recheck", "spawn", "truncate", "record", "await"}
    BY <1>9 DEF Recheck, Spawn, RecordFails, Await
  <2>2. ASSUME NEW result \in {"yes", "no"}, Release(p, result) PROVE StopOk(p)'
    BY <2>1, <2>2, ReleaseEffect, StopLeaves
  <2>3. CASE Recheck(p) /\ Goto(p, "spawn")
    BY <2>3, <1>4 DEF Recheck, Spawn
  <2>4. CASE kid' = [kid EXCEPT ![p] = "starting"] /\ Goto(p, "truncate")
    <3>1. kid'[p] # "none" /\ Moves(p, "truncate")
      BY <2>4, GotoEffect DEF TypeOK
    <3> QED BY <2>1, <3>1, StopMoves
  <2> QED BY <1>9, <2>2, <2>3, <2>4 DEF Recheck, Spawn, RecordFails, Await
<1>10. CASE Truncate(p)
  <2>1. /\ proc[p].pc = "truncate" /\ proc'[p].pc = "record"
        /\ proc'[p].target = proc[p].target /\ proc'[p].result = proc[p].result
    BY <1>10, TruncateEffect DEF Truncate
  <2> QED BY <1>0, <2>1 DEF StopOk, KidSteps, TypeOK
<1>11. CASE Record(p) \/ ReleaseCheck(p) \/ ReleaseRead(p) \/ ReleaseDrop(p)
  <2>1. PICK pc \in {"await", "relread", "reldrop", "done"} : Goto(p, pc)
    BY <1>11 DEF Record, ReleaseCheck, ReleaseRead, ReleaseDrop
  <2>2. proc[p].pc \in {"record", "release", "relread", "reldrop"}
    BY <1>11 DEF Record, ReleaseCheck, ReleaseRead, ReleaseDrop
  <2> QED BY <2>1, <2>2, GotoEffect, StopMoves
<1>12. CASE StopCheck(p)
  BY <1>12, GotoEffect, StopMoves DEF StopCheck, Spawn
<1>13. CASE StopRead(p)
  <2>1. CASE Return(p, "no")
    BY <2>1, <1>13, ReturnEffect, StopLeaves
  <2>2. CASE ~Return(p, "no")
    <3> DEFINE k == pidfile.pid
    <3>1. k \in Procs /\ k # Nobody /\ kid[k] # "none" /\ kid' = kid
      BY <1>13, <2>2 DEF StopRead, TypeOK, PidFile, StopInv
    <3>2. PICK pc \in {"term", "unpid"} : Takes(p, k, pc) /\ (pc = "unpid" => ~Alive(k))
      BY <1>13, <2>2 DEF StopRead, Takes
    <3>3. /\ proc'[p].pc = pc /\ proc'[p].target = k
          /\ proc'[p].result = proc[p].result /\ proc[p].pc = "readpid"
      BY <1>13, <3>1, <3>2, TargetEffect DEF StopRead
    <3> HIDE DEF k
    <3> QED BY <1>0, <3>1, <3>2, <3>3 DEF StopOk, Alive, LivingKids
  <2> QED BY <2>1, <2>2
<1>14. CASE Terminate(p)
  BY <1>14, GotoEffect, ReturnEffect, StopMoves, StopLeaves DEF Terminate
<1>15. CASE KillCheck(p)
  BY <1>15, GotoEffect, StopMoves DEF KillCheck, Alive, LivingKids
<1>16. CASE Kill(p)
  <2>1. CASE Return(p, "no")
    BY <2>1, <1>16, ReturnEffect, StopLeaves DEF Kill
  <2>2. CASE ~Return(p, "no")
    <3>1. proc[p].target \in Procs /\ proc[p].pc = "kill9"
      BY <1>0, <1>16 DEF Kill, StopOk
    <3>2. Moves(p, "unpid") /\ kid'[proc[p].target] = "dead"
      BY <1>16, <2>2, <3>1, GotoEffect DEF Kill, TypeOK
    <3> QED BY <3>1, <3>2, StopMoves DEF LivingKids
  <2> QED BY <2>1, <2>2
<1>17. CASE DropPid(p)
  BY <1>0, <1>17, GotoEffect, StopMoves DEF DropPid, StopOk
<1>18. CASE DropLock(p)
  BY <1>18, ReturnEffect, StopLeaves DEF DropLock
<1> QED BY <1>1, <1>2, <1>5, <1>6, <1>7, <1>8, <1>9, <1>10, <1>11, <1>12, <1>13, <1>14,
           <1>15, <1>16, <1>17, <1>18 DEF Command

LEMMA StopStep ==
  ASSUME TypeOK, StopInv, NEW p \in Procs,
         Begin(p) \/ Command(p) \/ Bind(p) \/ ChildEnds(p) \/ Die(p)
  PROVE  StopInv'
<1>1. KidSteps(p)
  BY KidStep
<1>2. StopOk(p)'
  <2>1. CASE Bind(p) \/ ChildEnds(p)
    <3>1. proc' = proc /\ ~Spawn(p)
      <4>1. proc' = proc
        BY <2>1 DEF Bind, ChildEnds
      <4>2. kid[p] # "none"
        BY <2>1 DEF Bind, ChildEnds, Alive
      <4> QED BY <4>1, <4>2 DEF Spawn, At, StopInv, StopOk, Before
    <3> QED BY <1>1, <3>1, StopOthers
  <2> QED BY <1>1, <2>1, StopSelf
<1>3. ASSUME NEW q \in Procs, q # p PROVE StopOk(q)'
  <2>1. proc'[q] = proc[q]
    <3>1. CASE Bind(p) \/ ChildEnds(p)
      BY <3>1 DEF Bind, ChildEnds
    <3>2. CASE Begin(p) \/ Command(p) \/ Die(p)
      BY <1>3, <3>2, OthersStay
    <3> QED BY <3>1, <3>2
  <2> QED BY <1>1, <1>3, <2>1, StopOthers
<1>4. pidfile'.pid # Nobody => kid'[pidfile'.pid] # "none"
  <2>1. pidfile'.pid \in {pidfile.pid, Nobody} \/ (pidfile'.pid = p /\ proc[p].pc = "record")
    <3>1. CASE Truncate(p)
      BY <3>1, TruncateEffect
    <3>2. CASE Record(p)
      BY <3>2 DEF Record, TypeOK, PidFile, At
    <3>3. CASE ~(Truncate(p) \/ Record(p))
      <4>1. pidfile' = pidfile \/ pidfile' = NoPid
        BY <3>3 DEF Begin, Command, Bind, ChildEnds, Die, files, CleanCheck, CleanParse,
               DropCorrupt, DropStale, DropStalePid, Probe, Create, NoLockFor, Fill, Recheck,
               Spawn, RecordFails, Await, ReleaseCheck, ReleaseRead,
               ReleaseDrop, Watch, StopCheck, StopRead, Terminate, KillCheck, Kill, DropPid,
               DropLock
      <4> QED BY <4>1 DEF NoPid
    <3> QED BY <3>1, <3>2, <3>3
  <2>2. pidfile.pid \in Procs \cup {Nobody}
    BY DEF TypeOK, PidFile
  <2>3. proc[p].pc = "record" => kid[p] # "none"
    BY DEF StopInv, StopOk
  <2> QED BY <1>1, <2>1, <2>2, <2>3 DEF KidSteps, StopInv
<1> QED BY <1>2, <1>3, <1>4 DEF StopInv

LEMMA InitStopInv == Init => StopInv
BY DEF Init, NewProcess, NoPid, StopInv, StopOk, Before, Stops, Ended, StopPCs

LEMMA NextStopInv == TypeOK /\ StopInv /\ [Next]_vars => StopInv'
<1> SUFFICES ASSUME TypeOK, StopInv, [Next]_vars PROVE StopInv'
  OBVIOUS
<1>1. CASE UNCHANGED vars
  BY <1>1 DEF StopInv, StopOk, vars, files
<1> QED BY <1>1, StopStep DEF Next, AllEnded

(* Whatever other commands do meanwhile, and whenever the child ends or a  *)
(* command dies, a stop that reports success leaves its target dead: dead  *)
(* children stay dead and no process that was a target is spawned later.   *)
THEOREM StopsForGood == Spec => []StopMeansDead
<1>1. TypeOK /\ StopInv => StopMeansDead
  BY DEF TypeOK, Process, StopInv, StopOk, StopMeansDead, Alive, LivingKids
<1> QED BY <1>1, InitStopInv, NextStopInv, SupervisorTyping, PTL DEF Spec

-----------------------------------------------------------------------------
(***************************************************************************)
(* Files left by the dead keep no start waiting.                           *)
(***************************************************************************)

\* What comes before a process creates the lock.
Unlocked == {"idle", "probe", "create", "pid"} \cup CleanPCs

\* A process that has run beside no other finds the lock free after it has
\* cleaned up, and so never tries twice.
BlockInv ==
  /\ lock.by = Nobody => lock = NoLock
  /\ \A p \in Procs : proc[p].pc \in Unlocked => lock.by # p
  /\ \A p \in Procs \ company, q \in Procs : Runs(p) /\ Runs(q) => q = p
  /\ \A p \in Procs \ company : proc[p].pc \notin Ended => proc[p].tries = 0
  /\ \A p \in Procs \ company : proc[p].pc \in {"create", "stalepid"} => lock = NoLock

\* What a step of `p` may do to the lock, and to its own count of tries.
LockMoves(p) ==
  /\ \/ lock' \in {lock, NoLock}
     \/ lock' = [by |-> p, text |-> "empty"] /\ proc'[p].pc \notin Unlocked
     \/ lock' = [lock EXCEPT !.text = "full"] /\ lock.by = p
  /\ proc'[p].pc \in Unlocked => proc[p].pc \in Unlocked
  /\ proc'[p].tries \in {proc[p].tries, 0} \/ (lock # NoLock /\ proc[p].pc = "create")
  /\ proc'[p].pc \in {"create", "stalepid"} =>
       \/ lock' = NoLock
       \/ proc[p].pc = "parse" /\ lock.text = "full" /\ Runs(lock.by)
       \/ proc[p].pc = "stalepid" /\ lock' = lock

LEMMA LockStep ==
  ASSUME TypeOK, NEW p \in Procs, Command(p) \/ Die(p)
  PROVE  LockMoves(p) /\ Runs(p) /\ company' = company
<1> USE DEF At, PCs, EnsurePCs, CleanPCs, StopPCs, Ended, Unlocked
<1>0. Runs(p) /\ company' = company
  BY DEF Runs, Die, Command, CleanCheck, CleanParse,
         DropCorrupt, DropStale, DropStalePid, Probe, Create, NoLockFor, Fill, Recheck,
         Spawn, Truncate, Record, RecordFails, Await, ReleaseCheck, ReleaseRead,
         ReleaseDrop, Watch, StopCheck, StopRead, Terminate, KillCheck, Kill, DropPid,
         DropLock
<1> SUFFICES LockMoves(p)
  BY <1>0
<1>1. ASSUME NEW pc \in PCs \ {"create", "stalepid"}, Moves(p, pc), lock' \in {lock, NoLock},
             pc \in Unlocked => proc[p].pc \in Unlocked
      PROVE  LockMoves(p)
  BY <1>1 DEF LockMoves, Moves
<1>2. ASSUME NEW pc \in {"done", "release"}, NEW result, Leaves(p, pc, result),
             lock' \in {lock, NoLock}
      PROVE  LockMoves(p)
  BY <1>2 DEF LockMoves, Leaves
<1>3. ASSUME AfterClean(p), proc[p].pc \in CleanPCs,
             \/ lock' = NoLock
             \/ proc[p].pc = "parse" /\ lock.text = "full" /\ Runs(lock.by) /\ lock' = lock
             \/ proc[p].pc = "stalepid" /\ lock' = lock
      PROVE  LockMoves(p)
  <2>1. CASE Goto(p, "create")
    <3>1. Moves(p, "create")
      BY <2>1, GotoEffect
    <3> QED BY <1>3, <3>1 DEF LockMoves, Moves
  <2>2. CASE Return(p, "yes")
    BY <1>2, <1>3, <2>2, ReturnEffect
  <2> QED BY <1>3, <2>1, <2>2 DEF AfterClean
<1>4. CASE Die(p)
  BY <1>1, <1>4, GotoEffect DEF Die, files
<1>5. CASE CleanCheck(p)
  BY <1>1, <1>3, <1>5, GotoEffect DEF CleanCheck, files
<1>6. CASE CleanParse(p)
  BY <1>1, <1>3, <1>6, GotoEffect DEF CleanParse, files
<1>7. CASE DropCorrupt(p) \/ DropStalePid(p)
  BY <1>3, <1>7 DEF DropCorrupt, DropStalePid, Unlink
<1>8. CASE DropStale(p)
  <2>1. Moves(p, "stalepid") /\ lock' = NoLock /\ proc[p].pc = "stale"
    BY <1>8, GotoEffect DEF DropStale, Unlink
  <2> QED BY <2>1 DEF LockMoves, Moves
<1>9. CASE Probe(p) \/ Watch(p)
  BY <1>1, <1>2, <1>9, GotoEffect, ReturnEffect DEF Probe, Watch, files
<1>10. CASE Create(p)
  <2>1. CASE lock = NoLock
    <3>1. Moves(p, "fill") /\ lock' = [by |-> p, text |-> "empty"]
      BY <1>10, <2>1, GotoEffect DEF Create
    <3> QED BY <3>1 DEF LockMoves, Moves
  <2>2. CASE lock # NoLock
    <3>1. proc'[p].pc = "clean" /\ lock' = lock /\ proc[p].pc = "create"
      BY <1>10, <2>2, RetryEffect DEF Create
    <3> QED BY <2>2, <3>1 DEF LockMoves
  <2> QED BY <2>1, <2>2
<1>11. CASE NoLockFor(p)
  BY <1>1, <1>11, GotoEffect DEF NoLockFor, files
<1>12. CASE Fill(p)
  <2>1. Moves(p, "recheck")
    BY <1>12, GotoEffect DEF Fill
  <2>2. \/ lock' = [lock EXCEPT !.text = "full"] /\ lock.by = p
        \/ lock' = lock
    BY <1>12 DEF Fill
  <2> QED BY <2>1, <2>2 DEF LockMoves, Moves
<1>13. CASE Recheck(p) \/ Spawn(p) \/ RecordFails(p) \/ Await(p)
  BY <1>1, <1>2, <1>13, GotoEffect, ReleaseEffect DEF Recheck, Spawn, RecordFails, Await, files
<1>14. CASE Truncate(p)
  <2>1. lock' = lock /\ proc'[p].pc = "record" /\ proc'[p].tries = proc[p].tries
    BY <1>14, TruncateEffect DEF Truncate
  <2> QED BY <2>1 DEF LockMoves
<1>15. CASE Record(p) \/ ReleaseCheck(p) \/ ReleaseRead(p) \/ ReleaseDrop(p)
  BY <1>1, <1>15, GotoEffect DEF Record, ReleaseCheck, ReleaseRead, ReleaseDrop, files, Unlink
<1>16. CASE StopCheck(p) \/ KillCheck(p) \/ DropPid(p)
  BY <1>1, <1>16, GotoEffect DEF StopCheck, KillCheck, DropPid, files
<1>17. CASE StopRead(p)
  <2>1. CASE Return(p, "no")
    BY <1>2, <1>17, <2>1, ReturnEffect DEF StopRead, files
  <2>2. CASE ~Return(p, "no")
    <3> DEFINE k == pidfile.pid
    <3>1. k \in Procs /\ lock' = lock
      BY <1>17, <2>2 DEF StopRead, TypeOK, PidFile, files
    <3>2. PICK pc \in {"term", "unpid"} : Takes(p, k, pc)
      BY <1>17, <2>2 DEF StopRead, Takes
    <3>3. proc'[p].pc = pc /\ proc'[p].tries = proc[p].tries
      BY <3>1, <3>2, TargetEffect
    <3> HIDE DEF k
    <3> QED BY <3>1, <3>3 DEF LockMoves
  <2> QED BY <2>1, <2>2
<1>18. CASE Terminate(p) \/ Kill(p) \/ DropLock(p)
  BY <1>1, <1>2, <1>18, GotoEffect, ReturnEffect DEF Terminate, Kill, DropLock, files, Unlink
<1> QED BY <1>4, <1>5, <1>6, <1>7, <1>8, <1>9, <1>10, <1>11, <1>12, <1>13, <1>14, <1>15,
           <1>16, <1>17, <1>18 DEF Command

LEMMA BlockStep ==
  ASSUME TypeOK, BlockInv, NEW p \in Procs,
         Begin(p) \/ Command(p) \/ Bind(p) \/ ChildEnds(p) \/ Die(p)
  PROVE  BlockInv'
<1>1. CASE Bind(p) \/ ChildEnds(p)
  BY <1>1 DEF Bind, ChildEnds, files, BlockInv, Runs
<1>2. CASE Begin(p)
  <2>1. PICK pc \in {"probe", "pid"} : Moves(p, pc)
    BY <1>2, GotoEffect DEF Begin, PCs, EnsurePCs, StopPCs
  <2> DEFINE others == {q \in Procs : Runs(q)}
  <2>2. /\ proc[p].pc = "idle" /\ lock' = lock
        /\ company' = IF others = {} THEN company ELSE company \cup others \cup {p}
    BY <1>2 DEF Begin, At, files
  <2>3. ASSUME NEW q \in Procs \ company', NEW r \in Procs, Runs(q)', Runs(r)' PROVE r = q
    BY <2>1, <2>2, <2>3 DEF Moves, Local, Runs
  <2>4. \A q \in Procs \ company' : q \in Procs \ company
    BY <2>2
  <2> HIDE DEF others
  <2> QED BY <2>1, <2>2, <2>3, <2>4 DEF BlockInv, Moves, Local, Unlocked, Ended
<1>3. CASE Command(p) \/ Die(p)
  <2>1. LockMoves(p) /\ Runs(p) /\ company' = company
    BY <1>3, LockStep
  <2>2. \A q \in Procs : q # p => proc'[q] = proc[q]
    BY <1>3, OthersStay
  <2>3. lock \in LockFile
    BY DEF TypeOK
  <2>4. lock'.by \in {lock.by, Nobody} \/ (lock'.by = p /\ proc'[p].pc \notin Unlocked)
    BY <2>1, <2>3 DEF LockMoves, NoLock, LockFile
  <2>5. lock'.by = Nobody => lock' = NoLock
    BY <2>1, <2>3 DEF LockMoves, NoLock, LockFile, BlockInv
  <2>6. ASSUME NEW q \in Procs, proc'[q].pc \in Unlocked PROVE lock'.by # q
    BY <2>1, <2>2, <2>4, <2>6 DEF LockMoves, BlockInv
  <2>7. ASSUME NEW q \in Procs \ company, NEW r \in Procs, Runs(q)', Runs(r)' PROVE r = q
    <3>1. Runs(q) /\ Runs(r)
      BY <2>1, <2>2, <2>7 DEF Runs
    <3> QED BY <3>1 DEF BlockInv
  <2>8. ASSUME NEW q \in Procs \ company, proc'[q].pc \notin Ended PROVE proc'[q].tries = 0
    <3>1. CASE q # p
      BY <2>2, <2>8, <3>1 DEF BlockInv
    <3>2. CASE q = p
      BY <2>1, <3>2 DEF LockMoves, BlockInv, Runs
    <3> QED BY <3>1, <3>2
  <2>9. ASSUME NEW q \in Procs \ company, proc'[q].pc \in {"create", "stalepid"}
        PROVE  lock' = NoLock
    <3>1. CASE q # p
      <4>1. Runs(q)
        BY <2>2, <2>9, <3>1 DEF Runs, Ended
      <4> QED BY <2>1, <3>1, <4>1 DEF BlockInv
    <3>2. CASE q = p
      <4>1. CASE proc[p].pc = "parse" /\ lock.text = "full" /\ Runs(lock.by)
        <5>1. lock.by \in Procs
          BY <2>3, <4>1 DEF BlockInv, NoLock, LockFile
        <5>2. lock.by # p
          BY <4>1 DEF BlockInv, Unlocked, CleanPCs
        <5> QED BY <2>1, <3>2, <4>1, <5>1, <5>2 DEF BlockInv
      <4>2. CASE proc[p].pc = "stalepid" /\ lock' = lock
        BY <3>2, <4>2 DEF BlockInv
      <4> QED BY <2>1, <2>9, <3>2, <4>1, <4>2 DEF LockMoves
    <3> QED BY <3>1, <3>2
  <2> QED BY <2>1, <2>5, <2>6, <2>7, <2>8, <2>9 DEF BlockInv
<1> QED BY <1>1, <1>2, <1>3

LEMMA InitBlockInv == Init => BlockInv
BY DEF Init, NewProcess, NoLock, BlockInv, Runs

LEMMA NextBlockInv == TypeOK /\ BlockInv /\ [Next]_vars => BlockInv'
<1> SUFFICES ASSUME TypeOK, BlockInv, [Next]_vars PROVE BlockInv'
  OBVIOUS
<1>1. CASE UNCHANGED vars
  BY <1>1 DEF BlockInv, Runs, vars, files
<1> QED BY <1>1, BlockStep DEF Next, AllEnded

(* A start that has run beside no other command never uses up its attempts *)
(* on the lock: whatever lock file it meets was left by a process that no  *)
(* longer runs, and the first cleaning removes it.                         *)
THEOREM TheDeadDoNotBlock == Spec => []OnlyTheLivingBlock
<1>1. BlockInv => OnlyTheLivingBlock
  BY DEF BlockInv, OnlyTheLivingBlock, At, Ended
<1> QED BY <1>1, InitBlockInv, NextBlockInv, SupervisorTyping, PTL DEF Spec

-----------------------------------------------------------------------------
(***************************************************************************)
(* Short of mishaps one process at a time holds the lock, spawns and waits.*)
(***************************************************************************)

Waiting == {"truncate", "record", "await"}
Holding == {"recheck", "spawn", "release", "relread", "reldrop"} \cup Waiting

\* Who holds the lock is the one the file names; no child that has yet to bind
\* its port is left alone, and where one is awaited no other serves.
FlightOk(p) ==
  /\ proc[p].pc = "fill" => lock.by = p /\ lock.text = "empty"
  /\ proc[p].pc \in Holding => lock.by = p /\ lock.text = "full"
  /\ proc[p].pc \notin {"stale", "stalepid"}
  /\ kid[p] = "starting" => proc[p].pc \in Waiting
  /\ kid[p] # "collided"
Flight ==
  /\ \A p \in Procs : FlightOk(p)
  /\ lock.text = "full" => lock.by \in Procs /\ proc[lock.by].pc \in Holding
  /\ \A j, k \in Procs : kid[j] = "serving" /\ Starting(k) => j = k /\ proc[k].pc # "spawn"
FlightInv == upset = "no" => Flight

(* A step that touches neither the lock nor a child. *)
LEMMA QuietFlight ==
  ASSUME Flight, NEW p \in Procs, Local(p), lock' = lock, kid' = kid,
         proc'[p].pc \notin {"fill", "stale", "stalepid"},
         proc'[p].pc \in Holding <=> proc[p].pc \in Holding,
         Starting(p)' => Starting(p) \/ \A j \in Procs : kid[j] # "serving",
         proc'[p].pc = "spawn" => \A j \in Procs : kid[j] # "serving",
         kid[p] = "starting" => proc'[p].pc \in Waiting
  PROVE  Flight'
<1>1. ASSUME NEW q \in Procs PROVE FlightOk(q)'
  BY DEF Flight, FlightOk, Local
<1>2. lock'.text = "full" => lock'.by \in Procs /\ proc'[lock'.by].pc \in Holding
  BY DEF Flight, Local
<1>3. ASSUME NEW j \in Procs, NEW k \in Procs, kid'[j] = "serving", Starting(k)'
      PROVE  j = k /\ proc'[k].pc # "spawn"
  <2>1. CASE k = p
    BY <1>3, <2>1 DEF Flight
  <2>2. CASE k # p
    BY <1>3, <2>2 DEF Flight, Local, Starting
  <2> QED BY <2>1, <2>2
<1> QED BY <1>1, <1>2, <1>3 DEF Flight

(* A step that unlinks a lock nobody else holds, on its way out of the     *)
(* critical section or outside it.                                         *)
LEMMA UnlinkFlight ==
  ASSUME Flight, NEW p \in Procs, Local(p), Unlink(p), kid' = kid,
         proc[p].pc = "reldrop" \/ lock = NoLock \/ ~Runs(lock.by),
         proc'[p].pc \notin Holding \cup {"fill", "stale", "stalepid"},
         proc[p].pc \notin Waiting
  PROVE  Flight'
<1> USE DEF Holding, Waiting, NoLock
<1>1. ASSUME NEW q \in Procs, proc[q].pc \in Holding \cup {"fill"} PROVE q = p
  BY <1>1 DEF Flight, FlightOk, Runs, Ended
<1>2. lock'.text = "empty"
  BY DEF Unlink
<1>3. ASSUME NEW q \in Procs PROVE FlightOk(q)'
  BY <1>1 DEF Flight, FlightOk, Local
<1>4. ASSUME NEW j \in Procs, NEW k \in Procs, kid'[j] = "serving", Starting(k)'
      PROVE  j = k /\ proc'[k].pc # "spawn"
  BY <1>4 DEF Flight, Local, Starting
<1> QED BY <1>2, <1>3, <1>4 DEF Flight

(* A step that only changes a child: spawns it, while nothing serves, lets *)
(* it serve, or brings it nearer to its death.                             *)
LEMMA KidFlight ==
  ASSUME Flight, TypeOK, NEW p \in Procs, Local(p), lock' = lock,
         NEW k \in Procs, NEW s \in {"starting", "serving", "stopping", "dead"},
         kid' = [kid EXCEPT ![k] = s],
         proc'[p].pc \notin {"fill", "stale", "stalepid"},
         proc'[p].pc \in Holding <=> proc[p].pc \in Holding,
         Starting(p) <=> Starting(p)', proc'[p].pc # "spawn",
         proc[p].pc \in Waiting => proc'[p].pc \in Waiting,
         s = "starting" => proc'[k].pc \in Waiting,
         s = "serving" => kid[k] = "starting"
  PROVE  Flight'
<1> USE DEF Holding, Waiting
<1>1. ASSUME NEW q \in Procs PROVE FlightOk(q)'
  BY DEF Flight, FlightOk, Local, TypeOK
<1>2. lock'.text = "full" => lock'.by \in Procs /\ proc'[lock'.by].pc \in Holding
  BY DEF Flight, Local
<1>3. ASSUME NEW j \in Procs, NEW l \in Procs, kid'[j] = "serving", Starting(l)'
      PROVE  j = l /\ proc'[l].pc # "spawn"
  <2>1. Starting(l)
    BY <1>3 DEF Local, Starting
  <2>2. CASE kid[j] = "serving"
    BY <1>3, <2>1, <2>2 DEF Flight, Local
  <2>3. CASE kid[j] # "serving"
    <3>1. j = k /\ kid[k] = "starting"
      BY <1>3, <2>3 DEF TypeOK
    <3>2. proc[j].pc \in Waiting /\ proc[l].pc \in Holding
      BY <2>1, <3>1 DEF Flight, FlightOk, Starting
    <3>3. j = l
      BY <3>2 DEF Flight, FlightOk
    <3> QED BY <3>2, <3>3 DEF Local
  <2> QED BY <2>2, <2>3
<1> QED BY <1>1, <1>2, <1>3 DEF Flight

LEMMA FlightStep ==
  ASSUME TypeOK, StopInv, Flight, NEW p \in Procs, upset' = "no",
         Begin(p) \/ Command(p) \/ Bind(p) \/ ChildEnds(p) \/ Die(p)
  PROVE  Flight'
<1> USE DEF At, PCs, EnsurePCs, CleanPCs, StopPCs, Ended, Holding, Waiting, Starting
<1>0. FlightOk(p) /\ StopOk(p)
  BY DEF Flight, StopInv
<1>1. ASSUME NEW pc \in PCs \ (Holding \cup {"fill", "stale", "stalepid"}), Moves(p, pc),
             lock' = lock, kid' = kid, proc[p].pc \notin Holding
      PROVE  Flight'
  <2>1. kid[p] # "starting"
    BY <1>0, <1>1 DEF FlightOk
  <2> QED BY <1>1, <2>1, QuietFlight DEF Moves
<1>2. ASSUME NEW result, Leaves(p, "done", result), lock' = lock, kid' = kid,
             proc[p].pc \notin Holding
      PROVE  Flight'
  <2>1. kid[p] # "starting"
    BY <1>0, <1>2 DEF FlightOk
  <2> QED BY <1>2, <2>1, QuietFlight DEF Leaves
<1>3. ASSUME NEW pc \in PCs, Moves(p, pc), proc[p].pc \in Holding, pc \in Holding,
             lock' = lock, kid' = kid, kid[p] = "starting" => pc \in Waiting,
             pc \in Waiting => proc[p].pc \in Waiting, pc # "spawn"
      PROVE  Flight'
  BY <1>3, QuietFlight DEF Moves
<1>4. ASSUME NEW result, Leaves(p, "release", result), proc[p].pc \in Holding,
             lock' = lock, kid' = kid, kid[p] # "starting"
      PROVE  Flight'
  BY <1>4, QuietFlight DEF Leaves
<1>5. CASE Begin(p)
  <2>1. PICK pc \in {"probe", "pid"} : Goto(p, pc)
    BY <1>5 DEF Begin
  <2> QED BY <1>1, <1>5, <2>1, GotoEffect DEF Begin, files
<1>6. CASE Die(p)
  BY <1>6 DEF Die, Mishap
<1>7. CASE Bind(p)
  <2>1. kid[p] = "starting" /\ proc' = proc /\ lock' = lock
    BY <1>7 DEF Bind, files
  <2>2. ~Served
    BY <1>0, <2>1 DEF Flight, FlightOk, Served
  <2>3. kid' = [kid EXCEPT ![p] = "serving"]
    BY <1>7, <2>2 DEF Bind
  <2>4. proc[p].pc \in Waiting
    BY <1>0, <2>1 DEF FlightOk
  <2> QED BY <2>1, <2>3, <2>4, KidFlight DEF Local
<1>8. CASE ChildEnds(p)
  <2>1. kid' = [kid EXCEPT ![p] = "dead"] /\ proc' = proc /\ lock' = lock
    BY <1>8 DEF ChildEnds, files
  <2>2. CASE proc[p].pc \in {"fill", "spawn"}
    BY <1>0, <1>8, <2>2 DEF ChildEnds, Alive, StopOk, Before
  <2>3. CASE proc[p].pc \notin {"fill", "spawn"}
    <3>1. proc[p].pc \notin {"stale", "stalepid"}
      BY <1>0 DEF FlightOk
    <3> QED BY <2>1, <2>3, <3>1, KidFlight DEF Local
  <2> QED BY <2>2, <2>3
<1>9. ASSUME AfterClean(p), lock' = lock, kid' = kid, proc[p].pc \in CleanPCs PROVE Flight'
  BY <1>1, <1>2, <1>9, GotoEffect, ReturnEffect DEF AfterClean
<1>10. CASE CleanCheck(p)
  BY <1>1, <1>9, <1>10, GotoEffect DEF CleanCheck, files
<1>11. CASE CleanParse(p)
  <2>1. lock.text = "full" => Runs(lock.by)
    BY DEF Flight, Runs
  <2>2. AfterClean(p) \/ Goto(p, "corrupt")
    BY <1>11, <2>1 DEF CleanParse
  <2> QED BY <1>1, <1>9, <1>11, <2>2, GotoEffect DEF CleanParse, files
<1>12. CASE DropCorrupt(p)
  <2>1. lock = NoLock \/ ~Runs(lock.by)
    BY <1>12 DEF DropCorrupt, MishapIf
  <2>2. Unlink(p) /\ kid' = kid /\ proc[p].pc = "corrupt"
    BY <1>12 DEF DropCorrupt
  <2>3. Local(p) /\ proc'[p].pc \in {"create", "done"}
    BY <1>12, GotoEffect, ReturnEffect DEF DropCorrupt, AfterClean, Moves, Leaves
  <2> QED BY <2>1, <2>2, <2>3, UnlinkFlight
<1>13. CASE DropStale(p) \/ DropStalePid(p)
  BY <1>0, <1>13 DEF DropStale, DropStalePid, FlightOk
<1>14. CASE Probe(p) \/ Watch(p)
  BY <1>1, <1>2, <1>14, GotoEffect, ReturnEffect DEF Probe, Watch, files
<1>15. CASE Create(p)
  <2>1. CASE lock = NoLock
    <3>1. /\ Moves(p, "fill") /\ lock' = [by |-> p, text |-> "empty"] /\ kid' = kid
          /\ proc[p].pc = "create"
      BY <1>15, <2>1, GotoEffect DEF Create
    <3>2. lock'.by = p /\ lock'.text = "empty"
      BY <3>1
    <3>3. \A q \in Procs : proc[q].pc \notin Holding \cup {"fill"}
      BY <2>1 DEF Flight, FlightOk, NoLock
    <3>4. \A q \in Procs : FlightOk(q)'
      BY <3>1, <3>2, <3>3 DEF Flight, FlightOk, Moves, Local
    <3>5. \A q \in Procs : ~Starting(q)'
      BY <3>1, <3>3 DEF Moves, Local
    <3> QED BY <3>2, <3>4, <3>5 DEF Flight
  <2>2. CASE lock # NoLock
    <3>1. /\ proc'[p].pc = "clean" /\ lock' = lock /\ kid' = kid /\ proc[p].pc = "create"
          /\ Local(p)
      BY <1>15, <2>2, RetryEffect DEF Create
    <3>2. kid[p] # "starting"
      BY <1>0, <3>1 DEF FlightOk
    <3> QED BY <3>1, <3>2, QuietFlight
  <2> QED BY <2>1, <2>2
<1>16. CASE NoLockFor(p)
  BY <1>1, <1>16, GotoEffect DEF NoLockFor, files
<1>17. CASE Fill(p)
  <2>1. Moves(p, "recheck") /\ proc[p].pc = "fill" /\ kid' = kid
    BY <1>17, GotoEffect DEF Fill
  <2>2. lock.by = p /\ lock.text = "empty"
    BY <1>0, <2>1 DEF FlightOk
  <2>3. lock'.by = p /\ lock'.text = "full"
    BY <1>17, <2>2 DEF Fill, TypeOK, LockFile
  <2>4. \A q \in Procs \ {p} : proc[q].pc \notin Holding \cup {"fill"}
    BY <2>2 DEF Flight, FlightOk
  <2>5. kid[p] # "starting"
    BY <1>0, <2>1 DEF FlightOk
  <2>6. \A q \in Procs : FlightOk(q)'
    BY <2>1, <2>3, <2>4, <2>5 DEF Flight, FlightOk, Moves, Local
  <2>7. \A q \in Procs : ~Starting(q)'
    BY <2>1, <2>4 DEF Moves, Local
  <2> QED BY <2>1, <2>3, <2>6, <2>7 DEF Flight, Moves
<1>18. CASE Recheck(p)
  <2>1. kid[p] # "starting"
    BY <1>0, <1>18 DEF Recheck, FlightOk
  <2>2. CASE Release(p, "yes")
    BY <1>4, <1>18, <2>1, <2>2, ReleaseEffect DEF Recheck, files
  <2>3. CASE ~Release(p, "yes")
    <3>1. Moves(p, "spawn") /\ ~Served /\ lock' = lock /\ kid' = kid /\ proc[p].pc = "recheck"
      BY <1>18, <2>3, GotoEffect DEF Recheck, MishapIf, files
    <3> QED BY <2>1, <3>1, QuietFlight DEF Moves, Served
  <2> QED BY <2>2, <2>3
<1>19. CASE Spawn(p)
  <2>1. proc[p].pc = "spawn" /\ lock' = lock /\ kid[p] = "none"
    BY <1>0, <1>19 DEF Spawn, files, StopOk, Before
  <2>2. CASE Release(p, "no") /\ kid' = kid
    BY <1>4, <2>1, <2>2, ReleaseEffect
  <2>3. CASE kid' = [kid EXCEPT ![p] = "starting"] /\ Goto(p, "truncate")
    <3>1. Moves(p, "truncate")
      BY <2>3, GotoEffect
    <3> QED BY <2>1, <2>3, <3>1, KidFlight DEF Moves
  <2> QED BY <1>19, <2>2, <2>3 DEF Spawn
<1>20. CASE Truncate(p)
  <2>1. /\ Local(p) /\ proc'[p].pc = "record" /\ proc[p].pc = "truncate"
        /\ lock' = lock /\ kid' = kid
    BY <1>20, TruncateEffect DEF Truncate
  <2> QED BY <2>1, QuietFlight
<1>21. CASE Record(p)
  BY <1>3, <1>21, GotoEffect DEF Record
<1>22. CASE RecordFails(p)
  BY <1>22 DEF RecordFails, Mishap
<1>23. CASE Await(p)
  <2>1. kid[p] # "starting"
    <3>1. CASE Served
      BY <1>23, <3>1 DEF Await, Flight, Served
    <3>2. CASE ~Served
      BY <1>23, <3>2 DEF Await, MishapIf, Alive
    <3> QED BY <3>1, <3>2
  <2>2. PICK result \in {"yes", "no"} : Release(p, result)
    BY <1>23 DEF Await
  <2> QED BY <1>4, <1>23, <2>1, <2>2, ReleaseEffect DEF Await, files
<1>24. CASE ReleaseCheck(p) \/ ReleaseRead(p)
  <2>1. /\ proc[p].pc \in {"release", "relread"} /\ lock' = lock /\ kid' = kid
        /\ lock.by = p /\ lock.text = "full" /\ kid[p] # "starting"
    BY <1>0, <1>24 DEF ReleaseCheck, ReleaseRead, files, FlightOk
  <2>2. lock # NoLock
    BY <2>1 DEF NoLock
  <2>3. PICK pc \in {"relread", "reldrop"} : Goto(p, pc)
    BY <1>24, <2>1, <2>2 DEF ReleaseCheck, ReleaseRead
  <2> QED BY <1>3, <2>1, <2>3, GotoEffect
<1>25. CASE ReleaseDrop(p)
  <2>1. Moves(p, "done") /\ Unlink(p) /\ kid' = kid /\ proc[p].pc = "reldrop"
    BY <1>25, GotoEffect DEF ReleaseDrop
  <2> QED BY <2>1, UnlinkFlight DEF Moves
<1>26. CASE StopCheck(p) \/ KillCheck(p) \/ DropPid(p)
  BY <1>1, <1>26, GotoEffect DEF StopCheck, KillCheck, DropPid, files
<1>27. CASE StopRead(p)
  <2>1. CASE Return(p, "no")
    BY <1>2, <1>27, <2>1, ReturnEffect DEF StopRead, files
  <2>2. CASE ~Return(p, "no")
    <3> DEFINE k == pidfile.pid
    <3>1. k \in Procs /\ lock' = lock /\ kid' = kid /\ proc[p].pc = "readpid"
      BY <1>27, <2>2 DEF StopRead, TypeOK, PidFile, files
    <3>2. PICK pc \in {"term", "unpid"} : Takes(p, k, pc)
      BY <1>27, <2>2 DEF StopRead, Takes
    <3>3. proc'[p].pc = pc /\ Local(p)
      BY <3>1, <3>2, TargetEffect
    <3>4. kid[p] # "starting"
      BY <1>0, <3>1 DEF FlightOk
    <3> QED BY <3>1, <3>3, <3>4, QuietFlight
  <2> QED BY <2>1, <2>2
<1>28. CASE Terminate(p) \/ Kill(p)
  <2>1. /\ proc[p].pc \in {"term", "kill9"} /\ lock' = lock /\ proc[p].target \in Procs
    BY <1>0, <1>28 DEF Terminate, Kill, files, StopOk, Stops
  <2>2. CASE Return(p, "no") /\ kid' = kid
    BY <1>2, <2>1, <2>2, ReturnEffect
  <2>3. CASE ~(Return(p, "no") /\ kid' = kid)
    <3>1. PICK pc \in {"kill", "unpid"}, s \in {"stopping", "dead"} :
            Goto(p, pc) /\ kid' = [kid EXCEPT ![proc[p].target] = s]
      BY <1>28, <2>3 DEF Terminate, Kill
    <3>2. Moves(p, pc)
      BY <3>1, GotoEffect
    <3> QED BY <2>1, <3>1, <3>2, KidFlight DEF Moves
  <2> QED BY <2>2, <2>3
<1>29. CASE DropLock(p)
  <2>1. lock = NoLock \/ ~Runs(lock.by)
    BY <1>29 DEF DropLock, MishapIf
  <2>2. /\ Unlink(p) /\ kid' = kid /\ proc[p].pc = "unlock" /\ Local(p)
        /\ proc'[p].pc = "done"
    BY <1>29, ReturnEffect DEF DropLock, Leaves
  <2> QED BY <2>1, <2>2, UnlinkFlight
<1> QED BY <1>5, <1>6, <1>7, <1>8, <1>10, <1>11, <1>12, <1>13, <1>14, <1>15, <1>16, <1>17,
           <1>18, <1>19, <1>20, <1>21, <1>22, <1>23, <1>24, <1>25, <1>26, <1>27, <1>28,
           <1>29 DEF Command

LEMMA InitFlight == Init => FlightInv
BY DEF Init, NewProcess, NoLock, FlightInv, Flight, FlightOk, Starting, Holding, Waiting

LEMMA NextFlight == TypeOK /\ StopInv /\ FlightInv /\ [Next]_vars => FlightInv'
<1> SUFFICES ASSUME TypeOK, StopInv, FlightInv, [Next]_vars, upset' = "no" PROVE Flight'
  BY DEF FlightInv
<1>1. CASE UNCHANGED vars
  BY <1>1 DEF FlightInv, Flight, FlightOk, Starting, vars, files
<1>2. ASSUME NEW p \in Procs,
             Begin(p) \/ Command(p) \/ Bind(p) \/ ChildEnds(p) \/ Die(p)
      PROVE  Flight'
  <2>1. upset = "no"
    BY <1>2, MishapsLast
  <2> QED BY <1>2, <2>1, FlightStep DEF FlightInv
<1> QED BY <1>1, <1>2 DEF Next, AllEnded

(* However starts race with each other and with stops, no two processes    *)
(* spawn and wait at a time and no child finds its port taken, as long as  *)
(* no mishap happens: who holds the lock is the one process its file names.*)
THEOREM OneFlight == Spec => []SingleFlight
<1>1. FlightInv => SingleFlight
  BY DEF FlightInv, Flight, FlightOk, SingleFlight, Starting, Holding, Waiting
<1> QED BY <1>1, InitFlight, NextFlight, InitStopInv, NextStopInv, SupervisorTyping, PTL DEF Spec

-----------------------------------------------------------------------------
(***************************************************************************)
(* Short of mishaps a child that runs is one a stop finds.                 *)
(***************************************************************************)

OnRecord(k) ==
  \/ pidfile.pid = k
  \/ proc[k].pc \in {"truncate", "record"}
  \/ \E p \in Procs : Runs(p) /\ proc[p].target = k

\* Who is about to write its child's number holds the file open and empty, and
\* whoever has signalled a child has yet to see it dead.
Recorded ==
  /\ \A p \in Procs : proc[p].pc = "record" =>
       pidfile.by = proc[p].fd /\ pidfile.pid = Nobody
  /\ \A k \in Procs : kid[k] = "stopping" =>
       \E p \in Procs : proc[p].pc \in {"kill", "kill9"} /\ proc[p].target = k
  /\ \A k \in Procs : kid[k] \in LivingKids => OnRecord(k)
RecordedInv == upset = "no" => Recorded

(* A step that leaves the PID file alone and enlivens no child. *)
LEMMA QuietRecord ==
  ASSUME TypeOK, Recorded, NEW p \in Procs, Local(p), pidfile' = pidfile,
         proc'[p].pc = "record" => proc'[p] = proc[p],
         \A k \in Procs : kid'[k] \in LivingKids => kid[k] \in LivingKids,
         \A k \in Procs : kid'[k] = "stopping" => kid[k] = "stopping",
         proc[p].pc \in {"kill", "kill9"} /\ kid'[proc[p].target] = "stopping" =>
           proc'[p].pc \in {"kill", "kill9"} /\ proc'[p].target = proc[p].target,
         Runs(p) /\ proc[p].target \in Procs /\ kid'[proc[p].target] \in LivingKids =>
           Runs(p)' /\ proc'[p].target = proc[p].target,
         proc[p].pc \in {"truncate", "record"} =>
           kid'[p] \notin LivingKids \/ proc'[p].pc \in {"truncate", "record"}
  PROVE  Recorded'
<1>1. ASSUME NEW q \in Procs, proc'[q].pc = "record"
      PROVE  pidfile'.by = proc'[q].fd /\ pidfile'.pid = Nobody
  BY <1>1 DEF Recorded, Local
<1>2. ASSUME NEW k \in Procs, kid'[k] = "stopping"
      PROVE  \E q \in Procs : proc'[q].pc \in {"kill", "kill9"} /\ proc'[q].target = k
  <2>1. PICK q \in Procs : proc[q].pc \in {"kill", "kill9"} /\ proc[q].target = k
    BY <1>2 DEF Recorded
  <2> QED BY <1>2, <2>1 DEF Local
<1>3. ASSUME NEW k \in Procs, kid'[k] \in LivingKids PROVE OnRecord(k)'
  <2>1. OnRecord(k)
    BY <1>3 DEF Recorded
  <2>2. CASE pidfile.pid = k
    BY <2>2 DEF OnRecord
  <2>3. CASE proc[k].pc \in {"truncate", "record"}
    BY <1>3, <2>3 DEF OnRecord, Local
  <2>4. ASSUME NEW q \in Procs, Runs(q), proc[q].target = k PROVE OnRecord(k)'
    BY <1>3, <2>4 DEF OnRecord, Local, Runs
  <2> QED BY <2>1, <2>2, <2>3, <2>4 DEF OnRecord
<1> QED BY <1>1, <1>2, <1>3 DEF Recorded

LEMMA RecordStep ==
  ASSUME TypeOK, StopInv, Flight, Recorded, NEW p \in Procs, upset' = "no",
         Begin(p) \/ Command(p) \/ Bind(p) \/ ChildEnds(p) \/ Die(p)
  PROVE  Recorded'
<1> USE DEF At, PCs, EnsurePCs, CleanPCs, StopPCs, Ended, Stops, LivingKids
<1>0. FlightOk(p) /\ StopOk(p)
  BY DEF Flight, StopInv
<1>1. ASSUME Local(p), pidfile' = pidfile, kid' = kid, proc'[p].pc # "record",
             proc[p].pc \notin Stops \cup {"truncate", "record", "done", "dead"}
      PROVE  Recorded'
  <2>1. proc[p].target = Nobody
    BY <1>0, <1>1 DEF StopOk
  <2> QED BY <1>1, <2>1, QuietRecord
<1>2. ASSUME NEW result, Leaves(p, "done", result), pidfile' = pidfile, kid' = kid,
             proc[p].pc \in {"term", "kill9", "unlock"},
             kid[proc[p].target] \notin LivingKids
      PROVE  Recorded'
  BY <1>2, QuietRecord DEF Leaves
<1>3. CASE Begin(p)
  <2>1. PICK pc \in {"probe", "pid"} : Goto(p, pc)
    BY <1>3 DEF Begin
  <2> QED BY <1>1, <1>3, <2>1, GotoEffect DEF Begin, Moves, files
<1>4. CASE Die(p) \/ RecordFails(p)
  BY <1>4 DEF Die, RecordFails, Mishap
<1>5. CASE Bind(p) \/ ChildEnds(p)
  <2>1. PICK s \in {"serving", "collided", "dead"} :
          proc' = proc /\ pidfile' = pidfile /\ kid' = [kid EXCEPT ![p] = s]
    BY <1>5 DEF Bind, ChildEnds, files
  <2>2. kid[p] \in LivingKids
    BY <1>5 DEF Bind, ChildEnds, Alive
  <2>3. kid'[p] # "stopping" /\ \A k \in Procs \ {p} : kid'[k] = kid[k]
    BY <2>1 DEF TypeOK
  <2> QED BY <2>1, <2>2, <2>3, QuietRecord DEF Local, Runs
<1>6. ASSUME AfterClean(p) PROVE Local(p) /\ proc'[p].pc \in {"create", "done"}
  BY <1>6, GotoEffect, ReturnEffect DEF AfterClean, Moves, Leaves
<1>7. CASE CleanCheck(p) \/ CleanParse(p) \/ DropCorrupt(p)
  <2>1. AfterClean(p) \/ \E pc \in {"parse", "corrupt", "stale"} : Goto(p, pc)
    BY <1>7 DEF CleanCheck, CleanParse, DropCorrupt
  <2>2. Local(p) /\ proc'[p].pc # "record"
    BY <1>6, <2>1, GotoEffect DEF Moves
  <2> QED BY <1>1, <1>7, <2>2 DEF CleanCheck, CleanParse, DropCorrupt, files
<1>8. CASE DropStale(p) \/ DropStalePid(p)
  BY <1>0, <1>8 DEF DropStale, DropStalePid, FlightOk
<1>9. CASE Probe(p) \/ Watch(p) \/ NoLockFor(p) \/ Fill(p) \/ ReleaseCheck(p) \/ ReleaseRead(p)
           \/ ReleaseDrop(p) \/ StopCheck(p)
  <2>1. \/ \E pc \in {"clean", "watch", "recheck", "relread", "reldrop", "done", "readpid"} :
             Goto(p, pc)
        \/ \E result \in {"yes", "no"} : Return(p, result)
    BY <1>9 DEF Probe, Watch, NoLockFor, Fill, ReleaseCheck, ReleaseRead, ReleaseDrop, StopCheck
  <2>2. Local(p) /\ proc'[p].pc # "record"
    BY <2>1, GotoEffect, ReturnEffect DEF Moves, Leaves
  <2> QED BY <1>1, <1>9, <2>2 DEF Probe, Watch, NoLockFor, Fill, ReleaseCheck, ReleaseRead,
                                 ReleaseDrop, StopCheck, files
<1>10. CASE Create(p)
  <2>1. Local(p) /\ proc'[p].pc # "record"
    BY <1>10, GotoEffect, RetryEffect DEF Create, Moves
  <2> QED BY <1>1, <1>10, <2>1 DEF Create
<1>11. ASSUME NEW result \in {"yes", "no"}, Release(p, result)
       PROVE  Local(p) /\ proc'[p].pc # "record"
  BY <1>11, ReleaseEffect DEF Leaves
<1>12. CASE Recheck(p) \/ Await(p)
  <2>1. Local(p) /\ proc'[p].pc # "record"
    BY <1>11, <1>12, GotoEffect DEF Recheck, Await, Moves
  <2> QED BY <1>1, <1>12, <2>1 DEF Recheck, Await, files
<1>13. CASE Spawn(p)
  <2>1. CASE Release(p, "no") /\ kid' = kid
    BY <1>1, <1>11, <1>13, <2>1 DEF Spawn, files
  <2>2. CASE kid' = [kid EXCEPT ![p] = "starting"] /\ Goto(p, "truncate")
    <3>1. Moves(p, "truncate") /\ pidfile' = pidfile /\ proc[p].pc = "spawn"
      BY <1>13, <2>2, GotoEffect DEF Spawn, files
    <3>2. proc[p].target = Nobody
      BY <1>0, <3>1 DEF StopOk
    <3>3. ASSUME NEW q \in Procs, proc'[q].pc = "record"
          PROVE  pidfile'.by = proc'[q].fd /\ pidfile'.pid = Nobody
      BY <3>1, <3>3 DEF Recorded, Moves, Local
    <3>4. ASSUME NEW k \in Procs, kid'[k] = "stopping"
          PROVE  \E q \in Procs : proc'[q].pc \in {"kill", "kill9"} /\ proc'[q].target = k
      <4>1. kid[k] = "stopping"
        BY <2>2, <3>4 DEF TypeOK
      <4>2. PICK q \in Procs : proc[q].pc \in {"kill", "kill9"} /\ proc[q].target = k
        BY <4>1 DEF Recorded
      <4> QED BY <3>1, <4>2 DEF Moves, Local
    <3>5. ASSUME NEW k \in Procs, kid'[k] \in LivingKids PROVE OnRecord(k)'
      <4>1. CASE k = p
        BY <3>1, <4>1 DEF OnRecord, Moves
      <4>2. CASE k # p
        <5>1. OnRecord(k)
          BY <2>2, <3>5, <4>2 DEF TypeOK, Recorded
        <5>2. ASSUME NEW q \in Procs, Runs(q), proc[q].target = k PROVE OnRecord(k)'
          BY <3>1, <3>2, <5>2 DEF OnRecord, Moves, Local, Runs
        <5> QED BY <3>1, <4>2, <5>1, <5>2 DEF OnRecord, Moves, Local
      <4> QED BY <4>1, <4>2
    <3> QED BY <3>3, <3>4, <3>5 DEF Recorded
  <2> QED BY <1>13, <2>1, <2>2 DEF Spawn
<1>14. ASSUME proc[p].pc \in {"truncate", "record"}, Local(p), kid' = kid,
              proc'[p].pc \in {"record", "await"}, proc'[p].target = Nobody,
              pidfile'.pid \in {Nobody, p},
              proc'[p].pc = "record" => pidfile'.pid = Nobody /\ pidfile'.by = proc'[p].fd,
              proc'[p].pc = "await" => pidfile'.pid = p
       PROVE  Recorded'
  <2>1. \A q \in Procs \ {p} : proc[q].pc \notin {"truncate", "record"}
    BY <1>0, <1>14 DEF Flight, FlightOk, Holding, Waiting
  <2>2. ASSUME NEW q \in Procs, proc'[q].pc = "record"
        PROVE  pidfile'.by = proc'[q].fd /\ pidfile'.pid = Nobody
    BY <1>14, <2>1, <2>2 DEF Local
  <2>3. proc[p].target = Nobody
    BY <1>0, <1>14 DEF StopOk
  <2>4. ASSUME NEW k \in Procs, kid[k] = "stopping"
        PROVE  \E q \in Procs : proc'[q].pc \in {"kill", "kill9"} /\ proc'[q].target = k
    <3>1. PICK q \in Procs : proc[q].pc \in {"kill", "kill9"} /\ proc[q].target = k
      BY <2>4 DEF Recorded
    <3> QED BY <1>14, <3>1 DEF Local
  <2>5. ASSUME NEW k \in Procs, kid'[k] \in LivingKids PROVE OnRecord(k)'
    <3>1. CASE k = p
      BY <1>14, <3>1 DEF OnRecord
    <3>2. CASE k # p
      <4>1. kid[k] = "stopping"
        <5>1. kid[k] # "starting"
          BY <2>1, <3>2, <1>14 DEF Flight, FlightOk, Holding, Waiting
        <5>2. kid[k] # "serving"
          BY <1>14, <3>2 DEF Flight, Starting
        <5> QED BY <1>14, <2>5, <5>1, <5>2
      <4>2. PICK q \in Procs : proc'[q].pc \in {"kill", "kill9"} /\ proc'[q].target = k
        BY <2>4, <4>1
      <4> QED BY <4>2 DEF OnRecord, Runs
    <3> QED BY <3>1, <3>2
  <2> QED BY <1>14, <2>2, <2>4, <2>5 DEF Recorded
<1>15. CASE Truncate(p)
  <2>1. PICK by \in Procs :
          /\ Local(p) /\ proc'[p].pc = "record" /\ proc'[p].fd = by
          /\ proc'[p].target = proc[p].target
          /\ pidfile' = [by |-> by, pid |-> Nobody]
    BY <1>15, TruncateEffect
  <2>2. proc[p].pc = "truncate" /\ kid' = kid
    BY <1>15 DEF Truncate
  <2>3. proc[p].target = Nobody
    BY <1>0, <2>2 DEF StopOk
  <2> QED BY <1>14, <2>1, <2>2, <2>3
<1>16. CASE Record(p)
  <2>1. Moves(p, "await") /\ proc[p].pc = "record" /\ kid' = kid
    BY <1>16, GotoEffect DEF Record
  <2>2. proc[p].target = Nobody
    BY <1>0, <2>1 DEF StopOk
  <2>3. pidfile'.pid = p
    BY <1>16, <2>1 DEF Record, Recorded, TypeOK, PidFile
  <2> QED BY <1>14, <2>1, <2>2, <2>3 DEF Moves
<1>17. CASE StopRead(p)
  <2>1. CASE Return(p, "no")
    BY <1>1, <1>17, <2>1, ReturnEffect DEF StopRead, Leaves, files
  <2>2. CASE ~Return(p, "no")
    <3> DEFINE k == pidfile.pid
    <3>1. k \in Procs
      BY <1>17, <2>2 DEF StopRead, TypeOK, PidFile
    <3>2. PICK pc \in {"term", "unpid"} : Takes(p, k, pc)
      BY <1>17, <2>2 DEF StopRead, Takes
    <3>3. proc'[p].pc # "record" /\ Local(p)
      BY <3>1, <3>2, TargetEffect
    <3> QED BY <1>1, <1>17, <3>3 DEF StopRead, files
  <2> QED BY <2>1, <2>2
<1>18. CASE Terminate(p)
  <2> DEFINE k == proc[p].target
  <2>1. k \in Procs /\ proc[p].pc = "term" /\ pidfile' = pidfile
    BY <1>0, <1>18 DEF Terminate, StopOk, files
  <2>2. CASE Return(p, "no") /\ kid' = kid /\ ~Alive(k)
    BY <1>2, <2>1, <2>2, ReturnEffect DEF Alive
  <2>3. CASE Goto(p, "kill") /\ Alive(k)
             /\ kid' = [kid EXCEPT ![k] = IF @ = "starting" THEN "dead" ELSE "stopping"]
    <3>1. Moves(p, "kill")
      BY <2>3, GotoEffect
    <3>2. kid'[k] \in {"dead", "stopping"} /\ \A j \in Procs \ {k} : kid'[j] = kid[j]
      BY <2>1, <2>3 DEF TypeOK
    <3> HIDE DEF k
    <3>3. ASSUME NEW q \in Procs, proc'[q].pc = "record"
          PROVE  pidfile'.by = proc'[q].fd /\ pidfile'.pid = Nobody
      BY <2>1, <3>1, <3>3 DEF Recorded, Moves, Local
    <3>4. proc'[p].pc = "kill" /\ proc'[p].target = k
      BY <3>1 DEF Moves, k
    <3>5. ASSUME NEW j \in Procs, kid'[j] = "stopping"
          PROVE  \E q \in Procs : proc'[q].pc \in {"kill", "kill9"} /\ proc'[q].target = j
      <4>1. CASE j = k
        BY <3>4, <4>1
      <4>2. CASE j # k
        <5>1. PICK q \in Procs : proc[q].pc \in {"kill", "kill9"} /\ proc[q].target = j
          BY <3>2, <3>5, <4>2 DEF Recorded
        <5>2. q # p
          BY <2>1, <5>1
        <5> QED BY <3>1, <5>1, <5>2 DEF Moves, Local
      <4> QED BY <4>1, <4>2
    <3>6. ASSUME NEW j \in Procs, kid'[j] \in LivingKids PROVE OnRecord(j)'
      <4>1. CASE j = k
        BY <3>4, <4>1 DEF OnRecord, Runs
      <4>2. CASE j # k
        <5>1. OnRecord(j)
          BY <3>2, <3>6, <4>2 DEF Recorded
        <5>2. ASSUME NEW q \in Procs, Runs(q), proc[q].target = j PROVE OnRecord(j)'
          BY <3>1, <4>2, <5>2 DEF OnRecord, Moves, Local, Runs, k
        <5> QED BY <2>1, <3>1, <5>1, <5>2 DEF OnRecord, Moves, Local
      <4> QED BY <4>1, <4>2
    <3> QED BY <3>3, <3>5, <3>6 DEF Recorded
  <2> QED BY <1>18, <2>2, <2>3 DEF Terminate
<1>19. CASE KillCheck(p)
  <2>1. PICK pc \in {"kill9", "unpid"} :
          Goto(p, pc) /\ (pc = "unpid" => ~Alive(proc[p].target))
    BY <1>19 DEF KillCheck
  <2>2. Moves(p, pc) /\ pidfile' = pidfile /\ kid' = kid /\ proc[p].pc = "kill"
    BY <1>19, <2>1, GotoEffect DEF KillCheck, files
  <2> QED BY <2>1, <2>2, QuietRecord DEF Moves, Alive, Runs
<1>20. CASE Kill(p)
  <2> DEFINE k == proc[p].target
  <2>1. k \in Procs /\ proc[p].pc = "kill9" /\ pidfile' = pidfile
    BY <1>0, <1>20 DEF Kill, StopOk, files
  <2>2. CASE Return(p, "no") /\ kid' = kid /\ ~Alive(k)
    BY <1>2, <2>1, <2>2, ReturnEffect DEF Alive
  <2>3. CASE Goto(p, "unpid") /\ kid' = [kid EXCEPT ![k] = "dead"]
    <3>1. Moves(p, "unpid")
      BY <2>3, GotoEffect
    <3>2. kid'[k] = "dead" /\ \A j \in Procs \ {k} : kid'[j] = kid[j]
      BY <2>1, <2>3 DEF TypeOK
    <3> QED BY <2>1, <3>1, <3>2, QuietRecord DEF Moves
  <2> QED BY <1>20, <2>2, <2>3 DEF Kill
<1>21. CASE DropPid(p)
  <2>1. /\ Moves(p, "unlock") /\ pidfile' = NoPid /\ kid' = kid /\ proc[p].pc = "unpid"
        /\ pidfile.pid = proc[p].target
    BY <1>21, GotoEffect DEF DropPid, MishapIf
  <2>2. proc[p].target \in Procs /\ kid[proc[p].target] \notin LivingKids
    BY <1>0, <2>1 DEF StopOk
  <2>3. \A q \in Procs : proc[q].pc # "record"
    BY <2>1, <2>2 DEF Recorded
  <2>4. \A q \in Procs : proc'[q].pc # "record"
    BY <2>1, <2>3 DEF Moves, Local
  <2>5. ASSUME NEW k \in Procs, kid'[k] = "stopping"
        PROVE  \E q \in Procs : proc'[q].pc \in {"kill", "kill9"} /\ proc'[q].target = k
    <3>1. PICK q \in Procs : proc[q].pc \in {"kill", "kill9"} /\ proc[q].target = k
      BY <2>1, <2>5 DEF Recorded
    <3> QED BY <2>1, <3>1 DEF Moves, Local
  <2>6. ASSUME NEW k \in Procs, kid'[k] \in LivingKids PROVE OnRecord(k)'
    <3>1. OnRecord(k) /\ k # proc[p].target
      BY <2>1, <2>2, <2>6 DEF Recorded
    <3>2. ASSUME NEW q \in Procs, Runs(q), proc[q].target = k PROVE OnRecord(k)'
      BY <2>1, <3>1, <3>2 DEF OnRecord, Moves, Local, Runs
    <3> QED BY <2>1, <3>1, <3>2 DEF OnRecord, Moves, Local
  <2> QED BY <2>4, <2>5, <2>6 DEF Recorded
<1>22. CASE DropLock(p)
  <2>1. kid[proc[p].target] \notin LivingKids
    BY <1>0, <1>22 DEF DropLock, StopOk
  <2> QED BY <1>2, <1>22, <2>1, ReturnEffect DEF DropLock
<1> QED BY <1>3, <1>4, <1>5, <1>7, <1>8, <1>9, <1>10, <1>12, <1>13, <1>15, <1>16, <1>17,
           <1>18, <1>19, <1>20, <1>21, <1>22 DEF Command

LEMMA InitRecorded == Init => RecordedInv
BY DEF Init, NewProcess, RecordedInv, Recorded, LivingKids

LEMMA NextRecorded ==
  TypeOK /\ StopInv /\ FlightInv /\ RecordedInv /\ [Next]_vars => RecordedInv'
<1> SUFFICES ASSUME TypeOK, StopInv, FlightInv, RecordedInv, [Next]_vars, upset' = "no"
             PROVE  Recorded'
  BY DEF RecordedInv
<1>1. CASE UNCHANGED vars
  BY <1>1 DEF RecordedInv, Recorded, OnRecord, Runs, vars, files
<1>2. ASSUME NEW p \in Procs,
             Begin(p) \/ Command(p) \/ Bind(p) \/ ChildEnds(p) \/ Die(p)
      PROVE  Recorded'
  <2>1. upset = "no"
    BY <1>2, MishapsLast
  <2> QED BY <1>2, <2>1, RecordStep DEF FlightInv, RecordedInv
<1> QED BY <1>1, <1>2 DEF Next, AllEnded

(* As long as no mishap happens the PID file never loses a running child:  *)
(* it names it, or is about to, or a stop is at work on it.                *)
THEOREM NoProxyIsLost == Spec => []ProxyIsOnRecord
<1>1. RecordedInv => ProxyIsOnRecord
  BY DEF RecordedInv, Recorded, OnRecord, ProxyIsOnRecord, Alive, LivingKids
<1> QED BY <1>1, InitRecorded, NextRecorded, InitFlight, NextFlight, InitStopInv, NextStopInv,
           SupervisorTyping, PTL DEF Spec

-----------------------------------------------------------------------------
(* Every command is finite work.                                           *)

\* The system calls, probes and signals still ahead of a command whose next
\* attempt on the lock is its last ...
Ahead(pc) ==
  CASE pc \in {"probe", "pid"} -> 15
    [] pc = "clean"    -> 14  [] pc = "parse"    -> 13
    [] pc = "stale"    -> 12  [] pc \in {"stalepid", "corrupt"} -> 11
    [] pc = "create"   -> 10  [] pc = "fill"     -> 9
    [] pc = "recheck"  -> 8   [] pc = "spawn"    -> 7
    [] pc \in {"truncate", "readpid"} -> 6
    [] pc \in {"record", "term"}      -> 5
    [] pc \in {"await", "kill"}       -> 4
    [] pc \in {"release", "kill9"}    -> 3
    [] pc \in {"relread", "unpid"}    -> 2
    [] pc \in {"reldrop", "unlock", "watch"} -> 1
    [] OTHER -> 0

\* ... and the attempts it may still add, five steps each.
Locking(pc) == pc \in CleanPCs \cup {"probe", "pid", "create"}
TriesLeft(p) == IF Locking(proc[p].pc) THEN Tries - proc[p].tries ELSE 0
Left(p) == 5 * TriesLeft(p) + Ahead(proc[p].pc)

WorkBounded == \A p \in Procs : Left(p) \in 0..(5 * Tries + 15)
WorkDone ==
  [][\A p \in Procs : At(p, "idle") \/ proc'[p] = proc[p] \/ Left(p)' < Left(p)]_vars

LEMMA AheadBounds ==
  ASSUME NEW pc \in PCs
  PROVE  Ahead(pc) \in 0..15 /\ (pc \in {"idle"} \cup Ended \/ Ahead(pc) > 0)
BY DEF PCs, EnsurePCs, CleanPCs, StopPCs, Ended, Ahead

LEMMA AheadTable ==
  /\ Ahead("probe") = 15 /\ Ahead("pid") = 15 /\ Ahead("clean") = 14 /\ Ahead("parse") = 13
  /\ Ahead("stale") = 12 /\ Ahead("stalepid") = 11 /\ Ahead("corrupt") = 11
  /\ Ahead("create") = 10 /\ Ahead("fill") = 9 /\ Ahead("recheck") = 8 /\ Ahead("spawn") = 7
  /\ Ahead("truncate") = 6 /\ Ahead("record") = 5 /\ Ahead("await") = 4
  /\ Ahead("release") = 3 /\ Ahead("relread") = 2 /\ Ahead("reldrop") = 1
  /\ Ahead("readpid") = 6 /\ Ahead("term") = 5 /\ Ahead("kill") = 4 /\ Ahead("kill9") = 3
  /\ Ahead("unpid") = 2 /\ Ahead("unlock") = 1 /\ Ahead("watch") = 1 /\ Ahead("done") = 0
BY DEF Ahead

LEMMA TriesBounds ==
  ASSUME TypeOK, NEW p \in Procs
  PROVE  /\ Tries \in Nat /\ TriesLeft(p) \in 0..Tries
         /\ proc[p].tries \in 0..Tries /\ proc[p].pc \in PCs
<1>1. proc[p].tries \in 0..Tries /\ proc[p].pc \in PCs
  BY DEF TypeOK, Process
<1> QED BY <1>1 DEF TriesLeft

\* A step that goes on within an attempt, or has done with the lock, has less
\* ahead of it ...
LEMMA OnWorks ==
  ASSUME TypeOK, NEW p \in Procs, proc'[p].pc \in PCs,
         Ahead(proc'[p].pc) < Ahead(proc[p].pc),
         Locking(proc'[p].pc) => Locking(proc[p].pc) /\ proc'[p].tries = proc[p].tries
  PROVE  Left(p)' < Left(p)
<1>1. TriesLeft(p)' \in {0, TriesLeft(p)} /\ TriesLeft(p) \in Nat
  BY TriesBounds DEF TriesLeft
<1>2. Ahead(proc[p].pc) \in Nat /\ Ahead(proc'[p].pc) \in Nat
  BY TriesBounds, AheadBounds
<1>3. Left(p)' = 5 * TriesLeft(p)' + Ahead(proc'[p].pc)
  BY DEF Left
<1> QED BY <1>1, <1>2, <1>3 DEF Left

\* ... and a failed attempt on the lock is one fewer.
LEMMA RetryWorks ==
  ASSUME TypeOK, NEW p \in Procs, At(p, "create"), proc[p].tries < Tries,
         proc'[p].pc = "clean", proc'[p].tries = proc[p].tries + 1
  PROVE  Left(p)' < Left(p)
<1>1. Locking("create") /\ Locking("clean") /\ Ahead("create") = 10 /\ Ahead("clean") = 14
  BY DEF Locking, CleanPCs, Ahead
<1>2. TriesLeft(p) = Tries - proc[p].tries /\ TriesLeft(p)' = Tries - proc[p].tries - 1
  BY <1>1, TriesBounds DEF TriesLeft, At
<1>3. Left(p) = 5 * TriesLeft(p) + 10 /\ Left(p)' = 5 * TriesLeft(p)' + 14
  BY <1>1 DEF Left, At
<1>4. Tries \in Nat /\ proc[p].tries \in Nat
  BY TriesBounds
<1> QED BY <1>2, <1>3, <1>4

LEMMA CommandWorks ==
  ASSUME TypeOK, NEW p \in Procs, Command(p) \/ Die(p) PROVE Left(p)' < Left(p)
<1>1. ASSUME NEW pc \in PCs, Goto(p, pc), Ahead(pc) < Ahead(proc[p].pc),
             Locking(pc) => Locking(proc[p].pc)
      PROVE  Left(p)' < Left(p)
  <2>1. Moves(p, pc)
    BY <1>1, GotoEffect
  <2> QED BY <1>1, <2>1, OnWorks DEF Moves
<1>2. ASSUME NEW result \in {"yes", "no"}, Return(p, result), Ahead(proc[p].pc) > 0
      PROVE  Left(p)' < Left(p)
  <2>1. Leaves(p, "done", result)
    BY <1>2, ReturnEffect
  <2>2. "done" \in PCs /\ ~Locking("done") /\ Ahead("done") = 0
    BY DEF PCs, Ended, Locking, CleanPCs, Ahead
  <2> QED BY <1>2, <2>1, <2>2, OnWorks DEF Leaves
<1>3. ASSUME NEW result \in {"yes", "no"}, Release(p, result), Ahead(proc[p].pc) > 3
      PROVE  Left(p)' < Left(p)
  <2>1. Leaves(p, "release", result)
    BY <1>3, ReleaseEffect
  <2>2. "release" \in PCs /\ ~Locking("release") /\ Ahead("release") = 3
    BY DEF PCs, EnsurePCs, Locking, CleanPCs, Ahead
  <2> QED BY <1>3, <2>1, <2>2, OnWorks DEF Leaves
<1>4. CASE Die(p)
  <2>1. Ahead(proc[p].pc) > 0
    BY <1>4, TriesBounds, AheadBounds DEF Die, Runs
  <2>2. "dead" \in PCs /\ ~Locking("dead") /\ Ahead("dead") = 0
    BY DEF PCs, Ended, Locking, CleanPCs, Ahead
  <2> QED BY <1>1, <1>4, <2>1, <2>2 DEF Die
<1> USE AheadTable DEF At, Locking, PCs, EnsurePCs, CleanPCs, StopPCs, Ended
<1>5. ASSUME AfterClean(p), Ahead(proc[p].pc) > 10, Locking(proc[p].pc)
      PROVE  Left(p)' < Left(p)
  BY <1>1, <1>2, <1>5 DEF AfterClean
<1>6. CASE CleanCheck(p) \/ CleanParse(p) \/ DropCorrupt(p) \/ DropStale(p) \/ DropStalePid(p)
  BY <1>1, <1>5, <1>6 DEF CleanCheck, CleanParse, DropCorrupt, DropStale, DropStalePid
<1>7. CASE Probe(p) \/ Watch(p)
  BY <1>1, <1>2, <1>7 DEF Probe, Watch
<1>8. CASE Create(p)
  <2>1. CASE lock = NoLock
    BY <1>1, <1>8, <2>1 DEF Create
  <2>2. CASE lock # NoLock
    BY <1>8, <2>2, RetryEffect, RetryWorks DEF Create
  <2> QED BY <2>1, <2>2
<1>9. CASE NoLockFor(p) \/ Fill(p) \/ Record(p) \/ ReleaseCheck(p) \/ ReleaseRead(p)
           \/ ReleaseDrop(p)
  BY <1>1, <1>9 DEF NoLockFor, Fill, Record, ReleaseCheck, ReleaseRead, ReleaseDrop
<1>10. CASE Recheck(p) \/ Spawn(p) \/ RecordFails(p) \/ Await(p)
  BY <1>1, <1>3, <1>10 DEF Recheck, Spawn, RecordFails, Await
<1>11. CASE Truncate(p)
  <2>1. proc'[p].pc = "record" /\ At(p, "truncate")
    BY <1>11, TruncateEffect DEF Truncate
  <2> QED BY <2>1, OnWorks
<1>12. CASE StopRead(p)
  <2>1. CASE Return(p, "no")
    BY <1>2, <1>12, <2>1 DEF StopRead
  <2>2. CASE ~Return(p, "no")
    <3>1. pidfile.pid \in Procs
      BY <1>12, <2>2 DEF StopRead, TypeOK, PidFile
    <3>2. PICK pc \in {"term", "unpid"} : Takes(p, pidfile.pid, pc)
      BY <1>12, <2>2 DEF StopRead, Takes
    <3>3. proc'[p].pc = pc
      BY <3>1, <3>2, TargetEffect
    <3> QED BY <1>12, <3>3, OnWorks DEF StopRead
  <2> QED BY <2>1, <2>2
<1>13. CASE StopCheck(p) \/ KillCheck(p) \/ DropPid(p)
  BY <1>1, <1>13 DEF StopCheck, KillCheck, DropPid
<1>14. CASE Terminate(p) \/ Kill(p) \/ DropLock(p)
  BY <1>1, <1>2, <1>14 DEF Terminate, Kill, DropLock
<1> QED BY <1>4, <1>6, <1>7, <1>8, <1>9, <1>10, <1>11, <1>12, <1>13, <1>14 DEF Command

(* The safety half of CommandsEnd, for any number of commands and of       *)
(* attempts on the lock: whatever the files hold, whatever the other       *)
(* commands and the children do to them, a start or a stop takes at most   *)
(* 5 * Tries + 15 steps, and when it has ended it takes none.  No turn of  *)
(* acquire_lock's loop is taken without using up an attempt.               *)
THEOREM CommandsAreFinite == Spec => []WorkBounded /\ WorkDone
<1>1. TypeOK => WorkBounded
  BY TriesBounds, AheadBounds DEF WorkBounded, Left
<1>2. ASSUME TypeOK, [Next]_vars
      PROVE  [\A p \in Procs : At(p, "idle") \/ proc'[p] = proc[p] \/ Left(p)' < Left(p)]_vars
  <2> SUFFICES ASSUME NEW p \in Procs, ~At(p, "idle"), proc'[p] # proc[p]
               PROVE  Left(p)' < Left(p)
    OBVIOUS
  <2>1. PICK q \in Procs : Begin(q) \/ Command(q) \/ Die(q)
    BY <1>2 DEF Next, AllEnded, vars, Bind, ChildEnds
  <2>2. q = p
    BY <1>2, <2>1, OthersStay
  <2> QED BY <1>2, <2>1, <2>2, CommandWorks DEF Begin
<1> QED BY <1>1, <1>2, SupervisorTyping, PTL DEF Spec, WorkDone
=============================================================================
