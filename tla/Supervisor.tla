---------------------------- MODULE Supervisor -----------------------------
(***************************************************************************)
(* Starting and stopping the background proxy (proxy/supervisor.py): the   *)
(* lock file, the PID file, the health probe and the child that binds the  *)
(* port (proxy/launcher.py).                                               *)
(*                                                                         *)
(* Each process runs one command, ensure_proxy_running or stop_proxy, and  *)
(* spawns at most one child, which bears its name.  An action is one       *)
(* system call on the shared files, one probe or one signal.  Process ids  *)
(* are not reused.                                                         *)
(***************************************************************************)
EXTENDS Integers, FiniteSets

CONSTANTS
  Starters, Stoppers,  \* processes that run ensure_proxy_running, stop_proxy
  Nobody,
  Tries    \* bound: attempts on the lock before acquire_lock's deadline

Procs == Starters \cup Stoppers

ASSUME SupervisorAssumption ==
  /\ Starters \cap Stoppers = {} /\ Nobody \notin Procs
  /\ Tries \in Nat \ {0}

VARIABLES
  proc,     \* what each process is doing, and its local variables
  lock,     \* proxy.lock: who created it, and whether its JSON is written
  pidfile,  \* proxy.pid: who created it, and the child it names
  kid,      \* the child each process has spawned
  upset,    \* ghost: whether a mishap has happened (see SingleFlight)
  company   \* ghost: processes that ran beside another one

files == <<lock, pidfile>>
vars == <<proc, lock, pidfile, kid, upset, company>>

Ended == {"done", "dead"}
EnsurePCs == {"probe", "create", "fill", "recheck", "spawn", "truncate", "record", "await",
              "release", "relread", "reldrop", "watch"}
CleanPCs == {"clean", "parse", "corrupt", "stale", "stalepid"}
StopPCs  == {"pid", "readpid", "term", "kill", "kill9", "unpid", "unlock"}
PCs == {"idle"} \cup EnsurePCs \cup CleanPCs \cup StopPCs \cup Ended

Process == [pc : PCs, tries : 0..Tries, fd : Procs \cup {Nobody},
            target : Procs \cup {Nobody}, result : {"none", "yes", "no"}]
NewProcess == [pc |-> "idle", tries |-> 0, fd |-> Nobody,
               target |-> Nobody, result |-> "none"]

LockFile == [by : Procs \cup {Nobody}, text : {"empty", "full"}]
NoLock   == [by |-> Nobody, text |-> "empty"]
PidFile  == [by : Procs \cup {Nobody}, pid : Procs \cup {Nobody}]
NoPid    == [by |-> Nobody, pid |-> Nobody]

\* "collided": dead of an occupied port.  "stopping": has had SIGTERM.
Kids == {"none", "starting", "serving", "stopping", "dead", "collided"}

TypeOK ==
  /\ proc \in [Procs -> Process]
  /\ lock \in LockFile /\ pidfile \in PidFile
  /\ kid \in [Procs -> Kids]
  /\ upset \in {"no", "yes"}
  /\ company \in SUBSET Procs

Init ==
  /\ proc = [p \in Procs |-> NewProcess]
  /\ lock = NoLock /\ pidfile = NoPid
  /\ kid = [p \in Procs |-> "none"]
  /\ upset = "no" /\ company = {}

At(p, pc)  == proc[p].pc = pc
Runs(p)    == proc[p].pc \notin Ended \cup {"idle"}
Alive(k)   == kid[k] \in {"starting", "serving", "stopping"}
Served     == \E k \in Procs : kid[k] = "serving"

Goto(p, pc) == proc' = [proc EXCEPT ![p].pc = pc]
Return(p, result) ==
  proc' = [proc EXCEPT ![p].pc = "done", ![p].result = result, ![p].tries = 0]
Mishap     == upset' = "yes"
MishapIf(b) == upset' = IF b THEN "yes" ELSE upset

Begin(p) ==
  /\ At(p, "idle")
  /\ Goto(p, IF p \in Starters THEN "probe" ELSE "pid")
  /\ LET others == {q \in Procs : Runs(q)} IN
       company' = IF others = {} THEN company ELSE company \cup others \cup {p}
  /\ UNCHANGED <<files, kid, upset>>

-----------------------------------------------------------------------------
(* clean_stale_lock, at the head of acquire_lock, after each failed        *)
(* attempt, and in stop_proxy when there is no PID file.                   *)

AfterClean(p) ==
  IF p \in Starters THEN Goto(p, "create") ELSE Return(p, "yes")

CleanCheck(p) ==
  /\ At(p, "clean")
  /\ IF lock = NoLock THEN AfterClean(p) ELSE Goto(p, "parse")
  /\ UNCHANGED <<files, kid, upset, company>>

\* Mutant: the recorded process is not looked up.
CleanParse_Trusts(p) ==
  /\ At(p, "parse")
  /\ \/ lock.text = "empty" /\ Goto(p, "corrupt")
     \/ lock.text = "full" /\ AfterClean(p)
  /\ UNCHANGED <<files, kid, upset, company>>
\* The text does not parse while the file is empty, and there is none to read
\* when it was unlinked since the check: both go the way of a corrupt file.
CleanParse(p) ==
  /\ At(p, "parse")
  /\ \/ lock.text = "empty" /\ Goto(p, "corrupt")
     \/ lock.text = "full" /\ Runs(lock.by) /\ AfterClean(p)
     \/ lock.text = "full" /\ ~Runs(lock.by) /\ Goto(p, "stale")
  /\ UNCHANGED <<files, kid, upset, company>>

\* The path is unlinked, whatever file is there by now.
Unlink(p) == lock' = NoLock

DropCorrupt(p) ==
  /\ At(p, "corrupt")
  /\ AfterClean(p)
  /\ Unlink(p)
  /\ MishapIf(lock # NoLock /\ Runs(lock.by))
  /\ UNCHANGED <<pidfile, kid, company>>

DropStale(p) ==
  /\ At(p, "stale")
  /\ Goto(p, "stalepid")
  /\ Unlink(p)
  /\ UNCHANGED <<pidfile, kid, upset, company>>

DropStalePid(p) ==
  /\ At(p, "stalepid")
  /\ AfterClean(p)
  /\ pidfile' = NoPid
  /\ UNCHANGED <<lock, kid, upset, company>>

-----------------------------------------------------------------------------
(* ensure_proxy_running.                                                   *)

\* Nothing serves, or its answer takes more than half a second; then the
\* proxy may turn out not to be configured.
Probe(p) ==
  /\ At(p, "probe")
  /\ \/ Served /\ Return(p, "yes")
     \/ Goto(p, "clean")
     \/ Return(p, "no")
  /\ UNCHANGED <<files, kid, upset, company>>

\* Mutant: the loop does not look at its deadline.
Create_NoDeadline(p) ==
  /\ At(p, "create")
  /\ IF lock = NoLock
     THEN /\ lock' = [by |-> p, text |-> "empty"]
          /\ Goto(p, "fill")
     ELSE /\ proc' = [proc EXCEPT ![p].tries = @ + 1, ![p].pc = "clean"]
          /\ UNCHANGED lock
  /\ UNCHANGED <<pidfile, kid, upset, company>>
\* Exclusive creation, and the text written in a second step.
Create(p) ==
  /\ At(p, "create") /\ proc[p].tries < Tries
  /\ IF lock = NoLock
     THEN /\ lock' = [by |-> p, text |-> "empty"]
          /\ Goto(p, "fill")
     ELSE /\ proc' = [proc EXCEPT ![p].tries = @ + 1, ![p].pc = "clean"]
          /\ UNCHANGED lock
  /\ UNCHANGED <<pidfile, kid, upset, company>>

\* The deadline passes, or creating or writing fails: no lock, and the file
\* stays as it is.
NoLockFor(p) ==
  /\ \/ At(p, "create") /\ proc[p].tries = Tries
     \/ At(p, "create") /\ proc[p].tries < Tries
     \/ At(p, "fill")
  /\ Goto(p, "watch")
  /\ UNCHANGED <<files, kid, upset, company>>

\* Writing is to the open file, which need no longer be the one at the path.
Fill(p) ==
  /\ At(p, "fill")
  /\ lock' = IF lock.by = p THEN [lock EXCEPT !.text = "full"] ELSE lock
  /\ Goto(p, "recheck")
  /\ UNCHANGED <<pidfile, kid, upset, company>>

Release(p, result) ==
  proc' = [proc EXCEPT ![p].pc = "release", ![p].result = result,
                       ![p].tries = 0, ![p].fd = Nobody]

\* Mutant: no second probe once the lock is held.
Recheck_Dropped(p) ==
  /\ At(p, "recheck")
  /\ Goto(p, "spawn")
  /\ UNCHANGED <<files, kid, upset, company>>
Recheck(p) ==
  /\ At(p, "recheck")
  /\ \/ Served /\ Release(p, "yes") /\ UNCHANGED upset
     \/ Goto(p, "spawn") /\ MishapIf(Served)
  /\ UNCHANGED <<files, kid, company>>

\* Popen, or its failure.
Spawn(p) ==
  /\ At(p, "spawn")
  /\ \/ kid' = [kid EXCEPT ![p] = "starting"] /\ Goto(p, "truncate")
     \/ Release(p, "no") /\ UNCHANGED kid
  /\ UNCHANGED <<files, upset, company>>

\* write_text opens the file, creating or emptying it, ...
Truncate(p) ==
  /\ At(p, "truncate")
  /\ LET by == IF pidfile.by = Nobody THEN p ELSE pidfile.by IN
       /\ pidfile' = [by |-> by, pid |-> Nobody]
       /\ proc' = [proc EXCEPT ![p].pc = "record", ![p].fd = by]
  /\ UNCHANGED <<lock, kid, upset, company>>

\* Mutant: the child's number is not recorded.
Record_Skipped(p) ==
  /\ At(p, "record")
  /\ Goto(p, "await")
  /\ UNCHANGED <<files, kid, upset, company>>
\* ... and writes to it.
Record(p) ==
  /\ At(p, "record")
  /\ pidfile' = IF pidfile.by = proc[p].fd THEN [pidfile EXCEPT !.pid = p] ELSE pidfile
  /\ Goto(p, "await")
  /\ UNCHANGED <<lock, kid, upset, company>>

\* Either may fail, and the child runs on.
RecordFails(p) ==
  /\ At(p, "truncate") \/ At(p, "record")
  /\ Release(p, "no") /\ Mishap
  /\ UNCHANGED <<files, kid, company>>

\* The child answers in time, or the deadline passes.
Await(p) ==
  /\ At(p, "await")
  /\ \/ Served /\ Release(p, "yes") /\ UNCHANGED upset
     \/ Release(p, "no") /\ MishapIf(Alive(p))
  /\ UNCHANGED <<files, kid, company>>

ReleaseCheck(p) ==
  /\ At(p, "release")
  /\ Goto(p, IF lock = NoLock THEN "done" ELSE "relread")
  /\ UNCHANGED <<files, kid, upset, company>>

\* One's own lock is unlinked, and so is one that does not parse.
ReleaseRead(p) ==
  /\ At(p, "relread")
  /\ Goto(p, IF lock.text = "empty" \/ lock.by = p THEN "reldrop" ELSE "done")
  /\ UNCHANGED <<files, kid, upset, company>>

ReleaseDrop(p) ==
  /\ At(p, "reldrop")
  /\ Unlink(p) /\ Goto(p, "done")
  /\ UNCHANGED <<pidfile, kid, upset, company>>

\* Mutant: no deadline.
Watch_Forever(p) ==
  /\ At(p, "watch")
  /\ Served /\ Return(p, "yes")
  /\ UNCHANGED <<files, kid, upset, company>>
\* Without the lock: perhaps the other process brings the proxy up.
Watch(p) ==
  /\ At(p, "watch")
  /\ \/ Served /\ Return(p, "yes")
     \/ Return(p, "no")
  /\ UNCHANGED <<files, kid, upset, company>>

-----------------------------------------------------------------------------
(* stop_proxy.                                                             *)

StopCheck(p) ==
  /\ At(p, "pid")
  /\ Goto(p, IF pidfile = NoPid THEN "clean" ELSE "readpid")
  /\ UNCHANGED <<files, kid, upset, company>>

\* A file that is gone, or empty, is an error.
StopRead(p) ==
  /\ At(p, "readpid")
  /\ LET k == pidfile.pid IN
       \/ k = Nobody /\ Return(p, "no")
       \/ /\ k # Nobody
          /\ proc' = [proc EXCEPT ![p].target = k, ![p].pc = IF Alive(k) THEN "term" ELSE "unpid"]
  /\ UNCHANGED <<files, kid, upset, company>>

\* A child that has not installed its handlers dies at once.  To signal one
\* that is gone meanwhile is an error.
Terminate(p) ==
  /\ At(p, "term")
  /\ LET k == proc[p].target IN
       \/ /\ Alive(k) /\ Goto(p, "kill")
          /\ kid' = [kid EXCEPT ![k] = IF @ = "starting" THEN "dead" ELSE "stopping"]
       \/ ~Alive(k) /\ Return(p, "no") /\ UNCHANGED kid
  /\ UNCHANGED <<files, upset, company>>

KillCheck(p) ==
  /\ At(p, "kill")
  /\ Goto(p, IF Alive(proc[p].target) THEN "kill9" ELSE "unpid")
  /\ UNCHANGED <<files, kid, upset, company>>

\* Mutant: one signal is deemed enough.
Kill_Trusting(p) ==
  /\ At(p, "kill9")
  /\ Goto(p, "unpid")
  /\ UNCHANGED <<files, kid, upset, company>>
Kill(p) ==
  /\ At(p, "kill9")
  /\ LET k == proc[p].target IN
       \/ Alive(k) /\ Goto(p, "unpid") /\ kid' = [kid EXCEPT ![k] = "dead"]
       \/ ~Alive(k) /\ Return(p, "no") /\ UNCHANGED kid
  /\ UNCHANGED <<files, upset, company>>

\* Both files go, whosever they are by now.
DropPid(p) ==
  /\ At(p, "unpid")
  /\ pidfile' = NoPid /\ Goto(p, "unlock")
  /\ MishapIf(pidfile.pid # proc[p].target)
  /\ UNCHANGED <<lock, kid, company>>

DropLock(p) ==
  /\ At(p, "unlock")
  /\ Unlink(p) /\ Return(p, "yes")
  /\ MishapIf(lock # NoLock /\ Runs(lock.by))
  /\ UNCHANGED <<pidfile, kid, company>>

-----------------------------------------------------------------------------
(* The children, and death.                                                *)

\* launcher.main binds the port, and exits when it is taken.
Bind(k) ==
  /\ kid[k] = "starting"
  /\ kid' = [kid EXCEPT ![k] = IF Served THEN "collided" ELSE "serving"]
  /\ UNCHANGED <<proc, files, upset, company>>

\* A child fails before it serves, crashes, or ends its graceful shutdown.
ChildEnds(k) ==
  /\ Alive(k)
  /\ kid' = [kid EXCEPT ![k] = "dead"]
  /\ UNCHANGED <<proc, files, upset, company>>

\* A command is killed; its files and its child stay.
Die(p) ==
  /\ Runs(p)
  /\ Goto(p, "dead") /\ Mishap
  /\ UNCHANGED <<files, kid, company>>

AllEnded ==
  /\ \A p \in Procs : proc[p].pc \in Ended
  /\ UNCHANGED vars

Command(p) ==
  \/ CleanCheck(p) \/ CleanParse(p) \/ DropCorrupt(p) \/ DropStale(p) \/ DropStalePid(p)
  \/ Probe(p) \/ Create(p) \/ NoLockFor(p) \/ Fill(p) \/ Recheck(p) \/ Spawn(p)
  \/ Truncate(p) \/ Record(p) \/ RecordFails(p) \/ Await(p)
  \/ ReleaseCheck(p) \/ ReleaseRead(p) \/ ReleaseDrop(p) \/ Watch(p)
  \/ StopCheck(p) \/ StopRead(p) \/ Terminate(p) \/ KillCheck(p) \/ Kill(p)
  \/ DropPid(p) \/ DropLock(p)

Next ==
  \/ \E p \in Procs : Begin(p) \/ Command(p) \/ Bind(p) \/ ChildEnds(p) \/ Die(p)
  \/ AllEnded

\* A command that has begun goes on; its waits have deadlines.
Spec == Init /\ [][Next]_vars /\ \A p \in Procs : WF_vars(Command(p))
-----------------------------------------------------------------------------
(* Correctness.                                                            *)

Starting(p) == proc[p].pc \in {"spawn", "truncate", "record", "await"}

\* However starts race, one of them at a time spawns and waits, and no child
\* finds the port taken, as long as none of the mishaps has happened: a lock
\* read before its text is written, a start slower than the supervisor waits,
\* a probe that a busy proxy does not answer, a command killed, a full disk, a
\* stop that unlinks what is not its target's.
SingleFlight ==
  upset = "no" =>
    /\ \A p, q \in Procs : Starting(p) /\ Starting(q) => p = q
    /\ \A k \in Procs : kid[k] # "collided"

\* Short of those mishaps a child that runs is one that `stop` finds: the PID
\* file names it, or is about to, or a stop has taken it as its target.
ProxyIsOnRecord ==
  upset = "no" =>
    \A k \in Procs :
      Alive(k) => \/ pidfile.pid = k
                 \/ proc[k].pc \in {"truncate", "record"}
                 \/ \E p \in Procs : Runs(p) /\ proc[p].target = k

\* Files left by commands that died never keep a start waiting: one whose
\* attempts on the lock are used up has run beside another command.
OnlyTheLivingBlock ==
  \A p \in Procs : At(p, "watch") /\ proc[p].tries = Tries => p \in company

\* Every command ends, whatever the files hold and the child does: in the end
\* none of those that have begun is running.
CommandsEnd == <>[](\A p \in Procs : ~Runs(p))

\* The child that `stop` reports stopped is dead, not merely asked to end.
StopMeansDead ==
  \A p \in Procs :
    proc[p].result = "yes" /\ proc[p].target # Nobody => ~Alive(proc[p].target)
=============================================================================
