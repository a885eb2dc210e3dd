------------------------------- MODULE Spool -------------------------------
(***************************************************************************)
(* The output spool (proxy/spool.py): commands run by `genesis run`        *)
(* (cli/run.py) write their output to it, the tool genesis_log reads it    *)
(* back, and prune() deletes what is too old or too much.  All of them are *)
(* processes that share a directory; an action is one file operation.      *)
(*                                                                         *)
(* The directory is the sequence of its files by time of last write.  An   *)
(* output is known by the run it came from.  Ids, digests of the output    *)
(* and the time, are taken to be distinct; a file of metadata weighs       *)
(* nothing against the cap.                                                *)
(***************************************************************************)
EXTENDS Integers, SequencesExt, Selection

CONSTANTS
  Runners,   \* `genesis run` processes, each running one command
  Readers,   \* callers of read_spool
  Keepers,   \* processes that call prune()
  Nobody,
  Cap,       \* bytes the directory may hold
  Sizes,     \* the sizes an output may have
  PruneEvery \* a run prunes when the engine's counter is a multiple of it

ASSUME SpoolAssumption ==
  /\ Nobody \notin Runners /\ Runners \cap Keepers = {}
  /\ Cap \in Nat /\ Sizes \subseteq Nat /\ PruneEvery \in Nat \ {0}

VARIABLES
  run,     \* each run: what it is doing, and its local variables
  dir,     \* the files, the one written longest ago first
  said,    \* runs whose summary, with the pointer to the log, was printed
  reader,  \* each call of read_spool
  keeper   \* prune() in each process: the files it has listed, and their bytes

spoolVars == <<run, dir, said, reader, keeper>>

Steps  == {"open", "fill", "put"}
RunPCs == {"idle", "child", "count", "print", "prune", "ended"} \cup Steps
Run == [pc : RunPCs, part : {"log", "meta"}, size : Sizes \cup {0}]
NewRun == [pc |-> "idle", part |-> "log", size |-> 0]

\* `temp` files bear the writer's process id in their names.
File == [of : Runners, part : {"log", "meta"}, temp : {"yes", "no"}, size : Sizes \cup {0},
         text : {"partial", "whole"}, old : {"yes", "no"}]
Named(of, part, temp) == {i \in DOMAIN dir : /\ dir[i].of = of /\ dir[i].part = part
                                             /\ dir[i].temp = temp}
Exists(of, part, temp) == Named(of, part, temp) # {}
TheFile(of, part, temp) == dir[CHOOSE i \in Named(of, part, temp) : TRUE]
SamePath(f, g) == f.of = g.of /\ f.part = g.part /\ f.temp = g.temp
Without(files, f) == Select(files, {g \in ToSet(files) : ~SamePath(f, g)})

Call == [pc : {"idle", "log", "meta", "done"}, id : Runners \cup {Nobody},
         text : {"none", "missing", "partial", "whole"}, meta : {"none", "yes", "no"}]
NoCall == [pc |-> "idle", id |-> Nobody, text |-> "none", meta |-> "none"]

Pruners == Runners \cup Keepers
Prune == [pc : {"idle", "evict", "done"}, todo : Seq(File), bytes : Int]
NoPrune == [pc |-> "idle", todo |-> <<>>, bytes |-> 0]

SpoolTypeOK ==
  /\ run \in [Runners -> Run]
  /\ dir \in Seq(File)
  /\ said \in SUBSET Runners
  /\ reader \in [Readers -> Call]
  /\ keeper \in [Pruners -> Prune]

SpoolInit ==
  /\ run = [r \in Runners |-> NewRun]
  /\ dir = <<>> /\ said = {}
  /\ reader = [x \in Readers |-> NoCall]
  /\ keeper = [k \in Pruners |-> NoPrune]

RunAt(r, pc) == run[r].pc = pc
RunGoto(r, pc) == run' = [run EXCEPT ![r].pc = pc]
Quit(r) == run' = [run EXCEPT ![r] = [NewRun EXCEPT !.pc = "ended"]]

-----------------------------------------------------------------------------
(* execute_spooled and write_spool.                                        *)

Launch(r) ==
  /\ RunAt(r, "idle") /\ RunGoto(r, "child")
  /\ UNCHANGED <<dir, said, reader, keeper>>

\* The child ends with some output; or it exceeds its fifteen minutes, and
\* what it wrote is replaced by a line that says so; or the user interrupts.
ChildEnds(r) ==
  /\ RunAt(r, "child")
  /\ \E size \in Sizes : run' = [run EXCEPT ![r].pc = "open", ![r].size = size]
  /\ UNCHANGED <<dir, said, reader, keeper>>

Interrupt(r) ==
  /\ RunAt(r, "child") /\ Quit(r)
  /\ UNCHANGED <<dir, said, reader, keeper>>

\* Mutant: the log is visible from the moment it is opened.
Open_InPlace(r) ==
  /\ RunAt(r, "open") /\ RunGoto(r, "fill")
  /\ dir' = Append(dir, [of |-> r, part |-> run[r].part, temp |-> "no", size |-> 0,
                         text |-> "partial", old |-> "no"])
  /\ UNCHANGED <<said, reader, keeper>>
\* The log first, then its metadata, each to a temporary file, ...
Open(r) ==
  /\ RunAt(r, "open") /\ RunGoto(r, "fill")
  /\ dir' = Append(dir, [of |-> r, part |-> run[r].part, temp |-> "yes", size |-> 0,
                         text |-> "partial", old |-> "no"])
  /\ UNCHANGED <<said, reader, keeper>>

\* ... that is filled and synced, wherever its name has gone meanwhile, ...
Fill(r) ==
  /\ RunAt(r, "fill") /\ RunGoto(r, "put")
  /\ IF Exists(r, run[r].part, "yes")
     THEN LET f == TheFile(r, run[r].part, "yes")
              size == IF run[r].part = "log" THEN run[r].size ELSE 0
          IN dir' = Append(Without(dir, f), [f EXCEPT !.text = "whole", !.size = size])
     ELSE UNCHANGED dir
  /\ UNCHANGED <<said, reader, keeper>>

\* ... and renamed.  The new name keeps the time of the last write.  A name
\* that is gone is an error, which nothing catches.
Put(r) ==
  /\ RunAt(r, "put")
  /\ IF Exists(r, run[r].part, "yes")
     THEN /\ dir' = [i \in DOMAIN dir |->
                       IF i \in Named(r, run[r].part, "yes")
                       THEN [dir[i] EXCEPT !.temp = "no"] ELSE dir[i]]
          /\ run' = [run EXCEPT ![r].part = "meta",
                                ![r].pc = IF run[r].part = "log" THEN "open" ELSE "count"]
     ELSE Quit(r) /\ UNCHANGED dir
  /\ UNCHANGED <<said, reader, keeper>>

\* The disk is full: the error ends the command, whatever its child returned.
WriteFails(r) ==
  /\ RunAt(r, "open") \/ RunAt(r, "fill")
  /\ Quit(r)
  /\ UNCHANGED <<dir, said, reader, keeper>>

\* The engine was made for this command, with no store behind it: its counter
\* of spools has just gone from nought to one.
Created == 0 + 1
Count(r) ==
  /\ RunAt(r, "count")
  /\ RunGoto(r, IF Created % PruneEvery = 0 THEN "prune" ELSE "print")
  /\ UNCHANGED <<dir, said, reader, keeper>>

\* The summary, with the pointer to the log, and the child's exit code, or 124.
Summarise(r) ==
  /\ RunAt(r, "print")
  /\ Quit(r)
  /\ said' = said \cup {r}
  /\ UNCHANGED <<dir, reader, keeper>>

\* The command is killed; its files stay.
Killed(r) ==
  /\ run[r].pc \notin {"idle", "ended"} /\ keeper[r].pc = "idle"
  /\ Quit(r)
  /\ UNCHANGED <<dir, said, reader, keeper>>

-----------------------------------------------------------------------------
(* prune.                                                                  *)

Bytes(files) ==
  LET sum[n \in 0..Len(files)] == IF n = 0 THEN 0 ELSE sum[n - 1] + files[n].size
  IN sum[Len(files)]
Target == (Cap * 4) \div 5

EndPrune(k) ==
  IF k \in Runners
  THEN keeper' = [keeper EXCEPT ![k] = [NoPrune EXCEPT !.pc = "done"]] /\ RunGoto(k, "print")
  ELSE keeper' = [keeper EXCEPT ![k] = NoPrune] /\ UNCHANGED run

\* The directory is listed and what is older than the TTL unlinked.  What is
\* left stays unless it weighs more than the cap.
Scan(k) ==
  /\ keeper[k].pc # "evict" /\ (k \in Runners => RunAt(k, "prune"))
  /\ dir' = Select(dir, {f \in ToSet(dir) : f.old = "no"})
  /\ IF Bytes(dir') > Cap
     THEN /\ keeper' = [keeper EXCEPT ![k] = [pc |-> "evict", todo |-> dir', bytes |-> Bytes(dir')]]
          /\ UNCHANGED run
     ELSE EndPrune(k)
  /\ UNCHANGED <<said, reader>>

\* The listed files go, oldest first, until eighty per cent of the cap is
\* reached.  A path that is gone counts as deleted.
\* Mutant: the newest of them go first.
Evict_NewestFirst(k) ==
  /\ keeper[k].pc = "evict"
  /\ LET todo == keeper[k].todo IN
       IF todo = <<>> \/ keeper[k].bytes <= Target
       THEN EndPrune(k) /\ UNCHANGED dir
       ELSE /\ dir' = Without(dir, Last(todo))
            /\ keeper' = [keeper EXCEPT ![k].todo = Front(todo),
                                        ![k].bytes = @ - Last(todo).size]
            /\ UNCHANGED run
  /\ UNCHANGED <<said, reader>>
Evict(k) ==
  /\ keeper[k].pc = "evict"
  /\ LET todo == keeper[k].todo IN
       IF todo = <<>> \/ keeper[k].bytes <= Target
       THEN EndPrune(k) /\ UNCHANGED dir
       ELSE /\ dir' = Without(dir, Head(todo))
            /\ keeper' = [keeper EXCEPT ![k].todo = Tail(todo),
                                        ![k].bytes = @ - Head(todo).size]
            /\ UNCHANGED run
  /\ UNCHANGED <<said, reader>>

\* Files pass the TTL in the order of their times; a run, of fifteen minutes
\* at most, is over before its files do.
Age ==
  /\ \E i \in DOMAIN dir :
       /\ dir[i].old = "no" /\ RunAt(dir[i].of, "ended")
       /\ \A j \in 1..(i - 1) : dir[j].old = "yes"
       /\ dir' = [dir EXCEPT ![i].old = "yes"]
  /\ UNCHANGED <<run, said, reader, keeper>>

-----------------------------------------------------------------------------
(* read_spool, for an id an agent was told or took from the directory.     *)
(* What it shows of the lines is SpoolRead's subject.                      *)

AskFor(x) ==
  /\ reader[x].pc = "idle"
  /\ \E id \in said \cup {dir[i].of : i \in DOMAIN dir} : reader' = [reader EXCEPT ![x].pc = "log", ![x].id = id]
  /\ UNCHANGED <<run, dir, said, keeper>>

\* No file, at the check or by the time it is read: FileNotFoundError.
ReadLog(x) ==
  /\ reader[x].pc = "log"
  /\ LET id == reader[x].id IN
       reader' = [reader EXCEPT
         ![x].pc = IF Exists(id, "log", "no") THEN "meta" ELSE "done",
         ![x].text = IF Exists(id, "log", "no") THEN TheFile(id, "log", "no").text ELSE "missing"]
  /\ UNCHANGED <<run, dir, said, keeper>>

\* Mutant: metadata that is not there is called missing, as a log is.
ReadMeta_Missing(x) ==
  /\ reader[x].pc = "meta"
  /\ reader' = [reader EXCEPT ![x].pc = "done",
                  ![x].meta = IF Exists(reader[x].id, "meta", "no") THEN "yes" ELSE "missing"]
  /\ UNCHANGED <<run, dir, said, keeper>>
\* Metadata that is not there is left out of the answer.
ReadMeta(x) ==
  /\ reader[x].pc = "meta"
  /\ reader' = [reader EXCEPT ![x].pc = "done",
                  ![x].meta = IF Exists(reader[x].id, "meta", "no") THEN "yes" ELSE "no"]
  /\ UNCHANGED <<run, dir, said, keeper>>

RunStep(r) ==
  \/ ChildEnds(r) \/ Interrupt(r) \/ Open(r) \/ Fill(r) \/ Put(r) \/ WriteFails(r)
  \/ Count(r) \/ Summarise(r)
Reading(x) == ReadLog(x) \/ ReadMeta(x)

SpoolNext ==
  \/ \E r \in Runners : Launch(r) \/ RunStep(r) \/ Killed(r)
  \/ \E k \in Pruners : Scan(k) \/ Evict(k)
  \/ \E x \in Readers : AskFor(x) \/ Reading(x)
  \/ Age

SpoolSpec == SpoolInit /\ [][SpoolNext]_spoolVars

-----------------------------------------------------------------------------
(* Correctness.                                                            *)

\* A read never returns half an output, whatever is being written.
NoTornRead == \A x \in Readers : reader[x].text # "partial"

\* A log somebody was pointed to is never there without its metadata, the
\* command and its exit code: writes go log first and prune takes the oldest
\* first, in several processes at once.
SaidLogHasMeta ==
  \A r \in said : Exists(r, "log", "no") => Exists(r, "meta", "no")

\* As long as one process prunes at a time, an output that is not expired is
\* never deleted while it and all that was written after it fit in eighty per
\* cent of the cap, whatever is written meanwhile.  (A temporary file may be: the
\* pruner counts it with the size it had when it was listed.)
RecentOutputsSurvive ==
  [][\A i \in DOMAIN dir :
       /\ dir[i].old = "no" /\ dir[i].temp = "no"
       /\ \A j \in DOMAIN dir' : ~SamePath(dir'[j], dir[i])
       => Bytes(SubSeq(dir, i, Len(dir))) > Target]_spoolVars
=============================================================================
