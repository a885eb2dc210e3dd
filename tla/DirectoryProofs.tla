-------------------------- MODULE DirectoryProofs ---------------------------
(***************************************************************************)
(* What holds of the output spool, of what is read of a log, and of the    *)
(* recovery store, for every number of processes, files and bytes.         *)
(*                                                                         *)
(* A directory is a sequence of files, and what prune() has listed of it   *)
(* another: the proofs are about how the two stay in step while others     *)
(* write, rename and delete.                                               *)
(***************************************************************************)
EXTENDS Spool, SpoolRead, Recovery, SelectionProofs, FiniteSetTheorems

-----------------------------------------------------------------------------
(* The invariants.                                                          *)

\* A file under its final name is whole, and so is the one about to get it.
TornInv ==
  /\ \A i \in DOMAIN dir :
       \/ dir[i].text = "whole"
       \/ dir[i].temp = "yes" /\ ~(RunAt(dir[i].of, "put") /\ run[dir[i].of].part = dir[i].part)
  /\ NoTornRead

\* A run that has not ended owns the files it has come to, and no others.
Due(f) ==
  LET r == run[f.of] IN
    \/ r.pc = "ended"
    \/ r.pc \in {"fill", "put"} /\ f.temp = "yes" /\ f.part = r.part
    \/ r.pc \in {"open", "fill", "put"} /\ f.temp = "no" /\ f.part = "log" /\ r.part = "meta"
    \/ r.pc \in {"count", "print", "prune"} /\ f.temp = "no"

FilesInv ==
  /\ \A r \in Runners : run[r].pc \in {"count", "print", "prune"} => run[r].part = "meta"
  /\ \A r \in Runners : keeper[r].pc = "evict" => RunAt(r, "prune")
  /\ \A i \in DOMAIN dir : Due(dir[i])
  /\ \A i, j \in DOMAIN dir : i # j => ~(dir[i].of = dir[j].of /\ dir[i].part = dir[j].part)
  /\ \A r \in said : RunAt(r, "ended")

\* The files past the TTL are the oldest, and their runs are over.
OldInv ==
  \A i \in DOMAIN dir : dir[i].old = "yes" =>
    /\ RunAt(dir[i].of, "ended")
    /\ \A j \in 1..(i - 1) : dir[j].old = "yes"

\* Is `f` the log, or the metadata, of r?  Was anybody told of that log?
IsLog(f, r) == f.of = r /\ f.part = "log" /\ f.temp = "no"
IsMeta(f, r) == f.of = r /\ f.part = "meta"
Told(r) == r \in said \/ run[r].pc \in {"count", "print", "prune"}

\* Metadata comes after its log, in the directory and in what prune() has listed
\* of it; and no log is written once there is metadata.
LogFirst ==
  \A r \in Runners, i, j \in DOMAIN dir : IsLog(dir[i], r) /\ IsMeta(dir[j], r) => i < j
ListedFirst(k) ==
  \A r \in Runners : \A j \in DOMAIN keeper[k].todo : IsMeta(keeper[k].todo[j], r) =>
    /\ RunAt(r, "ended") \/ run[r].part = "meta"
    /\ (\E i \in DOMAIN dir : IsLog(dir[i], r)) =>
         \E i \in 1..(j - 1) : IsLog(keeper[k].todo[i], r)
ToldHasMeta ==
  \A r \in Runners : Told(r) /\ (\E i \in DOMAIN dir : IsLog(dir[i], r)) =>
    \E j \in DOMAIN dir : IsMeta(dir[j], r) /\ dir[j].temp = "no"
MetaInv == LogFirst /\ (\A k \in Pruners : ListedFirst(k)) /\ ToldHasMeta

\* The one process that prunes.
Lone == \E k \in Keepers : Keepers = {k}

NoneElse == \A r \in Runners : run[r].pc # "prune" /\ keeper[r] = NoPrune

Key(f, g) == f.of = g.of /\ f.part = g.part
\* A file is whole and has the size it was listed with.
Still(f, g) == Key(f, g) /\ f.text = "whole" /\ f.size = g.size

\* A file weighs nothing before it is filled.
SizesInv ==
  /\ \A i \in DOMAIN dir : dir[i].text = "partial" => dir[i].size = 0
  /\ \A i \in DOMAIN dir :
       dir[i].temp = "yes" /\ RunAt(dir[i].of, "fill") /\ run[dir[i].of].part = dir[i].part
       => dir[i].text = "partial"

\* The bytes counted are those of the files still listed; what was whole when
\* it was listed is still there, as it was and in the order it was.
InStep(k) ==
  LET todo == keeper[k].todo IN
    /\ keeper[k].bytes = Bytes(todo)
    /\ \A i, j \in DOMAIN todo : i # j => ~Key(todo[i], todo[j])
    /\ \A j \in DOMAIN todo :
         IF todo[j].text = "whole" THEN \E i \in DOMAIN dir : Still(dir[i], todo[j])
         ELSE todo[j].size = 0 /\ todo[j].temp = "yes"
    /\ \A j, n \in DOMAIN todo, i, m \in DOMAIN dir :
         j < n /\ todo[j].text = "whole" /\ todo[n].text = "whole"
         /\ Key(dir[i], todo[j]) /\ Key(dir[m], todo[n]) => i < m
PruneInv == NoneElse /\ SizesInv /\ \A k \in Keepers : InStep(k)

\* How far a reader has come; and what it was shown is all lines up to there.
Position == IF query.how = "pages" THEN query.at * Chunk ELSE query.at
Lines(after, upto) == [i \in 1..(upto - after) |-> after + i]
ReadInv ==
  /\ query.how = "none" => query.told = "nothing"
  /\ query.told = "refused" => Refused /\ query.from = 0
  /\ query.told \in {"nothing", "refused"} => Position = query.from
  /\ query.told \in {"nothing", "refused", "more"} => query.from <= Position /\ Position <= Selected
  /\ query.told \in {"nothing", "refused", "more"} => shown = Lines(query.from, Position)
  /\ query.told = "end" => shown = Lines(query.from, Selected)
  /\ query.from <= Selected
  /\ query.from > 0 => query.how = "lines"

\* The files of the recovery store bear distinct names; a proxy stores one block
\* at a time; and what a pruner that was not crossed has still to look at is
\* there, in the order it was listed.
DistinctTexts == \A i, j \in DOMAIN originals : i # j => originals[i].text # originals[j].text
OneText(p) ==
  proxy[p].pc \in {"exists", "write"} => \E t \in Blocks : proxy[p].text = {t}
Awaits(p) ==
  LET todo == proxy[p].todo IN
    InStore(p, "evict") /\ proxy[p].crossed = "no" =>
      /\ proxy[p].total = Len(todo)
      /\ \A j \in DOMAIN todo : Stored(todo[j])
      /\ \A j, n \in DOMAIN todo, i, m \in DOMAIN originals :
           j < n /\ originals[i].text = todo[j] /\ originals[m].text = todo[n] => i < m
OriginalsInv == DistinctTexts /\ \A p \in Proxies : OneText(p) /\ Awaits(p)

-----------------------------------------------------------------------------
(* The output spool: types.                                                 *)

USE SpoolAssumption DEF Steps, RunPCs

LEMMA RunFields ==
  ASSUME NEW x \in Run
  PROVE  x.pc \in RunPCs /\ x.part \in {"log", "meta"} /\ x.size \in Sizes \cup {0}
BY DEF Run

LEMMA FileFields ==
  ASSUME NEW f \in File
  PROVE  /\ f.of \in Runners /\ f.part \in {"log", "meta"} /\ f.temp \in {"yes", "no"}
         /\ f.size \in Nat /\ f.size \in Sizes \cup {0}
         /\ f.text \in {"partial", "whole"} /\ f.old \in {"yes", "no"}
<1>1. /\ f.of \in Runners /\ f.part \in {"log", "meta"} /\ f.temp \in {"yes", "no"}
      /\ f.size \in Sizes \cup {0} /\ f.text \in {"partial", "whole"} /\ f.old \in {"yes", "no"}
  BY DEF File
<1>2. Sizes \cup {0} \subseteq Nat
  BY SpoolAssumption
<1> QED BY <1>1, <1>2

LEMMA FileRenamed ==
  ASSUME NEW f \in File, NEW g, g = [f EXCEPT !.temp = "no"]
  PROVE  /\ g \in File /\ g.of = f.of /\ g.part = f.part /\ g.temp = "no"
         /\ g.text = f.text /\ g.size = f.size /\ g.old = f.old
BY FileFields DEF File

LEMMA FileAged ==
  ASSUME NEW f \in File, NEW g, g = [f EXCEPT !.old = "yes"]
  PROVE  /\ g \in File /\ g.of = f.of /\ g.part = f.part /\ g.temp = f.temp
         /\ g.text = f.text /\ g.size = f.size /\ g.old = "yes"
BY FileFields DEF File

LEMMA SpoolTypes ==
  ASSUME SpoolTypeOK
  PROVE  /\ run \in [Runners -> Run] /\ dir \in Seq(File) /\ said \in SUBSET Runners
         /\ reader \in [Readers -> Call] /\ keeper \in [Pruners -> Prune]
         /\ Runners \subseteq Pruners /\ DOMAIN dir = 1..Len(dir) /\ Len(dir) \in Nat
         /\ \A i \in DOMAIN dir : dir[i] \in File
         /\ \A k \in Pruners : keeper[k].todo \in Seq(File) /\ keeper[k].bytes \in Int
         /\ \A k \in Pruners : \A i \in DOMAIN keeper[k].todo : keeper[k].todo[i] \in File
<1>1. \A k \in Pruners : keeper[k] \in Prune
  BY DEF SpoolTypeOK
<1>2. \A k \in Pruners : keeper[k].todo \in Seq(File) /\ keeper[k].bytes \in Int
  BY <1>1 DEF Prune
<1> QED BY <1>2 DEF SpoolTypeOK, Pruners

\* `r` is what is left of `s`, at the places e.
Left(e, r, s) ==
  /\ e \in [1..Len(r) -> 1..Len(s)]
  /\ \A j \in 1..Len(r) : r[j] = s[e[j]]
  /\ \A j, k \in 1..Len(r) : j < k => e[j] < e[k]

LEMMA WithoutLeaves ==
  ASSUME NEW s \in Seq(File), NEW f
  PROVE  /\ Without(s, f) \in Seq(File)
         /\ \E e : /\ Left(e, Without(s, f), s)
                   /\ \A j \in 1..Len(Without(s, f)) : ~SamePath(f, s[e[j]])
                   /\ \A i \in 1..Len(s) : ~SamePath(f, s[i]) =>
                        \E j \in 1..Len(Without(s, f)) : e[j] = i
<1> DEFINE S == {g \in ToSet(s) : ~SamePath(f, g)}
           r == Without(s, f)
<1>1. r = Select(s, S)
  BY DEF Without
<1>2. r \in Seq(File \cap S) /\ \E e : Places(e, r, s, S)
  <2> HIDE DEF S, r
  <2>1. Select(s, S) \in Seq(File \cap S) /\ \E e : Places(e, Select(s, S), s, S)
    BY SelectPlaces
  <2> QED BY <1>1, <2>1
<1>3. \A i \in 1..Len(s) : s[i] \in S <=> ~SamePath(f, s[i])
  BY DEF ToSet
<1> HIDE DEF S, r
<1>4. r \in Seq(File)
  BY <1>2
<1>5. PICK e : Places(e, r, s, S)
  BY <1>2
<1>6. /\ e \in [1..Len(r) -> 1..Len(s)]
      /\ \A j \in 1..Len(r) : r[j] = s[e[j]] /\ s[e[j]] \in S /\ e[j] \in 1..Len(s)
      /\ \A j, k \in 1..Len(r) : j < k => e[j] < e[k]
      /\ \A i \in 1..Len(s) : s[i] \in S => \E j \in 1..Len(r) : e[j] = i
  BY <1>5 DEF Places
<1>7. Left(e, r, s)
  BY <1>6 DEF Left
<1> QED BY <1>3, <1>4, <1>6, <1>7 DEF r

IsYoung(f) == f.old = "no"
Young(s) == Select(s, {f \in ToSet(s) : IsYoung(f)})

LEMMA YoungLeaves ==
  ASSUME NEW s \in Seq(File)
  PROVE  /\ Young(s) \in Seq(File)
         /\ \E e : /\ Left(e, Young(s), s)
                   /\ \A j \in 1..Len(Young(s)) : IsYoung(s[e[j]])
                   /\ \A i \in 1..Len(s) : IsYoung(s[i]) =>
                        \E j \in 1..Len(Young(s)) : e[j] = i
<1> DEFINE S == {f \in ToSet(s) : IsYoung(f)}
           r == Young(s)
<1>1. r = Select(s, S)
  BY DEF Young
<1>2. r \in Seq(File \cap S) /\ \E e : Places(e, r, s, S)
  <2> HIDE DEF S, r
  <2>1. Select(s, S) \in Seq(File \cap S) /\ \E e : Places(e, Select(s, S), s, S)
    BY SelectPlaces
  <2> QED BY <1>1, <2>1
<1>3. \A i \in 1..Len(s) : s[i] \in S <=> IsYoung(s[i])
  BY DEF ToSet
<1> HIDE DEF S, r
<1>4. r \in Seq(File)
  BY <1>2
<1>5. PICK e : Places(e, r, s, S)
  BY <1>2
<1>6. /\ e \in [1..Len(r) -> 1..Len(s)]
      /\ \A j \in 1..Len(r) : r[j] = s[e[j]] /\ s[e[j]] \in S /\ e[j] \in 1..Len(s)
      /\ \A j, k \in 1..Len(r) : j < k => e[j] < e[k]
      /\ \A i \in 1..Len(s) : s[i] \in S => \E j \in 1..Len(r) : e[j] = i
  BY <1>5 DEF Places
<1>7. Left(e, r, s)
  BY <1>6 DEF Left
<1>8. \A j \in 1..Len(r) : IsYoung(s[e[j]])
  BY <1>3, <1>6
<1>9. \A i \in 1..Len(s) : IsYoung(s[i]) => \E j \in 1..Len(r) : e[j] = i
  BY <1>3, <1>6
<1> QED BY <1>4, <1>7, <1>8, <1>9 DEF r

-----------------------------------------------------------------------------
(* The bytes of a list of files.                                            *)

LEMMA BytesFcn ==
  ASSUME NEW s \in Seq(File)
  PROVE  \E sum \in [0..Len(s) -> Nat] :
           /\ sum[0] = 0 /\ Bytes(s) = sum[Len(s)]
           /\ \A n \in 1..Len(s) : sum[n] = sum[n - 1] + s[n].size
<1> DEFINE N == Len(s)
           F == [n \in 1..N |-> [v \in Nat |-> v + s[n].size]]
           G(f) == [n \in 0..N |-> IF n = 0 THEN 0 ELSE f[n - 1] + s[n].size]
<1>1. N \in Nat /\ \A n \in 1..N : s[n] \in File
  OBVIOUS
<1>2. \A n \in 1..N : s[n].size \in Nat
  BY <1>1, FileFields
<1>3. F \in [1..N -> [Nat -> Nat]]
  <2> HIDE DEF N
  <2> QED BY <1>2
<1>4. PICK f \in [0..N -> Nat] : Solves(f, N, 0, F)
  <2> HIDE DEF F, N
  <2> QED BY <1>1, <1>3, Recursion
<1>5. ASSUME NEW n \in 1..N PROVE f[n] = f[n - 1] + s[n].size
  <2> HIDE DEF N
  <2>1. n - 1 \in 0..N /\ f[n - 1] \in Nat
    BY <1>1
  <2> QED BY <2>1, <1>4 DEF Solves
<1>6. f = G(f)
  <2> HIDE DEF N
  <2>1. \A n \in 0..N : n # 0 => n \in 1..N
    BY <1>1
  <2> QED BY <2>1, <1>4, <1>5 DEF Solves
<1> DEFINE g == CHOOSE h : h = G(h)
<1>7. g = G(g)
  <2> HIDE DEF G
  <2> QED BY <1>6
<1>8. Bytes(s) = g[N]
  BY DEF Bytes
<1> HIDE DEF g
<1>9. g[0] = 0 /\ \A n \in 1..N : g[n] = g[n - 1] + s[n].size
  <2> HIDE DEF N
  <2>1. \A n \in 0..N : g[n] = G(g)[n]
    BY <1>7
  <2>2. 0 \in 0..N /\ \A n \in 1..N : n \in 0..N /\ n # 0
    BY <1>1
  <2> QED BY <2>1, <2>2
<1>10. g \in [0..N -> Nat]
  <2> DEFINE P == {n \in 0..N : g[n] \in Nat}
  <2> HIDE DEF N
  <2>1. 0 \in P
    BY <1>1, <1>9
  <2>2. ASSUME NEW n \in 1..N, n - 1 \in P PROVE n \in P
    <3>1. g[n - 1] \in Nat /\ s[n].size \in Nat /\ n \in 0..N
      BY <1>1, <1>2, <2>2
    <3> QED BY <3>1, <1>9
  <2> HIDE DEF P
  <2>3. 0..N \subseteq P
    BY <2>1, <2>2, <1>1, BoundedInduction
  <2>4. \A n \in 0..N : g[n] \in Nat
    BY <2>3 DEF P
  <2> QED BY <2>4, <1>7
<1> QED BY <1>8, <1>9, <1>10

-----------------------------------------------------------------------------
(* What each step of the spool does.                                        *)

\* The run r, and no other, is taken to these values.
Goes(r, pc, part, size) ==
  /\ run' \in [Runners -> Run]
  /\ run'[r].pc = pc /\ run'[r].part = part /\ run'[r].size = size
  /\ \A q \in Runners : q # r => run'[q] = run[q]

LEMMA GotoGoes ==
  ASSUME SpoolTypeOK, NEW r \in Runners, NEW pc \in RunPCs, RunGoto(r, pc)
  PROVE  Goes(r, pc, run[r].part, run[r].size)
<1>1. run \in [Runners -> Run] /\ run[r] \in Run
  BY SpoolTypes
<1> DEFINE y == [run[r] EXCEPT !.pc = pc]
<1>2. run' = [run EXCEPT ![r] = y]
  BY DEF RunGoto
<1>3. y \in Run /\ y.pc = pc /\ y.part = run[r].part /\ y.size = run[r].size
  BY <1>1, RunFields DEF Run
<1> HIDE DEF y
<1> QED BY <1>1, <1>2, <1>3 DEF Goes

LEMMA QuitGoes ==
  ASSUME SpoolTypeOK, NEW r \in Runners, Quit(r)
  PROVE  Goes(r, "ended", "log", 0)
<1>1. run \in [Runners -> Run]
  BY SpoolTypes
<1> DEFINE y == [NewRun EXCEPT !.pc = "ended"]
<1>2. run' = [run EXCEPT ![r] = y]
  BY DEF Quit
<1>3. y \in Run /\ y.pc = "ended" /\ y.part = "log" /\ y.size = 0
  BY DEF NewRun, Run
<1> HIDE DEF y
<1> QED BY <1>1, <1>2, <1>3 DEF Goes

\* Steps of a run that leave the directory as it is.
Along(r) ==
  /\ UNCHANGED <<dir, reader, keeper>>
  /\ \/ /\ said' = said
        /\ \/ RunAt(r, "idle") /\ Goes(r, "child", run[r].part, run[r].size)
           \/ RunAt(r, "child") /\ \E size \in Sizes : Goes(r, "open", run[r].part, size)
           \/ RunAt(r, "count") /\ Goes(r, "print", run[r].part, run[r].size)
           \/ /\ RunAt(r, "count") /\ 1 % PruneEvery = 0
              /\ Goes(r, "prune", run[r].part, run[r].size)
           \/ Goes(r, "ended", "log", 0) /\ keeper[r].pc = "idle"
           \/ Goes(r, "ended", "log", 0) /\ run[r].pc \in {"child", "open", "fill", "put"}
     \/ RunAt(r, "print") /\ said' = said \cup {r} /\ Goes(r, "ended", "log", 0)

\* The file a run creates.
EmptyFile(r) == [of |-> r, part |-> run[r].part, temp |-> "yes", size |-> 0,
             text |-> "partial", old |-> "no"]

Opened(r) ==
  /\ RunAt(r, "open") /\ Goes(r, "fill", run[r].part, run[r].size)
  /\ dir' = Append(dir, EmptyFile(r)) /\ UNCHANGED <<said, reader, keeper>>

\* It is filled, and now the one written last; or it is gone.
FilledIn(r) ==
  /\ RunAt(r, "fill") /\ Goes(r, "put", run[r].part, run[r].size)
  /\ UNCHANGED <<said, reader, keeper>>
  /\ \/ dir' = dir /\ \A i \in DOMAIN dir : ~SamePath(EmptyFile(r), dir[i])
     \/ \E i \in DOMAIN dir, g \in File :
          /\ SamePath(EmptyFile(r), dir[i])
          /\ SamePath(g, dir[i]) /\ g.text = "whole" /\ g.old = dir[i].old
          /\ dir' = Append(Without(dir, dir[i]), g)

Renamed(r) ==
  /\ RunAt(r, "put") /\ UNCHANGED <<said, reader, keeper>>
  /\ \/ dir' = dir /\ Goes(r, "ended", "log", 0)
     \/ /\ Goes(r, IF run[r].part = "log" THEN "open" ELSE "count", "meta", run[r].size)
        /\ dir' \in Seq(File) /\ Len(dir') = Len(dir)
        /\ \E i \in DOMAIN dir : SamePath(EmptyFile(r), dir[i])
        /\ \A i \in DOMAIN dir :
             IF SamePath(EmptyFile(r), dir[i])
             THEN /\ Key(dir'[i], dir[i]) /\ dir'[i].temp = "no"
                  /\ dir'[i].text = dir[i].text /\ dir'[i].size = dir[i].size
                  /\ dir'[i].old = dir[i].old
             ELSE dir'[i] = dir[i]

\* The pruning ends.
Ended(k) ==
  /\ keeper' \in [Pruners -> Prune] /\ keeper'[k].todo = <<>> /\ keeper'[k].bytes = 0
  /\ keeper'[k].pc # "evict"
  /\ \A q \in Pruners : q # k => keeper'[q] = keeper[q]
  /\ \/ k \in Runners /\ Goes(k, "print", run[k].part, run[k].size)
     \/ k \notin Runners /\ run' = run /\ keeper'[k] = NoPrune

Lists(k, todo, bytes) ==
  /\ run' = run /\ keeper' \in [Pruners -> Prune]
  /\ keeper'[k].pc = "evict" /\ keeper'[k].todo = todo /\ keeper'[k].bytes = bytes
  /\ \A q \in Pruners : q # k => keeper'[q] = keeper[q]

Scanned(k) ==
  /\ keeper[k].pc # "evict" /\ (k \in Runners => RunAt(k, "prune"))
  /\ dir' = Young(dir)
  /\ UNCHANGED <<said, reader>>
  /\ Ended(k) \/ Lists(k, dir', Bytes(dir'))

Evicted(k) ==
  /\ keeper[k].pc = "evict" /\ UNCHANGED <<said, reader>>
  /\ \/ Ended(k) /\ dir' = dir
     \/ LET todo == keeper[k].todo IN
          /\ todo # <<>> /\ keeper[k].bytes > Target
          /\ dir' = Without(dir, Head(todo))
          /\ Lists(k, Tail(todo), keeper[k].bytes - Head(todo).size)

TurnsOld ==
  /\ UNCHANGED <<run, said, reader, keeper>>
  /\ dir' \in Seq(File) /\ Len(dir') = Len(dir)
  /\ \E i \in DOMAIN dir :
       /\ dir[i].old = "no" /\ RunAt(dir[i].of, "ended")
       /\ \A j \in 1..(i - 1) : dir[j].old = "yes"
       /\ \A j \in DOMAIN dir : j # i => dir'[j] = dir[j]
       /\ SamePath(dir'[i], dir[i]) /\ dir'[i].text = dir[i].text /\ dir'[i].size = dir[i].size
       /\ dir'[i].old = "yes"

ReadsOne(x) ==
  /\ UNCHANGED <<run, dir, said, keeper>> /\ reader' \in [Readers -> Call]
  /\ \A y \in Readers \ {x} : reader'[y] = reader[y]
  /\ \/ reader'[x].text \in {reader[x].text, "missing"}
     \/ \E i \in DOMAIN dir : dir[i].temp = "no" /\ reader'[x].text = dir[i].text

LEMMA AlongStep ==
  ASSUME SpoolTypeOK, NEW r \in Runners,
         Launch(r) \/ ChildEnds(r) \/ Interrupt(r) \/ WriteFails(r) \/ Count(r) \/ Summarise(r) \/ Killed(r)
  PROVE  Along(r)
<1>1. CASE Launch(r)
  BY <1>1, GotoGoes DEF Launch, Along
<1>2. CASE ChildEnds(r)
  <2>1. PICK size \in Sizes : run' = [run EXCEPT ![r].pc = "open", ![r].size = size]
    BY <1>2 DEF ChildEnds
  <2>2. run \in [Runners -> Run] /\ run[r] \in Run
    BY SpoolTypes
  <2> DEFINE y == [run[r] EXCEPT !.pc = "open", !.size = size]
  <2>3. run' = [run EXCEPT ![r] = y]
    BY <2>1, <2>2
  <2>4. y \in Run /\ y.pc = "open" /\ y.part = run[r].part /\ y.size = size
    BY <2>2, RunFields DEF Run
  <2> HIDE DEF y
  <2>5. Goes(r, "open", run[r].part, size)
    BY <2>2, <2>3, <2>4 DEF Goes
  <2> QED BY <1>2, <2>5 DEF ChildEnds, Along
<1>3. CASE Interrupt(r)
  BY <1>3, QuitGoes DEF Interrupt, Along, RunAt
<1>4. CASE WriteFails(r)
  BY <1>4, QuitGoes DEF WriteFails, Along, RunAt
<1>5. CASE Count(r)
  BY <1>5, GotoGoes DEF Count, Along, Created
<1>6. CASE Summarise(r)
  BY <1>6, QuitGoes DEF Summarise, Along
<1>7. CASE Killed(r)
  BY <1>7, QuitGoes DEF Killed, Along
<1> QED BY <1>1, <1>2, <1>3, <1>4, <1>5, <1>6, <1>7

LEMMA OpenStep ==
  ASSUME SpoolTypeOK, NEW r \in Runners, Open(r)
  PROVE  Opened(r)
BY GotoGoes DEF Open, Opened, EmptyFile

LEMMA FileAt ==
  ASSUME NEW of, NEW part, NEW temp, Exists(of, part, temp)
  PROVE  \E i \in DOMAIN dir : /\ TheFile(of, part, temp) = dir[i]
                              /\ dir[i].of = of /\ dir[i].part = part /\ dir[i].temp = temp
BY DEF Exists, TheFile, Named

LEMMA FillStep ==
  ASSUME SpoolTypeOK, NEW r \in Runners, Fill(r)
  PROVE  FilledIn(r)
<1>1. RunAt(r, "fill") /\ Goes(r, "put", run[r].part, run[r].size) /\ UNCHANGED <<said, reader, keeper>>
  BY GotoGoes DEF Fill
<1>2. CASE Exists(r, run[r].part, "yes")
  <2> DEFINE f == TheFile(r, run[r].part, "yes")
             size == IF run[r].part = "log" THEN run[r].size ELSE 0
             g == [f EXCEPT !.text = "whole", !.size = size]
  <2>1. dir' = Append(Without(dir, f), g)
    BY <1>2 DEF Fill
  <2>2. PICK i \in DOMAIN dir : /\ f = dir[i] /\ dir[i].of = r /\ dir[i].part = run[r].part
                               /\ dir[i].temp = "yes"
    BY <1>2, FileAt
  <2>3. run[r] \in Run /\ dir[i] \in File
    BY SpoolTypes
  <2>4. size \in Sizes \cup {0}
    BY <2>3, RunFields
  <2> HIDE DEF f, size
  <2>5. /\ g \in File /\ g.of = f.of /\ g.part = f.part /\ g.temp = f.temp
        /\ g.text = "whole" /\ g.old = f.old
    BY <2>2, <2>3, <2>4, FileFields DEF File
  <2> HIDE DEF g
  <2>6. SamePath(EmptyFile(r), dir[i]) /\ SamePath(g, dir[i])
    BY <2>2, <2>5 DEF SamePath, EmptyFile
  <2> QED BY <1>1, <2>1, <2>2, <2>5, <2>6 DEF FilledIn
<1>3. CASE ~Exists(r, run[r].part, "yes")
  <2>1. \A i \in DOMAIN dir : ~SamePath(EmptyFile(r), dir[i])
    BY <1>3 DEF Exists, Named, SamePath, EmptyFile
  <2> QED BY <1>1, <1>3, <2>1 DEF FilledIn, Fill
<1> QED BY <1>2, <1>3

LEMMA PutStep ==
  ASSUME SpoolTypeOK, NEW r \in Runners, Put(r)
  PROVE  Renamed(r)
<1>1. RunAt(r, "put") /\ UNCHANGED <<said, reader, keeper>>
  BY DEF Put
<1>2. CASE Exists(r, run[r].part, "yes")
  <2> DEFINE named == Named(r, run[r].part, "yes")
             pc == IF run[r].part = "log" THEN "open" ELSE "count"
             y == [run[r] EXCEPT !.part = "meta", !.pc = pc]
  <2>1. /\ dir' = [i \in DOMAIN dir |-> IF i \in named THEN [dir[i] EXCEPT !.temp = "no"] ELSE dir[i]]
        /\ run' = [run EXCEPT ![r].part = "meta", ![r].pc = pc]
    BY <1>2 DEF Put
  <2>2. /\ run \in [Runners -> Run] /\ run[r] \in Run /\ DOMAIN dir = 1..Len(dir)
        /\ Len(dir) \in Nat /\ \A i \in DOMAIN dir : dir[i] \in File
    BY SpoolTypes
  <2>3. run' = [run EXCEPT ![r] = y]
    BY <2>1, <2>2
  <2>4. y \in Run /\ y.pc = pc /\ y.part = "meta" /\ y.size = run[r].size
    BY <2>2, RunFields DEF Run
  <2> HIDE DEF y
  <2>5. Goes(r, pc, "meta", run[r].size)
    BY <2>2, <2>3, <2>4 DEF Goes
  <2>6. \A i \in DOMAIN dir : i \in named <=> SamePath(EmptyFile(r), dir[i])
    BY DEF Named, SamePath, EmptyFile
  <2>7. \E i \in DOMAIN dir : SamePath(EmptyFile(r), dir[i])
    <3>1. PICK i \in named : TRUE
      BY <1>2 DEF Exists
    <3>2. i \in DOMAIN dir
      BY <3>1 DEF Named
    <3> QED BY <3>2, <2>6
  <2> HIDE DEF named
  <2>8. ASSUME NEW i \in DOMAIN dir
        PROVE  /\ dir'[i] \in File
               /\ IF SamePath(EmptyFile(r), dir[i])
                  THEN /\ Key(dir'[i], dir[i]) /\ dir'[i].temp = "no"
                       /\ dir'[i].text = dir[i].text /\ dir'[i].size = dir[i].size
                       /\ dir'[i].old = dir[i].old
                  ELSE dir'[i] = dir[i]
    <3>1. CASE i \in named
      <4>1. dir'[i] = [dir[i] EXCEPT !.temp = "no"] /\ dir[i] \in File
        BY <2>1, <2>2, <3>1
      <4> QED BY <4>1, <3>1, <2>6, FileRenamed DEF Key
    <3>2. CASE i \notin named
      BY <2>1, <2>2, <2>6, <3>2
    <3> QED BY <3>1, <3>2
  <2>9. dir' \in Seq(File) /\ Len(dir') = Len(dir)
    BY <2>1, <2>2, <2>8
  <2> QED BY <1>1, <2>5, <2>7, <2>8, <2>9 DEF Renamed
<1>3. CASE ~Exists(r, run[r].part, "yes")
  BY <1>1, <1>3, QuitGoes DEF Put, Renamed
<1> QED BY <1>2, <1>3

LEMMA TailFiles ==
  ASSUME NEW s \in Seq(File), s # <<>>
  PROVE  /\ Head(s) \in File /\ Head(s) = s[1] /\ Tail(s) \in Seq(File)
         /\ Len(s) \in Nat /\ Len(s) # 0 /\ Len(Tail(s)) = Len(s) - 1
         /\ \A i \in 1..Len(Tail(s)) : Tail(s)[i] = s[i + 1]
OBVIOUS

LEMMA BytesNat ==
  ASSUME NEW s \in Seq(File)
  PROVE  Bytes(s) \in Nat
<1>1. PICK sum \in [0..Len(s) -> Nat] : Bytes(s) = sum[Len(s)]
  BY BytesFcn
<1>2. Len(s) \in 0..Len(s)
  OBVIOUS
<1> QED BY <1>1, <1>2

LEMMA EndStep ==
  ASSUME SpoolTypeOK, NEW k \in Pruners, EndPrune(k)
  PROVE  Ended(k)
<1>1. keeper \in [Pruners -> Prune]
  BY SpoolTypes
<1>2. NoPrune \in Prune /\ NoPrune.todo = <<>> /\ NoPrune.bytes = 0 /\ NoPrune.pc = "idle"
  BY DEF NoPrune, Prune
<1> DEFINE done == [NoPrune EXCEPT !.pc = "done"]
<1>3. done \in Prune /\ done.todo = <<>> /\ done.bytes = 0 /\ done.pc = "done"
  BY <1>2 DEF Prune
<1> HIDE DEF done
<1>4. CASE k \in Runners
  <2>1. keeper' = [keeper EXCEPT ![k] = done] /\ RunGoto(k, "print")
    BY <1>4 DEF EndPrune, done
  <2>2. Goes(k, "print", run[k].part, run[k].size)
    BY <1>4, <2>1, GotoGoes
  <2> QED BY <1>1, <1>3, <1>4, <2>1, <2>2 DEF Ended
<1>5. CASE k \notin Runners
  <2>1. keeper' = [keeper EXCEPT ![k] = NoPrune] /\ run' = run
    BY <1>5 DEF EndPrune
  <2> QED BY <1>1, <1>2, <1>5, <2>1 DEF Ended
<1> QED BY <1>4, <1>5

LEMMA ScanStep ==
  ASSUME SpoolTypeOK, NEW k \in Pruners, Scan(k)
  PROVE  Scanned(k)
<1>1. CASE Bytes(dir') > Cap
  <2>1. dir' \in Seq(File) /\ keeper \in [Pruners -> Prune]
    BY SpoolTypes, YoungLeaves DEF Scan, Young, IsYoung
  <2>2. Bytes(dir') \in Int
    BY <2>1, BytesNat
  <2> DEFINE y == [pc |-> "evict", todo |-> dir', bytes |-> Bytes(dir')]
  <2>3. y \in Prune /\ y.pc = "evict" /\ y.todo = dir' /\ y.bytes = Bytes(dir')
    BY <2>1, <2>2 DEF Prune
  <2>4. keeper' = [keeper EXCEPT ![k] = y] /\ run' = run
    BY <1>1 DEF Scan
  <2> HIDE DEF y
  <2>5. Lists(k, dir', Bytes(dir'))
    BY <2>1, <2>3, <2>4 DEF Lists
  <2> QED BY <2>5 DEF Scan, Scanned, Young, IsYoung
<1>2. CASE ~(Bytes(dir') > Cap)
  BY <1>2, EndStep DEF Scan, Scanned, Young, IsYoung
<1> QED BY <1>1, <1>2

LEMMA EvictStep ==
  ASSUME SpoolTypeOK, NEW k \in Pruners, Evict(k)
  PROVE  Evicted(k)
<1> DEFINE todo == keeper[k].todo
<1>0. keeper \in [Pruners -> Prune] /\ keeper[k] \in Prune /\ keeper[k].pc = "evict"
      /\ keeper[k].bytes \in Int /\ Target \in Int
  BY SpoolTypes DEF Evict, Target
<1>1. CASE todo = <<>> \/ keeper[k].bytes <= Target
  BY <1>0, <1>1, EndStep DEF Evict, Evicted
<1>2. CASE ~(todo = <<>> \/ keeper[k].bytes <= Target)
  <2>1. /\ dir' = Without(dir, Head(todo)) /\ UNCHANGED <<run, said, reader>>
        /\ keeper' = [keeper EXCEPT ![k].todo = Tail(todo), ![k].bytes = @ - Head(todo).size]
    BY <1>2 DEF Evict
  <2> DEFINE bytes == keeper[k].bytes - Head(todo).size
             y == [keeper[k] EXCEPT !.todo = Tail(todo), !.bytes = bytes]
  <2>2. keeper' = [keeper EXCEPT ![k] = y]
    BY <2>1, <1>0
  <2>3. /\ Tail(todo) \in Seq(File) /\ Head(todo) \in File
    BY <1>2, SpoolTypes, TailFiles
  <2>4. bytes \in Int
    BY <1>0, <2>3, FileFields
  <2> HIDE DEF bytes
  <2>6. y \in Prune /\ y.pc = "evict" /\ y.todo = Tail(todo) /\ y.bytes = bytes
    BY <1>0, <2>3, <2>4 DEF Prune
  <2> HIDE DEF y
  <2>7. Lists(k, Tail(todo), bytes)
    BY <1>0, <2>1, <2>2, <2>6 DEF Lists
  <2>5. keeper[k].bytes > Target
    BY <1>0, <1>2
  <2> QED BY <1>0, <1>2, <2>1, <2>5, <2>7 DEF Evicted, bytes
<1> QED BY <1>1, <1>2

LEMMA AgeStep ==
  ASSUME SpoolTypeOK, Age
  PROVE  TurnsOld
<1>1. PICK i \in DOMAIN dir :
        /\ dir[i].old = "no" /\ RunAt(dir[i].of, "ended")
        /\ \A j \in 1..(i - 1) : dir[j].old = "yes"
        /\ dir' = [dir EXCEPT ![i].old = "yes"]
  BY DEF Age
<1>2. /\ DOMAIN dir = 1..Len(dir) /\ Len(dir) \in Nat /\ dir \in Seq(File)
      /\ \A j \in DOMAIN dir : dir[j] \in File
  BY SpoolTypes
<1> DEFINE g == [dir[i] EXCEPT !.old = "yes"]
<1>3. dir' = [dir EXCEPT ![i] = g]
  BY <1>1, <1>2
<1>4. /\ g \in File /\ SamePath(g, dir[i]) /\ g.text = dir[i].text /\ g.size = dir[i].size
      /\ g.old = "yes"
  BY <1>2, FileAged DEF SamePath
<1> HIDE DEF g
<1>5. dir' \in Seq(File) /\ Len(dir') = Len(dir)
  BY <1>2, <1>3, <1>4
<1> QED BY <1>1, <1>2, <1>3, <1>4, <1>5 DEF TurnsOld, Age

LEMMA ReadStep ==
  ASSUME SpoolTypeOK, NEW x \in Readers, AskFor(x) \/ Reading(x)
  PROVE  ReadsOne(x)
<1>1. /\ reader \in [Readers -> Call] /\ reader[x] \in Call /\ said \in SUBSET Runners
      /\ \A i \in DOMAIN dir : dir[i] \in File
  BY SpoolTypes
<1>2. CASE AskFor(x)
  <2>1. PICK id \in said \cup {dir[i].of : i \in DOMAIN dir} :
          reader' = [reader EXCEPT ![x].pc = "log", ![x].id = id]
    BY <1>2 DEF AskFor
  <2>2. id \in Runners
    BY <1>1, FileFields
  <2> DEFINE y == [reader[x] EXCEPT !.pc = "log", !.id = id]
  <2>3. reader' = [reader EXCEPT ![x] = y]
    BY <1>1, <2>1
  <2>4. y \in Call /\ y.text = reader[x].text
    BY <1>1, <2>2 DEF Call
  <2> HIDE DEF y
  <2> QED BY <1>1, <1>2, <2>3, <2>4 DEF AskFor, ReadsOne
<1>3. CASE ReadLog(x)
  <2> DEFINE id == reader[x].id
             pc == IF Exists(id, "log", "no") THEN "meta" ELSE "done"
             text == IF Exists(id, "log", "no") THEN TheFile(id, "log", "no").text ELSE "missing"
             y == [reader[x] EXCEPT !.pc = pc, !.text = text]
  <2>1. reader' = [reader EXCEPT ![x] = y]
    BY <1>1, <1>3 DEF ReadLog
  <2>2. \/ text = "missing"
        \/ \E i \in DOMAIN dir : dir[i].temp = "no" /\ text = dir[i].text
    BY FileAt
  <2>3. text \in {"none", "missing", "partial", "whole"} /\ pc \in {"meta", "done"}
    BY <1>1, <2>2, FileFields
  <2> HIDE DEF pc, text
  <2>4. y \in Call /\ y.text = text
    BY <1>1, <2>3 DEF Call
  <2> HIDE DEF y
  <2> QED BY <1>1, <1>3, <2>1, <2>2, <2>4 DEF ReadLog, ReadsOne
<1>4. CASE ReadMeta(x)
  <2> DEFINE meta == IF Exists(reader[x].id, "meta", "no") THEN "yes" ELSE "no"
             y == [reader[x] EXCEPT !.pc = "done", !.meta = meta]
  <2>1. reader' = [reader EXCEPT ![x] = y]
    BY <1>1, <1>4 DEF ReadMeta
  <2>2. meta \in {"none", "yes", "no"}
    OBVIOUS
  <2> HIDE DEF meta
  <2>4. y \in Call /\ y.text = reader[x].text
    BY <1>1, <2>2 DEF Call
  <2> HIDE DEF y
  <2> QED BY <1>1, <1>4, <2>1, <2>4 DEF ReadMeta, ReadsOne
<1> QED BY <1>2, <1>3, <1>4 DEF Reading

LEMMA SpoolStep ==
  ASSUME SpoolTypeOK, SpoolNext
  PROVE  \/ \E r \in Runners : Along(r) \/ Opened(r) \/ FilledIn(r) \/ Renamed(r)
         \/ \E k \in Pruners : Scanned(k) \/ Evicted(k)
         \/ \E x \in Readers : ReadsOne(x)
         \/ TurnsOld
BY AlongStep, OpenStep, FillStep, PutStep, ScanStep, EvictStep, ReadStep, AgeStep
   DEF SpoolNext, RunStep

-----------------------------------------------------------------------------
(* The output spool: its variables keep their types.                        *)

LEMMA FreshFile ==
  ASSUME SpoolTypeOK, NEW r \in Runners
  PROVE  /\ EmptyFile(r) \in File /\ EmptyFile(r).of = r /\ EmptyFile(r).part = run[r].part
         /\ EmptyFile(r).temp = "yes" /\ EmptyFile(r).text = "partial" /\ EmptyFile(r).size = 0
         /\ EmptyFile(r).old = "no"
<1>1. run[r].part \in {"log", "meta"}
  BY SpoolTypes, RunFields
<1> QED BY <1>1 DEF EmptyFile, File

LEMMA SpoolTypeStep ==
  ASSUME SpoolTypeOK, SpoolNext
  PROVE  SpoolTypeOK'
<1>1. ASSUME NEW r \in Runners, Along(r) PROVE SpoolTypeOK'
  <2>1. run' \in [Runners -> Run] /\ said' \in SUBSET Runners
    BY <1>1, SpoolTypes DEF Along, Goes
  <2> QED BY <1>1, <2>1 DEF Along, SpoolTypeOK
<1>2. ASSUME NEW r \in Runners, Opened(r) PROVE SpoolTypeOK'
  <2>1. dir' \in Seq(File)
    BY <1>2, SpoolTypes, FreshFile DEF Opened
  <2> QED BY <1>2, <2>1 DEF Opened, Goes, SpoolTypeOK
<1>3. ASSUME NEW r \in Runners, FilledIn(r) PROVE SpoolTypeOK'
  <2>1. dir' \in Seq(File)
    <3>1. CASE dir' = dir
      BY <3>1, SpoolTypes
    <3>2. ASSUME NEW i \in DOMAIN dir, NEW g \in File, dir' = Append(Without(dir, dir[i]), g)
          PROVE  dir' \in Seq(File)
      <4>1. Without(dir, dir[i]) \in Seq(File)
        BY SpoolTypes, WithoutLeaves
      <4> QED BY <3>2, <4>1
    <3> QED BY <1>3, <3>1, <3>2 DEF FilledIn
  <2> QED BY <1>3, <2>1 DEF FilledIn, Goes, SpoolTypeOK
<1>4. ASSUME NEW r \in Runners, Renamed(r) PROVE SpoolTypeOK'
  BY <1>4 DEF Renamed, Goes, SpoolTypeOK
<1>5. ASSUME NEW k \in Pruners, Scanned(k) PROVE SpoolTypeOK'
  <2>1. dir' \in Seq(File)
    BY <1>5, SpoolTypes, YoungLeaves DEF Scanned
  <2>3. CASE Ended(k)
    BY <1>5, <2>1, <2>3 DEF Scanned, Ended, Goes, SpoolTypeOK
  <2>4. CASE Lists(k, dir', Bytes(dir'))
    BY <1>5, <2>1, <2>4 DEF Scanned, Lists, SpoolTypeOK
  <2> QED BY <1>5, <2>3, <2>4 DEF Scanned
<1>6. ASSUME NEW k \in Pruners, Evicted(k) PROVE SpoolTypeOK'
  <2>1. CASE Ended(k) /\ dir' = dir
    BY <1>6, <2>1 DEF Evicted, Ended, Goes, SpoolTypeOK
  <2>2. CASE ~(Ended(k) /\ dir' = dir)
    <3> DEFINE todo == keeper[k].todo
    <3>1. /\ todo # <<>> /\ dir' = Without(dir, Head(todo)) /\ UNCHANGED <<said, reader>>
          /\ Lists(k, Tail(todo), keeper[k].bytes - Head(todo).size)
      BY <1>6, <2>2 DEF Evicted
    <3>2. dir' \in Seq(File)
      BY <3>1, SpoolTypes, WithoutLeaves
    <3> QED BY <3>1, <3>2 DEF Lists, SpoolTypeOK
  <2> QED BY <2>1, <2>2
<1>7. ASSUME NEW x \in Readers, ReadsOne(x) PROVE SpoolTypeOK'
  BY <1>7 DEF ReadsOne, SpoolTypeOK
<1>8. CASE TurnsOld
  BY <1>8 DEF TurnsOld, SpoolTypeOK
<1> QED BY <1>1, <1>2, <1>3, <1>4, <1>5, <1>6, <1>7, <1>8, SpoolStep

LEMMA SpoolInitType == SpoolInit => SpoolTypeOK
<1>1. NewRun \in Run /\ NoCall \in Call /\ NoPrune \in Prune
  BY DEF NewRun, Run, NoCall, Call, NoPrune, Prune
<1> QED BY <1>1 DEF SpoolInit, SpoolTypeOK

\* The variables of the spool keep their types, for any processes and any cap.
THEOREM SpoolTyped == SpoolSpec => []SpoolTypeOK
<1>1. SpoolTypeOK /\ UNCHANGED spoolVars => SpoolTypeOK'
  BY DEF SpoolTypeOK, spoolVars
<1> QED BY <1>1, SpoolInitType, SpoolTypeStep, PTL DEF SpoolSpec

-----------------------------------------------------------------------------
(* What becomes of the files.                                               *)

\* The first `n` files are those at the places e, in their order.
Stay(e, n) ==
  /\ n \in Nat /\ e \in [1..n -> 1..Len(dir)]
  /\ DOMAIN dir' = 1..Len(dir') /\ Len(dir') \in Nat /\ n <= Len(dir')
  /\ \A i \in 1..n : e[i] \in DOMAIN dir /\ dir'[i] = dir[e[i]]
  /\ \A i, j \in 1..n : i < j => e[i] < e[j]

\* All but the last, which is `g`.
Joins(e, n, g) ==
  /\ Stay(e, n) /\ Len(dir') = n + 1 /\ dir'[n + 1] = g
  /\ \A i \in DOMAIN dir' : i \in 1..n \/ i = n + 1

LEMMA StayOrder ==
  ASSUME NEW e, NEW n, Stay(e, n), NEW i \in 1..n, NEW j \in 1..n, e[i] < e[j]
  PROVE  i < j
<1>1. e[i] \in Int /\ e[j] \in Int
  BY DEF Stay
<1>2. CASE i = j
  BY <1>1, <1>2
<1>3. CASE j < i
  BY <1>1, <1>3 DEF Stay
<1> QED BY <1>2, <1>3 DEF Stay

LEMMA OpenedDir ==
  ASSUME SpoolTypeOK, NEW r \in Runners, Opened(r)
  PROVE  \E e, n : /\ Joins(e, n, EmptyFile(r)) /\ EmptyFile(r) \in File
                   /\ \A i \in DOMAIN dir : \E j \in 1..n : e[j] = i
<1> DEFINE n == Len(dir)
           e == [i \in 1..n |-> i]
<1>1. dir \in Seq(File) /\ EmptyFile(r) \in File /\ dir' = Append(dir, EmptyFile(r)) /\ DOMAIN dir = 1..n
      /\ n \in Nat
  BY SpoolTypes, FreshFile DEF Opened
<1>2. /\ Len(dir') = n + 1 /\ dir'[n + 1] = EmptyFile(r) /\ \A i \in 1..n : dir'[i] = dir[i]
      /\ DOMAIN dir' = 1..(n + 1)
  BY <1>1
<1>3. Joins(e, n, EmptyFile(r))
  BY <1>1, <1>2 DEF Joins, Stay
<1> QED BY <1>1, <1>3

LEMMA FilledDir ==
  ASSUME SpoolTypeOK, NEW p \in DOMAIN dir, NEW g \in File,
         dir' = Append(Without(dir, dir[p]), g)
  PROVE  \E e, n : /\ Joins(e, n, g)
                   /\ \A j \in 1..n : ~SamePath(dir[p], dir[e[j]])
                   /\ \A i \in DOMAIN dir : ~SamePath(dir[p], dir[i]) => \E j \in 1..n : e[j] = i
<1> DEFINE w == Without(dir, dir[p])
           n == Len(w)
<1>1. dir \in Seq(File) /\ DOMAIN dir = 1..Len(dir)
  BY SpoolTypes
<1>2. w \in Seq(File)
  BY <1>1, WithoutLeaves
<1>3. PICK e : /\ Left(e, w, dir)
               /\ \A j \in 1..n : ~SamePath(dir[p], dir[e[j]])
               /\ \A i \in 1..Len(dir) : ~SamePath(dir[p], dir[i]) => \E j \in 1..n : e[j] = i
  BY <1>1, WithoutLeaves
<1> HIDE DEF w
<1>4. /\ n \in Nat /\ Len(dir') = n + 1 /\ dir'[n + 1] = g /\ \A i \in 1..n : dir'[i] = w[i]
      /\ DOMAIN dir' = 1..(n + 1)
  BY <1>2 DEF w
<1> HIDE DEF n
<1>5. /\ e \in [1..n -> 1..Len(dir)]
      /\ \A i \in 1..n : e[i] \in DOMAIN dir /\ dir'[i] = dir[e[i]]
      /\ \A i, j \in 1..n : i < j => e[i] < e[j]
  BY <1>1, <1>3, <1>4 DEF Left, n
<1>6. Joins(e, n, g)
  BY <1>1, <1>4, <1>5 DEF Joins, Stay
<1> QED BY <1>1, <1>3, <1>6 DEF n

LEMMA EvictedDir ==
  ASSUME SpoolTypeOK, NEW f, dir' = Without(dir, f)
  PROVE  \E e : /\ Stay(e, Len(dir')) /\ dir' \in Seq(File)
                /\ \A j \in DOMAIN dir' : ~SamePath(f, dir[e[j]])
                /\ \A i \in DOMAIN dir : ~SamePath(f, dir[i]) => \E j \in DOMAIN dir' : e[j] = i
<1>1. dir \in Seq(File) /\ DOMAIN dir = 1..Len(dir)
  BY SpoolTypes
<1>2. dir' \in Seq(File)
  BY <1>1, WithoutLeaves
<1>3. PICK e : /\ Left(e, dir', dir)
               /\ \A j \in 1..Len(dir') : ~SamePath(f, dir[e[j]])
               /\ \A i \in 1..Len(dir) : ~SamePath(f, dir[i]) => \E j \in 1..Len(dir') : e[j] = i
  BY <1>1, WithoutLeaves
<1>4. DOMAIN dir' = 1..Len(dir') /\ Len(dir') \in Nat
  BY <1>2
<1>5. Stay(e, Len(dir'))
  <2>1. /\ e \in [1..Len(dir') -> 1..Len(dir)]
        /\ \A i \in 1..Len(dir') : e[i] \in DOMAIN dir /\ dir'[i] = dir[e[i]]
        /\ \A i, j \in 1..Len(dir') : i < j => e[i] < e[j]
    BY <1>1, <1>3 DEF Left
  <2> QED BY <1>4, <2>1 DEF Stay
<1> QED BY <1>1, <1>2, <1>3, <1>4, <1>5

LEMMA ScannedDir ==
  ASSUME SpoolTypeOK, dir' = Young(dir)
  PROVE  \E e : /\ Stay(e, Len(dir')) /\ dir' \in Seq(File)
                /\ \A j \in DOMAIN dir' : IsYoung(dir[e[j]])
                /\ \A i \in DOMAIN dir : IsYoung(dir[i]) => \E j \in DOMAIN dir' : e[j] = i
<1>1. dir \in Seq(File) /\ DOMAIN dir = 1..Len(dir)
  BY SpoolTypes
<1>2. dir' \in Seq(File)
  BY <1>1, YoungLeaves
<1>3. PICK e : /\ Left(e, dir', dir)
               /\ \A j \in 1..Len(dir') : IsYoung(dir[e[j]])
               /\ \A i \in 1..Len(dir) : IsYoung(dir[i]) => \E j \in 1..Len(dir') : e[j] = i
  BY <1>1, YoungLeaves
<1>4. DOMAIN dir' = 1..Len(dir') /\ Len(dir') \in Nat
  BY <1>2
<1>5. Stay(e, Len(dir'))
  <2>1. /\ e \in [1..Len(dir') -> 1..Len(dir)]
        /\ \A i \in 1..Len(dir') : e[i] \in DOMAIN dir /\ dir'[i] = dir[e[i]]
        /\ \A i, j \in 1..Len(dir') : i < j => e[i] < e[j]
    BY <1>1, <1>3 DEF Left
  <2> QED BY <1>4, <2>1 DEF Stay
<1> QED BY <1>1, <1>2, <1>3, <1>4, <1>5

\* What is done to the directory when something is: it is pruned of the old or
\* of one file.
LEMMA PrunedDir ==
  ASSUME SpoolTypeOK, NEW k \in Pruners, Scanned(k) \/ Evicted(k)
  PROVE  \E e : Stay(e, Len(dir')) /\ dir' \in Seq(File)
<1>1. CASE dir' = dir
  <2> DEFINE e == [i \in 1..Len(dir) |-> i]
  <2>1. Stay(e, Len(dir'))
    BY <1>1, SpoolTypes DEF Stay
  <2> QED BY <1>1, <2>1, SpoolTypes
<1>2. CASE dir' # dir
  BY <1>2, ScannedDir, EvictedDir DEF Scanned, Evicted
<1> QED BY <1>1, <1>2

-----------------------------------------------------------------------------
(* No torn read.                                                            *)

LEMMA TornStep ==
  ASSUME SpoolTypeOK, TornInv, SpoolNext
  PROVE  TornInv'
<1> DEFINE Fine(f) == \/ f.text = "whole"
                      \/ f.temp = "yes" /\ ~(RunAt(f.of, "put") /\ run[f.of].part = f.part)
<1>0. /\ \A i \in DOMAIN dir : dir[i] \in File /\ dir[i].of \in Runners
      /\ \A i \in DOMAIN dir : Fine(dir[i])
      /\ NoTornRead
  BY SpoolTypes, FileFields DEF TornInv
<1>1. ASSUME NEW r \in Runners, Along(r) PROVE TornInv'
  BY <1>0, <1>1 DEF Along, Goes, TornInv, RunAt, NoTornRead
<1>2. ASSUME NEW r \in Runners, Opened(r) PROVE TornInv'
  <2>1. PICK e, n : Joins(e, n, EmptyFile(r))
    BY <1>2, OpenedDir
  <2>2. ASSUME NEW i \in DOMAIN dir' PROVE Fine(dir[i])'
    <3>1. CASE i = n + 1
      BY <1>2, <2>1, <3>1, FreshFile DEF Joins, Opened, Goes, RunAt
    <3>2. CASE i \in 1..n
      <4>1. e[i] \in DOMAIN dir /\ dir'[i] = dir[e[i]]
        BY <2>1, <3>2 DEF Joins, Stay
      <4> QED BY <1>0, <1>2, <4>1 DEF Opened, Goes, RunAt
    <3> QED BY <2>1, <3>1, <3>2 DEF Joins
  <2> QED BY <1>0, <1>2, <2>2 DEF TornInv, NoTornRead, Opened
<1>3. ASSUME NEW r \in Runners, FilledIn(r) PROVE TornInv'
  <2>1. NoTornRead'
    BY <1>0, <1>3 DEF NoTornRead, FilledIn
  <2>2. CASE dir' = dir /\ \A i \in DOMAIN dir : ~SamePath(EmptyFile(r), dir[i])
    <3>1. ASSUME NEW i \in DOMAIN dir PROVE Fine(dir[i])'
      BY <1>0, <1>3, <2>2 DEF FilledIn, Goes, RunAt, SamePath, EmptyFile
    <3> QED BY <2>1, <2>2, <3>1 DEF TornInv
  <2>3. ASSUME NEW p \in DOMAIN dir, NEW g \in File, SamePath(EmptyFile(r), dir[p]),
               SamePath(g, dir[p]), g.text = "whole", dir' = Append(Without(dir, dir[p]), g)
        PROVE  TornInv'
    <3>1. PICK e, n : Joins(e, n, g) /\ \A j \in 1..n : ~SamePath(dir[p], dir[e[j]])
      BY <2>3, FilledDir
    <3>2. ASSUME NEW i \in DOMAIN dir' PROVE Fine(dir[i])'
      <4>1. CASE i = n + 1
        BY <2>3, <3>1, <4>1 DEF Joins
      <4>2. CASE i \in 1..n
        <5>1. e[i] \in DOMAIN dir /\ dir'[i] = dir[e[i]] /\ ~SamePath(dir[p], dir[e[i]])
          BY <3>1, <4>2 DEF Joins, Stay
        <5>2. ~SamePath(EmptyFile(r), dir[e[i]])
          BY <2>3, <5>1 DEF SamePath
        <5> QED BY <1>0, <1>3, <5>1, <5>2 DEF FilledIn, Goes, RunAt, SamePath, EmptyFile
      <4> QED BY <3>1, <4>1, <4>2 DEF Joins
    <3> QED BY <2>1, <3>2 DEF TornInv
  <2> QED BY <1>3, <2>2, <2>3 DEF FilledIn
<1>4. ASSUME NEW r \in Runners, Renamed(r) PROVE TornInv'
  <2>1. DOMAIN dir' = DOMAIN dir
    BY <1>4, SpoolTypes DEF Renamed
  <2>2. ASSUME NEW i \in DOMAIN dir PROVE Fine(dir[i])'
    <3>1. CASE SamePath(EmptyFile(r), dir[i])
      <4>1. dir[i].text = "whole"
        BY <1>0, <1>4, <3>1 DEF Renamed, SamePath, EmptyFile
      <4> QED BY <1>4, <3>1, <4>1 DEF Renamed
    <3>2. CASE ~SamePath(EmptyFile(r), dir[i])
      <4>1. dir'[i] = dir[i]
        BY <1>4, <3>2 DEF Renamed
      <4> QED BY <1>0, <1>4, <4>1 DEF Renamed, Goes, RunAt
    <3> QED BY <3>1, <3>2
  <2> QED BY <1>0, <1>4, <2>1, <2>2 DEF TornInv, NoTornRead, Renamed
<1>5. ASSUME NEW k \in Pruners, Scanned(k) \/ Evicted(k) PROVE TornInv'
  <2>1. PICK e : Stay(e, Len(dir'))
    BY <1>5, PrunedDir
  <2>2. /\ reader' = reader
        /\ \A r \in Runners : run'[r] = run[r] \/ run'[r].pc = "print"
    BY <1>5 DEF Scanned, Evicted, Ended, Lists, Goes
  <2>3. ASSUME NEW i \in DOMAIN dir' PROVE Fine(dir[i])'
    <3>1. e[i] \in DOMAIN dir /\ dir'[i] = dir[e[i]]
      BY <2>1 DEF Stay
    <3> QED BY <1>0, <2>2, <3>1 DEF RunAt
  <2> QED BY <1>0, <2>2, <2>3 DEF TornInv, NoTornRead
<1>6. ASSUME NEW x \in Readers, ReadsOne(x) PROVE TornInv'
  BY <1>0, <1>6 DEF ReadsOne, TornInv, NoTornRead, RunAt
<1>7. CASE TurnsOld
  <2>1. DOMAIN dir' = DOMAIN dir
    BY <1>7, SpoolTypes DEF TurnsOld
  <2>2. ASSUME NEW i \in DOMAIN dir PROVE Fine(dir[i])'
    BY <1>0, <1>7 DEF TurnsOld, SamePath, RunAt
  <2> QED BY <1>0, <1>7, <2>1, <2>2 DEF TurnsOld, TornInv, NoTornRead
<1> QED BY <1>1, <1>2, <1>3, <1>4, <1>5, <1>6, <1>7, SpoolStep

\* Whatever is written, renamed and deleted meanwhile, a read never returns half
\* an output: what has its final name is whole.
THEOREM ReadsAreWhole == SpoolSpec => []NoTornRead
<1>1. SpoolInit => TornInv
  BY DEF SpoolInit, TornInv, NoTornRead, NoCall
<1>2. SpoolTypeOK /\ TornInv /\ [SpoolNext]_spoolVars => TornInv'
  <2>1. TornInv /\ UNCHANGED spoolVars => TornInv'
    BY DEF TornInv, NoTornRead, spoolVars, RunAt
  <2> QED BY <2>1, TornStep
<1>3. TornInv => NoTornRead
  BY DEF TornInv
<1> QED BY <1>1, <1>2, <1>3, SpoolTyped, PTL DEF SpoolSpec

-----------------------------------------------------------------------------
(* Who owns which files, and which are old.                                 *)

LEMMA RunsOwn ==
  ASSUME SpoolTypeOK
  PROVE  /\ run \in [Runners -> Run]
         /\ \A i \in DOMAIN dir : dir[i] \in File /\ dir[i].of \in Runners
         /\ \A i \in DOMAIN dir : dir[i].part \in {"log", "meta"} /\ dir[i].temp \in {"yes", "no"}
         /\ \A r \in Runners : run[r].part \in {"log", "meta"} /\ r \in Pruners
BY SpoolTypes, FileFields, RunFields

LEMMA FilesAlong ==
  ASSUME SpoolTypeOK, FilesInv, NEW r \in Runners, Along(r)
  PROVE  FilesInv'
<1>1. \A q \in Runners : run'[q].pc \in {"count", "print", "prune"} => run'[q].part = "meta"
  BY DEF FilesInv, Along, Goes, RunAt
<1>2. \A q \in Runners : keeper'[q].pc = "evict" => RunAt(q, "prune")'
  BY DEF FilesInv, Along, Goes, RunAt
<1>3. ASSUME NEW i \in DOMAIN dir PROVE Due(dir[i])'
  <2>1. Due(dir[i]) /\ dir' = dir /\ dir[i].of \in Runners
    BY RunsOwn DEF FilesInv, Along
  <2>2. CASE dir[i].of # r
    BY <2>1, <2>2 DEF Due, Along, Goes
  <2>3. CASE dir[i].of = r
    BY <2>1, <2>3 DEF Due, Along, Goes, RunAt
  <2> QED BY <2>2, <2>3
<1>4. \A q \in said' : RunAt(q, "ended")'
  BY SpoolTypes DEF FilesInv, Along, Goes, RunAt
<1> QED BY <1>1, <1>2, <1>3, <1>4 DEF FilesInv, Along

LEMMA FilesOpened ==
  ASSUME SpoolTypeOK, FilesInv, NEW r \in Runners, Opened(r)
  PROVE  FilesInv'
<1>1. \A q \in Runners : run'[q].pc \in {"count", "print", "prune"} => run'[q].part = "meta"
  BY DEF FilesInv, Opened, Goes
<1>2. /\ \A q \in Runners : keeper'[q].pc = "evict" => RunAt(q, "prune")'
      /\ \A q \in said' : RunAt(q, "ended")'
  BY SpoolTypes DEF FilesInv, Opened, Goes, RunAt
<1>3. PICK e, n : Joins(e, n, EmptyFile(r))
  BY OpenedDir
<1>4. ASSUME NEW i \in 1..n
      PROVE  /\ e[i] \in DOMAIN dir /\ dir'[i] = dir[e[i]] /\ Due(dir[i])'
             /\ ~Key(dir'[i], EmptyFile(r))
  <2>1. e[i] \in DOMAIN dir /\ dir'[i] = dir[e[i]] /\ Due(dir[e[i]]) /\ dir[e[i]].of \in Runners
    BY <1>3, RunsOwn DEF Joins, Stay, FilesInv
  <2>2. CASE dir[e[i]].of # r
    BY <2>1, <2>2, FreshFile DEF Due, Opened, Goes, Key
  <2>3. CASE dir[e[i]].of = r
    BY <2>1, <2>3, FreshFile DEF Due, Opened, Goes, RunAt, Key
  <2> QED BY <2>1, <2>2, <2>3
<1>5. ASSUME NEW i, i = n + 1 PROVE Due(dir[i])'
  BY <1>3, <1>5, FreshFile DEF Joins, Due, Opened, Goes
<1>6. ASSUME NEW i \in DOMAIN dir', NEW j \in DOMAIN dir', i # j PROVE ~Key(dir'[i], dir'[j])
  <2>1. CASE i = n + 1
    BY <1>3, <1>4, <1>6, <2>1 DEF Joins, Key
  <2>2. CASE j = n + 1
    BY <1>3, <1>4, <1>6, <2>2 DEF Joins, Key
  <2>3. CASE i \in 1..n /\ j \in 1..n
    <3>1. e[i] # e[j]
      BY <1>3, <1>6, <2>3 DEF Joins, Stay
    <3> QED BY <1>4, <2>3, <3>1 DEF FilesInv, Key
  <2> QED BY <1>3, <2>1, <2>2, <2>3 DEF Joins
<1> QED BY <1>1, <1>2, <1>3, <1>4, <1>5, <1>6 DEF FilesInv, Joins, Key

LEMMA FilesFilled ==
  ASSUME SpoolTypeOK, FilesInv, NEW r \in Runners, FilledIn(r)
  PROVE  FilesInv'
<1>1. \A q \in Runners : run'[q].pc \in {"count", "print", "prune"} => run'[q].part = "meta"
  BY DEF FilesInv, FilledIn, Goes
<1>2. /\ \A q \in Runners : keeper'[q].pc = "evict" => RunAt(q, "prune")'
      /\ \A q \in said' : RunAt(q, "ended")'
  BY SpoolTypes DEF FilesInv, FilledIn, Goes, RunAt
<1>3. ASSUME NEW f, NEW f1, f1 = f, Due(f), f.of \in Runners
      PROVE  \/ run'[f1.of].pc = "ended"
             \/ run'[f1.of].pc \in {"fill", "put"} /\ f.temp = "yes" /\ f.part = run'[f1.of].part
             \/ run'[f1.of].pc \in {"open", "fill", "put"} /\ f.temp = "no" /\ f.part = "log"
                  /\ run'[f1.of].part = "meta"
             \/ run'[f1.of].pc \in {"count", "print", "prune"} /\ f.temp = "no"
  <2>1. CASE f.of # r
    BY <1>3, <2>1 DEF Due, FilledIn, Goes
  <2>2. CASE f.of = r
    BY <1>3, <2>2 DEF Due, FilledIn, Goes, RunAt
  <2> QED BY <2>1, <2>2
<1>4. CASE dir' = dir
  <2>1. \A i \in DOMAIN dir : Due(dir[i])'
    BY <1>3, <1>4, RunsOwn DEF FilesInv, Due
  <2> QED BY <1>1, <1>2, <1>4, <2>1 DEF FilesInv
<1>5. ASSUME NEW p \in DOMAIN dir, NEW g \in File, SamePath(EmptyFile(r), dir[p]),
             SamePath(g, dir[p]), dir' = Append(Without(dir, dir[p]), g)
      PROVE  FilesInv'
  <2>1. PICK e, n : Joins(e, n, g) /\ \A j \in 1..n : ~SamePath(dir[p], dir[e[j]])
    BY <1>5, FilledDir
  <2>2. ASSUME NEW i \in 1..n
        PROVE  /\ e[i] \in DOMAIN dir /\ dir'[i] = dir[e[i]] /\ Due(dir[i])'
               /\ ~Key(dir'[i], g)
    <3>1. e[i] \in DOMAIN dir /\ dir'[i] = dir[e[i]] /\ Due(dir[e[i]]) /\ dir[e[i]].of \in Runners
      BY <2>1, RunsOwn DEF Joins, Stay, FilesInv
    <3>2. Due(dir[i])'
      BY <1>3, <3>1 DEF Due
    <3>3. e[i] # p
      BY <2>1 DEF SamePath
    <3>4. ~Key(dir[e[i]], dir[p])
      BY <3>1, <3>3 DEF FilesInv, Key
    <3> QED BY <1>5, <3>1, <3>2, <3>4 DEF Key, SamePath
  <2>3. ASSUME NEW i, i = n + 1 PROVE Due(dir[i])'
    BY <1>5, <2>1, <2>3, FreshFile DEF Joins, Due, FilledIn, Goes, SamePath
  <2>4. ASSUME NEW i \in DOMAIN dir', NEW j \in DOMAIN dir', i # j PROVE ~Key(dir'[i], dir'[j])
    <3>1. CASE i = n + 1
      BY <2>1, <2>2, <2>4, <3>1 DEF Joins, Key
    <3>2. CASE j = n + 1
      BY <2>1, <2>2, <2>4, <3>2 DEF Joins, Key
    <3>3. CASE i \in 1..n /\ j \in 1..n
      <4>1. e[i] # e[j]
        BY <2>1, <2>4, <3>3 DEF Joins, Stay
      <4> QED BY <2>2, <3>3, <4>1 DEF FilesInv, Key
    <3> QED BY <2>1, <3>1, <3>2, <3>3 DEF Joins
  <2> QED BY <1>1, <1>2, <2>1, <2>2, <2>3, <2>4 DEF FilesInv, Joins, Key
<1> QED BY <1>4, <1>5 DEF FilledIn

LEMMA FilesRenamed ==
  ASSUME SpoolTypeOK, FilesInv, NEW r \in Runners, Renamed(r)
  PROVE  FilesInv'
<1>1. \A q \in Runners : run'[q].pc \in {"count", "print", "prune"} => run'[q].part = "meta"
  BY DEF FilesInv, Renamed, Goes
<1>2. /\ \A q \in Runners : keeper'[q].pc = "evict" => RunAt(q, "prune")'
      /\ \A q \in said' : RunAt(q, "ended")'
  BY SpoolTypes DEF FilesInv, Renamed, Goes, RunAt
<1>3. DOMAIN dir' = DOMAIN dir
  BY SpoolTypes DEF Renamed
<1>4. ASSUME NEW i \in DOMAIN dir PROVE Due(dir[i])' /\ Key(dir'[i], dir[i])
  <2>1. /\ Due(dir[i]) /\ dir[i].of \in Runners /\ dir[i].part \in {"log", "meta"}
        /\ dir[i].temp \in {"yes", "no"} /\ run[r].part \in {"log", "meta"} /\ RunAt(r, "put")
    BY RunsOwn DEF FilesInv, Renamed
  <2>2. CASE dir' = dir /\ Goes(r, "ended", "log", 0)
    BY <2>1, <2>2 DEF Due, Goes, Key
  <2>3. CASE ~(dir' = dir /\ Goes(r, "ended", "log", 0))
    <3>1. /\ Goes(r, IF run[r].part = "log" THEN "open" ELSE "count", "meta", run[r].size)
          /\ IF SamePath(EmptyFile(r), dir[i]) THEN Key(dir'[i], dir[i]) /\ dir'[i].temp = "no"
             ELSE dir'[i] = dir[i]
      BY <2>3 DEF Renamed
    <3>2. CASE dir[i].of # r
      BY <2>1, <3>1, <3>2, FreshFile DEF Due, Goes, SamePath, Key
    <3>3. CASE dir[i].of = r /\ dir[i].temp = "yes"
      <4>1. SamePath(EmptyFile(r), dir[i])
        BY <2>1, <3>3, FreshFile DEF Due, SamePath, RunAt
      <4> QED BY <2>1, <3>1, <3>3, <4>1 DEF Due, Goes, Key, RunAt
    <3>4. CASE dir[i].of = r /\ dir[i].temp = "no"
      BY <2>1, <3>1, <3>4, FreshFile DEF Due, Goes, SamePath, Key, RunAt
    <3> QED BY <2>1, <3>2, <3>3, <3>4
  <2> QED BY <2>2, <2>3
<1>5. \A i, j \in DOMAIN dir : i # j => ~Key(dir'[i], dir'[j])
  BY <1>4 DEF FilesInv, Key
<1> QED BY <1>1, <1>2, <1>3, <1>4, <1>5 DEF FilesInv, Key

LEMMA FilesPruned ==
  ASSUME SpoolTypeOK, FilesInv, NEW k \in Pruners, Scanned(k) \/ Evicted(k)
  PROVE  FilesInv'
<1>1. PICK e : Stay(e, Len(dir'))
  BY PrunedDir
<1>2. /\ said' = said
      /\ k \in Runners => RunAt(k, "prune")
      /\ \/ Ended(k)
         \/ run' = run /\ \A q \in Pruners : q # k => keeper'[q] = keeper[q]
  BY DEF Scanned, Evicted, Lists, FilesInv
<1>3. /\ \A q \in Runners : run'[q] = run[q] \/ (run'[q].pc = "print" /\ run'[q].part = run[q].part
                                                /\ RunAt(q, "prune") /\ q = k)
      /\ \A q \in Runners : keeper'[q].pc = "evict" => (run'[q] = run[q])
      /\ \A q \in Runners : q # k => keeper'[q] = keeper[q]
  BY <1>2, SpoolTypes DEF Ended, Goes
<1>4. \A q \in Runners : run'[q].pc \in {"count", "print", "prune"} => run'[q].part = "meta"
  BY <1>3 DEF FilesInv, RunAt
<1>5. /\ \A q \in Runners : keeper'[q].pc = "evict" => RunAt(q, "prune")'
      /\ \A q \in said' : RunAt(q, "ended")'
  BY <1>2, <1>3, SpoolTypes DEF FilesInv, RunAt
<1>6. ASSUME NEW i \in DOMAIN dir' PROVE e[i] \in DOMAIN dir /\ dir'[i] = dir[e[i]] /\ Due(dir[i])'
  <2>1. e[i] \in DOMAIN dir /\ dir'[i] = dir[e[i]]
    BY <1>1 DEF Stay
  <2>2. Due(dir[e[i]]) /\ dir[e[i]].of \in Runners
    BY <2>1, RunsOwn DEF FilesInv
  <2> QED BY <1>3, <2>1, <2>2 DEF Due, RunAt
<1>7. ASSUME NEW i \in DOMAIN dir', NEW j \in DOMAIN dir', i # j PROVE ~Key(dir'[i], dir'[j])
  <2>1. e[i] # e[j]
    BY <1>1, <1>7 DEF Stay
  <2> QED BY <1>6, <2>1 DEF FilesInv, Key
<1> QED BY <1>4, <1>5, <1>6, <1>7 DEF FilesInv, Key

LEMMA FilesStep ==
  ASSUME SpoolTypeOK, FilesInv, SpoolNext
  PROVE  FilesInv'
<1>1. ASSUME NEW x \in Readers, ReadsOne(x) PROVE FilesInv'
  BY <1>1 DEF ReadsOne, FilesInv, Due, RunAt
<1>2. CASE TurnsOld
  <2>1. DOMAIN dir' = DOMAIN dir
    BY <1>2, SpoolTypes DEF TurnsOld
  <2>2. ASSUME NEW i \in DOMAIN dir PROVE Due(dir[i])' /\ SamePath(dir'[i], dir[i])
    <3>1. SamePath(dir'[i], dir[i]) /\ Due(dir[i]) /\ run' = run
      BY <1>2 DEF TurnsOld, SamePath, FilesInv
    <3> QED BY <3>1 DEF Due, SamePath
  <2>3. \A i, j \in DOMAIN dir : i # j => ~Key(dir'[i], dir'[j])
    BY <2>2 DEF FilesInv, Key, SamePath
  <2> QED BY <1>2, <2>1, <2>2, <2>3 DEF TurnsOld, FilesInv, Key, RunAt
<1> QED BY <1>1, <1>2, FilesAlong, FilesOpened, FilesFilled, FilesRenamed, FilesPruned, SpoolStep

\* How far a run goes in a step, and that an ended one stays ended.
LEMMA EndedStays ==
  ASSUME SpoolTypeOK, FilesInv, SpoolNext, NEW r \in Runners
  PROVE  /\ RunAt(r, "ended") => RunAt(r, "ended")'
         /\ run[r].part = "meta" => (RunAt(r, "ended")' \/ run'[r].part = "meta")
<1>1. \A k \in Pruners : (Scanned(k) \/ Evicted(k)) /\ k \in Runners => RunAt(k, "prune")
  BY DEF Scanned, Evicted, FilesInv
<1> QED BY <1>1, SpoolStep
   DEF Along, Opened, FilledIn, Renamed, Goes, Scanned, Evicted, Ended, Lists, ReadsOne, TurnsOld, RunAt

LEMMA OldStep ==
  ASSUME SpoolTypeOK, FilesInv, OldInv, SpoolNext
  PROVE  OldInv'
<1> DEFINE Before(i) == \A j \in 1..(i - 1) : dir[j].old = "yes"
<1>0. /\ \A i \in DOMAIN dir : dir[i].of \in Runners
      /\ \A i \in DOMAIN dir : RunAt(dir[i].of, "ended") => RunAt(dir[i].of, "ended") /\ run'[dir[i].of].pc = "ended"
      /\ DOMAIN dir = 1..Len(dir) /\ Len(dir) \in Nat
      /\ \A i \in DOMAIN dir : dir[i].old = "yes" => RunAt(dir[i].of, "ended") /\ Before(i)
  BY SpoolTypes, RunsOwn, EndedStays DEF OldInv, RunAt
<1>1. CASE dir' = dir
  BY <1>0, <1>1 DEF OldInv, RunAt
<1>2. ASSUME NEW e, NEW n, Stay(e, n), NEW i \in 1..n, dir'[i].old = "yes"
      PROVE  RunAt(dir[i].of, "ended")' /\ Before(i)'
  <2>1. e[i] \in DOMAIN dir /\ dir'[i] = dir[e[i]] /\ Before(e[i]) /\ run'[dir[e[i]].of].pc = "ended"
    BY <1>0, <1>2 DEF Stay
  <2>2. ASSUME NEW j \in 1..(i - 1) PROVE dir'[j].old = "yes"
    <3>1. j \in 1..n /\ j < i
      BY <1>2 DEF Stay
    <3>2. e[j] \in 1..(e[i] - 1) /\ dir'[j] = dir[e[j]]
      BY <1>0, <1>2, <2>1, <3>1 DEF Stay
    <3> QED BY <2>1, <3>2
  <2> QED BY <2>1, <2>2 DEF RunAt
<1>3. ASSUME NEW e, NEW n, NEW g, Joins(e, n, g), g.old = "no" PROVE OldInv'
  <2>1. ASSUME NEW i \in DOMAIN dir', dir'[i].old = "yes" PROVE i \in 1..n
    BY <1>3, <2>1 DEF Joins
  <2>2. Stay(e, n)
    BY <1>3 DEF Joins
  <2> QED BY <1>2, <2>1, <2>2 DEF OldInv
<1>4. ASSUME NEW r \in Runners, Opened(r) PROVE OldInv'
  BY <1>3, <1>4, OpenedDir, FreshFile
<1>5. ASSUME NEW r \in Runners, FilledIn(r) PROVE OldInv'
  <2>1. ASSUME NEW p \in DOMAIN dir, NEW g \in File, SamePath(EmptyFile(r), dir[p]),
               g.old = dir[p].old, dir' = Append(Without(dir, dir[p]), g)
        PROVE  OldInv'
    <3>1. dir[p].of = r /\ RunAt(r, "fill") /\ dir[p] \in File
      BY <1>5, <2>1, FreshFile, SpoolTypes DEF SamePath, FilledIn
    <3>2. g.old = "no"
      BY <1>0, <2>1, <3>1, FileFields DEF RunAt
    <3>3. PICK e, n : Joins(e, n, g)
      BY <2>1, FilledDir
    <3> QED BY <1>3, <3>2, <3>3
  <2> QED BY <1>1, <1>5, <2>1 DEF FilledIn
<1>6. ASSUME NEW r \in Runners, Renamed(r) PROVE OldInv'
  <2>1. DOMAIN dir' = DOMAIN dir
    BY <1>6, SpoolTypes DEF Renamed
  <2>2. \A i \in DOMAIN dir : dir'[i].of = dir[i].of /\ dir'[i].old = dir[i].old
    BY <1>6 DEF Renamed, Key
  <2>3. \A i \in DOMAIN dir : \A j \in 1..(i - 1) : j \in DOMAIN dir
    BY <1>0
  <2> QED BY <1>0, <2>1, <2>2, <2>3 DEF OldInv, RunAt
<1>7. ASSUME NEW k \in Pruners, Scanned(k) \/ Evicted(k) PROVE OldInv'
  <2>1. PICK e : Stay(e, Len(dir'))
    BY <1>7, PrunedDir
  <2>2. DOMAIN dir' = 1..Len(dir')
    BY <2>1 DEF Stay
  <2> QED BY <1>2, <2>1, <2>2 DEF OldInv
<1>8. CASE TurnsOld
  <2>1. DOMAIN dir' = DOMAIN dir
    BY <1>8, SpoolTypes DEF TurnsOld
  <2>2. PICK p \in DOMAIN dir :
          /\ RunAt(dir[p].of, "ended") /\ Before(p)
          /\ \A j \in DOMAIN dir : j # p => dir'[j] = dir[j]
          /\ SamePath(dir'[p], dir[p]) /\ dir'[p].old = "yes"
    BY <1>8 DEF TurnsOld
  <2>3. ASSUME NEW i \in DOMAIN dir, dir'[i].old = "yes"
        PROVE  RunAt(dir[i].of, "ended")' /\ Before(i)'
    <3>1. RunAt(dir[i].of, "ended") /\ Before(i) /\ dir'[i].of = dir[i].of
      BY <1>0, <2>2, <2>3 DEF SamePath
    <3>2. \A j \in 1..(i - 1) : j \in DOMAIN dir
      BY <1>0
    <3>3. \A j \in 1..(i - 1) : dir'[j].old = "yes"
      BY <2>2, <3>1, <3>2
    <3> QED BY <1>8, <3>1, <3>3 DEF TurnsOld, RunAt
  <2> QED BY <2>1, <2>3 DEF OldInv
<1> QED BY <1>1, <1>4, <1>5, <1>6, <1>7, <1>8, SpoolStep DEF Along, ReadsOne

-----------------------------------------------------------------------------
(* The log of a summary has its metadata.                                   *)

LEMMA LogFirstStep ==
  ASSUME SpoolTypeOK, FilesInv, LogFirst, SpoolNext
  PROVE  LogFirst'
<1>0. DOMAIN dir = 1..Len(dir) /\ Len(dir) \in Nat
  BY SpoolTypes
<1>1. ASSUME NEW e, NEW n, Stay(e, n), NEW r \in Runners, NEW i \in 1..n, NEW j \in 1..n,
             IsLog(dir'[i], r), IsMeta(dir'[j], r)
      PROVE  i < j
  <2>1. /\ e[i] \in DOMAIN dir /\ dir'[i] = dir[e[i]]
        /\ e[j] \in DOMAIN dir /\ dir'[j] = dir[e[j]]
    BY <1>1 DEF Stay
  <2>2. e[i] < e[j]
    BY <1>1, <2>1 DEF LogFirst
  <2> QED BY <1>1, <2>2, StayOrder
<1>2. ASSUME NEW e, NEW n, NEW g, Joins(e, n, g), g.temp = "yes" PROVE LogFirst'
  <2>1. Stay(e, n) /\ n \in Nat
    BY <1>2 DEF Joins, Stay
  <2>2. ASSUME NEW r \in Runners, NEW i \in DOMAIN dir', NEW j \in DOMAIN dir',
               IsLog(dir'[i], r), IsMeta(dir'[j], r)
        PROVE  i < j
    <3>1. i \in 1..n
      BY <1>2, <2>2 DEF Joins, IsLog
    <3>2. CASE j = n + 1
      BY <2>1, <3>1, <3>2
    <3>3. CASE j \in 1..n
      BY <1>1, <2>1, <2>2, <3>1, <3>3
    <3> QED BY <1>2, <3>2, <3>3 DEF Joins
  <2> QED BY <2>2 DEF LogFirst
<1>3. ASSUME NEW r \in Runners, Opened(r) PROVE LogFirst'
  BY <1>2, <1>3, OpenedDir, FreshFile
<1>4. ASSUME NEW r \in Runners, FilledIn(r) PROVE LogFirst'
  <2>1. ASSUME NEW p \in DOMAIN dir, NEW g \in File, SamePath(EmptyFile(r), dir[p]),
               SamePath(g, dir[p]), dir' = Append(Without(dir, dir[p]), g)
        PROVE  LogFirst'
    <3>1. g.temp = "yes"
      BY <2>1, FreshFile DEF SamePath
    <3> QED BY <1>2, <2>1, <3>1, FilledDir
  <2> QED BY <1>4, <2>1 DEF FilledIn, LogFirst
<1>5. ASSUME NEW r \in Runners, Renamed(r) PROVE LogFirst'
  <2>1. DOMAIN dir' = DOMAIN dir
    BY <1>5, SpoolTypes DEF Renamed
  <2>2. ASSUME NEW q \in Runners, NEW i \in DOMAIN dir, NEW j \in DOMAIN dir,
               IsLog(dir'[i], q), IsMeta(dir'[j], q)
        PROVE  i < j
    <3>1. IsMeta(dir[j], q)
      BY <1>5, <2>2 DEF Renamed, Key, IsMeta
    <3>2. CASE IsLog(dir[i], q)
      BY <3>1, <3>2 DEF LogFirst
    <3>3. CASE ~IsLog(dir[i], q)
      <4>1. SamePath(EmptyFile(r), dir[i]) /\ Key(dir'[i], dir[i])
        BY <1>5, <2>2, <3>3 DEF Renamed, Key
      <4>2. q = r /\ run[r].part = "log" /\ RunAt(r, "put")
        BY <1>5, <2>2, <4>1, FreshFile DEF SamePath, Key, IsLog, Renamed
      <4>3. Due(dir[j])
        BY DEF FilesInv
      <4> QED BY <3>1, <4>2, <4>3 DEF Due, IsMeta, RunAt
    <3> QED BY <3>2, <3>3
  <2> QED BY <2>1, <2>2 DEF LogFirst
<1>6. ASSUME NEW k \in Pruners, Scanned(k) \/ Evicted(k) PROVE LogFirst'
  <2>1. PICK e : Stay(e, Len(dir'))
    BY <1>6, PrunedDir
  <2>2. DOMAIN dir' = 1..Len(dir')
    BY <2>1 DEF Stay
  <2> QED BY <1>1, <2>1, <2>2 DEF LogFirst
<1>7. CASE TurnsOld
  <2>1. DOMAIN dir' = DOMAIN dir
    BY <1>7, SpoolTypes DEF TurnsOld
  <2>2. \A i \in DOMAIN dir : SamePath(dir'[i], dir[i])
    BY <1>7 DEF TurnsOld, SamePath
  <2> QED BY <2>1, <2>2 DEF LogFirst, SamePath, IsLog, IsMeta
<1> QED BY <1>3, <1>4, <1>5, <1>6, <1>7, SpoolStep DEF Along, ReadsOne, LogFirst

(* A log there is now was there before, unless its run has just named it. *)
LEMMA LogsStay ==
  ASSUME SpoolTypeOK, SpoolNext, NEW q \in Runners, NEW i \in DOMAIN dir', IsLog(dir'[i], q)
  PROVE  \/ \E j \in DOMAIN dir : IsLog(dir[j], q)
         \/ /\ RunAt(q, "put") /\ run[q].part = "log" /\ run'[q].pc = "open"
            /\ said' = said /\ keeper' = keeper
<1>1. ASSUME NEW e, NEW n, Stay(e, n), i \in 1..n PROVE \E j \in DOMAIN dir : IsLog(dir[j], q)
  BY <1>1 DEF Stay
<1>2. ASSUME NEW e, NEW n, NEW g, Joins(e, n, g), g.temp = "yes"
      PROVE  \E j \in DOMAIN dir : IsLog(dir[j], q)
  <2>1. i \in 1..n
    BY <1>2 DEF Joins, IsLog
  <2> QED BY <1>1, <1>2, <2>1 DEF Joins
<1>3. ASSUME NEW r \in Runners, Opened(r) PROVE \E j \in DOMAIN dir : IsLog(dir[j], q)
  BY <1>2, <1>3, OpenedDir, FreshFile
<1>4. ASSUME NEW r \in Runners, FilledIn(r) PROVE \E j \in DOMAIN dir : IsLog(dir[j], q)
  <2>1. ASSUME NEW p \in DOMAIN dir, NEW g \in File, SamePath(EmptyFile(r), dir[p]),
               SamePath(g, dir[p]), dir' = Append(Without(dir, dir[p]), g)
        PROVE  \E j \in DOMAIN dir : IsLog(dir[j], q)
    <3>1. g.temp = "yes"
      BY <2>1, FreshFile DEF SamePath
    <3> QED BY <1>2, <2>1, <3>1, FilledDir
  <2> QED BY <1>4, <2>1 DEF FilledIn
<1>5. ASSUME NEW r \in Runners, Renamed(r), ~\E j \in DOMAIN dir : IsLog(dir[j], q)
      PROVE  /\ RunAt(q, "put") /\ run[q].part = "log" /\ run'[q].pc = "open"
             /\ said' = said /\ keeper' = keeper
  <2>1. DOMAIN dir' = DOMAIN dir
    BY <1>5, SpoolTypes DEF Renamed
  <2>2. SamePath(EmptyFile(r), dir[i]) /\ Key(dir'[i], dir[i]) /\ dir' # dir
    BY <1>5, <2>1 DEF Renamed
  <2>3. q = r /\ run[r].part = "log"
    BY <2>2, FreshFile DEF SamePath, Key, IsLog
  <2> QED BY <1>5, <2>2, <2>3 DEF Renamed, Goes
<1>6. ASSUME NEW k \in Pruners, Scanned(k) \/ Evicted(k) PROVE \E j \in DOMAIN dir : IsLog(dir[j], q)
  <2>1. PICK e : Stay(e, Len(dir'))
    BY <1>6, PrunedDir
  <2> QED BY <1>1, <2>1 DEF Stay
<1>7. CASE TurnsOld
  <2>1. i \in DOMAIN dir /\ SamePath(dir'[i], dir[i])
    BY <1>7, SpoolTypes DEF TurnsOld, SamePath
  <2> QED BY <2>1 DEF SamePath, IsLog
<1> QED BY <1>3, <1>4, <1>5, <1>6, <1>7, SpoolStep DEF Along, ReadsOne

LEMMA ListedFirstStep ==
  ASSUME SpoolTypeOK, FilesInv, LogFirst, LogFirst', SpoolNext, NEW k \in Pruners, ListedFirst(k)
  PROVE  ListedFirst(k)'
<1> DEFINE todo == keeper[k].todo
<1>1. ASSUME NEW r \in Runners, RunAt(r, "ended") \/ run[r].part = "meta"
      PROVE  /\ RunAt(r, "ended")' \/ run'[r].part = "meta"
             /\ (\E i \in DOMAIN dir' : IsLog(dir'[i], r)) => \E i \in DOMAIN dir : IsLog(dir[i], r)
  BY <1>1, EndedStays, LogsStay DEF RunAt
<1>2. CASE keeper'[k].todo = todo
  BY <1>1, <1>2 DEF ListedFirst
<1>3. CASE keeper'[k].todo = <<>>
  BY <1>3 DEF ListedFirst
<1>4. ASSUME Scanned(k), keeper'[k].todo = dir' PROVE ListedFirst(k)'
  <2>1. PICK e : Stay(e, Len(dir'))
    BY <1>4, PrunedDir
  <2>2. ASSUME NEW r \in Runners, NEW j \in DOMAIN dir', IsMeta(dir'[j], r)
        PROVE  /\ RunAt(r, "ended") \/ run[r].part = "meta"
               /\ \A i \in DOMAIN dir' : IsLog(dir'[i], r) => i \in 1..(j - 1)
    <3>1. e[j] \in DOMAIN dir /\ dir'[j] = dir[e[j]] /\ DOMAIN dir' = 1..Len(dir') /\ Len(dir') \in Nat
      BY <2>1 DEF Stay
    <3>2. Due(dir[e[j]])
      BY <3>1 DEF FilesInv
    <3>3. RunAt(r, "ended") \/ run[r].part = "meta"
      BY <2>2, <3>1, <3>2 DEF Due, IsMeta, RunAt, FilesInv
    <3>4. \A i \in DOMAIN dir' : IsLog(dir'[i], r) => i < j
      BY <2>2 DEF LogFirst
    <3> QED BY <3>1, <3>3, <3>4
  <2> QED BY <1>1, <1>4, <2>2 DEF ListedFirst
<1>5. ASSUME Evicted(k), keeper'[k].todo = Tail(todo), todo # <<>>, dir' = Without(dir, Head(todo))
      PROVE  ListedFirst(k)'
  <2>1. /\ Head(todo) = todo[1] /\ DOMAIN todo = 1..Len(todo) /\ Len(todo) \in Nat
        /\ DOMAIN Tail(todo) = 1..(Len(todo) - 1)
        /\ \A i \in 1..(Len(todo) - 1) : Tail(todo)[i] = todo[i + 1]
    BY <1>5, SpoolTypes, TailFiles
  <2>2. PICK e : Stay(e, Len(dir')) /\ \A j \in DOMAIN dir' : ~SamePath(Head(todo), dir[e[j]])
    BY <1>5, EvictedDir
  <2>3. ASSUME NEW r \in Runners, NEW j \in 1..(Len(todo) - 1), IsMeta(todo[j + 1], r)
        PROVE  /\ RunAt(r, "ended")' \/ run'[r].part = "meta"
               /\ (\E i \in DOMAIN dir' : IsLog(dir'[i], r)) =>
                    \E i \in 1..(j - 1) : IsLog(Tail(todo)[i], r)
    <3>1. j + 1 \in DOMAIN todo /\ (j + 1) - 1 = j
      BY <2>1
    <3>2. RunAt(r, "ended") \/ run[r].part = "meta"
      BY <2>3, <3>1 DEF ListedFirst
    <3>3. ASSUME NEW n \in DOMAIN dir', IsLog(dir'[n], r)
          PROVE  \E i \in 1..(j - 1) : IsLog(Tail(todo)[i], r)
      <4>1. \E i \in DOMAIN dir : IsLog(dir[i], r)
        BY <1>1, <3>2, <3>3
      <4>2. PICK i \in 1..j : IsLog(todo[i], r)
        BY <2>3, <3>1, <4>1 DEF ListedFirst
      <4>3. CASE i = 1
        <5>1. ~SamePath(todo[1], dir'[n])
          BY <2>1, <2>2, <3>3 DEF Stay
        <5> QED BY <3>3, <4>2, <4>3, <5>1 DEF SamePath, IsLog
      <4>4. CASE i # 1
        <5>1. i - 1 \in 1..(j - 1) /\ i - 1 \in 1..(Len(todo) - 1) /\ (i - 1) + 1 = i
          BY <2>1, <4>4
        <5>2. Tail(todo)[i - 1] = todo[i]
          BY <2>1, <5>1
        <5> QED BY <4>2, <5>1, <5>2
      <4> QED BY <4>3, <4>4
    <3> QED BY <1>1, <3>2, <3>3
  <2> QED BY <1>5, <2>1, <2>3 DEF ListedFirst
<1>6. ASSUME NEW q \in Pruners, Scanned(q) PROVE ListedFirst(k)'
  BY <1>2, <1>3, <1>4, <1>6 DEF Scanned, Ended, Lists
<1>7. ASSUME NEW q \in Pruners, Evicted(q) PROVE ListedFirst(k)'
  BY <1>2, <1>3, <1>5, <1>7 DEF Evicted, Ended, Lists
<1> QED BY <1>2, <1>6, <1>7, SpoolStep DEF Along, Opened, FilledIn, Renamed, ReadsOne, TurnsOld

LEMMA ToldStep ==
  ASSUME SpoolTypeOK, FilesInv, OldInv, MetaInv, SpoolNext
  PROVE  ToldHasMeta'
<1> DEFINE Log(r) == \E i \in DOMAIN dir : IsLog(dir[i], r)
           Final(f, r) == IsMeta(f, r) /\ f.temp = "no"
           Meta(r) == \E j \in DOMAIN dir : Final(dir[j], r)
<1> USE DEF MetaInv
<1>1. SUFFICES ASSUME NEW r \in Runners, Told(r)', NEW i \in DOMAIN dir', IsLog(dir'[i], r)
               PROVE  Meta(r)'
  BY DEF ToldHasMeta
<1>2. ASSUME Told(r) PROVE Log(r) /\ Meta(r)
  <2>1. Log(r)
    BY <1>1, <1>2, LogsStay DEF Told, FilesInv, RunAt
  <2> QED BY <1>2, <2>1 DEF ToldHasMeta
<1>3. ASSUME NEW q \in Runners, Along(q) PROVE Meta(r)'
  <2>1. Told(r)
    BY <1>1, <1>3 DEF Told, Along, Goes, RunAt
  <2> QED BY <1>2, <1>3, <2>1 DEF Along
<1>4. ASSUME NEW q \in Runners, Opened(q) PROVE Meta(r)'
  <2>1. Told(r)
    BY <1>1, <1>4 DEF Told, Opened, Goes
  <2>2. PICK e, n : Joins(e, n, EmptyFile(q)) /\ \A j \in DOMAIN dir : \E m \in 1..n : e[m] = j
    BY <1>4, OpenedDir
  <2>3. PICK j \in DOMAIN dir : Final(dir[j], r)
    BY <1>2, <2>1
  <2>4. PICK m \in 1..n : e[m] = j
    BY <2>2
  <2>5. m \in DOMAIN dir' /\ dir'[m] = dir[j]
    BY <2>2, <2>4 DEF Joins, Stay
  <2> QED BY <2>3, <2>5
<1>5. ASSUME NEW q \in Runners, FilledIn(q) PROVE Meta(r)'
  <2>1. Told(r)
    BY <1>1, <1>5 DEF Told, FilledIn, Goes
  <2>2. PICK j \in DOMAIN dir : Final(dir[j], r)
    BY <1>2, <2>1
  <2>3. ASSUME NEW p \in DOMAIN dir, NEW g \in File, SamePath(EmptyFile(q), dir[p]),
               dir' = Append(Without(dir, dir[p]), g)
        PROVE  Meta(r)'
    <3>1. PICK e, n : Joins(e, n, g) /\ \A b \in DOMAIN dir : ~SamePath(dir[p], dir[b]) => \E m \in 1..n : e[m] = b
      BY <2>3, FilledDir
    <3>2. ~SamePath(dir[p], dir[j])
      BY <2>2, <2>3, FreshFile DEF SamePath
    <3>3. PICK m \in 1..n : e[m] = j
      BY <3>1, <3>2
    <3>4. m \in DOMAIN dir' /\ dir'[m] = dir[j]
      BY <3>1, <3>3 DEF Joins, Stay
    <3> QED BY <2>2, <3>4
  <2> QED BY <1>5, <2>2, <2>3 DEF FilledIn
<1>6. ASSUME NEW q \in Runners, Renamed(q) PROVE Meta(r)'
  <2>1. DOMAIN dir' = DOMAIN dir
    BY <1>6, SpoolTypes DEF Renamed
  <2>2. CASE Told(r)
    <3>1. PICK j \in DOMAIN dir : Final(dir[j], r)
      BY <1>2, <2>2
    <3>2. ~SamePath(EmptyFile(q), dir[j])
      BY <3>1, FreshFile DEF SamePath
    <3>3. dir'[j] = dir[j]
      BY <1>6, <3>2 DEF Renamed
    <3> QED BY <2>1, <3>1, <3>3
  <2>3. CASE ~Told(r)
    <3>1. r = q /\ run'[q].pc = "count"
      BY <1>1, <1>6, <2>3 DEF Renamed, Told, Goes
    <3>2. PICK j \in DOMAIN dir : SamePath(EmptyFile(q), dir[j])
      BY <1>6, <3>1 DEF Renamed, Goes
    <3>3. run[q].part = "meta" /\ r = q
      BY <1>6, <3>1, RunsOwn DEF Renamed, Goes
    <3>4. Key(dir'[j], dir[j]) /\ dir'[j].temp = "no"
      BY <1>6, <3>1, <3>2, FreshFile DEF Renamed, Goes, SamePath
    <3>5. Final(dir'[j], r)
      BY <3>2, <3>3, <3>4, FreshFile DEF SamePath, Key, IsMeta
    <3> QED BY <2>1, <3>5
  <2> QED BY <2>2, <2>3
<1>7. ASSUME NEW k \in Pruners, Scanned(k) \/ Evicted(k) PROVE Told(r)
  BY <1>1, <1>7 DEF Told, Scanned, Evicted, Ended, Lists, Goes, FilesInv, RunAt
<1>8. ASSUME NEW k \in Pruners, Scanned(k) PROVE Meta(r)'
  <2>1. PICK e : /\ Stay(e, Len(dir')) /\ \A j \in DOMAIN dir' : IsYoung(dir[e[j]])
                 /\ \A b \in DOMAIN dir : IsYoung(dir[b]) => \E m \in DOMAIN dir' : e[m] = b
    BY <1>8, ScannedDir DEF Scanned
  <2>2. PICK j \in DOMAIN dir : Final(dir[j], r)
    BY <1>2, <1>7, <1>8
  <2>3. e[i] \in DOMAIN dir /\ dir'[i] = dir[e[i]] /\ IsYoung(dir[e[i]])
    BY <2>1 DEF Stay
  <2>4. e[i] < j
    BY <1>1, <2>2, <2>3 DEF LogFirst
  <2>5. IsYoung(dir[j])
    <3>1. DOMAIN dir = 1..Len(dir) /\ Len(dir) \in Nat /\ dir[j] \in File
      BY SpoolTypes
    <3>2. e[i] \in 1..(j - 1)
      BY <2>3, <2>4, <3>1
    <3>3. dir[j].old # "yes"
      BY <2>3, <3>2 DEF OldInv, IsYoung
    <3> QED BY <3>1, <3>3, FileFields DEF IsYoung
  <2>6. PICK m \in DOMAIN dir' : e[m] = j
    BY <2>1, <2>5
  <2>7. dir'[m] = dir[j]
    BY <2>1, <2>6 DEF Stay
  <2> QED BY <2>2, <2>6, <2>7
<1>9. ASSUME NEW k \in Pruners, Evicted(k) PROVE Meta(r)'
  <2> DEFINE todo == keeper[k].todo
  <2>1. PICK j \in DOMAIN dir : Final(dir[j], r)
    BY <1>2, <1>7, <1>9
  <2>2. CASE dir' = dir
    BY <2>1, <2>2
  <2>3. CASE dir' # dir
    <3>1. todo # <<>> /\ dir' = Without(dir, Head(todo))
      BY <1>9, <2>3 DEF Evicted
    <3>2. PICK e : /\ Stay(e, Len(dir'))
                   /\ \A b \in DOMAIN dir : ~SamePath(Head(todo), dir[b]) => \E m \in DOMAIN dir' : e[m] = b
      BY <3>1, EvictedDir
    <3>3. ~SamePath(Head(todo), dir[j])
      <4>1. Head(todo) = todo[1] /\ 1 \in DOMAIN todo
        BY <3>1, SpoolTypes, TailFiles
      <4>2. ~IsMeta(todo[1], r)
        BY <1>2, <1>7, <1>9, <4>1 DEF ListedFirst
      <4> QED BY <2>1, <4>1, <4>2 DEF SamePath, IsMeta
    <3>4. PICK m \in DOMAIN dir' : e[m] = j
      BY <3>2, <3>3
    <3>5. dir'[m] = dir[j]
      BY <3>2, <3>4 DEF Stay
    <3> QED BY <2>1, <3>4, <3>5
  <2> QED BY <2>2, <2>3
<1>10. CASE TurnsOld
  <2>1. DOMAIN dir' = DOMAIN dir
    BY <1>10, SpoolTypes DEF TurnsOld
  <2>2. \A j \in DOMAIN dir : SamePath(dir'[j], dir[j])
    BY <1>10 DEF TurnsOld, SamePath
  <2>3. Told(r)
    BY <1>1, <1>10 DEF TurnsOld, Told
  <2>4. PICK j \in DOMAIN dir : Final(dir[j], r)
    BY <1>2, <2>3
  <2> QED BY <2>1, <2>2, <2>4 DEF SamePath, IsMeta
<1>11. ASSUME NEW x \in Readers, ReadsOne(x) PROVE Meta(r)'
  BY <1>1, <1>2, <1>11 DEF ReadsOne, Told
<1> QED BY <1>3, <1>4, <1>5, <1>6, <1>8, <1>9, <1>10, <1>11, SpoolStep

\* A log somebody was pointed to is never there without its metadata, however
\* many processes write and prune at once.
THEOREM LogsHaveMeta == SpoolSpec => []SaidLogHasMeta
<1> DEFINE Inv == FilesInv /\ OldInv /\ MetaInv
<1>1. SpoolInit => Inv
  BY DEF SpoolInit, FilesInv, OldInv, MetaInv, LogFirst, ListedFirst, ToldHasMeta, NewRun, NoPrune,
         Pruners
<1>2. SpoolTypeOK /\ Inv /\ [SpoolNext]_spoolVars => Inv'
  <2>1. Inv /\ UNCHANGED spoolVars => Inv'
    BY DEF FilesInv, OldInv, MetaInv, LogFirst, ListedFirst, ToldHasMeta, Told, Due, RunAt, spoolVars
  <2>2. SpoolTypeOK /\ Inv /\ SpoolNext => Inv'
    BY FilesStep, OldStep, LogFirstStep, ListedFirstStep, ToldStep DEF MetaInv
  <2> QED BY <2>1, <2>2
<1>3. SpoolTypeOK /\ Inv => SaidLogHasMeta
  <2>1. SUFFICES ASSUME SpoolTypeOK, Inv, NEW r \in said, Exists(r, "log", "no")
                 PROVE  Exists(r, "meta", "no")
    BY DEF SaidLogHasMeta
  <2>2. r \in Runners /\ Told(r) /\ \E i \in DOMAIN dir : IsLog(dir[i], r)
    BY <2>1, SpoolTypes DEF Told, IsLog, Exists, Named
  <2>3. \E j \in DOMAIN dir : IsMeta(dir[j], r) /\ dir[j].temp = "no"
    BY <2>1, <2>2 DEF MetaInv, ToldHasMeta
  <2> QED BY <2>3 DEF IsMeta, Exists, Named
<1> HIDE DEF Inv
<1> QED BY <1>1, <1>2, <1>3, SpoolTyped, PTL DEF SpoolSpec

-----------------------------------------------------------------------------
(* What is recent survives.                                                 *)

LEMMA BytesEmpty == Bytes(<<>>) = 0
<1>1. <<>> \in Seq(File) /\ Len(<<>>) = 0
  OBVIOUS
<1> QED BY <1>1, BytesFcn

LEMMA BytesTail ==
  ASSUME NEW s \in Seq(File), s # <<>>
  PROVE  Bytes(s) = Head(s).size + Bytes(Tail(s))
<1> DEFINE t == Tail(s)
           N == Len(t)
<1>1. /\ t \in Seq(File) /\ N \in Nat /\ Len(s) = N + 1 /\ Head(s) = s[1]
      /\ \A i \in 1..N : t[i] = s[i + 1]
  BY TailFiles
<1>2. PICK a \in [0..Len(s) -> Nat] :
        /\ a[0] = 0 /\ Bytes(s) = a[Len(s)]
        /\ \A n \in 1..Len(s) : a[n] = a[n - 1] + s[n].size
  BY BytesFcn
<1> HIDE DEF t
<1>3. PICK b \in [0..N -> Nat] :
        /\ b[0] = 0 /\ Bytes(t) = b[N] /\ \A n \in 1..N : b[n] = b[n - 1] + t[n].size
  BY <1>1, BytesFcn
<1> HIDE DEF N
<1> DEFINE P == {n \in 0..N : a[n + 1] = s[1].size + b[n]}
<1>4. s[1].size \in Nat
  <2>1. s[1] \in File
    OBVIOUS
  <2> QED BY <2>1, FileFields
<1>5. 0 \in P
  <2>1. 1 \in 1..Len(s) /\ 1 - 1 = 0 /\ 0 + 1 = 1 /\ 0 \in 0..N
    BY <1>1
  <2>2. a[1] = a[0] + s[1].size
    BY <1>2, <2>1
  <2> QED BY <1>2, <1>3, <1>4, <2>1, <2>2
<1>6. ASSUME NEW n \in 1..N, n - 1 \in P PROVE n \in P
  <2>1. n + 1 \in 1..Len(s) /\ (n + 1) - 1 = n /\ (n - 1) + 1 = n /\ n \in 0..N /\ n - 1 \in 0..N
    BY <1>1
  <2>2. a[n + 1] = a[n] + s[n + 1].size
    BY <1>2, <2>1
  <2>3. b[n] = b[n - 1] + t[n].size /\ t[n] = s[n + 1]
    BY <1>1, <1>3
  <2>4. a[n] = s[1].size + b[n - 1]
    BY <1>6, <2>1
  <2>5. b[n - 1] \in Nat /\ s[n + 1].size \in Nat
    <3>1. s[n + 1] \in File
      BY <2>1
    <3> QED BY <1>3, <2>1, <3>1, FileFields
  <2>6. a[n + 1] = s[1].size + b[n]
    BY <1>4, <2>2, <2>3, <2>4, <2>5
  <2> QED BY <2>1, <2>6
<1> HIDE DEF P
<1>7. N \in P
  <2>1. 0..N \subseteq P
    BY <1>1, <1>5, <1>6, BoundedInduction
  <2> QED BY <1>1, <2>1
<1> QED BY <1>1, <1>2, <1>3, <1>7 DEF P, t

(* A list weighs no more than another that holds, in the same order, all that *)
(* weighs anything in it.                                                     *)
LEMMA BytesFit ==
  ASSUME NEW s \in Seq(File), NEW t \in Seq(File), NEW m,
         \A j \in 1..Len(s) : s[j].size # 0 => m[j] \in 1..Len(t) /\ t[m[j]].size = s[j].size,
         \A j, n \in 1..Len(s) : j < n /\ s[j].size # 0 /\ s[n].size # 0 => m[j] < m[n]
  PROVE  Bytes(s) <= Bytes(t)
<1> DEFINE M == Len(s)
           N == Len(t)
<1>1. /\ M \in Nat /\ N \in Nat
      /\ \A j \in 1..M : s[j].size \in Nat
      /\ \A j \in 1..N : t[j].size \in Nat
  <2>1. /\ \A j \in 1..M : s[j] \in File
        /\ \A j \in 1..N : t[j] \in File
    OBVIOUS
  <2> QED BY <2>1, FileFields
<1>2. PICK a \in [0..M -> Nat] :
        a[0] = 0 /\ Bytes(s) = a[M] /\ \A n \in 1..M : a[n] = a[n - 1] + s[n].size
  BY BytesFcn
<1>3. PICK b \in [0..N -> Nat] :
        b[0] = 0 /\ Bytes(t) = b[N] /\ \A n \in 1..N : b[n] = b[n - 1] + t[n].size
  BY BytesFcn
<1> HIDE DEF M, N
<1>4. \A k \in 0..N : \A l \in 0..k : b[l] <= b[k]
  <2> DEFINE P == {k \in 0..N : \A l \in 0..k : b[l] <= b[k]}
  <2>1. 0 \in P
    BY <1>1, <1>3
  <2>2. ASSUME NEW k \in 1..N, k - 1 \in P PROVE k \in P
    <3>1. k \in 0..N /\ k - 1 \in 0..N /\ b[k] = b[k - 1] + t[k].size /\ t[k].size \in Nat
          /\ b[k - 1] \in Nat /\ b[k] \in Nat
      BY <1>1, <1>3
    <3>2. ASSUME NEW l \in 0..k PROVE b[l] <= b[k]
      <4>1. CASE l = k
        BY <3>1, <4>1
      <4>2. CASE l # k
        <5>1. l \in 0..(k - 1) /\ l \in 0..N
          BY <1>1, <4>2
        <5>2. b[l] <= b[k - 1] /\ b[l] \in Nat
          BY <1>3, <2>2, <5>1
        <5> QED BY <3>1, <5>2
      <4> QED BY <4>1, <4>2
    <3> QED BY <3>1, <3>2
  <2> HIDE DEF P
  <2>3. 0..N \subseteq P
    BY <1>1, <2>1, <2>2, BoundedInduction
  <2> QED BY <2>3 DEF P
<1> DEFINE Upto(n, k) == \A j \in 1..n : s[j].size # 0 => m[j] <= k
           P == {n \in 0..M : \A k \in 0..N : Upto(n, k) => a[n] <= b[k]}
<1>5. 0 \in P
  BY <1>1, <1>2, <1>3
<1>6. ASSUME NEW n \in 1..M, n - 1 \in P PROVE n \in P
  <2>1. /\ n \in 0..M /\ n - 1 \in 0..M /\ a[n] = a[n - 1] + s[n].size /\ s[n].size \in Nat
        /\ a[n - 1] \in Nat /\ n \in 1..n /\ 1..(n - 1) \subseteq 1..n /\ 1..n \subseteq 1..M
    BY <1>1, <1>2
  <2>2. ASSUME NEW k \in 0..N, Upto(n, k) PROVE a[n] <= b[k]
    <3>1. CASE s[n].size = 0
      <4>1. Upto(n - 1, k)
        BY <2>1, <2>2
      <4>2. a[n - 1] <= b[k]
        BY <1>6, <4>1
      <4> QED BY <2>1, <3>1, <4>2
    <3>2. CASE s[n].size # 0
      <4>0. N \in Nat /\ k \in Nat /\ k <= N
        BY <1>1
      <4>1. m[n] \in 1..N /\ t[m[n]].size = s[n].size /\ m[n] <= k
        BY <2>1, <2>2, <3>2 DEF M, N
      <4>2. Upto(n - 1, m[n] - 1)
        <5>1. ASSUME NEW j \in 1..(n - 1), s[j].size # 0 PROVE m[j] <= m[n] - 1
          <6>1. j \in 1..M /\ j < n
            BY <2>1
          <6>2. m[j] < m[n] /\ m[j] \in 1..N
            BY <3>2, <5>1, <6>1 DEF M, N
          <6>3. m[j] \in Int /\ m[n] \in Int
            BY <4>0, <4>1, <6>2
          <6> QED BY <6>2, <6>3
        <5> QED BY <5>1
      <4>3. m[n] - 1 \in 0..N /\ m[n] \in 0..k /\ m[n] \in 0..N
        <5>1. m[n] \in Nat /\ 1 <= m[n] /\ m[n] <= N /\ m[n] <= k
          BY <4>0, <4>1
        <5> QED BY <4>0, <5>1
      <4> HIDE DEF Upto
      <4>4. a[n - 1] <= b[m[n] - 1]
        BY <1>6, <4>2, <4>3
      <4>5. b[m[n]] = b[m[n] - 1] + t[m[n]].size
        BY <1>3, <4>1
      <4>6. b[m[n]] <= b[k]
        BY <1>4, <4>3
      <4>7. b[m[n]] \in Nat /\ b[m[n] - 1] \in Nat /\ b[k] \in Nat
        BY <1>3, <4>3
      <4> QED BY <2>1, <4>1, <4>4, <4>5, <4>6, <4>7
    <3> QED BY <3>1, <3>2
  <2> HIDE DEF Upto
  <2> QED BY <2>1, <2>2
<1>7. M \in P
  <2> HIDE DEF P
  <2>1. 0..M \subseteq P
    BY <1>1, <1>5, <1>6, BoundedInduction
  <2> QED BY <1>1, <2>1
<1>8. Upto(M, N)
  BY <1>1 DEF M, N
<1>9. N \in 0..N
  BY <1>1
<1> HIDE DEF Upto
<1> QED BY <1>2, <1>3, <1>7, <1>8, <1>9

\* The files that are whole are there after the step, as they were and in the
\* order they were.
Lasting ==
  /\ \A i \in DOMAIN dir : dir[i].text = "whole" => \E j \in DOMAIN dir' : Still(dir'[j], dir[i])
  /\ \A i, m \in DOMAIN dir, j, n \in DOMAIN dir' :
       /\ dir[i].text = "whole" /\ dir[m].text = "whole" /\ i < m
       /\ Key(dir'[j], dir[i]) /\ Key(dir'[n], dir[m])
       => j < n

LEMMA OneFile ==
  ASSUME FilesInv, NEW i \in DOMAIN dir, NEW j \in DOMAIN dir, Key(dir[i], dir[j])
  PROVE  i = j
BY DEF FilesInv, Key

LEMMA StayKeepsOrder ==
  ASSUME SpoolTypeOK, FilesInv, NEW e, NEW c, Stay(e, c),
         NEW i \in DOMAIN dir, NEW m \in DOMAIN dir, i < m,
         NEW j \in 1..c, NEW n \in 1..c, Key(dir'[j], dir[i]), Key(dir'[n], dir[m])
  PROVE  j < n
<1>1. /\ e[j] \in DOMAIN dir /\ dir'[j] = dir[e[j]]
      /\ e[n] \in DOMAIN dir /\ dir'[n] = dir[e[n]]
  BY DEF Stay
<1>2. e[j] = i /\ e[n] = m
  BY <1>1, OneFile
<1> QED BY <1>2, StayOrder

LEMMA JoinsLasts ==
  ASSUME SpoolTypeOK, FilesInv, NEW e, NEW c, NEW g, Joins(e, c, g),
         \A i \in DOMAIN dir : dir[i].text = "whole" => ~Key(g, dir[i]) /\ \E j \in 1..c : e[j] = i
  PROVE  Lasting
<1>1. ASSUME NEW i \in DOMAIN dir, dir[i].text = "whole"
      PROVE  \E j \in DOMAIN dir' : Still(dir'[j], dir[i])
  <2>1. PICK j \in 1..c : e[j] = i
    BY <1>1
  <2>2. j \in DOMAIN dir' /\ dir'[j] = dir[i]
    BY <2>1 DEF Joins, Stay
  <2> QED BY <1>1, <2>2 DEF Still, Key
<1>2. ASSUME NEW i \in DOMAIN dir, NEW m \in DOMAIN dir, NEW j \in DOMAIN dir', NEW n \in DOMAIN dir',
             dir[i].text = "whole", dir[m].text = "whole", i < m,
             Key(dir'[j], dir[i]), Key(dir'[n], dir[m])
      PROVE  j < n
  <2>1. j \in 1..c /\ n \in 1..c
    BY <1>2 DEF Joins
  <2> QED BY <1>2, <2>1, StayKeepsOrder DEF Joins
<1> QED BY <1>1, <1>2 DEF Lasting

LEMMA InPlaceLasts ==
  ASSUME SpoolTypeOK, FilesInv, DOMAIN dir' = DOMAIN dir,
         \A i \in DOMAIN dir : /\ Key(dir'[i], dir[i]) /\ dir'[i].text = dir[i].text
                              /\ dir'[i].size = dir[i].size
  PROVE  Lasting
<1>1. \A i \in DOMAIN dir : dir[i].text = "whole" => Still(dir'[i], dir[i])
  BY DEF Still
<1>2. ASSUME NEW i \in DOMAIN dir, NEW j \in DOMAIN dir, Key(dir'[j], dir[i]) PROVE j = i
  <2>1. Key(dir[j], dir[i])
    BY <1>2 DEF Key
  <2> QED BY <2>1, OneFile
<1> QED BY <1>1, <1>2 DEF Lasting

LEMMA Lasts ==
  ASSUME SpoolTypeOK, FilesInv, SizesInv, SpoolNext
  PROVE  Lasting \/ \E k \in Pruners : Scanned(k) \/ Evicted(k)
<1>1. CASE dir' = dir
  BY <1>1, InPlaceLasts DEF Key
<1>2. ASSUME NEW r \in Runners, Opened(r) PROVE Lasting
  <2>1. PICK e, c : Joins(e, c, EmptyFile(r)) /\ \A i \in DOMAIN dir : \E j \in 1..c : e[j] = i
    BY <1>2, OpenedDir
  <2>2. ASSUME NEW i \in DOMAIN dir PROVE ~Key(EmptyFile(r), dir[i])
    <3>1. Due(dir[i]) /\ RunAt(r, "open")
      BY <1>2 DEF FilesInv, Opened
    <3> QED BY <3>1, FreshFile DEF Due, Key, RunAt
  <2> QED BY <2>1, <2>2, JoinsLasts
<1>3. ASSUME NEW r \in Runners, FilledIn(r) PROVE Lasting
  <2>1. ASSUME NEW p \in DOMAIN dir, NEW g \in File, SamePath(EmptyFile(r), dir[p]),
               SamePath(g, dir[p]), dir' = Append(Without(dir, dir[p]), g)
        PROVE  Lasting
    <3>1. PICK e, c : Joins(e, c, g) /\ \A i \in DOMAIN dir : ~SamePath(dir[p], dir[i]) => \E j \in 1..c : e[j] = i
      BY <2>1, FilledDir
    <3>2. dir[p].text = "partial"
      BY <1>3, <2>1, FreshFile DEF FilledIn, SizesInv, SamePath
    <3>3. ASSUME NEW i \in DOMAIN dir, dir[i].text = "whole" PROVE ~Key(dir[p], dir[i])
      BY <3>2, <3>3, OneFile
    <3>4. ASSUME NEW i \in DOMAIN dir, dir[i].text = "whole" PROVE ~Key(g, dir[i]) /\ ~SamePath(dir[p], dir[i])
      BY <2>1, <3>3, <3>4 DEF Key, SamePath
    <3> QED BY <3>1, <3>4, JoinsLasts
  <2>2. CASE dir' = dir
    BY <2>2, InPlaceLasts DEF Key
  <2>3. CASE dir' # dir
    <3>1. \E p \in DOMAIN dir, g \in File :
            SamePath(EmptyFile(r), dir[p]) /\ SamePath(g, dir[p]) /\ dir' = Append(Without(dir, dir[p]), g)
      BY <1>3, <2>3 DEF FilledIn
    <3> QED BY <2>1, <3>1
  <2> QED BY <2>2, <2>3
<1>4. ASSUME NEW r \in Runners, Renamed(r) PROVE Lasting
  <2>1. DOMAIN dir' = DOMAIN dir
    BY <1>4, SpoolTypes DEF Renamed
  <2>2. \A i \in DOMAIN dir : /\ Key(dir'[i], dir[i]) /\ dir'[i].text = dir[i].text
                             /\ dir'[i].size = dir[i].size
    BY <1>4 DEF Renamed, Key
  <2> QED BY <2>1, <2>2, InPlaceLasts
<1>5. CASE TurnsOld
  <2>1. DOMAIN dir' = DOMAIN dir
    BY <1>5, SpoolTypes DEF TurnsOld
  <2>2. \A i \in DOMAIN dir : /\ Key(dir'[i], dir[i]) /\ dir'[i].text = dir[i].text
                             /\ dir'[i].size = dir[i].size
    BY <1>5 DEF TurnsOld, Key, SamePath
  <2> QED BY <2>1, <2>2, InPlaceLasts
<1> QED BY <1>1, <1>2, <1>3, <1>4, <1>5, SpoolStep DEF Along, ReadsOne

LEMMA NoneElseStep ==
  ASSUME SpoolTypeOK, NoneElse, PruneEvery # 1, SpoolNext
  PROVE  NoneElse'
<1>1. 1 % PruneEvery # 0
  BY SpoolAssumption
<1>2. NoPrune.pc = "idle"
  BY DEF NoPrune
<1>3. ASSUME NEW k \in Pruners, Scanned(k) \/ Evicted(k)
      PROVE  k \notin Runners /\ run' = run /\ \A q \in Pruners : q # k => keeper'[q] = keeper[q]
  BY <1>2, <1>3 DEF NoneElse, Scanned, Evicted, Ended, Lists, RunAt
<1>4. \A r \in Runners : r \in Pruners
  BY DEF Pruners
<1>5. ASSUME NEW r \in Runners, Along(r) \/ Opened(r) \/ FilledIn(r) \/ Renamed(r) PROVE NoneElse'
  BY <1>1, <1>5 DEF NoneElse, Along, Opened, FilledIn, Renamed, Goes
<1> QED BY <1>3, <1>4, <1>5, SpoolStep DEF NoneElse, ReadsOne, TurnsOld

LEMMA SizesStep ==
  ASSUME SpoolTypeOK, FilesInv, SizesInv, SpoolNext
  PROVE  SizesInv'
<1> DEFINE Light(f) ==
             /\ f.text = "partial" => f.size = 0
             /\ f.temp = "yes" /\ RunAt(f.of, "fill") /\ run[f.of].part = f.part => f.text = "partial"
<1>0. /\ \A i \in DOMAIN dir : dir[i].of \in Runners
      /\ \A i \in DOMAIN dir : Light(dir[i])
  BY RunsOwn DEF SizesInv
<1>1. ASSUME NEW r \in Runners, Along(r) PROVE SizesInv'
  <2>1. \A i \in DOMAIN dir : Light(dir[i])'
    BY <1>0, <1>1 DEF Along, Goes, RunAt
  <2> QED BY <1>1, <2>1 DEF SizesInv, Along
<1>2. ASSUME NEW r \in Runners, Opened(r) PROVE SizesInv'
  <2>1. PICK e, n : Joins(e, n, EmptyFile(r))
    BY <1>2, OpenedDir
  <2>2. ASSUME NEW i \in DOMAIN dir' PROVE Light(dir[i])'
    <3>1. CASE i = n + 1
      BY <2>1, <3>1, FreshFile DEF Joins
    <3>2. CASE i \in 1..n
      <4>1. e[i] \in DOMAIN dir /\ dir'[i] = dir[e[i]] /\ Due(dir[e[i]]) /\ Light(dir[e[i]])
            /\ dir[e[i]].of \in Runners
        BY <1>0, <2>1, <3>2 DEF Joins, Stay, FilesInv
      <4>2. CASE dir[e[i]].of # r
        BY <1>2, <4>1, <4>2 DEF Opened, Goes, RunAt
      <4>3. CASE dir[e[i]].of = r
        BY <1>2, <4>1, <4>3 DEF Opened, Goes, RunAt, Due
      <4> QED BY <4>2, <4>3
    <3> QED BY <2>1, <3>1, <3>2 DEF Joins
  <2> QED BY <2>2 DEF SizesInv
<1>3. ASSUME NEW r \in Runners, FilledIn(r) PROVE SizesInv'
  <2>1. \A q \in Runners : RunAt(q, "fill")' => RunAt(q, "fill") /\ run'[q] = run[q]
    BY <1>3 DEF FilledIn, Goes, RunAt
  <2>2. CASE dir' = dir
    <3>1. \A i \in DOMAIN dir : Light(dir[i])'
      BY <1>0, <2>1, <2>2
    <3> QED BY <2>2, <3>1 DEF SizesInv
  <2>3. ASSUME NEW p \in DOMAIN dir, NEW g \in File, g.text = "whole", g.of = r,
               dir' = Append(Without(dir, dir[p]), g)
        PROVE  SizesInv'
    <3>1. PICK e, n : Joins(e, n, g)
      BY <2>3, FilledDir
    <3>2. ASSUME NEW i \in DOMAIN dir', i = n + 1 PROVE Light(dir[i])'
      <4>1. dir'[i] = g /\ ~RunAt(r, "fill")'
        BY <1>3, <3>1, <3>2 DEF Joins, FilledIn, Goes, RunAt
      <4> QED BY <2>3, <4>1
    <3>3. ASSUME NEW i \in 1..n PROVE Light(dir[i])'
      <4>1. e[i] \in DOMAIN dir /\ dir'[i] = dir[e[i]]
        BY <3>1 DEF Joins, Stay
      <4> QED BY <1>0, <2>1, <4>1
    <3> QED BY <3>1, <3>2, <3>3 DEF SizesInv, Joins
  <2>4. CASE dir' # dir
    <3>1. PICK p \in DOMAIN dir, g \in File :
            /\ SamePath(EmptyFile(r), dir[p]) /\ SamePath(g, dir[p]) /\ g.text = "whole"
            /\ dir' = Append(Without(dir, dir[p]), g)
      BY <1>3, <2>4 DEF FilledIn
    <3>2. g.of = r
      BY <3>1, FreshFile DEF SamePath
    <3> QED BY <2>3, <3>1, <3>2
  <2> QED BY <2>2, <2>4
<1>4. ASSUME NEW r \in Runners, Renamed(r) PROVE SizesInv'
  <2>1. DOMAIN dir' = DOMAIN dir
    BY <1>4, SpoolTypes DEF Renamed
  <2>2. /\ \A q \in Runners : RunAt(q, "fill")' => RunAt(q, "fill") /\ run'[q] = run[q]
        /\ \A i \in DOMAIN dir : /\ Key(dir'[i], dir[i]) /\ dir'[i].text = dir[i].text
                                /\ dir'[i].size = dir[i].size /\ dir'[i].temp \in {dir[i].temp, "no"}
    BY <1>4 DEF Renamed, Goes, Key, RunAt
  <2>3. ASSUME NEW i \in DOMAIN dir PROVE Light(dir[i])'
    BY <1>0, <2>2 DEF Key
  <2> QED BY <2>1, <2>3 DEF SizesInv
<1>5. ASSUME NEW k \in Pruners, Scanned(k) \/ Evicted(k) PROVE SizesInv'
  <2>1. PICK e : Stay(e, Len(dir'))
    BY <1>5, PrunedDir
  <2>2. \A r \in Runners : run'[r] = run[r] \/ run'[r].pc = "print"
    BY <1>5 DEF Scanned, Evicted, Ended, Lists, Goes
  <2>3. ASSUME NEW i \in DOMAIN dir' PROVE Light(dir[i])'
    <3>1. e[i] \in DOMAIN dir /\ dir'[i] = dir[e[i]]
      BY <2>1 DEF Stay
    <3> QED BY <1>0, <2>2, <3>1 DEF RunAt
  <2> QED BY <2>3 DEF SizesInv
<1>6. ASSUME NEW x \in Readers, ReadsOne(x) PROVE SizesInv'
  BY <1>6 DEF ReadsOne, SizesInv, RunAt
<1>7. CASE TurnsOld
  <2>1. DOMAIN dir' = DOMAIN dir
    BY <1>7, SpoolTypes DEF TurnsOld
  <2>2. ASSUME NEW i \in DOMAIN dir PROVE Light(dir[i])'
    <3>1. SamePath(dir'[i], dir[i]) /\ dir'[i].text = dir[i].text /\ dir'[i].size = dir[i].size /\ run' = run
      BY <1>7 DEF TurnsOld, SamePath
    <3> QED BY <1>0, <3>1 DEF SamePath, RunAt
  <2> QED BY <2>1, <2>2 DEF SizesInv
<1> QED BY <1>1, <1>2, <1>3, <1>4, <1>5, <1>6, <1>7, SpoolStep

LEMMA OnlyKeepers ==
  ASSUME NoneElse, NEW q \in Pruners, Scanned(q) \/ Evicted(q)
  PROVE  q \in Keepers
<1>1. NoPrune.pc = "idle"
  BY DEF NoPrune
<1> QED BY <1>1 DEF NoneElse, Scanned, Evicted, RunAt, Pruners

LEMMA InStepLasts ==
  ASSUME FilesInv, Lasting, NEW k \in Keepers, keeper' = keeper, InStep(k)
  PROVE  InStep(k)'
<1> DEFINE todo == keeper[k].todo
<1>1. ASSUME NEW j \in DOMAIN todo, todo[j].text = "whole"
      PROVE  \E i \in DOMAIN dir : Still(dir[i], todo[j])
  BY <1>1 DEF InStep
<1>2. ASSUME NEW j \in DOMAIN todo, todo[j].text = "whole"
      PROVE  \E i \in DOMAIN dir' : Still(dir'[i], todo[j])
  <2>1. PICK i \in DOMAIN dir : Still(dir[i], todo[j])
    BY <1>1, <1>2
  <2>2. PICK m \in DOMAIN dir' : Still(dir'[m], dir[i])
    BY <2>1 DEF Lasting, Still
  <2> QED BY <2>1, <2>2 DEF Still, Key
<1>3. ASSUME NEW j \in DOMAIN todo, NEW n \in DOMAIN todo, NEW i \in DOMAIN dir', NEW m \in DOMAIN dir',
             j < n, todo[j].text = "whole", todo[n].text = "whole",
             Key(dir'[i], todo[j]), Key(dir'[m], todo[n])
      PROVE  i < m
  <2>1. PICK a \in DOMAIN dir : Still(dir[a], todo[j])
    BY <1>1, <1>3
  <2>2. PICK b \in DOMAIN dir : Still(dir[b], todo[n])
    BY <1>1, <1>3
  <2>3. a < b
    BY <1>3, <2>1, <2>2 DEF InStep, Still
  <2> QED BY <1>3, <2>1, <2>2, <2>3 DEF Lasting, Still, Key
<1> QED BY <1>2, <1>3 DEF InStep

LEMMA InStepScan ==
  ASSUME SpoolTypeOK, SpoolTypeOK', TornInv', FilesInv', SizesInv', NEW k \in Keepers,
         keeper'[k].todo = dir', keeper'[k].bytes = Bytes(dir')
  PROVE  InStep(k)'
<1>1. \A i \in DOMAIN dir' : dir'[i].text \in {"partial", "whole"}
  <2>1. dir' \in Seq(File)
    BY DEF SpoolTypeOK
  <2>2. \A i \in DOMAIN dir' : dir'[i] \in File
    BY <2>1
  <2> QED BY <2>2, FileFields
<1> QED BY <1>1 DEF InStep, TornInv, FilesInv, SizesInv, Still, Key

LEMMA InStepEvict ==
  ASSUME SpoolTypeOK, FilesInv, NEW k \in Keepers, InStep(k),
         keeper[k].todo # <<>>, dir' = Without(dir, Head(keeper[k].todo)),
         Lists(k, Tail(keeper[k].todo), keeper[k].bytes - Head(keeper[k].todo).size)
  PROVE  InStep(k)'
<1> DEFINE todo == keeper[k].todo
           rest == Tail(todo)
<1>1. /\ k \in Pruners /\ todo \in Seq(File) /\ Head(todo) = todo[1] /\ 1 \in DOMAIN todo
      /\ rest \in Seq(File) /\ DOMAIN rest = 1..(Len(todo) - 1)
      /\ \A i \in 1..(Len(todo) - 1) : rest[i] = todo[i + 1] /\ i + 1 \in DOMAIN todo /\ i + 1 # 1
      /\ Head(todo).size \in Nat
  <2>1. k \in Pruners /\ todo \in Seq(File)
    BY SpoolTypes DEF Pruners
  <2> QED BY <2>1, TailFiles, FileFields
<1>2. keeper'[k].todo = rest /\ keeper'[k].bytes = keeper[k].bytes - Head(todo).size
  BY DEF Lists
<1>3. Bytes(todo) = Head(todo).size + Bytes(rest) /\ Bytes(rest) \in Nat
  BY <1>1, BytesTail, BytesNat
<1>4. PICK e : /\ Stay(e, Len(dir'))
               /\ \A i \in DOMAIN dir : ~SamePath(Head(todo), dir[i]) => \E j \in DOMAIN dir' : e[j] = i
  BY EvictedDir
<1> HIDE DEF rest, todo
<1>5. keeper'[k].bytes = Bytes(rest)
  BY <1>1, <1>2, <1>3 DEF InStep, todo
<1>6. /\ \A i, j \in DOMAIN todo : i # j => ~Key(todo[i], todo[j])
      /\ \A j \in DOMAIN todo :
           IF todo[j].text = "whole" THEN \E i \in DOMAIN dir : Still(dir[i], todo[j])
           ELSE todo[j].size = 0 /\ todo[j].temp = "yes"
      /\ \A j, n \in DOMAIN todo, i, m \in DOMAIN dir :
           j < n /\ todo[j].text = "whole" /\ todo[n].text = "whole"
           /\ Key(dir[i], todo[j]) /\ Key(dir[m], todo[n]) => i < m
  BY DEF InStep, todo
<1>7. \A i, j \in DOMAIN rest : i # j => ~Key(rest[i], rest[j])
  BY <1>1, <1>6
<1>8. ASSUME NEW j \in DOMAIN rest
      PROVE  IF rest[j].text = "whole" THEN \E i \in DOMAIN dir' : Still(dir'[i], rest[j])
             ELSE rest[j].size = 0 /\ rest[j].temp = "yes"
  <2>1. rest[j] = todo[j + 1] /\ j + 1 \in DOMAIN todo /\ ~Key(todo[j + 1], todo[1])
    BY <1>1, <1>6
  <2>2. CASE rest[j].text # "whole"
    BY <1>6, <2>1, <2>2
  <2>3. CASE rest[j].text = "whole"
    <3>1. PICK i \in DOMAIN dir : Still(dir[i], rest[j])
      BY <1>6, <2>1, <2>3
    <3>2. ~SamePath(Head(todo), dir[i])
      BY <1>1, <2>1, <3>1 DEF SamePath, Still, Key
    <3>3. PICK m \in DOMAIN dir' : e[m] = i
      BY <1>4, <3>2
    <3>4. dir'[m] = dir[i]
      BY <1>4, <3>3 DEF Stay
    <3> QED BY <2>3, <3>1, <3>4
  <2> QED BY <2>2, <2>3
<1>9. ASSUME NEW j \in DOMAIN rest, NEW n \in DOMAIN rest, NEW i \in DOMAIN dir', NEW m \in DOMAIN dir',
             j < n, rest[j].text = "whole", rest[n].text = "whole",
             Key(dir'[i], rest[j]), Key(dir'[m], rest[n])
      PROVE  i < m
  <2>1. /\ rest[j] = todo[j + 1] /\ j + 1 \in DOMAIN todo
        /\ rest[n] = todo[n + 1] /\ n + 1 \in DOMAIN todo
    BY <1>1
  <2>2. j + 1 < n + 1
    BY <1>1, <1>9
  <2>3. /\ e[i] \in DOMAIN dir /\ dir'[i] = dir[e[i]] /\ i \in 1..Len(dir')
        /\ e[m] \in DOMAIN dir /\ dir'[m] = dir[e[m]] /\ m \in 1..Len(dir')
    BY <1>4 DEF Stay
  <2>4. e[i] < e[m]
    BY <1>6, <1>9, <2>1, <2>2, <2>3
  <2> QED BY <1>4, <2>3, <2>4, StayOrder
<1> QED BY <1>2, <1>5, <1>7, <1>8, <1>9 DEF InStep

LEMMA PruneStep ==
  ASSUME Lone, PruneEvery # 1, SpoolTypeOK, SpoolTypeOK', TornInv', FilesInv, FilesInv', PruneInv, SpoolNext
  PROVE  PruneInv'
<1>0. NoneElse /\ SizesInv /\ NoneElse' /\ SizesInv'
  BY NoneElseStep, SizesStep DEF PruneInv
<1> SUFFICES ASSUME NEW k \in Keepers PROVE InStep(k)'
  BY <1>0 DEF PruneInv
<1>1. InStep(k) /\ \A q \in Keepers : q = k
  BY DEF PruneInv, Lone
<1>2. CASE \E q \in Pruners : Scanned(q) \/ Evicted(q)
  <2>1. Scanned(k) \/ Evicted(k)
    BY <1>0, <1>1, <1>2, OnlyKeepers
  <2>2. CASE Ended(k)
    <3>1. keeper'[k].todo = <<>> /\ keeper'[k].bytes = 0
      BY <2>2 DEF Ended
    <3> QED BY <3>1, BytesEmpty DEF InStep
  <2>3. CASE ~Ended(k) /\ Scanned(k)
    <3>1. keeper'[k].todo = dir' /\ keeper'[k].bytes = Bytes(dir')
      BY <2>3 DEF Scanned, Lists
    <3> QED BY <1>0, <3>1, InStepScan
  <2>4. CASE ~Ended(k) /\ Evicted(k)
    BY <1>1, <2>4, InStepEvict DEF Evicted
  <2> QED BY <2>1, <2>2, <2>3, <2>4
<1>3. CASE ~\E q \in Pruners : Scanned(q) \/ Evicted(q)
  <2>1. keeper' = keeper
    BY <1>3, SpoolStep DEF Along, Opened, FilledIn, Renamed, ReadsOne, TurnsOld
  <2>2. Lasting
    BY <1>0, <1>3, Lasts
  <2> QED BY <1>1, <2>1, <2>2, InStepLasts
<1> QED BY <1>2, <1>3

(* What is weighed against the cap from a file on is at most what is there. *)
LEMMA EvictedIsHeavy ==
  ASSUME SpoolTypeOK, FilesInv, NEW k \in Keepers, InStep(k), Evicted(k), dir' # dir,
         NEW p \in DOMAIN dir, dir[p].temp = "no", SamePath(Head(keeper[k].todo), dir[p])
  PROVE  Bytes(SubSeq(dir, p, Len(dir))) > Target
<1> DEFINE todo == keeper[k].todo
           after == SubSeq(dir, p, Len(dir))
           At(j) == CHOOSE i \in DOMAIN dir : Still(dir[i], todo[j])
           m == [j \in 1..Len(todo) |-> At(j) - p + 1]
<1>1. k \in Pruners /\ todo \in Seq(File) /\ todo # <<>> /\ Bytes(todo) > Target
  <2>1. k \in Pruners /\ todo # <<>> /\ keeper[k].bytes > Target
    BY DEF Evicted, Pruners
  <2> QED BY <2>1, SpoolTypes DEF InStep
<1>2. /\ Head(todo) = todo[1] /\ 1 \in DOMAIN todo /\ DOMAIN todo = 1..Len(todo) /\ Len(todo) \in Nat
  BY <1>1, TailFiles
<1>3. dir \in Seq(File) /\ DOMAIN dir = 1..Len(dir) /\ Len(dir) \in Nat /\ p \in 1..Len(dir)
  BY SpoolTypes
<1>4. /\ after \in Seq(File) /\ Len(after) = Len(dir) - p + 1
      /\ \A i \in 1..Len(after) : after[i] = dir[p + i - 1]
  BY <1>3
<1> HIDE DEF after, todo
<1>5. /\ \A j \in DOMAIN todo :
           IF todo[j].text = "whole" THEN \E i \in DOMAIN dir : Still(dir[i], todo[j])
           ELSE todo[j].size = 0 /\ todo[j].temp = "yes"
      /\ \A j, n \in DOMAIN todo, i, l \in DOMAIN dir :
           j < n /\ todo[j].text = "whole" /\ todo[n].text = "whole"
           /\ Key(dir[i], todo[j]) /\ Key(dir[l], todo[n]) => i < l
  BY DEF InStep, todo
<1>6. ASSUME NEW j \in DOMAIN todo, todo[j].text = "whole"
      PROVE  At(j) \in DOMAIN dir /\ Still(dir[At(j)], todo[j])
  BY <1>5, <1>6
<1> HIDE DEF At
<1>7. todo[1].text = "whole" /\ At(1) = p
  <2>1. todo[1].temp = "no" /\ Key(todo[1], dir[p])
    BY <1>2 DEF SamePath, Key, todo
  <2>2. todo[1].text = "whole"
    BY <1>2, <1>5, <2>1
  <2>3. Key(dir[At(1)], dir[p]) /\ At(1) \in DOMAIN dir
    BY <1>2, <1>6, <2>1, <2>2 DEF Still, Key
  <2> QED BY <2>2, <2>3, OneFile
<1>8. ASSUME NEW j \in DOMAIN todo, NEW n \in DOMAIN todo, j < n, todo[j].text = "whole", todo[n].text = "whole"
      PROVE  At(j) < At(n)
  BY <1>5, <1>6, <1>8 DEF Still
<1>9. ASSUME NEW j \in 1..Len(todo), todo[j].size # 0
      PROVE  m[j] \in 1..Len(after) /\ after[m[j]].size = todo[j].size
  <2>1. j \in DOMAIN todo /\ todo[j].text = "whole"
    BY <1>2, <1>5, <1>9
  <2>2. At(j) \in 1..Len(dir) /\ dir[At(j)].size = todo[j].size
    BY <1>3, <1>6, <2>1 DEF Still
  <2>3. p <= At(j)
    <3>1. CASE j = 1
      BY <1>3, <1>7, <3>1
    <3>2. CASE j # 1
      <4>1. 1 < j
        BY <1>2, <3>2
      <4> QED BY <1>2, <1>3, <1>7, <1>8, <2>1, <2>2, <4>1
    <3> QED BY <3>1, <3>2
  <2>4. m[j] \in 1..Len(after) /\ p + m[j] - 1 = At(j)
    BY <1>3, <1>4, <2>2, <2>3
  <2> HIDE DEF m
  <2> QED BY <1>4, <2>2, <2>4
<1>10. ASSUME NEW j \in 1..Len(todo), NEW n \in 1..Len(todo), j < n, todo[j].size # 0, todo[n].size # 0
       PROVE  m[j] < m[n]
  <2>1. /\ j \in DOMAIN todo /\ todo[j].text = "whole"
        /\ n \in DOMAIN todo /\ todo[n].text = "whole"
    BY <1>2, <1>5, <1>10
  <2>2. At(j) < At(n) /\ At(j) \in Int /\ At(n) \in Int
    BY <1>3, <1>6, <1>8, <1>10, <2>1
  <2> QED BY <1>3, <2>2
<1> HIDE DEF m
<1>11. Bytes(todo) <= Bytes(after)
  BY <1>1, <1>4, <1>9, <1>10, BytesFit
<1>12. Bytes(todo) \in Nat /\ Bytes(after) \in Nat /\ Target \in Int
  BY <1>1, <1>4, BytesNat DEF Target
<1> QED BY <1>1, <1>11, <1>12 DEF after

\* As long as one process prunes at a time (no run reaches its own pruning, and
\* one process calls prune()), no file under its final name that has not passed
\* the TTL is deleted while it and what was written after it fit in eighty per
\* cent of the cap: pruning keeps in step with what is written and renamed
\* while it goes through its list.
THEOREM RecentOutputsKept ==
  ASSUME Lone, PruneEvery # 1
  PROVE  SpoolSpec => RecentOutputsSurvive
<1> DEFINE Inv == TornInv /\ FilesInv /\ PruneInv
<1>1. SpoolInit => Inv
  BY BytesEmpty DEF SpoolInit, TornInv, NoTornRead, FilesInv, PruneInv, NoneElse, SizesInv, InStep,
     NewRun, NoPrune, NoCall, Pruners
<1>2. SpoolTypeOK /\ SpoolTypeOK' /\ Inv /\ [SpoolNext]_spoolVars => Inv'
  <2>1. Inv /\ UNCHANGED spoolVars => Inv'
    BY DEF TornInv, NoTornRead, FilesInv, PruneInv, NoneElse, SizesInv, InStep, Due, RunAt, spoolVars
  <2>2. SpoolTypeOK /\ SpoolTypeOK' /\ Inv /\ SpoolNext => Inv'
    BY TornStep, FilesStep, PruneStep
  <2> QED BY <2>1, <2>2
<1>3. ASSUME SpoolTypeOK, Inv, [SpoolNext]_spoolVars
      PROVE  \A i \in DOMAIN dir :
               /\ dir[i].old = "no" /\ dir[i].temp = "no"
               /\ \A j \in DOMAIN dir' : ~SamePath(dir'[j], dir[i])
               => Bytes(SubSeq(dir, i, Len(dir))) > Target
  <2> SUFFICES ASSUME NEW i \in DOMAIN dir, dir[i].old = "no", dir[i].temp = "no",
                      \A j \in DOMAIN dir' : ~SamePath(dir'[j], dir[i])
               PROVE  Bytes(SubSeq(dir, i, Len(dir))) > Target
    OBVIOUS
  <2>1. dir' # dir
    BY DEF SamePath
  <2>10. SpoolTypeOK /\ Inv /\ SpoolNext
    BY <1>3, <2>1 DEF spoolVars
  <2> USE <2>10
  <2>2. ASSUME NEW e, NEW n, Stay(e, n) PROVE ~\E j \in 1..n : e[j] = i
    BY <2>2 DEF Stay, SamePath
  <2>3. ASSUME NEW r \in Runners PROVE ~Opened(r) /\ ~FilledIn(r) /\ ~Renamed(r)
    <3>1. ~Opened(r)
      BY <2>2, OpenedDir DEF Joins
    <3>2. ~FilledIn(r)
      <4>1. ASSUME NEW p \in DOMAIN dir, NEW g \in File, SamePath(EmptyFile(r), dir[p]),
                   dir' = Append(Without(dir, dir[p]), g)
            PROVE  FALSE
        <5>1. ~SamePath(dir[p], dir[i])
          BY <4>1, FreshFile DEF SamePath
        <5> QED BY <2>2, <4>1, <5>1, FilledDir DEF Joins
      <4> QED BY <2>1, <4>1 DEF FilledIn
    <3>3. ~Renamed(r)
      <4>1. ASSUME Renamed(r) PROVE FALSE
        <5>1. DOMAIN dir' = DOMAIN dir /\ ~SamePath(EmptyFile(r), dir[i])
          BY <4>1, FreshFile, SpoolTypes DEF Renamed, SamePath
        <5>2. dir'[i] = dir[i]
          BY <4>1, <5>1 DEF Renamed
        <5> QED BY <5>1, <5>2 DEF SamePath
      <4> QED BY <4>1
    <3> QED BY <3>1, <3>2, <3>3
  <2>4. ~TurnsOld
    <3>1. ASSUME TurnsOld PROVE FALSE
      <4>1. DOMAIN dir' = DOMAIN dir
        BY <3>1, SpoolTypes DEF TurnsOld
      <4>2. SamePath(dir'[i], dir[i])
        BY <3>1 DEF TurnsOld, SamePath
      <4> QED BY <4>1, <4>2
    <3> QED BY <3>1
  <2>5. ASSUME NEW k \in Pruners PROVE ~Scanned(k)
    <3>1. IsYoung(dir[i])
      BY DEF IsYoung
    <3>2. ASSUME Scanned(k) PROVE FALSE
      <4>1. PICK e : Stay(e, Len(dir')) /\ \E j \in DOMAIN dir' : e[j] = i
        BY <3>1, <3>2, ScannedDir DEF Scanned
      <4>2. DOMAIN dir' = 1..Len(dir')
        BY <4>1 DEF Stay
      <4> QED BY <2>2, <4>1, <4>2
    <3> QED BY <3>2
  <2>6. PICK k \in Pruners : Evicted(k)
    BY <2>1, <2>3, <2>4, <2>5, SpoolStep DEF Along, ReadsOne
  <2>7. k \in Keepers /\ InStep(k)
    BY <2>6, OnlyKeepers DEF PruneInv
  <2>8. dir' = Without(dir, Head(keeper[k].todo))
    BY <2>1, <2>6 DEF Evicted
  <2>9. SamePath(Head(keeper[k].todo), dir[i])
    <3>1. PICK e : /\ Stay(e, Len(dir'))
                   /\ ~SamePath(Head(keeper[k].todo), dir[i]) => \E j \in DOMAIN dir' : e[j] = i
      BY <2>8, EvictedDir
    <3>2. DOMAIN dir' = 1..Len(dir')
      BY <3>1 DEF Stay
    <3> QED BY <2>2, <3>1, <3>2
  <2> QED BY <2>1, <2>6, <2>7, <2>9, EvictedIsHeavy
<1> HIDE DEF Inv
<1>4. SpoolSpec => [](SpoolTypeOK /\ Inv)
  BY <1>1, <1>2, SpoolTyped, PTL DEF SpoolSpec
<1> QED BY <1>3, <1>4, PTL DEF SpoolSpec, RecentOutputsSurvive
-----------------------------------------------------------------------------
(* What is read of a log.                                                   *)

USE SpoolReadAssumption

LEMMA FewMatches ==
  ASSUME NEW n \in Nat, NEW M \in SUBSET (1..n)
  PROVE  Cardinality(M) \in 0..n
<1> DEFINE S == 1..n
<1>1. IsFiniteSet(S) /\ Cardinality(S) = n
  <2>1. IsFiniteSet(1..n) /\ Cardinality(1..n) = IF 1 > n THEN 0 ELSE n - 1 + 1
    BY FS_Interval
  <2> QED BY <2>1
<1>2. M \in SUBSET S
  OBVIOUS
<1> HIDE DEF S
<1>3. IsFiniteSet(M) /\ Cardinality(M) <= n
  BY <1>1, <1>2, FS_Subset
<1> QED BY <1>3, FS_CardinalityType

LEMMA FcnSeq ==
  ASSUME NEW n \in Nat, NEW S, NEW f \in [1..n -> S]
  PROVE  f \in Seq(S)
OBVIOUS

LEMMA SelectedTotal ==
  ASSUME SpoolReadTypeOK
  PROVE  /\ total \in Nat /\ Selected \in 0..total
         /\ query.at \in Nat /\ query.from \in Nat /\ query.limit \in Nat \ {0}
         /\ Limit \in Nat \ {0} /\ Position \in Nat
<1>1. total \in Nat
  BY DEF SpoolReadTypeOK
<1>2. Cardinality(matches) \in 0..total
  <2>1. total \in Nat /\ matches \in SUBSET (1..total)
    BY DEF SpoolReadTypeOK
  <2> QED BY <2>1, FewMatches
<1>3. query.at \in Nat /\ query.from \in Nat /\ query.limit \in Nat \ {0}
  BY DEF SpoolReadTypeOK, Query
<1>4. query.at * Chunk \in Nat
  BY <1>3
<1> QED BY <1>1, <1>2, <1>3, <1>4 DEF Selected, Limit, Position

LEMMA LaterTotal ==
  ASSUME SpoolReadTypeOK'
  PROVE  Selected' \in Nat
<1>1. total' \in Nat /\ matches' \in SUBSET (1..total')
  BY DEF SpoolReadTypeOK
<1>2. Cardinality(matches') \in Nat
  BY <1>1, FewMatches
<1> QED BY <1>1, <1>2 DEF Selected

(* A slice that starts inside the lines is all of them up to its end.       *)
LEMMA SliceLines ==
  ASSUME NEW n \in Nat, NEW start \in 0..n, NEW end \in Nat, start <= end
  PROVE  \E m \in start..n :
           /\ m = IF end < n THEN end ELSE n
           /\ Slice(start, end, n) = Lines(start, m)
<1> DEFINE s == [i \in 1..n |-> i]
           m == IF end < n THEN end ELSE n
<1>1. s \in Seq(1..n) /\ Len(s) = n /\ m \in start..n
  OBVIOUS
<1>2. SubSeq(s, start + 1, m) = [i \in 1..(m - start) |-> start + i]
  OBVIOUS
<1>3. Slice(start, end, n) = SubSeq(s, start + 1, m)
  BY DEF Slice
<1> QED BY <1>1, <1>2, <1>3 DEF Lines

(* Lines shown, and then the slice after them, are lines shown.             *)
LEMMA JoinLines ==
  ASSUME NEW f \in Nat, NEW p \in Nat, NEW u \in Nat, f <= p, p <= u
  PROVE  Lines(f, p) \o Lines(p, u) = Lines(f, u)
<1> DEFINE a == [i \in 1..(p - f) |-> f + i]
           b == [i \in 1..(u - p) |-> p + i]
           c == [i \in 1..(u - f) |-> f + i]
<1>1. /\ a \in Seq(Nat) /\ Len(a) = p - f
      /\ b \in Seq(Nat) /\ Len(b) = u - p
  OBVIOUS
<1>2. (a \o b) \in Seq(Nat) /\ Len(a \o b) = u - f
  <2> HIDE DEF a, b
  <2> QED BY <1>1
<1>3. ASSUME NEW i \in 1..(u - f) PROVE (a \o b)[i] = f + i
  <2>1. CASE i <= p - f
    <3>1. (a \o b)[i] = a[i]
      BY <1>1, <2>1 DEF a, b
    <3> QED BY <3>1, <2>1
  <2>2. CASE i > p - f
    <3>1. (a \o b)[i] = b[i - (p - f)]
      <4> HIDE DEF a, b
      <4> QED BY <1>1, <1>2, <2>2
    <3>2. i - (p - f) \in 1..(u - p) /\ p + (i - (p - f)) = f + i
      BY <2>2
    <3> QED BY <3>1, <3>2
  <2> QED BY <2>1, <2>2
<1>4. DOMAIN (a \o b) = 1..(u - f) /\ a \o b = [i \in 1..(u - f) |-> (a \o b)[i]]
  <2> DEFINE s == a \o b
  <2>1. s \in Seq(Nat) /\ Len(s) = u - f
    BY <1>2
  <2> HIDE DEF s
  <2>2. DOMAIN s = 1..(u - f) /\ s = [i \in DOMAIN s |-> s[i]]
    BY <2>1
  <2>3. DOMAIN s = 1..(u - f) /\ s = [i \in 1..(u - f) |-> s[i]]
    BY <2>2
  <2> QED BY <2>3 DEF s
<1> QED BY <1>3, <1>4 DEF Lines

LEMMA MoreLines ==
  ASSUME SpoolReadTypeOK, NEW end \in Nat, Position <= end, query.from <= Position,
         Position <= Selected, shown = Lines(query.from, Position)
  PROVE  LET upto == IF end < Selected THEN end ELSE Selected IN
           /\ shown \o Slice(Position, end, Selected) = Lines(query.from, upto)
           /\ shown \o Slice(Position, end, Selected) \in Seq(1..total)
<1> DEFINE upto == IF end < Selected THEN end ELSE Selected
<1>1. /\ total \in Nat /\ Selected \in 0..total /\ query.from \in Nat /\ Position \in Nat
      /\ Selected \in Nat /\ Position \in 0..Selected
      /\ upto \in Nat /\ Position <= upto /\ upto <= Selected
  BY SelectedTotal
<1>2. Slice(Position, end, Selected) = Lines(Position, upto)
  <2>1. PICK m \in Position..Selected :
          /\ m = IF end < Selected THEN end ELSE Selected
          /\ Slice(Position, end, Selected) = Lines(Position, m)
    BY <1>1, SliceLines
  <2>2. m = upto
    BY <2>1
  <2> HIDE DEF upto
  <2> QED BY <2>1, <2>2
<1> HIDE DEF upto
<1>3. shown \o Slice(Position, end, Selected) = Lines(query.from, upto)
  <2>1. ASSUME NEW f \in Nat, NEW p \in Nat, f = query.from, p = Position
        PROVE  Lines(f, p) \o Lines(p, upto) = Lines(f, upto)
    BY <1>1, <2>1, JoinLines
  <2>2. Lines(query.from, Position) \o Lines(Position, upto) = Lines(query.from, upto)
    BY <1>1, <2>1
  <2> QED BY <1>2, <2>2
<1>4. Lines(query.from, upto) \in Seq(1..total)
  <2>1. \A i \in 1..(upto - query.from) : query.from + i \in 1..total
    BY <1>1
  <2>2. upto - query.from \in Nat
    BY <1>1
  <2>3. Lines(query.from, upto) \in [1..(upto - query.from) -> 1..total]
    BY <2>1 DEF Lines
  <2> QED BY <2>2, <2>3, FcnSeq
<1> QED BY <1>3, <1>4 DEF upto

(* The page after the last full one is the last.                            *)
LEMMA LastPage ==
  ASSUME NEW n \in Nat, NEW k \in Nat
  PROVE  /\ TotalPages(n) \in Nat
         /\ k < TotalPages(n) => k * Chunk <= n
         /\ k >= TotalPages(n) => k * Chunk >= n
<1>1. CASE n = 0
  BY <1>1 DEF TotalPages
<1>2. CASE n # 0
  <2> DEFINE d == (n + Chunk - 1) \div Chunk
  <2>1. d \in Nat /\ d * Chunk <= n + Chunk - 1 /\ n + Chunk - 1 < d * Chunk + Chunk
    BY <1>2
  <2>2. TotalPages(n) = d
    BY <1>2 DEF TotalPages
  <2> HIDE DEF d
  <2>3. ASSUME k < d PROVE k * Chunk <= n
    <3>1. (d - k) - 1 \in Nat
      BY <2>1, <2>3
    <3>2. ((d - k) - 1) * Chunk \in Nat
      BY <3>1
    <3>3. ((d - k) - 1) * Chunk = d * Chunk - k * Chunk - Chunk
      BY <2>1
    <3> QED BY <2>1, <3>2, <3>3
  <2>4. ASSUME k >= d PROVE k * Chunk >= n
    <3>1. k - d \in Nat
      BY <2>1, <2>4
    <3>2. (k - d) * Chunk \in Nat
      BY <3>1
    <3>3. (k - d) * Chunk = k * Chunk - d * Chunk
      BY <2>1
    <3> QED BY <2>1, <3>2, <3>3
  <2> QED BY <2>1, <2>2, <2>3, <2>4
<1> QED BY <1>1, <1>2

LEMMA ReadStart ==
  ASSUME SpoolReadTypeOK, ReadInv, Start
  PROVE  SpoolReadTypeOK' /\ ReadInv'
<1>1. PICK how \in {"pages", "lines", "grep"} : query' = [query EXCEPT !.how = how]
  BY DEF Start
<1>2. /\ query.how = "none" /\ query.told = "nothing" /\ query.from = 0 /\ query.at = 0
      /\ shown = Lines(0, 0)
  <2>1. query.how = "none" /\ query.told = "nothing" /\ query.from = 0
    BY SelectedTotal DEF Start, ReadInv
  <2>2. query.at = 0
    BY <2>1 DEF ReadInv, Position
  <2> QED BY <2>1, <2>2 DEF ReadInv, Position
<1>3. /\ query' \in Query /\ query'.how = how /\ query'.told = "nothing" /\ query'.from = 0
      /\ query'.at = 0
  BY <1>1, <1>2 DEF SpoolReadTypeOK, Query
<1>4. SpoolReadTypeOK'
  BY <1>3 DEF Start, SpoolReadTypeOK
<1>5. Position' = 0 /\ Selected' \in Nat /\ shown' = Lines(0, 0)
  <2>1. Selected' \in Nat
    BY <1>4, LaterTotal
  <2> QED BY <1>2, <1>3, <2>1 DEF Position, Start
<1> QED BY <1>3, <1>4, <1>5 DEF ReadInv

LEMMA ReadPages ==
  ASSUME SpoolReadTypeOK, ReadInv, ReadPage
  PROVE  SpoolReadTypeOK' /\ ReadInv'
<1> DEFINE end == (query.at + 1) * Chunk
           upto == IF end < total THEN end ELSE total
<1>1. /\ query.how = "pages" /\ query.told \in {"nothing", "more"} /\ query.from = 0
      /\ Selected = total /\ Position = query.at * Chunk
  BY SelectedTotal DEF ReadPage, ReadInv, SpoolReadTypeOK, Query, Selected, Position, Refused
<1>2. query.at \in Nat /\ query.at + 1 \in Nat /\ total \in Nat /\ Selected \in 0..total
  BY SelectedTotal
<1>3. end \in Nat /\ query.at * Chunk <= end
  BY <1>2
<1>4. /\ query' \in Query /\ query'.how = "pages" /\ query'.from = 0 /\ query'.at = query.at + 1
      /\ query'.told = IF query.at + 1 < TotalPages(total) THEN "more" ELSE "end"
  BY <1>1, <1>2 DEF ReadPage, SpoolReadTypeOK, Query
<1>5. shown' = Lines(0, upto) /\ shown' \in Seq(1..total)
  <2>1. shown' = shown \o Slice(Position, end, Selected)
    BY <1>1 DEF ReadPage
  <2> HIDE DEF end
  <2>2. query.from <= Position /\ Position <= Selected /\ shown = Lines(query.from, Position)
    BY <1>1 DEF ReadInv
  <2> QED BY <1>1, <1>3, <2>1, <2>2, MoreLines
<1>6. SpoolReadTypeOK'
  BY <1>4, <1>5 DEF ReadPage, SpoolReadTypeOK
<1>7. total' = total /\ Selected' = total /\ Position' = end
  BY <1>1, <1>4 DEF ReadPage, Selected, Position
<1>8. query'.told = "more" => upto = end /\ end <= total
  BY <1>2, <1>4, LastPage
<1>9. query'.told = "end" => upto = total
  <2>1. TotalPages(total) \in Nat
    BY <1>2, LastPage
  <2> QED BY <1>2, <1>3, <1>4, <2>1, LastPage
<1>10. query'.told \in {"more", "end"}
  BY <1>4
<1> HIDE DEF end, upto
<1> QED BY <1>2, <1>3, <1>4, <1>5, <1>6, <1>7, <1>8, <1>9, <1>10 DEF ReadInv

LEMMA ReadWindows ==
  ASSUME SpoolReadTypeOK, ReadInv, ReadWindow
  PROVE  SpoolReadTypeOK' /\ ReadInv'
<1> DEFINE end == query.at + Limit
           upto == IF end < Selected THEN end ELSE Selected
<1>1. /\ query.how \in {"lines", "grep"} /\ query.told \in {"nothing", "more"}
      /\ Position = query.at
  BY DEF ReadWindow, Position
<1>2. /\ query.at \in Nat /\ query.from \in Nat /\ total \in Nat /\ Selected \in Nat
      /\ Limit \in Nat /\ end \in Nat /\ query.at <= end
  BY SelectedTotal
<1>3. /\ query' \in Query /\ query'.how = query.how /\ query'.from = query.from
      /\ query'.at = end
      /\ query'.told = IF end < Selected THEN "more" ELSE "end"
  BY <1>2 DEF ReadWindow, SpoolReadTypeOK, Query
<1>4. shown' = Lines(query.from, upto) /\ shown' \in Seq(1..total)
  <2>1. shown' = shown \o Slice(Position, end, Selected)
    BY <1>1 DEF ReadWindow
  <2> HIDE DEF end
  <2>2. query.from <= Position /\ Position <= Selected /\ shown = Lines(query.from, Position)
    BY <1>1 DEF ReadInv
  <2> QED BY <1>1, <1>2, <2>1, <2>2, MoreLines
<1>5. SpoolReadTypeOK'
  BY <1>3, <1>4 DEF ReadWindow, SpoolReadTypeOK
<1>6. Selected' = Selected /\ Position' = end
  BY <1>1, <1>3 DEF ReadWindow, Selected, Position
<1>7. query.from <= Position /\ query.from <= Selected /\ (query.from > 0 => query.how = "lines")
  BY <1>1 DEF ReadInv
<1>8. query'.told = "more" => upto = end /\ end <= Selected
  BY <1>2, <1>3
<1>9. query'.told = "end" => upto = Selected
  BY <1>2, <1>3
<1>10. query'.told \in {"more", "end"} /\ query.from <= end
  BY <1>1, <1>2, <1>3, <1>7
<1> HIDE DEF end, upto
<1> QED BY <1>1, <1>3, <1>4, <1>5, <1>6, <1>7, <1>8, <1>9, <1>10 DEF ReadInv

LEMMA ReadRefusal ==
  ASSUME SpoolReadTypeOK, ReadInv, ReadRefused
  PROVE  SpoolReadTypeOK' /\ ReadInv'
<1>1. /\ query.told = "nothing" /\ query.how = "lines" /\ query.at = 0 /\ total > Gate
      /\ query.from = 0
  BY DEF ReadRefused, Refused, ReadInv, Position
<1>2. /\ query' \in Query /\ query'.how = query.how /\ query'.from = query.from
      /\ query'.at = query.at /\ query'.told = "refused"
  BY DEF ReadRefused, SpoolReadTypeOK, Query
<1>3. SpoolReadTypeOK'
  BY <1>2 DEF ReadRefused, SpoolReadTypeOK
<1>4. /\ Refused' /\ Selected' = Selected /\ Position' = Position /\ shown' = shown
  BY <1>1, <1>2 DEF ReadRefused, Refused, Selected, Position
<1> QED BY <1>1, <1>2, <1>3, <1>4 DEF ReadInv

LEMMA SuggestedLine ==
  ASSUME SpoolReadTypeOK, total > Gate
  PROVE  Suggested \in 1..total
<1>1. total \in Nat /\ matches \in SUBSET (1..total) /\ 1 \in 1..total
  BY DEF SpoolReadTypeOK
<1>2. CASE matches = {}
  BY <1>1, <1>2 DEF Suggested
<1>3. CASE matches # {}
  <2>1. matches \in SUBSET Nat
    BY <1>1
  <2>2. \E i \in matches : \A j \in matches : i <= j
    BY <1>3, <2>1, Least
  <2>3. FirstAnchor \in matches
    BY <2>2 DEF FirstAnchor
  <2> QED BY <1>1, <1>3, <2>3 DEF Suggested
<1> QED BY <1>2, <1>3

LEMMA ReadSuggested ==
  ASSUME SpoolReadTypeOK, ReadInv, TakeSuggestion
  PROVE  SpoolReadTypeOK' /\ ReadInv'
<1>1. /\ query.told = "refused" /\ query.how = "lines" /\ query.at = 0 /\ total > Gate
      /\ query.from = 0 /\ shown = Lines(0, 0)
  BY DEF TakeSuggestion, Refused, ReadInv, Position
<1>2. CASE \E how \in {"pages", "grep"} : query' = [query EXCEPT !.how = how, !.told = "nothing"]
  <2>1. PICK how \in {"pages", "grep"} : query' = [query EXCEPT !.how = how, !.told = "nothing"]
    BY <1>2
  <2>2. /\ query' \in Query /\ query'.how = how /\ query'.told = "nothing" /\ query'.from = 0
        /\ query'.at = 0
    BY <1>1, <2>1 DEF SpoolReadTypeOK, Query
  <2>3. SpoolReadTypeOK'
    BY <2>2 DEF TakeSuggestion, SpoolReadTypeOK
  <2>4. Position' = 0 /\ Selected' \in Nat /\ shown' = Lines(0, 0)
    <3>1. Selected' \in Nat
      BY <2>3, LaterTotal
    <3> QED BY <1>1, <2>2, <3>1 DEF Position, TakeSuggestion
  <2> QED BY <2>2, <2>3, <2>4 DEF ReadInv
<1>3. CASE query' = [query EXCEPT !.at = Suggested, !.from = Suggested, !.told = "nothing"]
  <2>1. Suggested \in 1..total /\ total \in Nat /\ Suggested \in Nat
    BY <1>1, SuggestedLine DEF SpoolReadTypeOK
  <2>2. /\ query' \in Query /\ query'.how = "lines" /\ query'.told = "nothing"
        /\ query'.from = Suggested /\ query'.at = Suggested
    BY <1>1, <1>3, <2>1 DEF SpoolReadTypeOK, Query
  <2>3. SpoolReadTypeOK'
    BY <2>2 DEF TakeSuggestion, SpoolReadTypeOK
  <2>4. Position' = Suggested /\ Selected' = total /\ shown' = Lines(0, 0)
    BY <1>1, <2>2 DEF Position, Selected, TakeSuggestion
  <2>5. Lines(0, 0) = Lines(Suggested, Suggested)
    BY <2>1 DEF Lines
  <2> QED BY <2>1, <2>2, <2>3, <2>4, <2>5 DEF ReadInv
<1> QED BY <1>2, <1>3 DEF TakeSuggestion

\* How far a reader comes: the type of a read's variables, and what they are of
\* each other, in every state.
LEMMA ReadIsInv == SpoolReadSpec => [](SpoolReadTypeOK /\ ReadInv)
<1>1. SpoolReadInit => SpoolReadTypeOK /\ ReadInv
  <2> SUFFICES ASSUME SpoolReadInit PROVE SpoolReadTypeOK /\ ReadInv
    OBVIOUS
  <2>1. /\ query \in Query /\ query.how = "none" /\ query.at = 0 /\ query.from = 0
        /\ query.told = "nothing" /\ shown = <<>>
    BY DEF SpoolReadInit, Query
  <2>2. SpoolReadTypeOK
    BY <2>1 DEF SpoolReadInit, SpoolReadTypeOK
  <2>3. Position = 0 /\ Lines(0, 0) = <<>> /\ Selected \in Nat
    BY <2>1, <2>2, SelectedTotal DEF Position, Lines
  <2> QED BY <2>1, <2>2, <2>3 DEF ReadInv
<1>2. SpoolReadTypeOK /\ ReadInv /\ [SpoolReadNext]_spoolReadVars => SpoolReadTypeOK' /\ ReadInv'
  <2>1. SpoolReadTypeOK /\ ReadInv /\ UNCHANGED spoolReadVars => SpoolReadTypeOK' /\ ReadInv'
    BY DEF SpoolReadTypeOK, ReadInv, Refused, Position, Selected, Lines, spoolReadVars
  <2> QED BY <2>1, ReadStart, ReadPages, ReadWindows, ReadRefusal, ReadSuggested DEF SpoolReadNext
<1> QED BY <1>1, <1>2, PTL DEF SpoolReadSpec

\* A reader's variables keep their types, whatever the log and however it is read.
THEOREM SpoolReadTyped == SpoolReadSpec => []SpoolReadTypeOK
BY ReadIsInv, PTL

\* An agent that goes on, by pages, by windows, by a grep or from the refusal's
\* suggestion, has been shown every line from where it began, once and in order,
\* when read_spool tells it that nothing follows: for a log of any length and
\* pages and windows of any size.
THEOREM ReadsToTheEnd == SpoolReadSpec => []ReadToTheEnd
<1>1. SpoolReadTypeOK /\ ReadInv => ReadToTheEnd
  <2> SUFFICES ASSUME SpoolReadTypeOK, ReadInv, query.told = "end"
               PROVE  shown = [i \in 1..(IF Selected > query.from THEN Selected - query.from ELSE 0)
                                 |-> query.from + i]
    BY DEF ReadToTheEnd
  <2>1. Selected \in Nat /\ query.from \in Nat /\ query.from <= Selected
    BY SelectedTotal DEF ReadInv
  <2>2. (IF Selected > query.from THEN Selected - query.from ELSE 0) = Selected - query.from
    BY <2>1
  <2> QED BY <2>2 DEF ReadInv, Lines
<1> QED BY <1>1, ReadIsInv, PTL
-----------------------------------------------------------------------------
(* The recovery store: types, and what a step does to each proxy.           *)

USE RecoveryAssumption DEF ProxyPCs

\* `p` alone has moved; or it has, and who had listed the file of t is crossed.
ProxyAlone(p) ==
  /\ proxy' \in [Proxies -> Proxy]
  /\ \A q \in Proxies \ {p} : proxy'[q] = proxy[q]
Crosses(p, t) ==
  /\ proxy' \in [Proxies -> Proxy]
  /\ \A q \in Proxies \ {p} :
       /\ proxy'[q].pc = proxy[q].pc /\ proxy'[q].text = proxy[q].text
       /\ proxy'[q].todo = proxy[q].todo /\ proxy'[q].total = proxy[q].total
       /\ proxy'[q].crossed = "no" => proxy[q].crossed = "no"
       /\ proxy'[q].crossed = "no" /\ InStore(q, "evict") => t \notin ToSet(proxy[q].todo)

\* The files have the texts they had.
Quiet ==
  /\ originals' \in Seq(Original) /\ DOMAIN originals' = DOMAIN originals
  /\ \A i \in DOMAIN originals : originals'[i].text = originals[i].text

LEMMA ProxyFields ==
  ASSUME NEW x \in Proxy
  PROVE  /\ x.pc \in ProxyPCs /\ x.text \in SUBSET Blocks /\ x.wrote \in {"yes", "no"}
         /\ x.writes \in 0..(StoreEvery - 1) /\ x.todo \in Seq(Blocks) /\ x.total \in Int
         /\ x.crossed \in {"yes", "no"}
BY DEF Proxy

LEMMA NewProxyType == NewProxy \in Proxy
<1>1. 0 \in 0..(StoreEvery - 1) /\ <<>> \in Seq(Blocks)
  OBVIOUS
<1> QED BY <1>1 DEF NewProxy, Proxy

LEMMA OnlyMoves ==
  ASSUME RecoveryTypeOK, NEW p \in Proxies, NEW y \in Proxy, proxy' = [proxy EXCEPT ![p] = y]
  PROVE  ProxyAlone(p) /\ proxy'[p] = y
BY DEF ProxyAlone, RecoveryTypeOK

LEMMA CrossingCrosses ==
  ASSUME RecoveryTypeOK, NEW p \in Proxies, NEW y \in Proxy, NEW t,
         proxy' = Crossing(p, t, [proxy EXCEPT ![p] = y])
  PROVE  Crosses(p, t) /\ proxy'[p] = y
<1> DEFINE then == [proxy EXCEPT ![p] = y]
<1>1. proxy \in [Proxies -> Proxy]
  BY DEF RecoveryTypeOK
<1>2. then \in [Proxies -> Proxy] /\ then[p] = y /\ \A q \in Proxies \ {p} : then[q] = proxy[q]
  BY <1>1
<1> HIDE DEF then
<1>3. proxy' = Crossing(p, t, then)
  BY DEF then
<1>4. proxy' = [q \in Proxies |-> IF q # p /\ InStore(q, "evict") /\ t \in ToSet(then[q].todo)
                                  THEN [then[q] EXCEPT !.crossed = "yes"] ELSE then[q]]
  BY <1>3 DEF Crossing
<1>5. proxy'[p] = y
  BY <1>2, <1>4
<1>6. ASSUME NEW q \in Proxies
      PROVE  /\ proxy'[q] \in Proxy
             /\ q # p =>
                  /\ proxy'[q].pc = proxy[q].pc /\ proxy'[q].text = proxy[q].text
                  /\ proxy'[q].todo = proxy[q].todo /\ proxy'[q].total = proxy[q].total
                  /\ proxy'[q].crossed = "no" => proxy[q].crossed = "no"
                  /\ proxy'[q].crossed = "no" /\ InStore(q, "evict") => t \notin ToSet(proxy[q].todo)
  <2>1. CASE q # p /\ InStore(q, "evict") /\ t \in ToSet(then[q].todo)
    <3> DEFINE z == [proxy[q] EXCEPT !.crossed = "yes"]
    <3>1. proxy'[q] = z
      BY <1>2, <1>4, <2>1
    <3>2. /\ z \in Proxy /\ z.pc = proxy[q].pc /\ z.text = proxy[q].text
          /\ z.todo = proxy[q].todo /\ z.total = proxy[q].total /\ z.crossed = "yes"
      BY <1>1 DEF Proxy
    <3> HIDE DEF z
    <3> QED BY <2>1, <3>1, <3>2
  <2>2. CASE ~(q # p /\ InStore(q, "evict") /\ t \in ToSet(then[q].todo))
    <3>1. proxy'[q] = then[q]
      BY <1>4, <2>2
    <3> QED BY <1>2, <2>2, <3>1
  <2> QED BY <2>1, <2>2
<1>7. proxy' \in [Proxies -> Proxy]
  <2>1. DOMAIN proxy' = Proxies /\ proxy' = [q \in Proxies |-> proxy'[q]]
    BY <1>4
  <2> QED BY <2>1, <1>6
<1> QED BY <1>5, <1>6, <1>7 DEF Crosses

LEMMA CountedMoves ==
  ASSUME RecoveryTypeOK, NEW p \in Proxies, NEW wrote \in {"yes", "no"}
  PROVE  \E y \in Proxy : /\ Counted(p, wrote) = [proxy EXCEPT ![p] = y]
                          /\ y.pc \in {"idle", "list"}
<1> DEFINE writes == (proxy[p].writes + 1) % StoreEvery
           lists == [proxy[p] EXCEPT !.writes = 0, !.pc = "list", !.wrote = wrote,
                                     !.text = IF wrote = "yes" THEN proxy[p].text ELSE {}]
           ends == [NewProxy EXCEPT !.writes = writes]
<1>1. proxy[p] \in Proxy
  BY DEF RecoveryTypeOK
<1>2. writes \in 0..(StoreEvery - 1)
  <2>1. proxy[p].writes \in Nat
    BY <1>1, ProxyFields
  <2> QED BY <2>1
<1>3. Counted(p, wrote) = [proxy EXCEPT ![p] = IF writes = 0 THEN lists ELSE ends]
  BY DEF Counted
<1>4. lists \in Proxy /\ lists.pc = "list"
  <2>1. 0 \in 0..(StoreEvery - 1)
    OBVIOUS
  <2> QED BY <1>1, <2>1 DEF Proxy
<1>5. ends \in Proxy /\ ends.pc = "idle"
  BY <1>2, NewProxyType DEF Proxy, NewProxy
<1> HIDE DEF writes, lists, ends
<1> QED BY <1>3, <1>4, <1>5

LEMMA FinishMoves ==
  ASSUME RecoveryTypeOK, NEW p \in Proxies, proxy' = Finish(p)
  PROVE  ProxyAlone(p) /\ proxy'[p].pc = "idle"
<1> DEFINE y == [NewProxy EXCEPT !.writes = proxy[p].writes]
<1>1. y \in Proxy /\ y.pc = "idle"
  <2>1. proxy[p].writes \in 0..(StoreEvery - 1)
    BY ProxyFields DEF RecoveryTypeOK
  <2> QED BY <2>1, NewProxyType DEF Proxy, NewProxy
<1>2. proxy' = [proxy EXCEPT ![p] = y]
  BY DEF Finish
<1> HIDE DEF y
<1> QED BY <1>1, <1>2, OnlyMoves
-----------------------------------------------------------------------------
(* What becomes of the originals.                                           *)

\* The first `n` are those of other texts than t, at the places e, in their
\* order; there may be one more, of the text t.
Follow(e, n, t) ==
  /\ n \in Nat /\ e \in [1..n -> 1..Len(originals)]
  /\ originals' \in Seq(Original) /\ Len(originals') \in n..(n + 1)
  /\ \A j \in 1..n : originals'[j] = originals[e[j]] /\ originals'[j].text # t
  /\ \A j, k \in 1..n : j < k => e[j] < e[k]
  /\ \A i \in 1..Len(originals) : originals[i].text # t => \E j \in 1..n : e[j] = i
  /\ Len(originals') = n + 1 => originals'[n + 1].text = t

\* The originals of other texts than t are there after the step, in their order.
OthersKept(t) ==
  /\ \A i \in DOMAIN originals : originals[i].text # t =>
       \E j \in DOMAIN originals' : originals'[j].text = originals[i].text
  /\ \A i, m \in DOMAIN originals, j, n \in DOMAIN originals' :
       /\ originals[i].text # t /\ originals[m].text # t /\ i < m
       /\ originals'[j].text = originals[i].text /\ originals'[n].text = originals[m].text
       => j < n

LEMMA RecoveryTypes ==
  ASSUME RecoveryTypeOK
  PROVE  /\ proxy \in [Proxies -> Proxy] /\ originals \in Seq(Original)
         /\ Len(originals) \in Nat /\ DOMAIN originals = 1..Len(originals)
         /\ \A i \in DOMAIN originals :
              /\ originals[i] \in Original /\ originals[i].text \in Blocks
              /\ originals[i].old \in {"yes", "no"}
<1>1. originals \in Seq(Original) /\ proxy \in [Proxies -> Proxy]
  BY DEF RecoveryTypeOK
<1>2. \A f \in Original : f.text \in Blocks /\ f.old \in {"yes", "no"}
  BY DEF Original
<1> QED BY <1>1, <1>2

Differs(f, t) == f.text # t

LEMMA ExceptLeaves ==
  ASSUME RecoveryTypeOK, NEW t
  PROVE  /\ Except(t) \in Seq(Original)
         /\ \E e : /\ e \in [1..Len(Except(t)) -> 1..Len(originals)]
                   /\ \A j \in 1..Len(Except(t)) :
                        Except(t)[j] = originals[e[j]] /\ Differs(originals[e[j]], t)
                   /\ \A j, k \in 1..Len(Except(t)) : j < k => e[j] < e[k]
                   /\ \A i \in 1..Len(originals) : Differs(originals[i], t) =>
                        \E j \in 1..Len(Except(t)) : e[j] = i
<1> DEFINE S == {f \in ToSet(originals) : Differs(f, t)}
           r == Except(t)
<1>0. originals \in Seq(Original)
  BY DEF RecoveryTypeOK
<1>1. r = Select(originals, S)
  BY DEF Except, Differs
<1>2. r \in Seq(Original \cap S) /\ \E e : Places(e, r, originals, S)
  <2> HIDE DEF S, r
  <2>1. /\ Select(originals, S) \in Seq(Original \cap S)
        /\ \E e : Places(e, Select(originals, S), originals, S)
    BY <1>0, SelectPlaces
  <2> QED BY <1>1, <2>1
<1>3. \A i \in 1..Len(originals) : originals[i] \in S <=> Differs(originals[i], t)
  BY <1>0 DEF ToSet
<1> HIDE DEF S, r
<1>4. r \in Seq(Original)
  BY <1>2
<1>5. PICK e : Places(e, r, originals, S)
  BY <1>2
<1>6. /\ e \in [1..Len(r) -> 1..Len(originals)]
      /\ \A j \in 1..Len(r) : /\ r[j] = originals[e[j]] /\ originals[e[j]] \in S
                              /\ e[j] \in 1..Len(originals)
      /\ \A j, k \in 1..Len(r) : j < k => e[j] < e[k]
      /\ \A i \in 1..Len(originals) : originals[i] \in S => \E j \in 1..Len(r) : e[j] = i
  BY <1>5 DEF Places
<1>7. \A j \in 1..Len(r) : Differs(originals[e[j]], t)
  BY <1>3, <1>6
<1>8. \A i \in 1..Len(originals) : Differs(originals[i], t) => \E j \in 1..Len(r) : e[j] = i
  BY <1>3, <1>6
<1> QED BY <1>4, <1>6, <1>7, <1>8 DEF r

LEMMA RemovedFollow ==
  ASSUME RecoveryTypeOK, NEW t, originals' = Except(t)
  PROVE  \E e : Follow(e, Len(originals'), t) /\ Len(originals') \in Nat
<1>1. originals' \in Seq(Original)
  BY ExceptLeaves
<1>2. PICK e : /\ e \in [1..Len(originals') -> 1..Len(originals)]
               /\ \A j \in 1..Len(originals') :
                    originals'[j] = originals[e[j]] /\ Differs(originals[e[j]], t)
               /\ \A j, k \in 1..Len(originals') : j < k => e[j] < e[k]
               /\ \A i \in 1..Len(originals) : Differs(originals[i], t) =>
                    \E j \in 1..Len(originals') : e[j] = i
  BY ExceptLeaves
<1>3. Len(originals') \in Nat
  BY <1>1
<1> DEFINE n == Len(originals')
<1>4. n \in n..(n + 1) /\ n # n + 1
  BY <1>3
<1> QED BY <1>1, <1>2, <1>3, <1>4 DEF Follow, Differs

LEMMA WrittenFollow ==
  ASSUME RecoveryTypeOK, NEW t \in Blocks, NEW f \in Original, f.text = t,
         originals' = Append(Except(t), f)
  PROVE  \E n \in Nat : Len(originals') = n + 1 /\ \E e : Follow(e, n, t)
<1> DEFINE s == Except(t)
           n == Len(s)
<1>1. s \in Seq(Original) /\ n \in Nat
  BY ExceptLeaves
<1>2. PICK e : /\ e \in [1..n -> 1..Len(originals)]
               /\ \A j \in 1..n : s[j] = originals[e[j]] /\ Differs(originals[e[j]], t)
               /\ \A j, k \in 1..n : j < k => e[j] < e[k]
               /\ \A i \in 1..Len(originals) : Differs(originals[i], t) => \E j \in 1..n : e[j] = i
  BY ExceptLeaves
<1>3. originals' = Append(s, f)
  OBVIOUS
<1>4. /\ originals' \in Seq(Original) /\ Len(originals') = n + 1 /\ originals'[n + 1] = f
      /\ \A j \in 1..n : originals'[j] = s[j]
  <2> HIDE DEF s
  <2> QED BY <1>1, <1>3
<1> HIDE DEF s, n
<1>5. Len(originals') \in n..(n + 1) /\ originals'[n + 1].text = t
  BY <1>1, <1>4
<1>6. ASSUME NEW j \in 1..n PROVE originals'[j] = originals[e[j]] /\ originals'[j].text # t
  <2>1. originals'[j] = s[j] /\ s[j] = originals[e[j]] /\ Differs(originals[e[j]], t)
    BY <1>2, <1>4
  <2> QED BY <2>1 DEF Differs
<1>7. \A i \in 1..Len(originals) : originals[i].text # t => \E j \in 1..n : e[j] = i
  BY <1>2 DEF Differs
<1>8. e \in [1..n -> 1..Len(originals)] /\ \A j, k \in 1..n : j < k => e[j] < e[k]
  BY <1>2
<1>9. Follow(e, n, t)
  BY <1>1, <1>4, <1>5, <1>6, <1>7, <1>8 DEF Follow
<1> QED BY <1>1, <1>4, <1>9

LEMMA FollowKeeps ==
  ASSUME RecoveryTypeOK, DistinctTexts, NEW e, NEW n, NEW t, Follow(e, n, t)
  PROVE  DistinctTexts' /\ OthersKept(t)
<1>1. DOMAIN originals = 1..Len(originals) /\ Len(originals) \in Nat
  BY RecoveryTypes
<1>2. n \in Nat /\ e \in [1..n -> 1..Len(originals)]
  BY DEF Follow
<1>3. \A j \in DOMAIN originals' : j \in 1..n \/ (j = n + 1 /\ originals'[j].text = t)
  <2>1. DOMAIN originals' = 1..Len(originals') /\ Len(originals') \in n..(n + 1)
    BY DEF Follow
  <2>2. Len(originals') = n + 1 => originals'[n + 1].text = t
    BY DEF Follow
  <2>3. ASSUME NEW l \in n..(n + 1), NEW j \in 1..l
        PROVE  j \in 1..n \/ (j = n + 1 /\ l = n + 1)
    BY <1>2
  <2> QED BY <2>1, <2>2, <2>3
<1>4. 1..n \subseteq DOMAIN originals' /\ DOMAIN originals' \subseteq Nat
  <2>1. DOMAIN originals' = 1..Len(originals') /\ Len(originals') \in n..(n + 1)
    BY DEF Follow
  <2> QED BY <1>2, <2>1
<1>8. \A j \in 1..n : originals'[j] = originals[e[j]] /\ originals'[j].text # t
  BY DEF Follow
<1>9. \A j \in 1..n : e[j] \in DOMAIN originals /\ e[j] \in Nat
  BY <1>1, <1>2
<1>10. \A j, k \in 1..n : j < k => e[j] < e[k]
  BY DEF Follow
<1>11. \A i \in DOMAIN originals : originals[i].text # t => \E j \in 1..n : e[j] = i
  BY <1>1 DEF Follow
<1>5. ASSUME NEW i \in DOMAIN originals', NEW j \in DOMAIN originals', i # j
      PROVE  originals'[i].text # originals'[j].text
  <2>1. CASE i \in 1..n /\ j \in 1..n
    <3>1. i < j \/ j < i
      BY <1>4, <1>5
    <3>2. e[i] < e[j] \/ e[j] < e[i]
      BY <1>10, <2>1, <3>1
    <3>3. e[i] # e[j]
      BY <1>9, <2>1, <3>2
    <3> QED BY <1>8, <1>9, <2>1, <3>3 DEF DistinctTexts
  <2> QED BY <1>3, <1>5, <1>8, <2>1
<1>6. ASSUME NEW i \in DOMAIN originals, originals[i].text # t
      PROVE  \E j \in DOMAIN originals' : originals'[j].text = originals[i].text
  BY <1>4, <1>6, <1>8, <1>11
<1>7. ASSUME NEW i \in DOMAIN originals, NEW m \in DOMAIN originals,
             NEW j \in DOMAIN originals', NEW k \in DOMAIN originals',
             originals[i].text # t, originals[m].text # t, i < m,
             originals'[j].text = originals[i].text, originals'[k].text = originals[m].text
      PROVE  j < k
  <2>1. j \in 1..n /\ k \in 1..n
    BY <1>3, <1>7
  <2>2. e[j] = i /\ e[k] = m
    <3>1. originals[e[j]].text = originals[i].text /\ originals[e[k]].text = originals[m].text
      BY <1>7, <1>8, <2>1
    <3> QED BY <1>9, <2>1, <3>1 DEF DistinctTexts
  <2>3. j \in Nat /\ k \in Nat /\ i \in Nat /\ m \in Nat
    BY <1>1, <1>4
  <2>4. ~(k < j) /\ k # j
    <3>1. k < j => m < i
      BY <1>10, <2>1, <2>2
    <3> QED BY <1>7, <2>2, <2>3, <3>1
  <2> QED BY <2>3, <2>4
<1> QED BY <1>5, <1>6, <1>7 DEF DistinctTexts, OthersKept

LEMMA QuietKeeps ==
  ASSUME RecoveryTypeOK, DistinctTexts, Quiet
  PROVE  DistinctTexts' /\ \A t : OthersKept(t)
<1>1. DistinctTexts'
  BY DEF DistinctTexts, Quiet
<1>2. ASSUME NEW i \in DOMAIN originals, NEW j \in DOMAIN originals',
             originals'[j].text = originals[i].text
      PROVE  i = j
  BY <1>2 DEF DistinctTexts, Quiet
<1>3. ASSUME NEW t PROVE OthersKept(t)
  <2>1. DOMAIN originals' = DOMAIN originals
    BY DEF Quiet
  <2> QED BY <1>2, <2>1 DEF OthersKept, Quiet
<1> QED BY <1>1, <1>3

\* What a pruner that did not move awaits, it still does.
LEMMA StillAwaits ==
  ASSUME RecoveryTypeOK, NEW p \in Proxies, NEW t, Crosses(p, t), OthersKept(t), DistinctTexts,
         NEW q \in Proxies, q # p, OneText(q), Awaits(q)
  PROVE  OneText(q)' /\ Awaits(q)'
<1>1. /\ proxy'[q].pc = proxy[q].pc /\ proxy'[q].text = proxy[q].text
      /\ proxy'[q].todo = proxy[q].todo /\ proxy'[q].total = proxy[q].total
      /\ proxy'[q].crossed = "no" => proxy[q].crossed = "no"
      /\ proxy'[q].crossed = "no" /\ InStore(q, "evict") => t \notin ToSet(proxy[q].todo)
  BY DEF Crosses
<1>2. OneText(q)'
  BY <1>1 DEF OneText
<1>3. Awaits(q)'
  <2> DEFINE todo == proxy[q].todo
  <2> SUFFICES ASSUME InStore(q, "evict"), proxy'[q].crossed = "no"
               PROVE  /\ proxy[q].total = Len(todo)
                      /\ \A j \in DOMAIN todo : \E i \in DOMAIN originals' : originals'[i].text = todo[j]
                      /\ \A j, n \in DOMAIN todo, i, m \in DOMAIN originals' :
                           j < n /\ originals'[i].text = todo[j] /\ originals'[m].text = todo[n] => i < m
    BY <1>1 DEF Awaits, InStore, Stored
  <2>1. /\ proxy[q].total = Len(todo)
        /\ \A j \in DOMAIN todo : \E i \in DOMAIN originals : originals[i].text = todo[j]
        /\ \A j, n \in DOMAIN todo, i, m \in DOMAIN originals :
             j < n /\ originals[i].text = todo[j] /\ originals[m].text = todo[n] => i < m
    BY <1>1 DEF Awaits, Stored
  <2>2. \A j \in DOMAIN todo : todo[j] # t
    <3>1. t \notin ToSet(todo)
      BY <1>1
    <3> QED BY <3>1 DEF ToSet
  <2> HIDE DEF todo
  <2>3. \A j \in DOMAIN todo : \E i \in DOMAIN originals' : originals'[i].text = todo[j]
    BY <2>1, <2>2 DEF OthersKept
  <2>4. ASSUME NEW j \in DOMAIN todo, NEW n \in DOMAIN todo,
               NEW i \in DOMAIN originals', NEW m \in DOMAIN originals',
               j < n, originals'[i].text = todo[j], originals'[m].text = todo[n]
        PROVE  i < m
    <3>1. PICK k \in DOMAIN originals : originals[k].text = todo[j]
      BY <2>1
    <3>2. PICK l \in DOMAIN originals : originals[l].text = todo[n]
      BY <2>1
    <3>3. k < l
      BY <2>1, <2>4, <3>1, <3>2
    <3> QED BY <2>2, <2>4, <3>1, <3>2, <3>3 DEF OthersKept
  <2> QED BY <2>1, <2>3, <2>4
<1> QED BY <1>2, <1>3
-----------------------------------------------------------------------------
(* What a step of the recovery store is.                                    *)

\* A proxy moves on, without a change to the files, and it is not evicting; or it
\* begins to.
Plainly(p) ==
  ProxyAlone(p) /\ originals' = originals /\ proxy'[p].pc # "evict" /\ OneText(p)'
Weighed(p) ==
  /\ ProxyAlone(p) /\ originals' = originals
  /\ proxy'[p].pc = "evict" /\ proxy'[p].total = Len(originals)
  /\ DOMAIN proxy'[p].todo = DOMAIN originals /\ Len(proxy'[p].todo) = Len(originals)
  /\ \A i \in DOMAIN originals : proxy'[p].todo[i] = originals[i].text
\* It writes the file of a text; it unlinks one that is past the TTL; or it evicts
\* the first it has listed.
Wrote(p, t) ==
  /\ Crosses(p, t) /\ t \in Blocks /\ proxy'[p].pc \in {"idle", "list"}
  /\ \E f \in Original : f.text = t /\ originals' = Append(Except(t), f)
Expired(p, t) ==
  /\ Crosses(p, t) /\ proxy'[p].pc = "expire" /\ originals' = Except(t)
  /\ \E i \in DOMAIN originals : originals[i].text = t /\ originals[i].old = "yes"
EvictedFirst(p) ==
  LET todo == proxy[p].todo
      t == Head(proxy[p].todo)
  IN /\ InStore(p, "evict") /\ todo # <<>> /\ proxy[p].total > Watermark
     /\ Crosses(p, t) /\ originals' = Except(t)
     /\ proxy'[p].pc = "evict" /\ proxy'[p].todo = Tail(todo)
     /\ proxy'[p].crossed = proxy[p].crossed
     /\ Stored(t) => proxy'[p].total = proxy[p].total - 1
     /\ proxy'[p].text = proxy[p].text

LEMMA PlainStep ==
  ASSUME RecoveryTypeOK, NEW p \in Proxies, OneText(p),
         Elide(p) \/ CheckStored(p) \/ StoreFails(p) \/ List(p) \/ RestartProxy(p)
  PROVE  Plainly(p)
<1>1. proxy[p] \in Proxy
  BY DEF RecoveryTypeOK
<1>2. CASE Elide(p)
  <2>1. PICK t \in Blocks : proxy' = [proxy EXCEPT ![p].pc = "exists", ![p].text = {t}]
    BY <1>2 DEF Elide
  <2> DEFINE y == [proxy[p] EXCEPT !.pc = "exists", !.text = {t}]
  <2>2. y \in Proxy /\ y.pc = "exists" /\ y.text = {t}
    BY <1>1 DEF Proxy
  <2>3. proxy' = [proxy EXCEPT ![p] = y]
    BY <2>1
  <2> HIDE DEF y
  <2>4. ProxyAlone(p) /\ proxy'[p] = y
    BY <2>2, <2>3, OnlyMoves
  <2> QED BY <1>2, <2>2, <2>4 DEF Elide, Plainly, OneText
<1>3. CASE CheckStored(p)
  <2>1. PICK t \in Blocks : proxy[p].text = {t}
    BY <1>3 DEF CheckStored, InStore, OneText
  <2>2. proxy' = IF Stored(t) THEN Counted(p, "no") ELSE Goto(p, "write")
    BY <1>3, <2>1 DEF CheckStored
  <2>3. CASE Stored(t)
    <3>1. PICK y \in Proxy : Counted(p, "no") = [proxy EXCEPT ![p] = y] /\ y.pc \in {"idle", "list"}
      BY CountedMoves
    <3>2. ProxyAlone(p) /\ proxy'[p] = y
      BY <2>2, <2>3, <3>1, OnlyMoves
    <3> QED BY <1>3, <3>1, <3>2 DEF CheckStored, Plainly, OneText
  <2>4. CASE ~Stored(t)
    <3> DEFINE y == [proxy[p] EXCEPT !.pc = "write"]
    <3>1. y \in Proxy /\ y.pc = "write" /\ y.text = {t}
      BY <1>1, <2>1 DEF Proxy
    <3>2. proxy' = [proxy EXCEPT ![p] = y]
      BY <2>2, <2>4 DEF Goto
    <3> HIDE DEF y
    <3>3. ProxyAlone(p) /\ proxy'[p] = y
      BY <3>1, <3>2, OnlyMoves
    <3> QED BY <1>3, <3>1, <3>3 DEF CheckStored, Plainly, OneText
  <2> QED BY <2>3, <2>4
<1>4. CASE StoreFails(p)
  BY <1>4, FinishMoves DEF StoreFails, Plainly, OneText
<1>5. CASE List(p)
  <2> DEFINE todo == [i \in DOMAIN originals |-> originals[i].text]
             y == [proxy[p] EXCEPT !.pc = "expire", !.todo = todo]
  <2>1. todo \in Seq(Blocks)
    BY RecoveryTypes
  <2>2. proxy' = [proxy EXCEPT ![p] = y]
    BY <1>5 DEF List
  <2> HIDE DEF todo
  <2>3. y \in Proxy /\ y.pc = "expire"
    BY <1>1, <2>1 DEF Proxy
  <2> HIDE DEF y
  <2>4. ProxyAlone(p) /\ proxy'[p] = y
    BY <2>2, <2>3, OnlyMoves
  <2> QED BY <1>5, <2>3, <2>4 DEF List, Plainly, OneText
<1>6. CASE RestartProxy(p)
  <2>1. ProxyAlone(p) /\ proxy'[p] = NewProxy
    BY <1>6, NewProxyType, OnlyMoves DEF RestartProxy
  <2> QED BY <1>6, <2>1 DEF RestartProxy, Plainly, OneText, NewProxy
<1> QED BY <1>2, <1>3, <1>4, <1>5, <1>6

LEMMA WriteOriginalStep ==
  ASSUME RecoveryTypeOK, NEW p \in Proxies, OneText(p), WriteOriginal(p)
  PROVE  \E t \in Blocks : Wrote(p, t)
<1>1. PICK t \in Blocks : proxy[p].text = {t}
  BY DEF WriteOriginal, InStore, OneText
<1>2. /\ originals' = Append(Except(t), [text |-> t, old |-> "no"])
      /\ proxy' = Crossing(p, t, Counted(p, "yes"))
  BY <1>1 DEF WriteOriginal
<1>3. PICK y \in Proxy : Counted(p, "yes") = [proxy EXCEPT ![p] = y] /\ y.pc \in {"idle", "list"}
  BY CountedMoves
<1>4. Crosses(p, t) /\ proxy'[p] = y
  BY <1>2, <1>3, CrossingCrosses
<1> DEFINE f == [text |-> t, old |-> "no"]
<1>5. f \in Original /\ f.text = t
  BY DEF Original
<1> HIDE DEF f
<1>6. originals' = Append(Except(t), f)
  BY <1>2 DEF f
<1> QED BY <1>3, <1>4, <1>5, <1>6 DEF Wrote

LEMMA ExpireStep ==
  ASSUME RecoveryTypeOK, NEW p \in Proxies, Expire(p)
  PROVE  Plainly(p) \/ \E t \in Blocks : Expired(p, t)
<1>1. proxy[p] \in Proxy /\ proxy[p].todo \in Seq(Blocks) /\ proxy[p].pc = "expire"
  BY ProxyFields DEF RecoveryTypeOK, Expire, InStore
<1>2. CASE proxy[p].todo = <<>>
  <2> DEFINE y == [proxy[p] EXCEPT !.pc = "weigh"]
  <2>1. y \in Proxy /\ y.pc = "weigh"
    BY <1>1 DEF Proxy
  <2>2. proxy' = [proxy EXCEPT ![p] = y] /\ originals' = originals
    BY <1>2 DEF Expire, Goto
  <2> HIDE DEF y
  <2>3. ProxyAlone(p) /\ proxy'[p] = y
    BY <2>1, <2>2, OnlyMoves
  <2> QED BY <2>1, <2>2, <2>3 DEF Plainly, OneText
<1>3. CASE proxy[p].todo # <<>>
  <2> DEFINE t == Head(proxy[p].todo)
             y == [proxy[p] EXCEPT !.todo = Tail(proxy[p].todo)]
             next == [proxy EXCEPT ![p].todo = Tail(@)]
             isOld == \E i \in DOMAIN originals : originals[i] = [text |-> t, old |-> "yes"]
  <2>1. t \in Blocks /\ Tail(proxy[p].todo) \in Seq(Blocks)
    BY <1>1, <1>3
  <2>2. y \in Proxy /\ y.pc = "expire"
    BY <1>1, <2>1 DEF Proxy
  <2>3. next = [proxy EXCEPT ![p] = y]
    OBVIOUS
  <2>4. IF isOld THEN originals' = Except(t) /\ proxy' = Crossing(p, t, next)
        ELSE proxy' = next /\ UNCHANGED originals
    BY <1>3 DEF Expire
  <2>5. CASE isOld
    <3>1. \E i \in DOMAIN originals : originals[i].text = t /\ originals[i].old = "yes"
      BY <2>5
    <3>2. originals' = Except(t) /\ proxy' = Crossing(p, t, [proxy EXCEPT ![p] = y])
      BY <2>3, <2>4, <2>5
    <3> HIDE DEF t, y, next, isOld
    <3>3. Crosses(p, t) /\ proxy'[p] = y
      BY <2>2, <3>2, CrossingCrosses
    <3> QED BY <2>1, <2>2, <3>1, <3>2, <3>3 DEF Expired
  <2>6. CASE ~isOld
    <3>1. proxy' = [proxy EXCEPT ![p] = y] /\ originals' = originals
      BY <2>3, <2>4, <2>6
    <3> HIDE DEF t, y, next, isOld
    <3>2. ProxyAlone(p) /\ proxy'[p] = y
      BY <2>2, <3>1, OnlyMoves
    <3> QED BY <2>2, <3>1, <3>2 DEF Plainly, OneText
  <2> HIDE DEF isOld
  <2> QED BY <2>5, <2>6
<1> QED BY <1>2, <1>3

LEMMA WeighStep ==
  ASSUME RecoveryTypeOK, NEW p \in Proxies, Weigh(p)
  PROVE  Plainly(p) \/ Weighed(p)
<1>1. proxy[p] \in Proxy /\ originals' = originals
  BY DEF RecoveryTypeOK, Weigh
<1>2. CASE proxy' = Finish(p)
  BY <1>1, <1>2, FinishMoves DEF Plainly, OneText
<1>3. CASE proxy' = [proxy EXCEPT ![p].pc = "evict", ![p].total = Len(originals),
                       ![p].crossed = "no",
                       ![p].todo = [i \in DOMAIN originals |-> originals[i].text]]
  <2> DEFINE todo == [i \in DOMAIN originals |-> originals[i].text]
             all == Len(originals)
             y == [proxy[p] EXCEPT !.pc = "evict", !.total = all,
                                   !.crossed = "no", !.todo = todo]
  <2>1. /\ todo \in Seq(Blocks) /\ all \in Nat
        /\ DOMAIN todo = DOMAIN originals /\ Len(todo) = Len(originals)
        /\ \A i \in DOMAIN originals : todo[i] = originals[i].text
    BY RecoveryTypes
  <2>2. proxy' = [proxy EXCEPT ![p] = y]
    BY <1>3
  <2> HIDE DEF todo, all
  <2>3. y \in Proxy /\ y.pc = "evict" /\ y.total = all /\ y.todo = todo
    <3>1. todo \in Seq(Blocks) /\ all \in Int /\ proxy[p] \in Proxy
      BY <1>1, <2>1
    <3>2. y \in Proxy
      BY <3>1 DEF Proxy
    <3>3. y.pc = "evict" /\ y.total = all /\ y.todo = todo
      BY <3>1 DEF Proxy
    <3> QED BY <3>2, <3>3
  <2> HIDE DEF y
  <2>4. ProxyAlone(p) /\ proxy'[p] = y
    BY <2>2, <2>3, OnlyMoves
  <2> QED BY <1>1, <2>1, <2>3, <2>4 DEF Weighed, all
<1> QED BY <1>2, <1>3 DEF Weigh

LEMMA EvictOriginalStep ==
  ASSUME RecoveryTypeOK, NEW p \in Proxies, EvictOriginal(p)
  PROVE  Plainly(p) \/ EvictedFirst(p)
<1> DEFINE todo == proxy[p].todo
           t == Head(proxy[p].todo)
<1>1. /\ proxy[p] \in Proxy /\ proxy[p].todo \in Seq(Blocks) /\ proxy[p].pc = "evict"
      /\ proxy[p].total \in Int /\ Watermark \in Int
  BY ProxyFields DEF RecoveryTypeOK, EvictOriginal, InStore, Watermark
<1>2. CASE todo = <<>> \/ proxy[p].total <= Watermark
  <2>1. proxy' = Finish(p) /\ originals' = originals
    BY <1>2 DEF EvictOriginal
  <2> QED BY <2>1, FinishMoves DEF Plainly, OneText
<1>3. CASE ~(todo = <<>> \/ proxy[p].total <= Watermark)
  <2> DEFINE left == IF Stored(t) THEN proxy[p].total - 1 ELSE proxy[p].total
             y == [proxy[p] EXCEPT !.todo = Tail(todo), !.total = left]
  <2>1. /\ originals' = Except(t)
        /\ proxy' = Crossing(p, t, [proxy EXCEPT ![p] = y])
    BY <1>3 DEF EvictOriginal, EvictListed
  <2>2. left \in Int /\ Tail(todo) \in Seq(Blocks) /\ proxy[p].total > Watermark
    BY <1>1, <1>3
  <2>3. Stored(t) => left = proxy[p].total - 1
    OBVIOUS
  <2> HIDE DEF left, t
  <2>4. /\ y \in Proxy /\ y.pc = "evict" /\ y.todo = Tail(todo) /\ y.total = left
        /\ y.crossed = proxy[p].crossed /\ y.text = proxy[p].text
    BY <1>1, <2>2 DEF Proxy
  <2> HIDE DEF y
  <2>5. Crosses(p, t) /\ proxy'[p] = y
    BY <2>1, <2>4, CrossingCrosses
  <2> QED BY <1>1, <1>3, <2>1, <2>2, <2>3, <2>4, <2>5 DEF EvictedFirst, InStore, t
<1> QED BY <1>2, <1>3

LEMMA AgeOriginalStep ==
  ASSUME RecoveryTypeOK, AgeOriginal
  PROVE  Quiet /\ proxy' = proxy
<1>1. PICK i \in DOMAIN originals : originals' = [originals EXCEPT ![i].old = "yes"]
  BY DEF AgeOriginal
<1>2. originals \in Seq(Original) /\ \A j \in DOMAIN originals : originals[j] \in Original
  BY RecoveryTypes
<1> DEFINE f == [originals[i] EXCEPT !.old = "yes"]
<1>3. f \in Original /\ f.text = originals[i].text
  BY <1>2 DEF Original
<1>4. originals' = [originals EXCEPT ![i] = f]
  BY <1>1
<1> HIDE DEF f
<1>5. originals' \in Seq(Original) /\ DOMAIN originals' = DOMAIN originals
  BY <1>2, <1>3, <1>4
<1>6. \A j \in DOMAIN originals : originals'[j].text = originals[j].text
  BY <1>2, <1>3, <1>4
<1> QED BY <1>5, <1>6 DEF Quiet, AgeOriginal

LEMMA RecoveryStep ==
  ASSUME RecoveryTypeOK, \A p \in Proxies : OneText(p), RecoveryNext
  PROVE  \/ Quiet /\ proxy' = proxy
         \/ \E p \in Proxies : \/ Plainly(p) \/ Weighed(p) \/ EvictedFirst(p)
                               \/ \E t \in Blocks : Wrote(p, t) \/ Expired(p, t)
BY PlainStep, WriteOriginalStep, ExpireStep, WeighStep, EvictOriginalStep, AgeOriginalStep
   DEF RecoveryNext

LEMMA OriginalsTypeStep ==
  ASSUME RecoveryTypeOK, OriginalsInv, RecoveryNext
  PROVE  RecoveryTypeOK'
<1>1. CASE Quiet /\ proxy' = proxy
  BY <1>1 DEF Quiet, RecoveryTypeOK
<1>2. ASSUME NEW p \in Proxies, Plainly(p) \/ Weighed(p) PROVE RecoveryTypeOK'
  BY <1>2 DEF Plainly, Weighed, ProxyAlone, RecoveryTypeOK
<1>3. ASSUME NEW p \in Proxies, EvictedFirst(p) PROVE RecoveryTypeOK'
  BY <1>3, ExceptLeaves DEF EvictedFirst, Crosses, RecoveryTypeOK
<1>4. ASSUME NEW p \in Proxies, NEW t \in Blocks, Expired(p, t) PROVE RecoveryTypeOK'
  BY <1>4, ExceptLeaves DEF Expired, Crosses, RecoveryTypeOK
<1>5. ASSUME NEW p \in Proxies, NEW t \in Blocks, Wrote(p, t) PROVE RecoveryTypeOK'
  <2>1. PICK f \in Original : originals' = Append(Except(t), f)
    BY <1>5 DEF Wrote
  <2>2. originals' \in Seq(Original)
    BY <2>1, ExceptLeaves
  <2> QED BY <1>5, <2>2 DEF Wrote, Crosses, RecoveryTypeOK
<1> QED BY <1>1, <1>2, <1>3, <1>4, <1>5, RecoveryStep DEF OriginalsInv

\* When the first of what a pruner has listed goes, it awaits the rest.
LEMMA EvictedAwaits ==
  ASSUME RecoveryTypeOK, DistinctTexts, NEW p \in Proxies, EvictedFirst(p), Awaits(p),
         OthersKept(Head(proxy[p].todo))
  PROVE  OneText(p)' /\ Awaits(p)'
<1> DEFINE todo == proxy[p].todo
           rest == Tail(proxy[p].todo)
<1>1. /\ proxy[p].pc = "evict" /\ todo # <<>> /\ todo \in Seq(Blocks)
      /\ proxy'[p].pc = "evict" /\ proxy'[p].todo = rest
      /\ proxy'[p].crossed = proxy[p].crossed
      /\ Stored(Head(todo)) => proxy'[p].total = proxy[p].total - 1
  BY ProxyFields DEF EvictedFirst, RecoveryTypeOK, InStore
<1>2. /\ Len(todo) \in Nat \ {0} /\ Len(rest) = Len(todo) - 1 /\ Head(todo) = todo[1]
      /\ DOMAIN todo = 1..Len(todo) /\ DOMAIN rest = 1..Len(rest)
      /\ \A j \in DOMAIN rest : j + 1 \in DOMAIN todo /\ rest[j] = todo[j + 1] /\ j + 1 # 1 /\ j \in Nat
      /\ 1 \in DOMAIN todo
  <2> HIDE DEF todo
  <2>1. todo # <<>> /\ todo \in Seq(Blocks) /\ rest = Tail(todo)
    BY <1>1 DEF todo
  <2> HIDE DEF rest
  <2> QED BY <2>1
<1>3. OneText(p)'
  BY <1>1 DEF OneText
<1>4. Awaits(p)'
  <2> SUFFICES ASSUME proxy[p].crossed = "no"
               PROVE  /\ proxy'[p].total = Len(rest)
                      /\ \A j \in DOMAIN rest : \E i \in DOMAIN originals' : originals'[i].text = rest[j]
                      /\ \A j, n \in DOMAIN rest, i, m \in DOMAIN originals' :
                           j < n /\ originals'[i].text = rest[j] /\ originals'[m].text = rest[n] => i < m
    BY <1>1 DEF Awaits, InStore, Stored
  <2>1. proxy[p].total = Len(todo) /\ \A j \in DOMAIN todo : Stored(todo[j])
    BY <1>1 DEF Awaits, InStore
  <2>2. \A j, n \in DOMAIN todo, i, m \in DOMAIN originals :
           j < n /\ originals[i].text = todo[j] /\ originals[m].text = todo[n] => i < m
    BY <1>1 DEF Awaits, InStore
  <2>3. proxy'[p].total = Len(rest)
    BY <1>1, <1>2, <2>1
  <2>4. \A j \in DOMAIN todo : \E i \in DOMAIN originals : originals[i].text = todo[j]
    BY <2>1 DEF Stored
  <2> HIDE DEF todo, rest
  <2>5. \A j \in DOMAIN todo : j # 1 => todo[j] # todo[1]
    <3>1. ASSUME NEW j \in DOMAIN todo, j # 1, todo[j] = todo[1] PROVE FALSE
      <4>1. 1 < j
        BY <1>2, <3>1
      <4>2. PICK i \in DOMAIN originals : originals[i].text = todo[1]
        BY <1>2, <2>4
      <4>3. i < i
        BY <1>2, <2>2, <3>1, <4>1, <4>2
      <4>4. i \in Nat
        BY RecoveryTypes
      <4> QED BY <4>3, <4>4
    <3> QED BY <3>1
  <2>6. OthersKept(todo[1])
    BY <1>2 DEF todo
  <2>7. ASSUME NEW j \in DOMAIN rest
        PROVE  /\ rest[j] # todo[1]
               /\ \E i \in DOMAIN originals : originals[i].text = rest[j]
    BY <1>2, <2>4, <2>5
  <2>8. \A j \in DOMAIN rest : \E i \in DOMAIN originals' : originals'[i].text = rest[j]
    BY <2>6, <2>7 DEF OthersKept
  <2>9. ASSUME NEW j \in DOMAIN rest, NEW n \in DOMAIN rest,
               NEW i \in DOMAIN originals', NEW m \in DOMAIN originals',
               j < n, originals'[i].text = rest[j], originals'[m].text = rest[n]
        PROVE  i < m
    <3>1. PICK k \in DOMAIN originals : originals[k].text = rest[j]
      BY <2>7
    <3>2. PICK l \in DOMAIN originals : originals[l].text = rest[n]
      BY <2>7
    <3>3. j + 1 < n + 1
      BY <1>2, <2>9
    <3>4. k < l
      BY <1>2, <2>2, <3>1, <3>2, <3>3
    <3> QED BY <2>6, <2>7, <2>9, <3>1, <3>2, <3>4 DEF OthersKept
  <2> QED BY <2>3, <2>8, <2>9
<1> QED BY <1>3, <1>4

LEMMA WeighedAwaits ==
  ASSUME RecoveryTypeOK, DistinctTexts, NEW p \in Proxies, Weighed(p)
  PROVE  OneText(p)' /\ Awaits(p)'
<1>1. OneText(p)'
  BY DEF Weighed, OneText
<1>2. /\ DOMAIN proxy'[p].todo = DOMAIN originals /\ Len(proxy'[p].todo) = Len(originals)
      /\ \A i \in DOMAIN originals : proxy'[p].todo[i] = originals[i].text
      /\ originals' = originals /\ proxy'[p].total = Len(originals)
  BY DEF Weighed
<1>3. \A i, j \in DOMAIN originals : originals[i].text = originals[j].text => i = j
  BY DEF DistinctTexts
<1> QED BY <1>1, <1>2, <1>3 DEF Awaits, Stored

LEMMA OriginalsStep ==
  ASSUME RecoveryTypeOK, OriginalsInv, RecoveryNext
  PROVE  OriginalsInv'
<1>0. DistinctTexts /\ \A p \in Proxies : OneText(p) /\ Awaits(p)
  BY DEF OriginalsInv
<1>1. CASE Quiet /\ proxy' = proxy
  <2>1. DistinctTexts' /\ \A t : OthersKept(t)
    BY <1>0, <1>1, QuietKeeps
  <2>2. ASSUME NEW q \in Proxies PROVE OneText(q)' /\ Awaits(q)'
    <3>1. OneText(q)'
      BY <1>0, <1>1 DEF OneText
    <3>2. DOMAIN originals' = DOMAIN originals
          /\ \A i \in DOMAIN originals : originals'[i].text = originals[i].text
      BY <1>1 DEF Quiet
    <3>3. Awaits(q)'
      BY <1>0, <1>1, <3>2 DEF Awaits, InStore, Stored
    <3> QED BY <3>1, <3>3
  <2> QED BY <2>1, <2>2 DEF OriginalsInv
<1>2. ASSUME NEW p \in Proxies, Plainly(p) \/ Weighed(p) PROVE OriginalsInv'
  <2>1. ProxyAlone(p) /\ originals' = originals
    BY <1>2 DEF Plainly, Weighed
  <2>2. DistinctTexts'
    BY <1>0, <2>1 DEF DistinctTexts
  <2>3. ASSUME NEW q \in Proxies, q # p PROVE OneText(q)' /\ Awaits(q)'
    BY <1>0, <2>1, <2>3 DEF ProxyAlone, OneText, Awaits, InStore, Stored
  <2>4. OneText(p)' /\ Awaits(p)'
    <3>1. CASE Plainly(p)
      BY <3>1 DEF Plainly, Awaits, InStore
    <3> QED BY <1>0, <1>2, <3>1, WeighedAwaits
  <2> QED BY <2>2, <2>3, <2>4 DEF OriginalsInv
<1>3. ASSUME NEW p \in Proxies, EvictedFirst(p) PROVE OriginalsInv'
  <2> DEFINE t == Head(proxy[p].todo)
  <2>1. originals' = Except(t) /\ Crosses(p, t)
    BY <1>3 DEF EvictedFirst
  <2> HIDE DEF t
  <2>2. DistinctTexts' /\ OthersKept(t)
    BY <1>0, <2>1, RemovedFollow, FollowKeeps
  <2>3. \A q \in Proxies : q # p => OneText(q)' /\ Awaits(q)'
    BY <1>0, <2>1, <2>2, StillAwaits
  <2>4. OneText(p)' /\ Awaits(p)'
    BY <1>0, <1>3, <2>2, EvictedAwaits DEF t
  <2> QED BY <2>2, <2>3, <2>4 DEF OriginalsInv
<1>4. ASSUME NEW p \in Proxies, NEW t \in Blocks, Wrote(p, t) \/ Expired(p, t) PROVE OriginalsInv'
  <2>1. Crosses(p, t) /\ proxy'[p].pc \in {"idle", "list", "expire"}
    BY <1>4 DEF Wrote, Expired
  <2>2. DistinctTexts' /\ OthersKept(t)
    <3>1. CASE Expired(p, t)
      BY <1>0, <3>1, RemovedFollow, FollowKeeps DEF Expired
    <3>2. CASE Wrote(p, t)
      BY <1>0, <3>2, WrittenFollow, FollowKeeps DEF Wrote
    <3> QED BY <1>4, <3>1, <3>2
  <2>3. \A q \in Proxies : q # p => OneText(q)' /\ Awaits(q)'
    BY <1>0, <2>1, <2>2, StillAwaits
  <2>4. OneText(p)' /\ Awaits(p)'
    BY <2>1 DEF OneText, Awaits, InStore
  <2> QED BY <2>2, <2>3, <2>4 DEF OriginalsInv
<1> QED BY <1>0, <1>1, <1>2, <1>3, <1>4, RecoveryStep

LEMMA OriginalsIsInv == RecoverySpec => [](RecoveryTypeOK /\ OriginalsInv)
<1>1. RecoveryInit => RecoveryTypeOK /\ OriginalsInv
  <2> SUFFICES ASSUME RecoveryInit PROVE RecoveryTypeOK /\ OriginalsInv
    OBVIOUS
  <2>1. RecoveryTypeOK
    BY NewProxyType DEF RecoveryInit, RecoveryTypeOK
  <2>2. DOMAIN originals = {}
    BY DEF RecoveryInit
  <2>3. \A p \in Proxies : OneText(p) /\ Awaits(p)
    BY DEF RecoveryInit, NewProxy, OneText, Awaits, InStore
  <2> QED BY <2>1, <2>2, <2>3 DEF OriginalsInv, DistinctTexts
<1>2. RecoveryTypeOK /\ OriginalsInv /\ [RecoveryNext]_recoveryVars => RecoveryTypeOK' /\ OriginalsInv'
  <2>1. RecoveryTypeOK /\ OriginalsInv /\ UNCHANGED recoveryVars => RecoveryTypeOK' /\ OriginalsInv'
    BY DEF RecoveryTypeOK, OriginalsInv, DistinctTexts, OneText, Awaits, InStore, Stored, recoveryVars
  <2> QED BY <2>1, OriginalsTypeStep, OriginalsStep
<1> QED BY <1>1, <1>2, PTL DEF RecoverySpec

\* The recovery store's variables keep their types, in any number of proxies.
THEOREM RecoveryTyped == RecoverySpec => []RecoveryTypeOK
BY OriginalsIsInv, PTL


\* Places that rise, one for each of the first n, leave room for n.
LEMMA RisingPlaces ==
  ASSUME NEW n \in Nat \ {0}, NEW N \in Nat, NEW m \in [1..n -> 1..N],
         \A j, k \in 1..n : j < k => m[j] < m[k]
  PROVE  m[1] + n - 1 <= N
<1> DEFINE S == {l \in 0..n : l >= 1 => m[1] + l - 1 <= m[l]}
<1>1. \A j \in 1..n : m[j] \in Nat /\ m[j] <= N
  OBVIOUS
<1>2. 0 \in S
  OBVIOUS
<1>3. ASSUME NEW l \in 1..n, l - 1 \in S PROVE l \in S
  <2>1. CASE l = 1
    BY <1>1, <2>1
  <2>2. CASE l # 1
    <3>1. l - 1 \in 1..n /\ l - 1 < l /\ 1 \in 1..n
      BY <2>2
    <3>2. m[1] + (l - 1) - 1 <= m[l - 1]
      BY <1>3, <3>1
    <3>3. m[l - 1] < m[l]
      BY <3>1
    <3>4. m[1] \in Nat /\ m[l - 1] \in Nat /\ m[l] \in Nat
      BY <1>1, <3>1
    <3> QED BY <3>2, <3>3, <3>4
  <2> QED BY <2>1, <2>2
<1> HIDE DEF S
<1>4. 0..n \subseteq S
  BY <1>2, <1>3, BoundedInduction
<1>5. n \in 0..n /\ 1 \in 1..n /\ n \in 1..n
  OBVIOUS
<1>6. m[1] + n - 1 <= m[n]
  BY <1>4, <1>5 DEF S
<1> QED BY <1>1, <1>5, <1>6

\* What an uncrossed pruner has yet to look at is stored after the first of it.
LEMMA AwaitedFit ==
  ASSUME RecoveryTypeOK, NEW p \in Proxies, Awaits(p), proxy[p].todo # <<>>,
         InStore(p, "evict"), proxy[p].crossed = "no",
         NEW i \in DOMAIN originals, originals[i].text = Head(proxy[p].todo)
  PROVE  Len(originals) - i >= proxy[p].total - 1
<1> DEFINE todo == proxy[p].todo
           n == Len(todo)
           N == Len(originals)
<1>1. /\ n \in Nat \ {0} /\ DOMAIN todo = 1..n /\ Head(todo) = todo[1] /\ 1 \in 1..n
  <2>1. todo \in Seq(Blocks) /\ todo # <<>>
    BY ProxyFields DEF RecoveryTypeOK
  <2> HIDE DEF todo
  <2> QED BY <2>1
<1>2. N \in Nat /\ DOMAIN originals = 1..N
  BY RecoveryTypes
<1>3. proxy[p].total = n /\ \A j \in 1..n : \E k \in 1..N : originals[k].text = todo[j]
  BY <1>1, <1>2 DEF Awaits, Stored
<1>4. \A j, k \in 1..n, l, h \in 1..N :
        j < k /\ originals[l].text = todo[j] /\ originals[h].text = todo[k] => l < h
  BY <1>1, <1>2 DEF Awaits
<1>5. i \in 1..N /\ originals[i].text = todo[1]
  BY <1>1, <1>2
<1> HIDE DEF todo, n, N
<1> DEFINE m == [j \in 1..n |-> IF j = 1 THEN i ELSE CHOOSE k \in 1..N : originals[k].text = todo[j]]
<1>6. ASSUME NEW j \in 1..n PROVE m[j] \in 1..N /\ originals[m[j]].text = todo[j]
  BY <1>3, <1>5
<1>7. m \in [1..n -> 1..N] /\ m[1] = i
  BY <1>1, <1>6
<1> HIDE DEF m
<1>8. \A j, k \in 1..n : j < k => m[j] < m[k]
  BY <1>4, <1>6
<1>9. m[1] + n - 1 <= N
  BY <1>1, <1>2, <1>7, <1>8, RisingPlaces
<1>10. i \in Nat /\ n \in Nat
  BY <1>1, <1>2, <1>5
<1> QED BY <1>2, <1>3, <1>7, <1>9, <1>10 DEF N

\* Pruning deletes no original that has not expired while it and those written
\* after it fit in eighty per cent of the cap, however many proxies store and
\* prune meanwhile, unless one of them has crossed this one.
THEOREM RecentOriginalsKept == RecoverySpec => RecentOriginalsSurvive
<1>1. ASSUME RecoveryTypeOK, OriginalsInv, [RecoveryNext]_recoveryVars
      PROVE  \A p \in Proxies, i \in DOMAIN originals :
               /\ proxy[p].todo # proxy'[p].todo /\ proxy[p].crossed = "no"
               /\ originals[i].old = "no"
               /\ \A j \in DOMAIN originals' : originals'[j].text # originals[i].text
               => Len(originals) - i >= Watermark
  <2> SUFFICES ASSUME NEW p \in Proxies, NEW i \in DOMAIN originals,
                      proxy[p].todo # proxy'[p].todo, proxy[p].crossed = "no",
                      originals[i].old = "no",
                      \A j \in DOMAIN originals' : originals'[j].text # originals[i].text
               PROVE  Len(originals) - i >= Watermark
    OBVIOUS
  <2>1. RecoveryNext /\ DistinctTexts /\ \A q \in Proxies : OneText(q) /\ Awaits(q)
    BY <1>1 DEF recoveryVars, OriginalsInv
  <2>2. originals' # originals
    OBVIOUS
  <2>3. ~Quiet
    BY DEF Quiet
  <2>4. ASSUME NEW t, OthersKept(t) PROVE originals[i].text = t
    BY <2>4 DEF OthersKept
  <2>5. ASSUME NEW q \in Proxies, NEW t \in Blocks PROVE ~Wrote(q, t)
    <3>1. ASSUME Wrote(q, t) PROVE FALSE
      <4>1. PICK f \in Original : f.text = t /\ originals' = Append(Except(t), f)
        BY <3>1 DEF Wrote
      <4>2. \E n \in Nat : Len(originals') = n + 1 /\ \E e : Follow(e, n, t)
        BY <1>1, <4>1, WrittenFollow
      <4>7. PICK n \in Nat : Len(originals') = n + 1 /\ \E e : Follow(e, n, t)
        BY <4>2
      <4>3. PICK e : Len(originals') = n + 1 /\ Follow(e, n, t)
        BY <4>7
      <4>4. originals[i].text = t
        BY <1>1, <2>1, <2>4, <4>3, FollowKeeps
      <4>5. originals' \in Seq(Original) /\ originals'[n + 1].text = t
        BY <4>3 DEF Follow
      <4>6. n + 1 \in DOMAIN originals'
        BY <4>3, <4>5
      <4> QED BY <4>4, <4>5, <4>6
    <3> QED BY <3>1
  <2>6. ASSUME NEW q \in Proxies, NEW t \in Blocks PROVE ~Expired(q, t)
    <3>1. ASSUME Expired(q, t) PROVE FALSE
      <4>1. originals[i].text = t
        BY <1>1, <2>1, <2>4, <3>1, RemovedFollow, FollowKeeps DEF Expired
      <4>2. PICK k \in DOMAIN originals : originals[k].text = t /\ originals[k].old = "yes"
        BY <3>1 DEF Expired
      <4> QED BY <2>1, <4>1, <4>2 DEF DistinctTexts
    <3> QED BY <3>1
  <2>7. PICK q \in Proxies : EvictedFirst(q)
    BY <1>1, <2>1, <2>2, <2>3, <2>5, <2>6, RecoveryStep DEF Plainly, Weighed
  <2>8. q = p
    BY <2>7 DEF EvictedFirst, Crosses
  <2>9. /\ InStore(p, "evict") /\ proxy[p].todo # <<>> /\ proxy[p].total > Watermark
        /\ originals' = Except(Head(proxy[p].todo))
    BY <2>7, <2>8 DEF EvictedFirst
  <2>10. originals[i].text = Head(proxy[p].todo)
    BY <1>1, <2>1, <2>4, <2>9, RemovedFollow, FollowKeeps
  <2>11. Len(originals) - i >= proxy[p].total - 1
    BY <1>1, <2>1, <2>9, <2>10, AwaitedFit
  <2>12. proxy[p].total \in Int /\ Watermark \in Int /\ Len(originals) \in Int /\ i \in Int
    BY <1>1, RecoveryTypes, ProxyFields DEF RecoveryTypeOK, Watermark
  <2> QED BY <2>9, <2>11, <2>12
<1> QED BY <1>1, OriginalsIsInv, PTL DEF RecoverySpec, RecentOriginalsSurvive

=============================================================================
