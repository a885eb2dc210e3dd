# GENESIS memory: formal models

This directory holds TLA+ models of GENESIS memory, the configurations that
model-check them and machine-checked proofs about them.  The reference is the
Python code under `src/genesis_memory/`; documentation and tests are quoted only
where the code disagrees with them.

## 1. The system

GENESIS gives coding agents a memory that outlives a session.  Several processes
run side by side on one machine, with no server between them: they share files
under `~/.genesis`.

| Part | Code | State it keeps | Operations |
|---|---|---|---|
| Memory store | `daemon/server.py`, `core/db.py` | `episodes`, `conflicts`, counters, thread and dialogue rows of one SQLite file; a transaction per process | the MCP tools: remember, recall, forget, invalidate, resolve_conflict, challenge_rule, reinforce, sleep_now, set_thread, ... |
| Hebbian engine | `core/hebbian_engine.py` | none of its own | reinforce one memory, decay all of them |
| Sleep cycle | `sleep/sleep_daemon.py`, `sleep/digest_generator.py` | reports, rows of `ledger.jsonl` | decay, skill synthesis, digest, report; a trigger on idle time |
| End of session | `sleep/end_session.py` | `ledger.jsonl`, `ledger.lock` | bill the receipts a proxy buffered since the last session |
| Proxy supervisor | `proxy/supervisor.py` | `proxy.lock`, `proxy.pid` | start one proxy on demand, stop it, clean stale locks |
| Proxy pipeline | `proxy/proxy_server.py` | per-session buffers, the last 100 receipts, an HTTP session | rewrite a chat request, send it upstream with retries and failover, stream the answer, issue a receipt |
| Distiller | `proxy/structured_distiller.py` | a counter of running jobs, an event | distil a turn in the background, wait for the distillation before the next read |
| Compaction | `proxy/tool_compactor.py`, `proxy/content_compressor.py` | a directory of originals | prune a conversation, shorten a block and keep its original recoverable, prune originals |
| Output spool | `proxy/spool.py`, `cli/run.py` | a directory of logs and their metadata | run a command and spool its output, read it back by pages, prune |
| Skills and traps | `core/skill_synthesizer.py`, `core/verification_trap.py`, `core/ast_edge_extractor.py` | skills, dependency edges, attestations | synthesise candidates, close a set of symbols under dependency |
| Skill sync | `cli/skill_sync.py` | a canonical store of skills, links and copies of them, a manifest | apply, revert |
| Setup | `cli/init_cmd.py`, `cli/client_registry.py`, `cli/proxy_setup.py` | clients' configuration files, a manifest of backups | wire clients, revert |
| Hook and ladder | `hooks/subconscious_hook.py`, `cross_client_resolve` in `daemon/server.py` | the thread and the dialogue buffer, in the SQLite file | print a block for a prompt, answer with the first source that has something |

The parts meet in three ways: through the SQLite file (store, engine, sleep cycle,
hook, proxy), through plain files that serve as locks and logs (supervisor, end of
session), and through HTTP on the loopback (agent to proxy, end of session to
proxy).  There is no message queue; what is hard is the interleaving of processes
on shared files, failures between two commits, and waits that time out.

What makes each part correct, and what a test hardly reaches:

* **Store.** A conflict always names two stored memories; an open challenge can be
  decided and a decided one leaves nobody waiting; a dead memory stays dead; the
  cap holds; every call answers.  Hard: `remember`, `resolve_conflict` and
  `challenge_rule` commit more than once, `reinforce` and decay write what they
  computed from an earlier read, and a statement that fails leaves the implicit
  transaction of the connection open, with SQLite's write lock.
* **End of session.** Each receipt is counted, and once.  Hard: a lock file that
  is created before it is written, goes stale, survives a crash, and is given up on
  after ten seconds; a receipt buffer that rotates; proxies that restart.
* **Supervisor.** One proxy at a time, and `stop` stops it.  Hard: the same lock
  file hazards, and a proxy that starts more slowly than its supervisor waits.
* **Proxy.** Each request ends, billed once if answered, and retries and failover do
  not pile up connections; a read waits for the distillation it depends on.  Hard:
  failures at every await, streams whose client is ahead of the handler, a counter
  kept by handlers and background tasks together.
* **Compaction.** No tool call loses its result; compacting twice is compacting
  once; no shortened block loses an error or its verdict.  Hard: the shapes of
  conversations, signatures that a cut goes through.
* **Spool and recovery store.** A log is whole, stays beside its metadata and can be
  read to its end; what is recent is not pruned.  Hard: several processes that
  list, unlink and replace files in one directory, crashes, full disks.
* **Skill sync, setup.** Revert undoes what was done, whichever step failed, and
  nothing else.  Hard: failures and crashes before the manifest is written, or midway
  through the copy or the removal of a folder; the user's edits between commands.
* **Hook.** A prompt gets no memory that is dead.  Hard: six queries, and daemons
  that write between any two.

## 2. Modules

| Module | Models | Extends or instantiates |
|---|---|---|
| `MemoryStore` | the store, the engine's effect on a memory's status, the write lock, retries and crashes | instantiates `MemoryLifecycle` |
| `MemoryLifecycle` | the promise: the life of a memory and of a conflict, with no tables or processes | |
| `MemoryStoreProofs` | theorems about `MemoryStore` | extends it |
| `EndSession` | the end of a session and the proxies' receipt buffers | |
| `EndSessionProofs` | theorems about `EndSession` | extends it |
| `ProxyTurn` | the proxy's chat routes and the distiller behind them | instantiates `TurnContract` |
| `TurnContract` | the promise: what a turn is answered, billed and learnt by | |
| `ProxyTurnProofs` | theorems about `ProxyTurn` | extends it |
| `Supervisor` | starting and stopping the proxy | |
| `SupervisorProofs` | theorems about `Supervisor` | extends it |
| `Spool` | `genesis run`, the spool's directory, its pruning and its readers | |
| `SpoolRead` | what `read_spool` shows of a log | |
| `Recovery` | the directory of originals that proxies share | |
| `DirectoryProofs` | theorems about `Spool`, `SpoolRead` and `Recovery` | extends them and `SelectionProofs` |
| `ContentCompressor` | the view of a block, as a function of it | |
| `ToolCompactor` | the compacted conversation, as a function of it | |
| `SkillSync` | `genesis skill-sync`, apply and revert | |
| `Setup` | `genesis setup`, the proxy setup, revert | |
| `ToolsProofs` | theorems about `SkillSync` and `Setup`, and about the eight tools together | extends `MCTools`, `DirectoryProofs` and `ContextProofs` |
| `Selection` | what a loop selects from a list: used by `Continuity` and the modules from `Spool` to `Setup` but `SpoolRead` | |
| `SelectionProofs` | induction, recursive functions and `Select`, for the proofs about them | extends it |
| `Continuity` | the hook, the ladder, the thread and the dialogue buffer | |
| `ContextProofs` | theorems about `ContentCompressor`, `ToolCompactor` and `Continuity` | extends them and `SelectionProofs` |
| `MCMemoryStore`, `MCEndSession`, `MCProxyTurn`, `MCSupervisor` | small instances and symmetries | extend the module they check |
| `MCTools` | one instance of the eight modules from `Spool` to `Continuity` | extends them |

### 2.1 MemoryStore

`db` is what is committed.  `writer` is the process whose connection holds the
write lock between two steps and `wdb` the tables as that process sees them; when
nobody holds it, `wdb = db`.  `call[p]` is the tool the process is executing, with
its arguments and local variables (`id`, `by`, `cid`, `act`, and `todo`, the
updates computed from rows already read); `reply[p]` is its last answer.

A step is what lies between two commits, because SQLite admits one writer: from
its first DML statement to its commit a connection excludes the others.  Every
tool starts with `_inc_counter`, which commits the connection; `Begin` therefore
also commits what an earlier failed call left open.  A segment ends with `Commit`
or with `Abandon`, a failed statement after which Python's implicit transaction
stays open.  The foreign keys of `conflicts` are `Referenced`: deleting a
referenced row fails the whole statement.

| Action | Code |
|---|---|
| `RememberInsert`, `RememberEvict` | `Store.remember`: insert, supersede or stage a conflict (committed by `_inc_counter`), evict, commit |
| `ForgetDelete`, `InvalidateMark` | `Store.forget`, `Store.invalidate` |
| `ResolveUnknown`, `ResolveDismiss`, `ResolveLoser`, `ResolveWinner` | the paths of `Store.resolve_conflict`, which commits the loser first |
| `ChallengeRead`, `ChallengeInsert` | `Store.challenge_rule`: the check outside a transaction, then the two inserts |
| `ReinforceRead`, `DecayRead`, `WriteBack` | `HebbianEngine.reinforce_memory`, `decay_all`: read and compute, then update by id |
| `RejectSecret`, `LockError`, `OutOfIds`, `Crash` | the secret gate, `handle`'s bounded retry, the bound on ids, the death of a process |

Data is abstracted where no property tells it apart.  Whether a text collides with
a stored one is a free choice, and so is the eviction order, since the caller
chooses the utility it is made of.  `Classify` keeps the statuses the code keeps
and otherwise chooses any status of `Bands`, the ones a weight can lead to.

`MemoryLifecycle` says what a user may rely on: a staged memory becomes current
or dead and is not erased, a dead one is never current again, a closed conflict
stays closed.  `FollowsLifecycle` is that specification under the mapping that
reads `life` and `stage` off the committed tables.

### 2.2 EndSession

`seq[i]` counts the receipts instance `i` has issued; its buffer holds the last
`Buf` of them (`RECEIPT_BUFFER_MAX` and `RECEIPT_LIMIT` are both 100).  `ledger`
is the file, row by row; a row counts the receipts in `(lo, hi]` of one instance
and carries watermarks.  `prev`, the watermark the session had read, is a history
field: the code does not write it.  `lock` is `ledger.lock`: absent, created but
empty, written, or written more than a minute ago.  Unlinking acts on the path and
writing on the descriptor, so `WriteLock` changes nothing when the file has been
replaced meanwhile.  `GiveUp` leaves the waiting loop without the lock, as `main`
does.

A receipt's id starts with the time in milliseconds and ends with the instance's
counter, and ids are compared as strings.  The model takes ids in the order of
issue, that is a clock that does not step back.

### 2.3 ProxyTurn

The proxy is one event loop, so an action is what a handler runs between two
awaits, and handlers and distillation tasks interleave at awaits only.  `req[r]` is
the handler of request `r`: `pc` names the await it is at, `cand` and `attempt` the
two loop variables of the failover, `result` how it left.

| Code | Model |
|---|---|
| `request.json()`, then rewriting | `Receive`, `Reject`, `SkipBarrier`, `EnterBarrier` |
| `wait_for_pending_distillations(0.08)`, then recall and compaction | `PassBarrier`, `TimeOut` |
| the loop over models and attempts | `Post`, `UpstreamAnswers` (`FailOver`, `Retry`, `FallThrough`, `Settle`), `UpstreamFails`, `ExitRaises` |
| an upstream error | `ForwardError`, `ErrorUnread` |
| `_handle_non_streaming_response` | `RelayPlain`, `PlainRaises`, `Close` |
| `_handle_streaming_response` | `Prepared`, `PrepareRaises`, `LastChunk`, `StreamRaises`, `WriteEof`, `RelayStream`, `EpilogueRaises`, `Close` |
| `handle_anthropic_messages` | `AnthropicAnswers`, `AnthropicFails`, `PassThrough` |
| `mark_distillation_in_flight`, `distill_and_ingest` | `QueueDistillation`, `Distill` |

`open` holds the upstream contexts entered and not exited: what the code leaves to
the garbage collector stays in it.  `seen` is the client's side: a streamed answer
is there with its last chunk, any other when the handler returns it.  `after` and
`missed` are history: the turns a recall must find, and those it did not find
though it counted no stale read.  A task that cannot store what it distilled logs
it and counts down like any other, so `done` does not tell the two apart.

Left out: what the messages say, hence whether a turn is rewritten, skipped or
compacted (both outcomes are allowed), the locality buffer, telemetry, and the
rotation of the receipt buffer, which `EndSession` has.  aiohttp is modelled from
its use: handlers are not cancelled when a client goes away, their next write to
it raises; and leaving a context whose entering failed may raise, which turns a
refused connection into an error 500 without a retry.

### 2.4 Supervisor

Each process runs one command, `ensure_proxy_running` or `stop_proxy`, and spawns at
most one child, which bears its name.  `lock` and `pidfile` are the two files: who
created each, and what it says.  A lock is created, then written, as two steps;
unlinking acts on the path.  `kid[p]` is the child: starting, serving, stopping,
dead, or `collided` when it found the port taken.  Process ids are not reused.

| Action | Code |
|---|---|
| `CleanCheck`, `CleanParse`, `DropCorrupt`, `DropStale`, `DropStalePid` | `clean_stale_lock` |
| `Begin`, `Probe`, `Create`, `NoLockFor`, `Fill`, `Recheck` | `ensure_proxy_running` up to the second probe under the lock |
| `Spawn`, `Truncate`, `Record`, `RecordFails`, `Await` | the launcher, the PID file, the wait for the port |
| `ReleaseCheck`, `ReleaseRead`, `ReleaseDrop`, `Watch` | `release_lock`; the wait of a process that did not get it |
| `StopCheck`, `StopRead`, `Terminate`, `KillCheck`, `Kill`, `DropPid`, `DropLock` | `stop_proxy` |
| `Bind`, `ChildEnds`, `Die` | the child, and the death of a command |

The lock is advisory and depends on timing, so single flight cannot hold outright.
`upset` is a ghost that records the mishaps under which it does not: a lock read
between its creation and its writing, a start slower than the supervisor waits, a
probe a busy proxy does not answer, a command killed, a full disk, a stop that
unlinks a file that is not its target's.  `SingleFlight` and `ProxyIsOnRecord` say
that these are all.  `company` records who ran beside another command.

### 2.5 Spool and SpoolRead

`dir` is the directory as the sequence of its files by time of last write, the order
`prune` deletes in.  A file is written to a name of its own (`temp`) and renamed, so
`open`, `fill` and `put` are steps; the log first, then its metadata.

| Action | Code |
|---|---|
| `Launch`, `RunStep`, `Killed` | `execute_spooled`, `write_spool`: the child, the two atomic writes, the counter, the printed pointer, and a death or a full disk between any two |
| `Scan`, `Evict` | `prune`: list and total once, then unlink in order down to eighty per cent |
| `AskFor`, `Reading` | `read_spool`: look the file up, then read it |
| `Age` | a file passes its time to live |

`SpoolRead` is the window arithmetic of `read_spool`: the gate for long logs, pages,
windows, a grep, the failure anchors and the refusal that suggests where to read.

### 2.6 Recovery, ContentCompressor, ToolCompactor

`Recovery` is `RecoveryStore.store` and `prune` in several proxies: `Elide`,
`CheckStored`, `WriteOriginal`, `StoreFails`, then every few writes `List`,
`Expire`, `Weigh`, `EvictOriginal`; `RestartProxy` loses the count of writes,
`AgeOriginal` passes the time to live.  A text is its own digest.

`ContentCompressor` grows every block of at most `MaxBlock` tokens, one token at a
time, and `Compressed` is `compress_text`: each transform in its order, each undone
when `Preserved` finds something missing, then the elision of the middle and its
handle, or the original when the store fails.  An error's name and a verdict are
sequences of tokens, so a cut may go through either.  `Preserved` is
`_signatures_preserved`: it looks for every error's name and for the first verdict only
(`FirstVerdict`), whereas the middle is searched for any (`Verdicts`).

`ToolCompactor` grows every conversation of at most `MaxMessages` messages in either
provider's format (`Instruct`, `Ask`, `Answer`, `Return`), and `Compact` is
`compact_messages`: the validation, the grouping into turns, the pruning, the
pinned capsule, the repair, and the original when the result does not validate.
Token estimates and metrics are left out.

### 2.7 SkillSync and Setup

Both are one command at a time, a step for each file changed, a crash between any
two, the user's edits between commands, and a manifest that says what to revert.

`SkillSync` follows one skill.  `place[l]` is what a location holds: nothing, a
folder of the user's or of the sync, or a link; `store` the canonical copy.
`shutil.copytree` and `rmtree` are not atomic: a copy is begun by one step (`Canon`,
`PutLink`), which leaves the folder `"half"`, without SKILL.md, and ended by another
(`CanonCopy`, `PutCopy`).  A death or an error between the two leaves it so, and so may
a removal that fails.  What has its SKILL.md and lacks only other files counts as
whole, since that is the file clients look for and the only one the code reads.

| Action | Code |
|---|---|
| `Apply` | the plan is made, the manifest read |
| `Canon`, `CanonCopy`, `CanonFails` | `apply_sync`, the canonical copy: skipped if its folder is there, whatever is in it |
| `PutLink`, `PutCopy`, `PutFails`, `PutDone` | its links, by `_link_or_copy` |
| `Save` | `save_manifest` |
| `Revert`, `Unlink`, `UnlinkFails` | `apply_revert`: the recorded links and copies, and the errors after which it goes on |
| `Empty`, `EmptyFails`, `Forget` | the canonical copy, with the errors `_rmtree` swallows; the manifest |
| `Dies`; `Write`, `Delete` | a command's death; the user |

`mishap` is history: the links, and whether the canonical copy, that a failure or a
death has kept from the manifest, or from a revert that deletes the manifest all the
same.  A mishap ends when what it left is removed, or is on the manifest again.

`Setup` keeps of a config file which version of the user's text it holds and whether
GENESIS is wired in, as memory server and as proxy.  `BeginSetup`, `MakeLocal`,
`Wire`, `SetupFails`, `Record`, `Ping`, `NoProxy`, `ProxySetup`, `ProxyFails` are
setup in its order, with the manifest written by `Record` only; `BeginRevert`,
`Unwire`, `UnmakeLocal`, `RevertFails`, `ForgetSetup` are `--revert`.  `before` is a
history field: what the setup on record, or running, began from.

### 2.8 Continuity

An action is one SQL statement of a hook or of `cross_client_resolve`: `HookStep`
walks the hook's queries in their order (the anchor, the search, the coherence
gate, the verification trap, the thread, the recent turns, the capture of the
prompt), `CrossClientResolve` climbs the rungs.  `StatusChange`, `SetThread`,
`SetDialogue` are daemons, between any two of them; `TimePasses` ages rows while no
reader is under way, as readers take seconds.  Which memories a query matches is any
choice.  `dead`, in an agent's record, is history: what was dead at the gate and
has not come back.

## 3. Runs

| Run | Instance | Shows |
|---|---|---|
| `solo` | 1 process, all tools, 3 ids, 2 conflicts, cap 2 | sequences of legal calls and crashes: conflicts name their memories, challenges have conflicts, the refinement of `MemoryLifecycle` |
| `duo` | 2 processes, 5 tools, 2 ids, 1 conflict, cap 1, 1 retry | the foreign keys, the two commits of `resolve_conflict`, the write lock and the cap, under interleaved commits, left-open transactions and lost races |
| `returns` | 2 processes, fair | every call ends |
| `session` | 1 session at a time, 2 instances, buffer 2, 4 receipts, 3 rows, fair | exactly-once counting, no silent loss, termination |
| `turns` | 2 requests of any route, 2 candidate models, fair | exact barrier, plain turns recalled, bounded connections, the refinement of `TurnContract`, every request ends |
| `starts` | 2 starts, 1 stop, 2 attempts on the lock, fair | single flight and the proxy on record absent the named mishaps, the dead block nobody, a stop means dead, every command ends |
| `tools` | the tools around the memory, one at a time | the properties of sections 2.5 to 2.8 |
| `orphan`, `revived`, `session_twice`, `stale`, `verdicts` | small | the disagreements of section 6 |

What the run `tools` checks, by module:

| Module | Properties |
|---|---|
| `Spool` | `NoTornRead`: no reader gets half an output. `SaidLogHasMeta`: a log somebody was pointed to is there with its metadata or not at all. `RecentOutputsSurvive`: one process that prunes deletes no finished file that is recent |
| `SpoolRead` | `ReadToTheEnd`: who reads on as told has seen each line once, in order, when told it is the end |
| `Recovery` | `RecentOriginalsSurvive`: no prune deletes a recent original, unless another proxy unlinked or replaced a file it had listed |
| `ContentCompressor` | `FailClosed`: a view is the block, or smaller with every error and the first verdict in it, and lacks lines only with a handle to the original |
| `ToolCompactor` | `PairsStayWhole`, `CompactIsIdempotent`, `ActiveTurnSurvives`: results keep their calls, twice is once, the leading instructions and the last question's turn are unaltered |
| `SkillSync` | `SyncReachesAll`: after an apply without errors every client finds the skill, unless a folder that has no SKILL.md, or no name in it, is where it looks. `NoLinkLeft`: after a revert no link into the store is left and no canonical copy, but for what a mishap left |
| `Setup` | `RevertRestoresConfigs`: a revert gives back the configs the setup found. `OldMemoriesSurvive`: no revert deletes memories older than the setup |
| `Continuity` | `InjectionIsFresh`: no hook whose queries all succeeded prints a memory that was dead at its gate |

**Bounds and why they suffice.**  Three ids are the least at which a cap of two evicts
and a freed id is reused while a conflict names the two others; two conflicts let
one memory be in both.  With two processes every pair of segments interleaves;
the segments of a third process add no new pair, as every invariant relates rows
to rows and not processes to processes.  One retry distinguishes a first attempt
from a last one.  For `EndSession`, four receipts over a buffer of two let a
watermark rotate out with a receipt lost in between, three rows let an offline row
stand between two others, and two instances let a row carry the watermark of one
it does not count.  For `ProxyTurn`, two models make one last and one not, and two
requests let one recall, retry or be relayed at each await of the other.  For
`Supervisor`, two starts race for the lock while a stop unlinks it, and a second
attempt is one that finds what another left.

The theorems of section 4 hold for all values that their assumptions allow, and but for
liveness every property of a passing run is stated by one (`ToolsTypeOK` by one for each
part).  So the bounds need only reach each branch, to show that the models do what
the theorems are about.  In `tools`,
Spool: a cap of 3 and outputs of 2, so that a second output makes a prune delete,
with one run writing, one pruning process and one reader between its steps.
Recovery: three originals in a room of two, two proxies, a prune every second
write, so that a prune meets another and a store that re-creates a listed file.
`SpoolRead`: eight lines, beyond the gate (5), not a multiple of the page (3), and
limits below and above the longest window (3).  `SkillSync`: three locations, one of
which reads another's folder as well, and two texts, so that an edit can differ.
`Setup`: two clients, one with hooks, one whose check never succeeds and which the
proxy setup can wire; one edit.  `ToolCompactor`: five messages and three calls
hold an old turn, a turn cut in two, parallel calls and an active turn.
`ContentCompressor`: six tokens hold a run to collapse, an error's two halves or a
verdict's across a cut, and a middle to elide; `verdicts` has two numbers, so that its
verdicts can differ.  `Continuity`: one reader, since readers meet only
through what daemons change, two memories, two rows of dialogue.  Runs, proxies,
texts and memories are only ever compared with their like; the four tools that have them
share nothing, so in `tools` they bear the same two names, which may be exchanged
(`MCAlike`).  `CHECK_DEADLOCK
FALSE` where the system may stop: the tools have nothing to do when no one calls
them, and a proxy whose requests are answered waits for others.

Every property of a passing run has a mutant, kept in its module next to the
definition it distorts and marked as such: a rowid allocator that reuses a gap, an
eviction off by one, a conflict closed one commit early, a connection without
foreign keys, retries without end, a watermark read from the last row only, a
stop that trusts SIGTERM, a spool pruned newest first, and so on.  Each mutant
violates its property under the configuration of the run.

**Fairness.**  `MemoryStore` assumes weak fairness of each process's own steps:
a daemon has one thread, and its waits (`busy_timeout`, the sleeps of `handle`)
are bounded.  Starting a call and crashing are not fair.  `EndSession` adds strong
fairness of `GiveUp`: a process that comes back to its wait again and again finds
its deadline passed, as it compares the clock each time.  Nothing is assumed of
the aging of a lock or of proxies.  `ProxyTurn` assumes that the event loop runs
what is ready, as asyncio's queue does, and that the upstream answers or breaks
off: the proxy sets no read timeout, so without the second a request may wait for
ever.  `Supervisor` assumes that a command under way goes on, since each of its waits
has a deadline; children owe nothing.  The tools promise no liveness.

## 4. Theorems

`MemoryStoreProofs`, from `MemoryAssumption` (finite bounds are natural numbers,
the bands include "active" and "solidified", nobody is not a process):

* `Typing`: `TypeOK`, strengthened by the arguments each program counter needs
  (a process at `delete` has an id).
* `LockRelease`: only a call that answered with an error leaves the lock taken.
* `ConflictRefs`: both memories of every conflict are stored, in the file and in
  an open transaction.  Each statement is shown to keep `RefsStored`; the
  eviction and `forget` because a referenced victim fails the statement.
* `ResolvedSettles`: a resolved conflict leaves no challenger pending.  Not
  inductive as it stands: between the two commits of `resolve_conflict` anything
  may happen to the winner.  `WinnerReady` says what survives: at `resolveWin`
  either the winner is the challenger, about to be settled, or the challenger is
  already dead; `Keeps` says no statement of another process undoes that.

* `CapHolds`: `CapAfterRemember`, for any cap: the eviction commits a table of at
  most `Cap` rows (`EvictionReachesCap`, with the library's facts on
  cardinalities), and no other step answers a `remember` with success.

`MemoryStoreProofs`, for any number of processes that leave alone what another has just
read.  `TargetsKept`: no target of a challenge is erased between the read of
`challenge_rule` and its INSERTs.  `ReadsKept`: no memory about to be updated by
`reinforce` or `decay_all` dies between the read and the UPDATE.  The code guarantees
neither, and the runs `orphan` and `revived` find the steps that break them; these
theorems say that nothing else does any harm.

* `ConflictNames`, `ChallengerKeeps`, from `TargetsKept`: `ConflictsNameTheirMemories` and
  `ChallengerHasConflict`.  The invariant `KeptInv` adds to `ConflictInv` that the target
  `challenge_rule` has read is still there (`TargetThere`), and states the two
  properties of the open transaction as well (`Fine(wdb)`).
* `KeptLifecycle`, from both: `FollowsLifecycle`, the refinement of `MemoryLifecycle`.
  `LifeInv` adds that what `todo` holds does not revive the dead (`TodoLive`) and
  that an open transaction is along the lifecycle from the file
  (`Follows(db, wdb)`), because its commit may come late, with a later call.
* `LoneConflictNames`, `LoneChallenger`, `LoneLifecycle`: the same with one process and no
  hypothesis, since a process alone keeps what it has read (`LoneKeepsTargets`,
  `LoneKeepsReads`).  They are what the run `solo` checks; several processes have the
  three properties under the hypotheses only.
* `CallsAreFinite`: a call takes at most `2 * Retries + 2` segments.  See the end of this
  section.

`EndSessionProofs`, from `SessionAssumption`:

* `Typing`.
* `NoSilentSkip`: `NothingSkipped` for any number of sessions, with or without
  the lock.  The invariant `SkipInv` adds what a session holds: watermarks whose
  receipts are accounted for, then a row that accounts for the rest
  (`AggregateAccounts`); appending keeps what is accounted for (`AppendKeeps`).
* `TurnsCountOnce`: `CountedOnce`, for any number of sessions that take turns
  (`TakeTurns`: at most one is between the reading of the watermarks and its append).
  The invariant `OnceInv` says that watermarks rise along the file, that a row counts
  only up to its own watermark, and that what a session holds is not behind the
  file; the last watermark read is then the largest (`MarkIsLargest`).
* `LockMakesTurns`, `LockCountsOnce`: what the lock is worth.  `LockKept` rules out a
  session that goes on without the lock and an unlink of a lock whose session has still
  to append.  Then whoever is between creation and append made the lock that is there
  (`LockInv`), so the sessions take turns, and `CountedOnce` follows.  The code does
  both things `LockKept` excludes, on purpose: `session_twice` shows what comes of it.
* `LoneSessionCountsOnce`: one session at a time takes turns with nobody, with no
  hypothesis on the lock.

`ProxyTurnProofs`, from `ProxyAssumption` (at least one candidate model), for any
set of requests:

* `Typing`.
* `Contracted`: `Spec => Contract!Spec`.  Every step is a step of `TurnContract` or
  changes nothing it sees; the invariant `TurnInv` says a request is billed once,
  when its handler leaves the relay (`Billed`), and which route may be where
  (`Placed`).
* `BarrierIsExact`: the counter is the cardinality of the tasks in flight.  A
  handler never queues a turn twice because an unbilled turn is not queued.
* `PlainTurnsFresh`: `FreshInv` follows a turn from its queue, which precedes the
  client's sight of a plain answer, to the end of the wait, when no task is left.
* `BoundedConnections`: `HeldInv` says a connection is one of a candidate given up
  or that of the present attempt.
* `RequestsAreFinite`: a request takes at most `4 * Cands + 11` steps.

`SupervisorProofs`, from `SupervisorAssumption` (no command both starts and stops,
nobody is neither, at least one attempt), for any sets of commands:

* `SupervisorTyping`.
* `StopsForGood`: `StopMeansDead`.  `StopInv` follows a stop's target from the file it
  was read from: it has been spawned, so its name is never given to a new child.
* `TheDeadDoNotBlock`: `OnlyTheLivingBlock`.  `BlockInv` says that a process
  without company finds no lock when it creates one, for it has cleaned what the
  dead had left, and so has used up no attempt.
* `OneFlight`: `SingleFlight`.  `FlightInv`, as long as nothing is upset: a written lock
  names the process that holds it, whoever starts a child holds the lock, and none
  spawns while a child serves.
* `NoProxyIsLost`: `ProxyIsOnRecord`, from `RecordedInv` on top of `FlightInv`.
* `CommandsAreFinite`: a start or a stop takes at most `5 * Tries + 15` steps.

`ContextProofs`, for any sets of clients and memories:

* `FreshInjection`: `InjectionIsFresh`.  `FreshInv` says that past the gate what a hook
  found and what it holds as dead are disjoint, through the trap, which adds
  memories of its own.
* `ContinuityTyped`.  The types are inductive as they stand.

`ContextProofs`, from `CompactorAssumption` and `CompressorAssumption` (numbers are
natural, a head and a tail leave something out of a block that is elided).  Both
functions put sequences together piece by piece with `FlattenSeq`.  `FlattenFcn` gives
the recursion it follows, `FlattenSpread` the place of every piece, `FlattenMembers` what
is in the result; all three by induction over the pieces.

* `CompactorTyped`, `CompressorTyped`.
* `FailsClosed`: `FailClosed`.  Each transform keeps all but escapes and line breaks
  (`Retains`): of a run of equal lines the first stays (`FirstOfRun`).  That the first
  verdict and every error are shown is what the last check sees to; it is not a
  theorem of the other verdicts, nor true of them.  `Less` is what
  holds after any of them, taken or taken back, and elision adds a handle or nothing.
* `PairsKept`: `PairsStayWhole`.  `Valid`, which flattens a prefix for each message, is
  shown to be `Whole`, which speaks of messages and their places.  `CompactorInv` is what a
  client's conversation is: ids are called once, results come in the messages the
  format has for them.  `Shape` is what pruning and repair make of it: the messages kept, at
  rising places, and before a result the call put back for it, if its own was
  pruned.  A conversation of that shape is whole (`ShapeWhole`), and a capsule keeps
  it whole, put into a message or inserted as one (`Carries`, `CarriesWhole`).
* `ActiveTurnKept`: `ActiveTurnSurvives`, from `Shape` again (`Tells`).  The last
  question begins a turn, so `From` is not behind it.  That `From` exists, as the
  turn that exactly `history` turns follow, is an induction over their number
  (`NthFromLast`).
* `CompactsOnce`: `CompactIsIdempotent`.  What comes out is no conversation a client
  sends, so `Spaced` says what it is, seen from the messages kept: the ones that lead,
  with the capsule among them if it was inserted (`Leads`), then calls put back for
  the first message kept, then the messages kept with calls put back between them.
  The second time the same turns are kept, as the turns that begin behind that place
  are as many (`FromAgain`).  Calls in front of it are pruned, and are again what the
  first message kept lacks; no other lacks any (`OrphansNone`), so the repair puts back
  what was cut and nothing else (`RepairedOnceMore`).  A capsule replaces itself
  (`PinnedTwice`).

`SelectionProofs` is what the proofs about sequences rest on.  The provers cannot
apply the library's induction, which takes a predicate as a parameter, so induction is
derived here for sets: `Least` (a set of naturals has a least member, from the
library's well-foundedness of `<`), `Induction` and `BoundedInduction` from it, and
`Recursion`, that a recursion step by step over `0..N` has a solution.  `SelectPlaces`
then says what `Select(s, S)` is: the elements of `s` at places `e[1] < e[2] < ...`,
which are all the places whose elements are in `S`.  The models use `Select` rather
than `SelectSeq` for this: a predicate as an argument, again, cannot be instantiated.

`DirectoryProofs`, from `SpoolAssumption` (a run is no keeper, the cap is a natural
number), `SpoolReadAssumption` and `RecoveryAssumption`.  A directory is a sequence,
what `prune` has listed is another, and each proof says how the two stay in step.  Each
file operation is first reduced to a relation of the directory before and after
(`Stay`, `Joins`: the files that stay keep their order, at most one joins at the end).

* `SpoolTyped`, `SpoolReadTyped`, `RecoveryTyped`.
* `ReadsAreWhole`: `NoTornRead`.  `TornInv`: a file with its final name is whole, and so
  is the one its writer is about to rename.
* `LogsHaveMeta`: `SaidLogHasMeta`, with any number of pruning processes.  `MetaInv` says
  that metadata follows its log in the directory (`LogFirst`); that a pruner which has
  listed metadata has its log before it on its list, if the log is still there
  (`ListedFirst`); and that who was told of a log has its metadata (`ToldHasMeta`).  It
  rests on `FilesInv`, which says what files a run that has not ended may have, and on
  `OldInv`, that the files past the TTL are the oldest.
* `RecentOutputsKept`: `RecentOutputsSurvive`, with two hypotheses.  `Lone`: one keeper,
  because with two each goes on counting bytes the other has deleted, and deletes too
  much.  `PruneEvery # 1`: no run prunes, as its counter is always 1 and the code's
  interval is not.  `PruneInv` says that the list is still in the directory in its
  order, at least as large as listed (`InStep`), and that its bytes are its sizes' sum
  (`SizesInv`); `BytesFit` then compares the sums of two lists, by an induction over
  both.  Only finished files are meant: a temporary one may be listed while it is
  empty, filled, and deleted though recent.
* `ReadsToTheEnd`: `ReadToTheEnd`, for a log of any length, and pages, windows and a gate of
  any size.  `ReadInv`: what was shown is the lines from the start to the reader's
  `Position`; a page counts as the last exactly when it reaches the end (`LastPage`,
  where the arithmetic is not linear).
* `RecentOriginalsKept`: `RecentOriginalsSurvive`, for any number of proxies.
  `OriginalsInv` says that names are distinct and that a pruner which was not crossed
  counts exactly what it has still to look at, all of it there and in the order listed
  (`Awaits`).  Its list then lies in the directory after the file it evicts, at rising
  places (`RisingPlaces`), so as many files were written after it.

`ToolsProofs`, from the assumptions of `Setup` and `SkillSync` (lists of clients and
locations without repetition, at least one edit):

* `SetupTyped`, `SkillTyped`.
* `RevertRestores`: `RevertRestoresConfigs`.  `RestoreInv` says, at each step of a setup
  or a revert, what the manifest and the acts still to do account for: a config is as
  `before` or one of them restores it.
* `MemoriesSurviveRevert`: `OldMemoriesSurvive`, an action property, from `MemoryInv`: the
  only act that deletes a database is one whose setup had found none.
* `RevertUnlinks`: `NoLinkLeft`.  `LinkInv`: each link, and the canonical copy, is on the
  manifest or on the draft of the apply that makes it, or is one of the mishaps; and
  what is still on the manifest a running revert has yet to come to.
* `ApplyReaches`: `SyncReachesAll`, if what the locations scan is transitive.  `ReachInv`: as
  long as no error is reported the canonical folder is there, perhaps without its
  SKILL.md, and every location behind the apply reaches the skill or has a folder it
  cannot read.  With a chain
  of scans that is not, an apply takes a location for served by one its client does
  not scan.  The code's rows are: a scanned folder scans no other.  `Closure` is
  computed by a recursion; `Recursion` gives its value.

* `ToolsAreTheirParts`: the run `tools` checks eight specifications in one; seen by each
  tool, a behaviour of that run is a behaviour of the tool's own specification.  So the
  theorems of `DirectoryProofs`, `ContextProofs` and this module are about what the run
  explores.
* `ToolsTyped`: `ToolsTypeOK`, from that and the eight theorems on types.

Only model-checked: `CallReturns`, `SessionEnds`, `RequestEnds` and `CommandsEnd`, since
liveness needs fairness and `ENABLED`, which are out of the provers' reach.  Of three of
them the half that is safety is proved.  `CallsAreFinite`, `RequestsAreFinite` and
`CommandsAreFinite` give each call, request and command a number (`Left`), bounded by the
constants (`WorkBounded`), that every step of its own lowers, whatever the others do
(`WorkDone`): retries and failovers use up attempts.  So only standing still could keep
it from its end; that a step is always possible, and taken, is what the runs check.  The fourth
has no such number: a session may find the ledger's lock, unlink it and lose the race
for the new one for as long as others come and crash, and only its deadline, which is
an assumption on fairness here, ends it.

## 5. Not modelled

* Recall's ranking, access counts and the counters of `status()`: text search and
  statistics.  Where a model needs what recall finds, it takes any choice.
* Import, export and migration: one process, sequential; see section 6.
* The rest of the sleep cycle: skill synthesis, the digest and the report, which write
  files nobody reads back into the store.
* The numeric weights of the Hebbian engine: `Bands` is what they can choose.
* In the proxy: what messages say, the diet, the locality buffer, the catalogue,
  the telemetry and the limit of 100 upstream connections; the privacy shield, the
  output governor and the prices, which are text heuristics and tables.
* Redaction, summaries and formats of the spool; the formats of clients' config
  files; the folders skill sync creates.
* The evaluation harness and the reports, which are not part of the running system.

Bounded only in the models: the ids of the store (`OutOfIds`), receipts and rows,
attempts on the supervisor's lock (`acquire_lock`'s deadline), edits, messages,
tokens, rows of dialogue.

## 6. Where the code and its documentation disagree

Shown by runs:

* `orphan`: another process forgets a challenge's target between `challenge_rule`'s
  read and its inserts; the conflict's insert fails its foreign key, and the next
  call commits a challenger that no conflict names.
* `revived`: decay overwrites by id a status another process has changed since
  it was read, so a superseded memory becomes active again.
* `session_twice`: a session that gives up on the ledger lock, or finds it
  created and not yet written, counts receipts another one counts.
* `stale`: a streamed turn is marked for distillation after its client has the
  whole answer, so the next turn may recall without it and count no stale read;
  structured_distiller.py:6 promises "zero stale reads".
* `verdicts`: `_signatures` takes the first pytest match only, so of two different
  verdicts in a block the second is lost when the elision cuts it in two;
  content_compressor.py:9 says that all signatures "must survive byte-identical in
  the output".

Seen while modelling, with no run of their own:

* Store.  An eviction or a `forget` that fails its foreign key leaves the process
  holding the write lock between calls; another process is answered "database is
  locked", which docs/ARCHITECTURE.md:42 excludes.  At the cap, `remember` may evict
  the memory it has just stored and return its id (server.py:616,
  docs/MCP_SPEC.md:13).  `reinforce` on a challenger awaiting the user's verdict makes
  it live (hebbian_engine.py:74, server.py:660).  With two processes a challenger may
  take the rowid of its forgotten target, and the conflict oppose it to itself.
  `forget` deletes rows where docs/ARCHITECTURE.md:44 promises tombstones.  Decay also
  demotes solidified memories, which sleep_daemon.py:9 says it protects.  A row
  inserted before its conflict is staged is committed with the counter, so a retry
  after a lost race stores it twice.  `superseded_by` may come to name another
  memory once its successor is forgotten, as rowids are reused.  `export_jsonl` leaves
  the status out, so an import revives dead memories, and it ignores the cap.
* End of session and proxy.  `aggregate_receipts` reports coverage "full" for an
  instance it meets after its buffer has rotated.  proxy_server.py:1437 says that an
  error such as 401 or 400 is forwarded directly, but that of a model which is not
  the last is dropped, its connection unclosed, for the next model's.
* Supervisor.  A start slower than the wait, or a lock read before it is written, lets a
  second child spawn, and one of the two finds the port taken, where the header of
  supervisor.py promises a single flight.
* Spool.  `genesis run` makes its engine without a store, so its counter is always 1
  and it never prunes, though run.py:5 says it does.  A timeout discards the partial
  output.  The refusal of `read_spool` suggests as an offset, counted from 0, the
  number of a line, counted from 1.  A negative `max_lines` passes the limit.  Two
  processes that prune at once delete more than the cap asks, and a temporary file
  that was listed while it was empty may be deleted while it is written.
* Recovery.  Storing an expired original anew does not refresh its time, so the prune
  that follows may delete it before its handle is issued; concurrent prunes delete
  too much; temporary files are never pruned.
* Skill sync.  The digest in the manifest is overwritten before drift is looked for, so
  drift is never reported and a revert deletes copies the user has edited.  A crash
  before the manifest is saved leaves links on no record.  A canonical copy that an
  error or a crash cut short is never repaired: the next apply takes its folder for
  present (skill_sync.py:406), reports no error and links every client to it, though it
  may have no SKILL.md; `SyncReachesAll` excepts the clients that read such a folder.
  The same holds of a copy cut short in a location, which no manifest records.  When
  all fails midway through a first canonical copy, the manifest has no entry for the
  skill, and a revert without errors leaves the folder there.  A revert that cannot
  remove a link, a copy or the canonical copy records the error, or not even that
  (`_rmtree` swallows it, line 359, and the removal is reported done), and deletes the
  manifest all the same, so a later revert does nothing.  skill_sync.py:23 promises that
  `--revert` removes exactly what `--apply` created; `NoLinkLeft` excepts the `mishap`s.
* Setup.  The manifest is written at the end: a failure midway leaves clients wired on
  no record, and a later `--revert` undoes the setup before.  A second setup's manifest
  replaces the first.  What the proxy setup and the helpers wrote is not reverted.
* Compactor.  Blanks at the end of a system message are stripped by the second
  compaction only; a system message in parts is printed as Python when the capsule is
  pinned into it.
* Hook.  The coherence gate keeps status `active` only (subconscious_hook.py:349), and so
  drops every solidified memory its anchor has just preferred (line 287).  A failed query
  of the gate prints candidates unchecked.  A prompt captured at
  the same time as the proxy's copy of it is stored twice.  `recall`'s fallback
  makes the ladder's last rung answer whenever the store is not empty.

## 7. What could follow

1. The locality buffer of a session in `ProxyTurn`, and a composition with the
   reads of `MemoryStore` and the receipts of `EndSession`.
2. The limit on upstream connections, with streams that stay silent.
3. The clock in the ids of receipts, stepping back between two instances.
4. The dependency closure of the verification trap against reachability.
5. An abstract specification of a pruned directory, which `Spool` and `Recovery`
   would both implement.
