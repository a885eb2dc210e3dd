---------------------------- MODULE Continuity ----------------------------
(***************************************************************************)
(* What one AI client learns of another's work: the thread and the recent  *)
(* turns in the database, and the memories a prompt calls for.  The        *)
(* subconscious hook (hooks/subconscious_hook.py, with the trap of         *)
(* core/verification_trap.py) runs at every prompt and prints a block for  *)
(* it; the tool cross_client_resolve (daemon/server.py) climbs the same    *)
(* sources as a ladder.  Daemons write to them meanwhile.                  *)
(*                                                                         *)
(* An action of an agent is one SQL statement.  Readers take seconds at    *)
(* most, so time only passes between them.  Which memories a query matches *)
(* is any choice.                                                          *)
(***************************************************************************)
EXTENDS Integers, FiniteSets, Sequences, SequencesExt, Selection

CONSTANTS
  Agents,    \* AI clients: at each prompt the hook runs, then the model may ask
  Memories,
  Digest,    \* memories pinned in AGENTS.md, which the hook leaves out
  MaxRows    \* bound on the rows of the dialogue buffer

ASSUME ContinuityAssumption == Digest \subseteq Memories /\ MaxRows \in Nat

VARIABLES
  memory,    \* the status of each memory
  thread,    \* the age of the one row of active_thread
  turns,     \* dialogue_buffer, the row updated last at the end
  agent      \* the hook or the tool call each client is in

continuityVars == <<memory, thread, turns, agent>>

\* "dead": superseded, invalidated, dormant, challenged or deleted.
Status == {"absent", "active", "solidified", "dead"}
Living == {m \in Memories : memory[m] \in {"active", "solidified"}}

\* Ages, up to half an hour, an hour, and two.
Ages == <<"new", "half", "hour", "expired">>
Thread == {"none"} \cup ToSet(Ages)
\* A row is in turn less than a minute old, less than half an hour, and stale.
TurnAges == <<"now", "fresh", "stale">>
Turn == [by : {"proxy", "hook"}, age : ToSet(TurnAges)]
Aged(ages, age) ==
  LET i == CHOOSE i \in DOMAIN ages : ages[i] = age
  IN ages[IF i = Len(ages) THEN i ELSE i + 1]

HookPCs == {"anchor", "associate", "fill", "snoop", "trap", "thread", "turns", "gap",
            "capture", "print"}
AskPCs == {"ask", "ask_turns", "recall", "bump", "elsewhere", "answer"}
\* "shown" is the thread's tag in the block, "dead" what has been dead ever since
\* the gate looked, "rung" that of the ladder's first source with an answer.
AgentState == [pc : {"idle"} \cup HookPCs \cup AskPCs, found : SUBSET Memories,
           dead : SUBSET Memories, shown : {"no", "Live", "Stale"}, heard : 0..3,
           failed : {"no", "yes"}, rung : 0..4]
AtRest == [pc |-> "idle", found |-> {}, dead |-> {}, shown |-> "no", heard |-> 0,
             failed |-> "no", rung |-> 0]

ContinuityTypeOK ==
  /\ memory \in [Memories -> Status]
  /\ thread \in Thread /\ turns \in Seq(Turn)
  /\ agent \in [Agents -> AgentState]

ContinuityInit ==
  /\ memory = [m \in Memories |-> "absent"]
  /\ thread = "none" /\ turns = <<>>
  /\ agent = [c \in Agents |-> AtRest]

At(c, pc) == agent[c].pc = pc
To(c, pc) == agent' = [agent EXCEPT ![c].pc = pc]
Finds(c, more, pc) == agent' = [agent EXCEPT ![c].found = @ \cup more, ![c].pc = pc]
DataUnchanged == UNCHANGED <<memory, thread, turns>>

-----------------------------------------------------------------------------
(* query_subconscious_memories: the memories.                              *)

Prompt(c) == At(c, "idle") /\ To(c, "anchor") /\ DataUnchanged

\* Of eight, solidified ones before others and the newest first, the first that
\* is not in the digest.
Anchor(c) ==
  /\ At(c, "anchor")
  /\ LET free  == Living \ Digest
         solid == {m \in free : memory[m] = "solidified"}
     IN \/ (free = {} \/ Digest # {}) /\ To(c, "associate")
        \/ \E m \in IF solid = {} THEN free ELSE solid : Finds(c, {m}, "associate")
  /\ DataUnchanged

\* At most two that match the prompt, ...
Associate(c) ==
  /\ At(c, "associate")
  /\ \E match \in SUBSET Living :
       Cardinality(match) <= 2 /\ Finds(c, match \ Digest, "fill")
  /\ DataUnchanged

\* ... and of the two most useful as many as make two.
FillUp(c) ==
  /\ At(c, "fill")
  /\ \E more \in SUBSET (Living \ Digest) :
       /\ more # {} => Cardinality(agent[c].found \cup more) <= 2
       /\ Finds(c, more, "snoop")
  /\ DataUnchanged

\* Mutant: one candidate dropped, the gate stops looking.
Gated_First(found) ==
  LET bad == {m \in found : memory[m] # "active"}
  IN IF bad = {} THEN found ELSE found \ {CHOOSE m \in bad : TRUE}
\* The gate: the candidates' statuses are read again, and what is not active is
\* dropped.
Gated(found) == {m \in found : memory[m] = "active"}
Snoop(c) ==
  /\ At(c, "snoop")
  /\ agent' = [agent EXCEPT ![c].found = Gated(@), ![c].pc = "trap",
                              ![c].dead = {m \in Memories : memory[m] = "dead"}]
  /\ DataUnchanged

\* The trap pages in an active memory for each of at most two missing
\* dependencies; it finds none missing, or its own errors are passed over.
Trap(c) ==
  /\ At(c, "trap")
  /\ \E paged \in SUBSET {m \in Memories : memory[m] = "active"} :
       Cardinality(paged) <= 2 /\ Finds(c, paged, "thread")
  /\ DataUnchanged

-----------------------------------------------------------------------------
(* The thread, the turns, and the capture of this one.                     *)

\* Past an hour it takes work going on to show the thread (one of its files
\* changed within the hour, the proxy's port answers), and past two it is not
\* shown.
ThreadTag(changed, up) ==
  IF \/ thread \in {"none", "expired"}
     \/ thread = "hour" /\ ~changed /\ ~up THEN "no"
  ELSE IF thread = "new" \/ (changed /\ up) THEN "Live"
  ELSE "Stale"
ReadThread(c) ==
  /\ At(c, "thread")
  /\ \E changed, up \in BOOLEAN :
       agent' = [agent EXCEPT ![c].shown = ThreadTag(changed, up), ![c].pc = "turns"]
  /\ DataUnchanged

\* Of the last three rows those that are not stale.
FreshTurns ==
  Cardinality({i \in DOMAIN turns : i > Len(turns) - 3 /\ turns[i].age # "stale"})
ReadTurns(c) ==
  /\ At(c, "turns")
  /\ agent' = [agent EXCEPT ![c].heard = FreshTurns, ![c].pc = "gap"]
  /\ DataUnchanged

\* The proxy records the turns it sees: while its row is the latest, and of this
\* minute, the hook leaves the turn to it.
SeeGap(c) ==
  /\ At(c, "gap")
  /\ To(c, IF turns # <<>> /\ Last(turns) = [by |-> "proxy", age |-> "now"]
           THEN "print" ELSE "capture")
  /\ DataUnchanged

\* The hook's stale rows are pruned with it.  A busy database is not waited for.
Capture(c) ==
  /\ At(c, "capture")
  /\ \/ turns' = Append(Select(turns, {t \in Turn : t.by = "hook" => t.age # "stale"}),
                        [by |-> "hook", age |-> "now"])
        /\ Len(turns') <= MaxRows
     \/ UNCHANGED turns
  /\ To(c, "print")
  /\ UNCHANGED <<memory, thread>>

\* An error in a query of its own, and the hook prints the memories it has,
\* looked at again or not.
HookFails(c) ==
  /\ agent[c].pc \in {"anchor", "associate", "fill", "snoop"}
  /\ agent' = [agent EXCEPT ![c].pc = "print", ![c].failed = "yes"]
  /\ DataUnchanged

\* What fits is printed.
PrintBlock(c) ==
  /\ At(c, "print") /\ agent' = [agent EXCEPT ![c] = AtRest]
  /\ DataUnchanged

-----------------------------------------------------------------------------
(* cross_client_resolve.                                                   *)

Climb(c, pc, rung, some) ==
  /\ agent' = [agent EXCEPT ![c].pc = pc, ![c].rung = IF @ = 0 /\ some THEN rung ELSE @]
  /\ DataUnchanged

AskThread(c) == At(c, "ask") /\ Climb(c, "ask_turns", 1, thread # "none")
AskTurns(c) == At(c, "ask_turns") /\ Climb(c, "recall", 2, FreshTurns > 0)

\* recall, with its fallback: without a match it is the most useful memories
\* that come.
Recall(c) ==
  /\ At(c, "recall")
  /\ \E match \in SUBSET Living :
       /\ Cardinality(match) <= 3 /\ (Living # {} => match # {})
       /\ Finds(c, match, IF match = {} THEN "elsewhere" ELSE "bump")
  /\ DataUnchanged

\* Their accesses are counted in a statement of its own.  If the database stays
\* locked the recall is lost, and the ladder goes on.
Bump(c) == At(c, "bump") /\ \E kept \in BOOLEAN : Climb(c, "elsewhere", 3, kept)

\* The last rung: OpenCode's own storage.
AskElsewhere(c) ==
  At(c, "elsewhere") /\ \E some \in BOOLEAN : Climb(c, "answer", 4, some)

Resolved(c) ==
  /\ At(c, "answer") /\ agent' = [agent EXCEPT ![c] = AtRest]
  /\ DataUnchanged

CrossClientResolve(c) ==
  \/ At(c, "idle") /\ To(c, "ask") /\ DataUnchanged
  \/ AskThread(c) \/ AskTurns(c) \/ Recall(c) \/ Bump(c) \/ AskElsewhere(c) \/ Resolved(c)

-----------------------------------------------------------------------------
(* The daemons, the proxy, and time.                                       *)

\* A dead memory comes back when resolve_conflict decides for it.
StatusChange ==
  /\ \E m \in Memories :
       \/ memory[m] = "absent" /\ memory' = [memory EXCEPT ![m] = "active"]
          /\ UNCHANGED agent
       \/ memory[m] = "active" /\ memory' = [memory EXCEPT ![m] = "solidified"]
          /\ UNCHANGED agent
       \/ m \in Living /\ memory' = [memory EXCEPT ![m] = "dead"]
          /\ UNCHANGED agent
       \/ memory[m] = "dead" /\ memory' = [memory EXCEPT ![m] = "active"]
          /\ agent' = [c \in Agents |-> [agent[c] EXCEPT !.dead = @ \ {m}]]
  /\ UNCHANGED <<thread, turns>>

SetThread ==
  /\ thread' = "new"
  /\ UNCHANGED <<memory, turns, agent>>

\* A session of the proxy's has one row, which is written anew.
SetDialogue ==
  /\ \E other \in {turns} \cup {RemoveAt(turns, i) : i \in
                     {j \in DOMAIN turns : turns[j].by = "proxy"}} :
       turns' = Append(other, [by |-> "proxy", age |-> "now"])
  /\ Len(turns') <= MaxRows
  /\ UNCHANGED <<memory, thread, agent>>

\* Half an hour makes every turn stale.
TimePasses ==
  /\ \A c \in Agents : At(c, "idle")
  /\ \/ /\ turns # <<>>
        /\ turns' = [i \in DOMAIN turns |-> [turns[i] EXCEPT !.age = Aged(TurnAges, @)]]
        /\ UNCHANGED thread
     \/ /\ thread # "none"
        /\ thread' = Aged(Ages, thread)
        /\ turns' = [i \in DOMAIN turns |-> [turns[i] EXCEPT !.age = "stale"]]
  /\ UNCHANGED <<memory, agent>>

-----------------------------------------------------------------------------
HookStep(c) ==
  \/ Prompt(c) \/ Anchor(c) \/ Associate(c) \/ FillUp(c) \/ Snoop(c) \/ Trap(c)
  \/ ReadThread(c) \/ ReadTurns(c) \/ SeeGap(c) \/ Capture(c)
  \/ HookFails(c) \/ PrintBlock(c)

ContinuityNext ==
  \/ \E c \in Agents : HookStep(c) \/ CrossClientResolve(c)
  \/ StatusChange \/ SetThread \/ SetDialogue \/ TimePasses

ContinuitySpec == ContinuityInit /\ [][ContinuityNext]_continuityVars

-----------------------------------------------------------------------------
(* Properties.                                                             *)

\* No hook prints a memory that had died before the gate looked at it, and has
\* not come back since, unless a query of the hook's failed.
InjectionIsFresh ==
  \A c \in Agents : At(c, "print") /\ agent[c].failed = "no" =>
    agent[c].found \cap agent[c].dead = {}
=============================================================================
