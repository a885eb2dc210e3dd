--------------------------- MODULE ContextProofs ---------------------------
(***************************************************************************)
(* Theorems about what reaches the model's context: the block the          *)
(* subconscious hook injects (Continuity), tool output as the compressor   *)
(* leaves it (ContentCompressor) and conversations as the compactor prunes *)
(* them (ToolCompactor), for any agents, memories, blocks, conversations   *)
(* and bounds on them.                                                     *)
(***************************************************************************)
EXTENDS Continuity, ContentCompressor, ToolCompactor, SelectionProofs, FiniteSetTheorems

-----------------------------------------------------------------------------
(* The injected block.                                                     *)

\* Past the gate: what was found has been looked at again.
PastGate == {"trap", "thread", "turns", "gap", "capture", "print"}

\* An agent's record; how many turns it heard of is left out.
Shaped(a) == a \in [pc : {a.pc}, found : {a.found}, dead : {a.dead}, shown : {a.shown},
                     heard : {a.heard}, failed : {a.failed}, rung : {a.rung}]

\* What an agent holds as dead is dead, and nothing past the gate is.
Heeds(a, mem) ==
  /\ \A m \in a.dead : m \in Memories /\ mem[m] = "dead"
  /\ a.pc \in PastGate /\ a.failed = "no" => a.found \cap a.dead = {}

FreshInv ==
  /\ memory \in [Memories -> Status]
  /\ agent = [c \in Agents |-> agent[c]]
  /\ \A c \in Agents : Shaped(agent[c]) /\ Heeds(agent[c], memory)

LEMMA FreshInit == ContinuityInit => FreshInv
BY DEF ContinuityInit, FreshInv, AtRest, Status, Shaped, Heeds, PastGate

(* A step that rewrites one agent's record is judged by that record alone. *)
LEMMA OneAgent ==
  ASSUME FreshInv, NEW c \in Agents, NEW a, agent' = [agent EXCEPT ![c] = a],
         Shaped(a), Heeds(a, memory), memory' = memory
  PROVE  FreshInv'
BY DEF FreshInv, Heeds, Shaped

(* Moving on, on the same side of the gate. *)
LEMMA MovesOn ==
  ASSUME FreshInv, NEW c \in Agents, NEW pc, To(c, pc), memory' = memory,
         pc \in PastGate => agent[c].pc \in PastGate
  PROVE  FreshInv'
<1> DEFINE a == [agent[c] EXCEPT !.pc = pc]
<1>1. Shaped(agent[c]) /\ Heeds(agent[c], memory)
  BY DEF FreshInv
<1>2. Shaped(a) /\ Heeds(a, memory)
  BY <1>1 DEF Shaped, Heeds
<1>3. agent' = [agent EXCEPT ![c] = a]
  BY DEF To
<1> HIDE DEF a
<1> QED BY <1>2, <1>3, OneAgent

(* Memories found, on this side of the gate or all of them alive. *)
LEMMA FindsMore ==
  ASSUME FreshInv, NEW c \in Agents, NEW more, NEW pc, Finds(c, more, pc), memory' = memory,
         pc \in PastGate => agent[c].pc \in PastGate /\ \A m \in more : memory[m] # "dead"
  PROVE  FreshInv'
<1> DEFINE a == [agent[c] EXCEPT !.found = @ \cup more, !.pc = pc]
<1>1. Shaped(agent[c]) /\ Heeds(agent[c], memory)
  BY DEF FreshInv
<1>2. Shaped(a) /\ Heeds(a, memory)
  BY <1>1 DEF Shaped, Heeds
<1>3. agent' = [agent EXCEPT ![c] = a]
  BY DEF Finds
<1> HIDE DEF a
<1> QED BY <1>2, <1>3, OneAgent

LEMMA Rests ==
  ASSUME FreshInv, NEW c \in Agents, agent' = [agent EXCEPT ![c] = AtRest], memory' = memory
  PROVE  FreshInv'
<1>1. Shaped(AtRest) /\ Heeds(AtRest, memory)
  BY DEF Shaped, Heeds, AtRest, PastGate
<1> QED BY <1>1, OneAgent

LEMMA Climbs ==
  ASSUME FreshInv, NEW c \in Agents, NEW pc, NEW rung, NEW some, Climb(c, pc, rung, some),
         pc \notin PastGate
  PROVE  FreshInv'
<1> DEFINE r == IF agent[c].rung = 0 /\ some THEN rung ELSE agent[c].rung
           a == [agent[c] EXCEPT !.pc = pc, !.rung = r]
<1>1. Shaped(agent[c]) /\ Heeds(agent[c], memory)
  BY DEF FreshInv
<1>2. agent' = [agent EXCEPT ![c] = a] /\ memory' = memory
  BY DEF Climb, DataUnchanged
<1> HIDE DEF r
<1>3. Shaped(a) /\ Heeds(a, memory)
  BY <1>1 DEF Shaped, Heeds
<1> HIDE DEF a
<1> QED BY <1>2, <1>3, OneAgent

LEMMA FreshHook ==
  ASSUME FreshInv, NEW c \in Agents, HookStep(c)
  PROVE  FreshInv'
<1>1. CASE Prompt(c)
  BY <1>1, MovesOn DEF Prompt, PastGate, DataUnchanged
<1>2. CASE Anchor(c)
  <2>1. CASE To(c, "associate") /\ memory' = memory
    BY <2>1, MovesOn DEF PastGate
  <2>2. ASSUME NEW m, Finds(c, {m}, "associate"), memory' = memory PROVE FreshInv'
    BY <2>2, FindsMore DEF PastGate
  <2> QED BY <1>2, <2>1, <2>2 DEF Anchor, DataUnchanged
<1>3. CASE Associate(c)
  BY <1>3, FindsMore DEF Associate, PastGate, DataUnchanged
<1>4. CASE FillUp(c)
  BY <1>4, FindsMore DEF FillUp, PastGate, DataUnchanged
<1>5. CASE Snoop(c)
  <2> DEFINE gone == {m \in Memories : memory[m] = "dead"}
             a == [agent[c] EXCEPT !.found = Gated(@), !.pc = "trap", !.dead = gone]
  <2>1. agent' = [agent EXCEPT ![c] = a] /\ memory' = memory
    BY <1>5 DEF Snoop, DataUnchanged
  <2>2. Shaped(agent[c])
    BY DEF FreshInv
  <2>3. Shaped(a) /\ a.found = Gated(agent[c].found) /\ a.dead = gone
    BY <2>2 DEF Shaped
  <2>4. Heeds(a, memory)
    BY <2>3 DEF Heeds, Gated
  <2> HIDE DEF a
  <2> QED BY <2>1, <2>3, <2>4, OneAgent
<1>6. CASE Trap(c)
  <2>1. PICK paged \in SUBSET {m \in Memories : memory[m] = "active"} :
          Finds(c, paged, "thread")
    BY <1>6 DEF Trap
  <2>2. agent[c].pc \in PastGate /\ memory' = memory
    BY <1>6 DEF Trap, At, PastGate, DataUnchanged
  <2> QED BY <2>1, <2>2, FindsMore
<1>7. CASE ReadThread(c)
  <2>1. PICK tag : agent' = [agent EXCEPT ![c].shown = tag, ![c].pc = "turns"]
    BY <1>7 DEF ReadThread
  <2> DEFINE a == [agent[c] EXCEPT !.shown = tag, !.pc = "turns"]
  <2>2. agent' = [agent EXCEPT ![c] = a] /\ memory' = memory /\ agent[c].pc \in PastGate
    BY <1>7, <2>1 DEF ReadThread, DataUnchanged, At, PastGate
  <2>3. Shaped(agent[c]) /\ Heeds(agent[c], memory)
    BY DEF FreshInv
  <2>4. Shaped(a) /\ Heeds(a, memory)
    BY <2>2, <2>3 DEF Shaped, Heeds
  <2> HIDE DEF a
  <2> QED BY <2>2, <2>4, OneAgent
<1>8. CASE ReadTurns(c)
  <2> DEFINE a == [agent[c] EXCEPT !.heard = FreshTurns, !.pc = "gap"]
  <2>2. agent' = [agent EXCEPT ![c] = a] /\ memory' = memory /\ agent[c].pc \in PastGate
    BY <1>8 DEF ReadTurns, DataUnchanged, At, PastGate
  <2>3. Shaped(agent[c]) /\ Heeds(agent[c], memory)
    BY DEF FreshInv
  <2>4. Shaped(a) /\ Heeds(a, memory)
    BY <2>2, <2>3 DEF Shaped, Heeds
  <2> HIDE DEF a
  <2> QED BY <2>2, <2>4, OneAgent
<1>9. CASE SeeGap(c)
  BY <1>9, MovesOn DEF SeeGap, At, PastGate, DataUnchanged
<1>10. CASE Capture(c)
  BY <1>10, MovesOn DEF Capture, At, PastGate
<1>11. CASE HookFails(c)
  <2> DEFINE a == [agent[c] EXCEPT !.pc = "print", !.failed = "yes"]
  <2>2. agent' = [agent EXCEPT ![c] = a] /\ memory' = memory
    BY <1>11 DEF HookFails, DataUnchanged
  <2>3. Shaped(agent[c]) /\ Heeds(agent[c], memory)
    BY DEF FreshInv
  <2>4. Shaped(a) /\ Heeds(a, memory)
    BY <2>3 DEF Shaped, Heeds
  <2> HIDE DEF a
  <2> QED BY <2>2, <2>4, OneAgent
<1>12. CASE PrintBlock(c)
  BY <1>12, Rests DEF PrintBlock, DataUnchanged
<1> QED BY <1>1, <1>2, <1>3, <1>4, <1>5, <1>6, <1>7, <1>8, <1>9, <1>10, <1>11, <1>12
        DEF HookStep

LEMMA FreshAsk ==
  ASSUME FreshInv, NEW c \in Agents, CrossClientResolve(c)
  PROVE  FreshInv'
<1>1. CASE At(c, "idle") /\ To(c, "ask") /\ DataUnchanged
  BY <1>1, MovesOn DEF PastGate, DataUnchanged
<1>2. CASE AskThread(c)
  BY <1>2, Climbs DEF AskThread, PastGate
<1>3. CASE AskTurns(c)
  BY <1>3, Climbs DEF AskTurns, PastGate
<1>4. CASE Recall(c)
  <2>1. PICK match : Finds(c, match, IF match = {} THEN "elsewhere" ELSE "bump")
    BY <1>4 DEF Recall
  <2>2. memory' = memory /\ (IF match = {} THEN "elsewhere" ELSE "bump") \notin PastGate
    BY <1>4 DEF Recall, DataUnchanged, PastGate
  <2> QED BY <2>1, <2>2, FindsMore
<1>5. CASE Bump(c)
  BY <1>5, Climbs DEF Bump, PastGate
<1>6. CASE AskElsewhere(c)
  BY <1>6, Climbs DEF AskElsewhere, PastGate
<1>7. CASE Resolved(c)
  BY <1>7, Rests DEF Resolved, DataUnchanged
<1> QED BY <1>1, <1>2, <1>3, <1>4, <1>5, <1>6, <1>7 DEF CrossClientResolve

LEMMA FreshStatus ==
  ASSUME FreshInv, StatusChange
  PROVE  FreshInv'
<1>1. ASSUME NEW m \in Memories, NEW s \in Status, memory[m] # "dead",
             memory' = [memory EXCEPT ![m] = s], agent' = agent
      PROVE  FreshInv'
  BY <1>1 DEF FreshInv, Heeds
<1>2. ASSUME NEW m \in Memories, memory' = [memory EXCEPT ![m] = "active"],
             agent' = [c \in Agents |-> [agent[c] EXCEPT !.dead = @ \ {m}]]
      PROVE  FreshInv'
  <2>1. memory' \in [Memories -> Status]
    BY <1>2 DEF FreshInv, Status
  <2>2. ASSUME NEW c \in Agents
        PROVE  Shaped(agent'[c]) /\ Heeds(agent'[c], memory')
    <3> DEFINE a == [agent[c] EXCEPT !.dead = @ \ {m}]
    <3>1. agent'[c] = a
      BY <1>2
    <3>2. Shaped(agent[c]) /\ Heeds(agent[c], memory) /\ memory \in [Memories -> Status]
      BY DEF FreshInv
    <3>3. Shaped(a) /\ a.dead = agent[c].dead \ {m} /\ a.pc = agent[c].pc
          /\ a.found = agent[c].found /\ a.failed = agent[c].failed
      BY <3>2 DEF Shaped
    <3> HIDE DEF a
    <3>4. Heeds(a, memory')
      BY <1>2, <3>2, <3>3 DEF Heeds
    <3> QED BY <3>1, <3>3, <3>4
  <2> QED BY <1>2, <2>1, <2>2 DEF FreshInv
<1> QED BY <1>1, <1>2 DEF StatusChange, Living, Status

LEMMA FreshNext == FreshInv /\ [ContinuityNext]_continuityVars => FreshInv'
<1> SUFFICES ASSUME FreshInv, [ContinuityNext]_continuityVars PROVE FreshInv'
  OBVIOUS
<1>1. CASE memory' = memory /\ agent' = agent
  BY <1>1 DEF FreshInv, Heeds
<1>2. CASE StatusChange
  BY <1>2, FreshStatus
<1>3. CASE \E c \in Agents : HookStep(c) \/ CrossClientResolve(c)
  BY <1>3, FreshHook, FreshAsk
<1>4. CASE SetThread \/ SetDialogue \/ TimePasses
  BY <1>1, <1>4 DEF SetThread, SetDialogue, TimePasses
<1> QED BY <1>1, <1>2, <1>3, <1>4 DEF ContinuityNext, continuityVars

(* Whatever the daemons do to the memories while it runs, and however the  *)
(* hooks and tool calls of the clients interleave, a hook none of whose    *)
(* queries failed prints nothing that had died before its gate.            *)
THEOREM FreshInjection == ContinuitySpec => []InjectionIsFresh
<1>1. FreshInv => InjectionIsFresh
  BY DEF FreshInv, Heeds, InjectionIsFresh, At, PastGate
<1> QED BY <1>1, FreshInit, FreshNext, PTL DEF ContinuitySpec

-----------------------------------------------------------------------------
(* The types of the hook, the ladder and what they read.                   *)

AllPCs == {"idle"} \cup HookPCs \cup AskPCs

LEMMA RestTyped == AtRest \in AgentState
BY DEF AtRest, AgentState

(* Each field that a step of an agent sets, by itself. *)
LEMMA FieldsTyped ==
  ASSUME NEW a \in AgentState
  PROVE  /\ \A pc \in AllPCs : [a EXCEPT !.pc = pc] \in AgentState
         /\ \A found \in SUBSET Memories : [a EXCEPT !.found = found] \in AgentState
         /\ \A dead \in SUBSET Memories : [a EXCEPT !.dead = dead] \in AgentState
         /\ \A tag \in {"no", "Live", "Stale"} : [a EXCEPT !.shown = tag] \in AgentState
         /\ \A n \in 0..3 : [a EXCEPT !.heard = n] \in AgentState
         /\ \A rung \in 0..4 : [a EXCEPT !.rung = rung] \in AgentState
         /\ [a EXCEPT !.failed = "yes"] \in AgentState
BY DEF AgentState, AllPCs

(* An agent of the right type in the place of another. *)
LEMMA AgentTyped ==
  ASSUME ContinuityTypeOK, NEW c \in Agents, NEW a \in AgentState,
         agent' = [agent EXCEPT ![c] = a], memory' = memory, thread' = thread,
         turns' \in Seq(Turn)
  PROVE  ContinuityTypeOK'
BY DEF ContinuityTypeOK

LEMMA ToTyped ==
  ASSUME ContinuityTypeOK, NEW c \in Agents, NEW pc \in AllPCs, To(c, pc), memory' = memory,
         thread' = thread, turns' \in Seq(Turn)
  PROVE  ContinuityTypeOK'
<1> DEFINE a == [agent[c] EXCEPT !.pc = pc]
<1>1. a \in AgentState
  BY FieldsTyped DEF ContinuityTypeOK
<1>2. agent' = [agent EXCEPT ![c] = a]
  BY DEF To
<1> HIDE DEF a
<1> QED BY <1>1, <1>2, AgentTyped

LEMMA FindsTyped ==
  ASSUME ContinuityTypeOK, NEW c \in Agents, NEW pc \in AllPCs, NEW more \in SUBSET Memories,
         Finds(c, more, pc), DataUnchanged
  PROVE  ContinuityTypeOK'
<1> DEFINE found == agent[c].found \cup more
           b == [agent[c] EXCEPT !.found = found]
           a == [b EXCEPT !.pc = pc]
<1>1. agent[c] \in AgentState /\ turns \in Seq(Turn)
  BY DEF ContinuityTypeOK
<1>2. found \in SUBSET Memories
  BY <1>1 DEF AgentState
<1>3. agent' = [agent EXCEPT ![c] = a]
  BY DEF Finds
<1> HIDE DEF found
<1>4. b \in AgentState
  BY <1>1, <1>2, FieldsTyped
<1> HIDE DEF b
<1>5. a \in AgentState
  BY <1>4, FieldsTyped
<1> HIDE DEF a
<1> QED BY <1>1, <1>3, <1>5, AgentTyped DEF DataUnchanged

LEMMA RestsTyped ==
  ASSUME ContinuityTypeOK, NEW c \in Agents, agent' = [agent EXCEPT ![c] = AtRest],
         DataUnchanged
  PROVE  ContinuityTypeOK'
BY RestTyped, AgentTyped DEF DataUnchanged, ContinuityTypeOK

LEMMA ClimbTyped ==
  ASSUME ContinuityTypeOK, NEW c \in Agents, NEW pc \in AllPCs, NEW rung \in 1..4, NEW some,
         Climb(c, pc, rung, some)
  PROVE  ContinuityTypeOK'
<1> DEFINE r == IF agent[c].rung = 0 /\ some THEN rung ELSE agent[c].rung
           b == [agent[c] EXCEPT !.pc = pc]
           a == [b EXCEPT !.rung = r]
<1>1. agent[c] \in AgentState /\ turns \in Seq(Turn)
  BY DEF ContinuityTypeOK
<1>2. r \in 0..4
  BY <1>1 DEF AgentState
<1>3. agent' = [agent EXCEPT ![c] = a] /\ DataUnchanged
  BY <1>1 DEF Climb, AgentState
<1> HIDE DEF r
<1>4. b \in AgentState
  BY <1>1, FieldsTyped
<1> HIDE DEF b
<1>5. a \in AgentState
  BY <1>2, <1>4, FieldsTyped
<1> HIDE DEF a
<1> QED BY <1>1, <1>3, <1>5, AgentTyped DEF DataUnchanged

(* At most the last three rows are heard. *)
LEMMA HeardTyped ==
  ASSUME turns \in Seq(Turn)
  PROVE  FreshTurns \in 0..3
<1> DEFINE L == Len(turns)
           S == {i \in DOMAIN turns : i > Len(turns) - 3 /\ turns[i].age # "stale"}
           I == (L - 2)..L
<1>1. L \in Nat /\ DOMAIN turns = 1..L
  OBVIOUS
<1>2. S \in SUBSET I
  BY <1>1
<1>3. L - 2 \in Int /\ L \in Int /\ ~(L - 2 > L) /\ L - (L - 2) + 1 = 3
  BY <1>1
<1>4. FreshTurns = Cardinality(S)
  BY DEF FreshTurns
<1> HIDE DEF S, L
<1>5. IsFiniteSet(I) /\ Cardinality(I) = 3
  BY <1>3, FS_Interval
<1> HIDE DEF I
<1>6. IsFiniteSet(S) /\ Cardinality(S) <= 3
  BY <1>2, <1>5, FS_Subset
<1>7. Cardinality(S) \in Nat
  BY <1>6, FS_CardinalityType
<1> QED BY <1>4, <1>6, <1>7

LEMMA TagTyped == \A changed, up \in BOOLEAN : ThreadTag(changed, up) \in {"no", "Live", "Stale"}
BY DEF ThreadTag

(* The rows, as they are added, pruned, replaced and grow old. *)
LEMMA AgesTyped ==
  /\ ToSet(Ages) = {"new", "half", "hour", "expired"}
  /\ ToSet(TurnAges) = {"now", "fresh", "stale"}
BY DEF Ages, TurnAges, ToSet

LEMMA AgedTyped ==
  /\ \A t \in ToSet(Ages) : Aged(Ages, t) \in ToSet(Ages)
  /\ \A t \in ToSet(TurnAges) : Aged(TurnAges, t) \in ToSet(TurnAges)
<1>1. ASSUME NEW s, NEW N \in Nat, Len(s) = N, DOMAIN s = 1..N, NEW t \in ToSet(s)
      PROVE  Aged(s, t) \in ToSet(s)
  <2> DEFINE i == CHOOSE i \in DOMAIN s : s[i] = t
             j == IF i = Len(s) THEN i ELSE i + 1
  <2>1. \E k \in DOMAIN s : s[k] = t
    BY DEF ToSet
  <2>2. i \in DOMAIN s
    BY <2>1
  <2>3. Aged(s, t) = s[j]
    BY DEF Aged
  <2> HIDE DEF i
  <2>4. j \in DOMAIN s
    BY <1>1, <2>2
  <2> HIDE DEF j
  <2> QED BY <2>3, <2>4 DEF ToSet
<1>2. Len(Ages) = 4 /\ DOMAIN Ages = 1..4 /\ Len(TurnAges) = 3 /\ DOMAIN TurnAges = 1..3
  BY DEF Ages, TurnAges
<1> QED BY <1>1, <1>2

LEMMA Appended ==
  ASSUME NEW s \in Seq(Turn), NEW by \in {"proxy", "hook"}
  PROVE  Append(s, [by |-> by, age |-> "now"]) \in Seq(Turn)
<1>1. [by |-> by, age |-> "now"] \in Turn
  BY AgesTyped DEF Turn
<1> QED BY <1>1

LEMMA Removed ==
  ASSUME NEW s \in Seq(Turn), NEW i \in DOMAIN s
  PROVE  RemoveAt(s, i) \in Seq(Turn)
<1>1. i \in 1..Len(s) /\ Len(s) \in Nat
  OBVIOUS
<1>2. SubSeq(s, 1, i - 1) \in Seq(Turn) /\ SubSeq(s, i + 1, Len(s)) \in Seq(Turn)
  BY <1>1
<1> QED BY <1>2 DEF RemoveAt

LEMMA GrownOld ==
  ASSUME turns \in Seq(Turn)
  PROVE  /\ [i \in DOMAIN turns |-> [turns[i] EXCEPT !.age = Aged(TurnAges, @)]] \in Seq(Turn)
         /\ [i \in DOMAIN turns |-> [turns[i] EXCEPT !.age = "stale"]] \in Seq(Turn)
<1>1. \A t \in Turn : t.age \in ToSet(TurnAges)
  BY DEF Turn
<1>2. \A t \in Turn : \A age \in ToSet(TurnAges) : [t EXCEPT !.age = age] \in Turn
  BY DEF Turn
<1>3. \A t \in Turn : [t EXCEPT !.age = Aged(TurnAges, @)] \in Turn
                      /\ [t EXCEPT !.age = "stale"] \in Turn
  BY <1>1, <1>2, AgedTyped, AgesTyped
<1>4. \A i \in DOMAIN turns : turns[i] \in Turn
  OBVIOUS
<1>5. Len(turns) \in Nat /\ DOMAIN turns = 1..Len(turns)
  OBVIOUS
<1> DEFINE f == [i \in DOMAIN turns |-> [turns[i] EXCEPT !.age = Aged(TurnAges, @)]]
           g == [i \in DOMAIN turns |-> [turns[i] EXCEPT !.age = "stale"]]
<1>6. f \in [1..Len(turns) -> Turn] /\ g \in [1..Len(turns) -> Turn]
  BY <1>3, <1>4, <1>5
<1> HIDE DEF f, g
<1>7. f \in Seq(Turn) /\ g \in Seq(Turn)
  BY <1>5, <1>6
<1> QED BY <1>7 DEF f, g

LEMMA HookTyped ==
  ASSUME ContinuityTypeOK, NEW c \in Agents, HookStep(c)
  PROVE  ContinuityTypeOK'
<1> USE DEF AllPCs, HookPCs
<1>1. turns \in Seq(Turn) /\ agent[c] \in AgentState
  BY DEF ContinuityTypeOK
<1>2. CASE Prompt(c)
  BY <1>1, <1>2, ToTyped DEF Prompt, DataUnchanged
<1>3. CASE Anchor(c)
  <2>1. CASE To(c, "associate") /\ DataUnchanged
    BY <1>1, <2>1, ToTyped DEF DataUnchanged
  <2>2. ASSUME NEW m \in Memories, Finds(c, {m}, "associate"), DataUnchanged
        PROVE  ContinuityTypeOK'
    BY <2>2, FindsTyped
  <2> QED BY <1>3, <2>1, <2>2 DEF Anchor, Living
<1>4. CASE Associate(c)
  BY <1>4, FindsTyped DEF Associate, Living
<1>5. CASE FillUp(c)
  BY <1>5, FindsTyped DEF FillUp, Living
<1>6. CASE Snoop(c)
  <2> DEFINE found == Gated(agent[c].found)
             gone == {m \in Memories : memory[m] = "dead"}
             b == [agent[c] EXCEPT !.found = found]
             d == [b EXCEPT !.pc = "trap"]
             a == [d EXCEPT !.dead = gone]
  <2>1. agent' = [agent EXCEPT ![c] = a] /\ DataUnchanged
    BY <1>6 DEF Snoop
  <2>2. found \in SUBSET Memories /\ gone \in SUBSET Memories
    BY <1>1 DEF Gated, AgentState
  <2> HIDE DEF found, gone
  <2>3. b \in AgentState
    BY <1>1, <2>2, FieldsTyped
  <2> HIDE DEF b
  <2>4. d \in AgentState
    BY <2>3, FieldsTyped
  <2> HIDE DEF d
  <2>5. a \in AgentState
    BY <2>2, <2>4, FieldsTyped
  <2> HIDE DEF a
  <2> QED BY <1>1, <2>1, <2>5, AgentTyped DEF DataUnchanged
<1>7. CASE Trap(c)
  BY <1>7, FindsTyped DEF Trap
<1>8. CASE ReadThread(c)
  <2>1. PICK changed \in BOOLEAN, up \in BOOLEAN :
          agent' = [agent EXCEPT ![c].shown = ThreadTag(changed, up), ![c].pc = "turns"]
    BY <1>8 DEF ReadThread
  <2> DEFINE tag == ThreadTag(changed, up)
             b == [agent[c] EXCEPT !.shown = tag]
             a == [b EXCEPT !.pc = "turns"]
  <2>2. agent' = [agent EXCEPT ![c] = a] /\ DataUnchanged
    BY <1>8, <2>1 DEF ReadThread
  <2>3. tag \in {"no", "Live", "Stale"}
    BY TagTyped
  <2> HIDE DEF tag
  <2>4. b \in AgentState
    BY <1>1, <2>3, FieldsTyped
  <2> HIDE DEF b
  <2>5. a \in AgentState
    BY <2>4, FieldsTyped
  <2> HIDE DEF a
  <2> QED BY <1>1, <2>2, <2>5, AgentTyped DEF DataUnchanged
<1>9. CASE ReadTurns(c)
  <2> DEFINE n == FreshTurns
             b == [agent[c] EXCEPT !.heard = n]
             a == [b EXCEPT !.pc = "gap"]
  <2>1. agent' = [agent EXCEPT ![c] = a] /\ DataUnchanged
    BY <1>9 DEF ReadTurns
  <2>2. n \in 0..3
    BY <1>1, HeardTyped
  <2> HIDE DEF n
  <2>3. b \in AgentState
    BY <1>1, <2>2, FieldsTyped
  <2> HIDE DEF b
  <2>4. a \in AgentState
    BY <2>3, FieldsTyped
  <2> HIDE DEF a
  <2> QED BY <1>1, <2>1, <2>4, AgentTyped DEF DataUnchanged
<1>10. CASE SeeGap(c)
  BY <1>1, <1>10, ToTyped DEF SeeGap, DataUnchanged
<1>11. CASE Capture(c)
  <2> DEFINE rest == Select(turns, {t \in Turn : t.by = "hook" => t.age # "stale"})
  <2>1. rest \in Seq(Turn)
    BY <1>1, SelectMembers
  <2>2. \/ turns' = Append(rest, [by |-> "hook", age |-> "now"])
        \/ turns' = turns
    BY <1>11 DEF Capture
  <2> HIDE DEF rest
  <2>3. turns' \in Seq(Turn)
    BY <1>1, <2>1, <2>2, Appended
  <2> QED BY <1>11, <2>3, ToTyped DEF Capture
<1>12. CASE HookFails(c)
  <2> DEFINE b == [agent[c] EXCEPT !.pc = "print"]
             a == [b EXCEPT !.failed = "yes"]
  <2>1. agent' = [agent EXCEPT ![c] = a] /\ DataUnchanged
    BY <1>12 DEF HookFails
  <2>2. b \in AgentState
    BY <1>1, FieldsTyped
  <2> HIDE DEF b
  <2>3. a \in AgentState
    BY <2>2, FieldsTyped
  <2> HIDE DEF a
  <2> QED BY <1>1, <2>1, <2>3, AgentTyped DEF DataUnchanged
<1>13. CASE PrintBlock(c)
  BY <1>13, RestsTyped DEF PrintBlock
<1> QED BY <1>2, <1>3, <1>4, <1>5, <1>6, <1>7, <1>8, <1>9, <1>10, <1>11, <1>12, <1>13
        DEF HookStep

LEMMA AskTyped ==
  ASSUME ContinuityTypeOK, NEW c \in Agents, CrossClientResolve(c)
  PROVE  ContinuityTypeOK'
<1> USE DEF AllPCs, AskPCs
<1>1. turns \in Seq(Turn)
  BY DEF ContinuityTypeOK
<1>2. CASE To(c, "ask") /\ DataUnchanged
  BY <1>1, <1>2, ToTyped DEF DataUnchanged
<1>3. CASE AskThread(c)
  BY <1>3, ClimbTyped DEF AskThread
<1>4. CASE AskTurns(c)
  BY <1>4, ClimbTyped DEF AskTurns
<1>5. CASE Recall(c)
  <2>1. PICK match \in SUBSET Living :
          Finds(c, match, IF match = {} THEN "elsewhere" ELSE "bump")
    BY <1>5 DEF Recall
  <2>2. match \in SUBSET Memories /\ DataUnchanged
        /\ (IF match = {} THEN "elsewhere" ELSE "bump") \in AllPCs
    BY <1>5 DEF Recall, Living
  <2> QED BY <2>1, <2>2, FindsTyped
<1>6. CASE Bump(c)
  BY <1>6, ClimbTyped DEF Bump
<1>7. CASE AskElsewhere(c)
  BY <1>7, ClimbTyped DEF AskElsewhere
<1>8. CASE Resolved(c)
  BY <1>8, RestsTyped DEF Resolved
<1> QED BY <1>2, <1>3, <1>4, <1>5, <1>6, <1>7, <1>8 DEF CrossClientResolve

LEMMA StatusTyped ==
  ASSUME ContinuityTypeOK, StatusChange
  PROVE  ContinuityTypeOK'
<1>1. thread' = thread /\ turns' = turns
  BY DEF StatusChange
<1>2. ASSUME NEW m \in Memories, NEW s \in Status, memory' = [memory EXCEPT ![m] = s],
             agent' = agent
      PROVE  ContinuityTypeOK'
  BY <1>1, <1>2 DEF ContinuityTypeOK
<1>3. ASSUME NEW m \in Memories, memory' = [memory EXCEPT ![m] = "active"],
             agent' = [c \in Agents |-> [agent[c] EXCEPT !.dead = @ \ {m}]]
      PROVE  ContinuityTypeOK'
  <2>1. memory' \in [Memories -> Status]
    BY <1>3 DEF ContinuityTypeOK, Status
  <2>2. ASSUME NEW c \in Agents PROVE agent'[c] \in AgentState
    <3> DEFINE dead == agent[c].dead \ {m}
               a == [agent[c] EXCEPT !.dead = dead]
    <3>1. agent'[c] = a /\ agent[c] \in AgentState
      BY <1>3 DEF ContinuityTypeOK
    <3>2. dead \in SUBSET Memories
      BY <3>1 DEF AgentState
    <3> HIDE DEF dead
    <3>3. a \in AgentState
      BY <3>1, <3>2, FieldsTyped
    <3> QED BY <3>1, <3>3
  <2>3. agent' = [c \in Agents |-> agent'[c]]
    BY <1>3
  <2> QED BY <1>1, <2>1, <2>2, <2>3 DEF ContinuityTypeOK
<1> QED BY <1>2, <1>3 DEF StatusChange, Living, Status

LEMMA DialogueTyped ==
  ASSUME ContinuityTypeOK, SetDialogue
  PROVE  ContinuityTypeOK'
<1>1. turns \in Seq(Turn)
  BY DEF ContinuityTypeOK
<1>2. PICK other \in {turns} \cup {RemoveAt(turns, i) : i \in
                     {j \in DOMAIN turns : turns[j].by = "proxy"}} :
        turns' = Append(other, [by |-> "proxy", age |-> "now"])
  BY DEF SetDialogue
<1>3. other \in Seq(Turn)
  BY <1>1, <1>2, Removed
<1>4. turns' \in Seq(Turn)
  BY <1>2, <1>3, Appended
<1> QED BY <1>4 DEF SetDialogue, ContinuityTypeOK

LEMMA TimeTyped ==
  ASSUME ContinuityTypeOK, TimePasses
  PROVE  ContinuityTypeOK'
<1>1. turns \in Seq(Turn) /\ thread \in Thread
  BY DEF ContinuityTypeOK
<1>2. turns' \in Seq(Turn)
  BY <1>1, GrownOld DEF TimePasses
<1>3. thread' \in Thread
  BY <1>1, AgedTyped DEF TimePasses, Thread
<1> QED BY <1>2, <1>3 DEF TimePasses, ContinuityTypeOK

(* The rows of the buffer are turns, however many it may hold; an agent     *)
(* hears of three at most and climbs four rungs.                            *)
THEOREM ContinuityTyped == ContinuitySpec => []ContinuityTypeOK
<1>1. ContinuityInit => ContinuityTypeOK
  <2> SUFFICES ASSUME ContinuityInit PROVE ContinuityTypeOK
    OBVIOUS
  <2>1. memory \in [Memories -> Status] /\ thread \in Thread
    BY DEF ContinuityInit, Status, Thread
  <2>2. turns \in Seq(Turn)
    BY DEF ContinuityInit
  <2>3. agent \in [Agents -> AgentState]
    BY RestTyped DEF ContinuityInit
  <2> QED BY <2>1, <2>2, <2>3 DEF ContinuityTypeOK
<1>2. ContinuityTypeOK /\ [ContinuityNext]_continuityVars => ContinuityTypeOK'
  <2> SUFFICES ASSUME ContinuityTypeOK, [ContinuityNext]_continuityVars
               PROVE  ContinuityTypeOK'
    OBVIOUS
  <2>1. CASE UNCHANGED continuityVars
    BY <2>1 DEF ContinuityTypeOK, continuityVars
  <2>2. CASE \E c \in Agents : HookStep(c) \/ CrossClientResolve(c)
    BY <2>2, HookTyped, AskTyped
  <2>3. CASE StatusChange
    BY <2>3, StatusTyped
  <2>4. CASE SetThread
    BY <2>4, AgesTyped DEF SetThread, ContinuityTypeOK, Thread
  <2>5. CASE SetDialogue
    BY <2>5, DialogueTyped
  <2>6. CASE TimePasses
    BY <2>6, TimeTyped
  <2> QED BY <2>1, <2>2, <2>3, <2>4, <2>5, <2>6 DEF ContinuityNext
<1> QED BY <1>1, <1>2, PTL DEF ContinuitySpec

-----------------------------------------------------------------------------
(* Flattening.                                                             *)

LEMMA Joined ==
  ASSUME NEW T, NEW a \in Seq(T), NEW b \in Seq(T)
  PROVE  /\ a \o b \in Seq(T) /\ Len(a \o b) = Len(a) + Len(b)
         /\ \A i \in 1..Len(a) : (a \o b)[i] = a[i]
         /\ \A i \in 1..Len(b) : (a \o b)[Len(a) + i] = b[i]
OBVIOUS

LEMMA FlattenFcn ==
  ASSUME NEW T, NEW ss \in Seq(Seq(T))
  PROVE  \E f \in [0..Len(ss) -> Seq(T)] :
           /\ f[0] = <<>> /\ FlattenSeq(ss) = f[Len(ss)]
           /\ \A n \in 1..Len(ss) : f[n] = f[n - 1] \o ss[n]
<1> DEFINE N == Len(ss)
           V == Seq(T)
           none == <<>>
           F == [n \in 1..N |-> [v \in V |-> v \o ss[n]]]
           G(f) == [n \in 1..N |-> IF n = 1 THEN ss[n] ELSE f[n - 1] \o ss[n]]
           Joins(f) == \A n \in 1..N : f[n] = IF n = 1 THEN ss[n] ELSE f[n - 1] \o ss[n]
<1>1. N \in Nat /\ none \in V /\ (\A n \in 1..N : ss[n] \in V) /\ \A v, w \in V : v \o w \in V
  OBVIOUS
<1>2. CASE N = 0
  <2>1. ss = none
    BY <1>2
  <2>2. FlattenSeq(ss) = none
    BY <1>2, <2>1 DEF FlattenSeq
  <2> DEFINE e == [n \in 0..0 |-> none]
  <2>3. e \in [0..0 -> V] /\ e[0] = none
    <3> HIDE DEF V, none
    <3> QED BY <1>1
  <2>4. e \in [0..N -> V] /\ e[N] = none /\ \A n \in 1..N : FALSE
    <3> HIDE DEF e, V, none, N
    <3> QED BY <1>2, <2>3
  <2> HIDE DEF e
  <2> QED BY <2>2, <2>3, <2>4
<1>3. CASE N # 0
  <2>1. F \in [1..N -> [V -> V]]
    <3> HIDE DEF N, V
    <3> QED BY <1>1
  <2>2. PICK f \in [0..N -> V] : Solves(f, N, none, F)
    <3> HIDE DEF F, N, V, none
    <3> QED BY <1>1, <2>1, Recursion
  <2>3. ASSUME NEW n \in 1..N PROVE f[n] = f[n - 1] \o ss[n]
    <3> HIDE DEF N, V
    <3>1. f[n - 1] \in V
      BY <1>1
    <3>2. F[n][f[n - 1]] = f[n - 1] \o ss[n]
      BY <3>1
    <3> QED BY <3>2, <2>2 DEF Solves
  <2>4. f[1] = ss[1]
    <3>1. f[0] = <<>>
      BY <2>2 DEF Solves
    <3>2. 1 \in 1..N /\ 1 - 1 = 0
      BY <1>1, <1>3
    <3>3. f[1] = <<>> \o ss[1] /\ ss[1] \in V
      BY <3>1, <3>2, <2>3, <1>1
    <3> QED BY <3>3
  <2> DEFINE h == [n \in 1..N |-> f[n]]
  <2>5. h = G(h)
    <3> HIDE DEF N, V
    <3>1. ASSUME NEW n \in 1..N
          PROVE  h[n] = IF n = 1 THEN ss[n] ELSE h[n - 1] \o ss[n]
      <4>1. n # 1 => n - 1 \in 1..N
        BY <1>1
      <4> QED BY <4>1, <2>3, <2>4
    <3> HIDE DEF h
    <3>2. h = [n \in 1..N |-> h[n]]
      BY DEF h
    <3> QED BY <3>1, <3>2
  <2> DEFINE g == CHOOSE k : k = G(k)
  <2>6. g = G(g)
    <3> HIDE DEF G, h
    <3> QED BY <2>5
  <2>7. FlattenSeq(ss) = g[N]
    BY <1>3 DEF FlattenSeq
  <2> HIDE DEF g
  <2>8. Joins(g)
    <3> HIDE DEF N
    <3> QED BY <2>6
  <2> DEFINE e == [n \in 0..N |-> IF n = 0 THEN none ELSE g[n]]
  <2>9. \A n \in 1..N : e[n] = g[n] /\ n \in 0..N
    BY <1>1
  <2>10. ASSUME NEW n \in 1..N, e[n - 1] \in V PROVE e[n] = e[n - 1] \o ss[n]
    <3>1. CASE n = 1
      <4>1. e[n - 1] = none /\ e[n] = ss[n] /\ ss[n] \in V
        BY <3>1, <2>8, <2>9, <1>1
      <4> HIDE DEF e
      <4> QED BY <4>1
    <3>2. CASE n # 1
      <4>1. n - 1 \in 1..N
        BY <3>2, <1>1
      <4> HIDE DEF e
      <4> QED BY <4>1, <3>2, <2>8, <2>9
    <3> QED BY <3>1, <3>2
  <2> DEFINE P == {n \in 0..N : e[n] \in V}
  <2>11. 0..N \subseteq P
    <3>1. 0 \in P
      <4>1. e[0] = none /\ 0 \in 0..N
        BY <1>1
      <4> HIDE DEF e, none, N, V
      <4> QED BY <4>1, <1>1
    <3>2. ASSUME NEW n \in 1..N, n - 1 \in P PROVE n \in P
      <4> HIDE DEF e, N, V
      <4> QED BY <3>2, <2>9, <2>10, <1>1
    <3> HIDE DEF P
    <3> QED BY <3>1, <3>2, <1>1, BoundedInduction
  <2>12. \A n \in 0..N : e[n] \in V
    <3> HIDE DEF e
    <3> QED BY <2>11
  <2>13. e[0] = none /\ e[N] = g[N] /\ e \in [0..N -> V]
    <3>1. 0 \in 0..N /\ N \in 0..N
      BY <1>1
    <3> HIDE DEF V, none, N
    <3> QED BY <2>12, <3>1, <1>3
  <2>14. \A n \in 1..N : e[n] = e[n - 1] \o ss[n]
    <3>1. \A n \in 1..N : n - 1 \in 0..N
      BY <1>1
    <3> HIDE DEF e, V, N
    <3> QED BY <2>10, <2>12, <3>1
  <2> HIDE DEF e
  <2> QED BY <2>7, <2>13, <2>14
<1> QED BY <1>2, <1>3

\* Where in `r`, the flattened `ss`, the n-th sequence ends.
Spread(o, r, ss) ==
  /\ o \in [0..Len(ss) -> Nat] /\ o[0] = 0 /\ Len(r) = o[Len(ss)]
  /\ \A n \in 1..Len(ss) :
       /\ o[n] = o[n - 1] + Len(ss[n]) /\ o[n] <= Len(r)
       /\ \A k \in 1..Len(ss[n]) : r[o[n - 1] + k] = ss[n][k]
  /\ \A p \in 1..Len(r) : \E n \in 1..Len(ss) : o[n - 1] < p /\ p <= o[n]

LEMMA FlattenSpread ==
  ASSUME NEW T, NEW ss \in Seq(Seq(T))
  PROVE  FlattenSeq(ss) \in Seq(T) /\ \E o : Spread(o, FlattenSeq(ss), ss)
<1> DEFINE N == Len(ss)
<1>1. PICK f \in [0..N -> Seq(T)] :
        /\ f[0] = <<>> /\ FlattenSeq(ss) = f[N]
        /\ \A n \in 1..N : f[n] = f[n - 1] \o ss[n]
  BY FlattenFcn
<1> DEFINE o == [n \in 0..N |-> Len(f[n])]
           Upto(n) ==
             /\ \A m \in 1..n : o[m] = o[m - 1] + Len(ss[m]) /\ o[m] <= o[n]
                                /\ \A k \in 1..Len(ss[m]) : f[n][o[m - 1] + k] = ss[m][k]
             /\ \A p \in 1..o[n] : \E m \in 1..n : o[m - 1] < p /\ p <= o[m]
           P == {n \in 0..N : Upto(n)}
<1>2. N \in Nat /\ 0 \in 0..N /\ (\A n \in 1..N : n \in 0..N /\ n - 1 \in 0..N)
      /\ \A n \in 1..N : ss[n] \in Seq(T)
  OBVIOUS
<1>3. o \in [0..N -> Nat] /\ o[0] = 0 /\ \A n \in 0..N : o[n] = Len(f[n])
  <2> HIDE DEF N
  <2>1. \A n \in 0..N : Len(f[n]) \in Nat
    BY <1>1
  <2> QED BY <2>1, <1>1, <1>2
<1> HIDE DEF o
<1>4. 0 \in P
  BY <1>2, <1>3
<1>5. ASSUME NEW n \in 1..N, n - 1 \in P PROVE n \in P
  <2> DEFINE L == Len(ss[n])
             a == o[n - 1]
             z == o[n]
             r == f[n]
             q == f[n - 1]
  <2>1. q \in Seq(T) /\ r = q \o ss[n] /\ Len(q) = a /\ a \in Nat /\ L \in Nat /\ z = a + L
    <3>1. q \in Seq(T) /\ r = q \o ss[n] /\ ss[n] \in Seq(T)
      BY <1>1, <1>2
    <3>2. a = Len(q) /\ z = Len(r)
      BY <1>2, <1>3
    <3> HIDE DEF q, r, a, z
    <3> QED BY <3>1, <3>2
  <2>2. (\A j \in 1..a : r[j] = q[j]) /\ \A k \in 1..L : r[a + k] = ss[n][k]
    <3>1. ss[n] \in Seq(T)
      BY <1>2
    <3> HIDE DEF q, r, a, z
    <3> QED BY <2>1, <3>1
  <2>3. Upto(n - 1)
    BY <1>5
  <2>4. \A m \in 0..N : o[m] \in Nat
    BY <1>3
  <2>5. ASSUME NEW m \in 1..n
        PROVE  /\ o[m] = o[m - 1] + Len(ss[m]) /\ o[m] <= z
               /\ \A k \in 1..Len(ss[m]) : r[o[m - 1] + k] = ss[m][k]
    <3>1. CASE m = n
      <4>1. o[n] = z /\ o[n - 1] = a /\ Len(ss[n]) = L /\ z <= z
        BY <2>1
      <4> HIDE DEF r, q, a, z, L
      <4> QED BY <3>1, <4>1, <2>1, <2>2
    <3>2. CASE m # n
      <4>1. m \in 1..(n - 1) /\ m \in 1..N
        BY <3>2, <1>2
      <4>2. /\ o[m] = o[m - 1] + Len(ss[m]) /\ o[m] <= a
            /\ \A k \in 1..Len(ss[m]) : q[o[m - 1] + k] = ss[m][k]
        BY <4>1, <2>3
      <4>3. o[m - 1] \in Nat /\ Len(ss[m]) \in Nat
        BY <4>1, <2>4, <1>2
      <4> HIDE DEF r, q, a, z, L
      <4>4. \A k \in 1..Len(ss[m]) : o[m - 1] + k \in 1..a
        <5> DEFINE b == o[m - 1]
                   l == Len(ss[m])
                   c == o[m]
        <5>1. b \in Nat /\ l \in Nat /\ a \in Nat /\ c = b + l /\ c <= a
          BY <4>2, <4>3, <2>1
        <5> HIDE DEF b, l, c
        <5>2. \A k \in 1..l : b + k \in 1..a
          BY <5>1
        <5> QED BY <5>2 DEF b, l
      <4> QED BY <4>2, <4>3, <4>4, <2>1, <2>2
    <3> QED BY <3>1, <3>2
  <2>6. ASSUME NEW p \in 1..z PROVE \E m \in 1..n : o[m - 1] < p /\ p <= o[m]
    <3>1. CASE p <= a
      <4>1. p \in 1..a
        BY <3>1, <2>1
      <4>2. PICK m \in 1..(n - 1) : o[m - 1] < p /\ p <= o[m]
        BY <4>1, <2>3
      <4>3. m \in 1..n
        OBVIOUS
      <4> QED BY <4>2, <4>3
    <3>2. CASE ~(p <= a)
      <4>1. a < p /\ n \in 1..n
        BY <3>2, <2>1
      <4> QED BY <4>1
    <3> QED BY <3>1, <3>2
  <2>7. Upto(n)
    BY <2>5, <2>6
  <2> HIDE DEF Upto
  <2> QED BY <2>7, <1>2
<1>6. Upto(N)
  <2>1. N \in P
    <3> HIDE DEF P
    <3>1. 0..N \subseteq P
      BY <1>2, <1>4, <1>5, BoundedInduction
    <3> QED BY <3>1, <1>2
  <2> HIDE DEF Upto
  <2> QED BY <2>1
<1>7. Spread(o, FlattenSeq(ss), ss)
  BY <1>1, <1>2, <1>3, <1>6 DEF Spread
<1>8. FlattenSeq(ss) \in Seq(T)
  BY <1>1, <1>2
<1> QED BY <1>7, <1>8

-----------------------------------------------------------------------------
(* The compressor.                                                         *)

Marks == Tokens \cup {"repeats", "handle"}
Spare == {"escape", "break"}
\* What a view may not lack.
Retains(t, view) == ToSet(t) \ Spare \subseteq ToSet(view)

LEMMA MemberAt ==
  ASSUME NEW T, NEW s \in Seq(T), NEW x
  PROVE  x \in ToSet(s) <=> \E i \in 1..Len(s) : s[i] = x
BY DEF ToSet

LEMMA DropKeeps ==
  ASSUME NEW t \in Seq(Marks), NEW token \in Spare
  PROVE  Drop(t, token) \in Seq(Marks) /\ Retains(t, Drop(t, token))
<1> DEFINE S == ToSet(t) \ {token}
           r == Select(t, S)
<1>1. r \in Seq(Marks) /\ \A i \in 1..Len(t) : t[i] \in S => \E j \in 1..Len(r) : r[j] = t[i]
  <2> HIDE DEF S, r
  <2>1. r \in Seq(Marks \cap S) /\ \E e : Places(e, r, t, S)
    BY SelectPlaces DEF r
  <2>2. r \in Seq(Marks)
    BY <2>1
  <2> QED BY <2>1, <2>2 DEF Places
<1>2. ASSUME NEW x \in ToSet(t) \ Spare PROVE x \in ToSet(r)
  <2>1. PICK i \in 1..Len(t) : t[i] = x
    BY <1>2, MemberAt
  <2>2. x \in S
    BY <1>2
  <2> HIDE DEF r, S
  <2>3. \E j \in 1..Len(r) : r[j] = x
    BY <1>1, <2>1, <2>2
  <2> QED BY <1>1, <2>3, MemberAt
<1> QED BY <1>1, <1>2 DEF Drop, Retains

(* Of the same tokens that stand together, one is the first. *)
LEMMA FirstOfRun ==
  ASSUME NEW t \in Seq(Marks), NEW x \in ToSet(t)
  PROVE  \E i \in 1..Len(t) : t[i] = x /\ Nth(t, i) = 1
<1> DEFINE S == {i \in 1..Len(t) : t[i] = x}
<1>1. S # {}
  BY MemberAt
<1>2. PICK i \in S : \A j \in S : i <= j
  <2>1. S \in SUBSET Nat
    OBVIOUS
  <2> HIDE DEF S
  <2> QED BY <1>1, <2>1, Least
<1>3. i \in 1..Len(t) /\ t[i] = x
  OBVIOUS
<1>4. {j \in 1..i : \A k \in j..i : t[k] = t[i]} = {i}
  <2>1. i \in 1..i /\ \A k \in i..i : t[k] = t[i]
    BY <1>3
  <2>2. ASSUME NEW j \in 1..i, \A k \in j..i : t[k] = t[i] PROVE j = i
    <3>1. j \in j..i /\ j \in 1..Len(t)
      BY <1>3
    <3>2. j \in S
      BY <3>1, <2>2, <1>3
    <3> QED BY <3>2, <1>2
  <2> QED BY <2>1, <2>2
<1>5. Nth(t, i) = 1
  BY <1>4, FS_Singleton DEF Nth
<1> QED BY <1>3, <1>5

(* Putting pieces together: none of them is lost. *)
LEMMA FlattenKeeps ==
  ASSUME NEW t \in Seq(Marks), NEW ss \in Seq(Seq(Marks)),
         \A x \in ToSet(t) \ Spare : \E i \in 1..Len(ss) : ss[i] = <<x>>
  PROVE  FlattenSeq(ss) \in Seq(Marks) /\ Retains(t, FlattenSeq(ss))
<1> DEFINE r == FlattenSeq(ss)
<1>1. r \in Seq(Marks) /\ \E o : Spread(o, r, ss)
  BY FlattenSpread
<1>2. PICK o : Spread(o, r, ss)
  BY <1>1
<1> HIDE DEF r
<1>3. ASSUME NEW x \in ToSet(t) \ Spare PROVE x \in ToSet(r)
  <2>1. PICK i \in 1..Len(ss) : ss[i] = <<x>>
    OBVIOUS
  <2>2. Len(ss[i]) = 1 /\ ss[i][1] = x /\ 1 \in 1..Len(ss[i])
    BY <2>1
  <2>3. /\ o[i] = o[i - 1] + Len(ss[i]) /\ o[i] <= Len(r)
        /\ \A k \in 1..Len(ss[i]) : r[o[i - 1] + k] = ss[i][k]
    BY <1>2 DEF Spread
  <2>4. o[i - 1] \in Nat
    <3>1. i - 1 \in 0..Len(ss)
      OBVIOUS
    <3> QED BY <3>1, <1>2 DEF Spread
  <2>5. o[i] = o[i - 1] + 1 /\ r[o[i - 1] + 1] = x
    BY <2>2, <2>3
  <2>6. o[i] \in 1..Len(r) /\ r[o[i]] = x
    <3> DEFINE a == o[i - 1]
    <3>1. a \in Nat /\ o[i] = a + 1 /\ r[a + 1] = x /\ o[i] <= Len(r) /\ Len(r) \in Nat
      BY <2>3, <2>4, <2>5, <1>1
    <3> HIDE DEF a
    <3> QED BY <3>1
  <2> QED BY <2>6, <1>1, MemberAt
<1> QED BY <1>1, <1>3 DEF Retains, r

LEMMA RepeatKeeps ==
  ASSUME NEW t \in Seq(Marks)
  PROVE  RepeatCollapse(t) \in Seq(Marks) /\ Retains(t, RepeatCollapse(t))
<1> DEFINE S(i) == IF t[i] # "line" \/ RunLength(t, i) < Repeats \/ Nth(t, i) = 1 THEN <<t[i]>>
                   ELSE IF Nth(t, i) = 2 THEN <<"repeats">> ELSE <<>>
           ss == [i \in DOMAIN t |-> S(i)]
<1>1. \A i \in 1..Len(t) : S(i) \in Seq(Marks)
  <2>1. "repeats" \in Marks /\ \A i \in 1..Len(t) : t[i] \in Marks
    BY DEF Marks
  <2> QED BY <2>1
<1>2. ss \in Seq(Seq(Marks)) /\ Len(ss) = Len(t) /\ \A i \in 1..Len(ss) : ss[i] = S(i)
  <2> HIDE DEF S
  <2> QED BY <1>1
<1> HIDE DEF ss
<1>3. ASSUME NEW x \in ToSet(t) \ Spare PROVE \E i \in 1..Len(ss) : ss[i] = <<x>>
  <2>1. PICK i \in 1..Len(t) : t[i] = x /\ Nth(t, i) = 1
    BY FirstOfRun
  <2>2. S(i) = <<x>>
    BY <2>1
  <2> HIDE DEF S
  <2> QED BY <2>1, <2>2, <1>2
<1>4. FlattenSeq(ss) \in Seq(Marks) /\ Retains(t, FlattenSeq(ss))
  BY <1>2, <1>3, FlattenKeeps
<1>5. RepeatCollapse(t) = FlattenSeq(ss)
  BY DEF RepeatCollapse, ss
<1> QED BY <1>4, <1>5

LEMMA BlankKeeps ==
  ASSUME NEW t \in Seq(Marks)
  PROVE  BlankCollapse(t) \in Seq(Marks) /\ Retains(t, BlankCollapse(t))
<1> DEFINE S(i) == IF t[i] = "break" /\ Nth(t, i) > Blanks THEN <<>> ELSE <<t[i]>>
           ss == [i \in DOMAIN t |-> S(i)]
<1>1. \A i \in 1..Len(t) : S(i) \in Seq(Marks)
  OBVIOUS
<1>2. ss \in Seq(Seq(Marks)) /\ Len(ss) = Len(t) /\ \A i \in 1..Len(ss) : ss[i] = S(i)
  <2> HIDE DEF S
  <2> QED BY <1>1
<1> HIDE DEF ss
<1>3. ASSUME NEW x \in ToSet(t) \ Spare PROVE \E i \in 1..Len(ss) : ss[i] = <<x>>
  <2>1. PICK i \in 1..Len(t) : t[i] = x
    BY MemberAt
  <2>2. S(i) = <<x>>
    BY <2>1 DEF Spare
  <2> HIDE DEF S
  <2> QED BY <2>1, <2>2, <1>2
<1>4. FlattenSeq(ss) \in Seq(Marks) /\ Retains(t, FlattenSeq(ss))
  BY <1>2, <1>3, FlattenKeeps
<1>5. BlankCollapse(t) = IF kind = "code" THEN t ELSE FlattenSeq(ss)
  BY DEF BlankCollapse, ss
<1>6. Retains(t, t)
  BY DEF Retains
<1> QED BY <1>4, <1>5, <1>6

\* A view on the way: the block, or less of it.
Less(t, view) ==
  view \in Seq(Marks) /\ Retains(t, view) /\ (view = t \/ Len(view) < Len(t))

(* A transform that keeps what it must, taken or taken back. *)
LEMMA ShorterLess ==
  ASSUME NEW t \in Seq(Marks), NEW old, NEW new, Less(t, old),
         new \in Seq(Marks), Retains(old, new)
  PROVE  Less(t, Shorter(t, old, new))
<1>1. Retains(t, new)
  BY DEF Less, Retains
<1>2. Len(t) \in Nat /\ Len(old) \in Nat /\ Len(new) \in Nat
  BY DEF Less
<1>3. Len(new) < Len(old) => new = t \/ Len(new) < Len(t)
  BY <1>2 DEF Less
<1> QED BY <1>1, <1>3 DEF Less, Shorter

LEMMA ShrunkLess ==
  ASSUME NEW t \in Seq(Marks)
  PROVE  Less(t, Shrunk(t))
<1> DEFINE mini == Shorter(t, t, JsonMinify(t))
           bare == Shorter(t, t, AnsiStrip(t))
           once == Shorter(t, bare, RepeatCollapse(bare))
           last == Shorter(t, once, BlankCollapse(once))
<1>0. Less(t, t) /\ Retains(t, t)
  BY DEF Less, Retains
<1>1. Less(t, mini)
  <2>1. JsonMinify(t) \in Seq(Marks) /\ Retains(t, JsonMinify(t))
    BY <1>0, DropKeeps DEF JsonMinify, Spare
  <2> QED BY <1>0, <2>1, ShorterLess
<1>2. Less(t, bare)
  <2>1. AnsiStrip(t) \in Seq(Marks) /\ Retains(t, AnsiStrip(t))
    BY DropKeeps DEF AnsiStrip, Spare
  <2> QED BY <1>0, <2>1, ShorterLess
<1> HIDE DEF bare
<1>3. Less(t, once)
  <2>1. RepeatCollapse(bare) \in Seq(Marks) /\ Retains(bare, RepeatCollapse(bare))
    BY <1>2, RepeatKeeps DEF Less
  <2> QED BY <1>2, <2>1, ShorterLess
<1> HIDE DEF once
<1>4. Less(t, last)
  <2>1. BlankCollapse(once) \in Seq(Marks) /\ Retains(once, BlankCollapse(once))
    BY <1>3, BlankKeeps DEF Less
  <2> QED BY <1>3, <2>1, ShorterLess
<1> HIDE DEF mini, last
<1>5. Shrunk(t) = IF mini # t THEN mini ELSE last
  BY DEF Shrunk, mini, last, once, bare
<1> QED BY <1>1, <1>4, <1>5

(* What is elided leaves a handle, and less. *)
LEMMA ElidedLess ==
  ASSUME NEW t \in Seq(Marks), NEW recovery
  PROVE  \/ Elided(t, recovery) = t
         \/ /\ recovery = "works" /\ Contains(Elided(t, recovery), "handle")
            /\ Len(Elided(t, recovery)) < Len(t)
<1> DEFINE head == SubSeq(t, 1, HeadLen)
           tail == SubSeq(t, Len(t) - TailLen + 1, Len(t))
           view == head \o <<"handle">> \o tail
<1>1. HeadLen \in Nat /\ TailLen \in Nat /\ Threshold \in Nat /\ HeadLen + 1 + TailLen < Threshold
      /\ Len(t) \in Nat
  BY CompressorAssumption
<1>2. CASE Len(t) >= Threshold
  <2>1. head \in Seq(Marks) /\ Len(head) = HeadLen
    BY <1>1, <1>2
  <2>2. tail \in Seq(Marks) /\ Len(tail) = TailLen
    BY <1>1, <1>2
  <2>3. <<"handle">> \in Seq(Marks) /\ Len(<<"handle">>) = 1 /\ <<"handle">>[1] = "handle"
    BY DEF Marks
  <2> HIDE DEF head, tail
  <2>4. Len(view) = HeadLen + 1 + TailLen /\ view[HeadLen + 1] = "handle"
    <3> DEFINE h == <<"handle">>
               most == head \o h
    <3>1. h \in Seq(Marks) /\ Len(h) = 1 /\ h[1] = "handle"
      BY <2>3
    <3> HIDE DEF h
    <3>2. most \in Seq(Marks) /\ Len(most) = HeadLen + 1 /\ most[HeadLen + 1] = "handle"
      <4>1. /\ most \in Seq(Marks) /\ Len(most) = Len(head) + Len(h)
            /\ \A i \in 1..Len(h) : most[Len(head) + i] = h[i]
        <5>1. head \in Seq(Marks) /\ h \in Seq(Marks)
          BY <2>1, <3>1
        <5> QED BY <5>1, Joined
      <4> HIDE DEF most
      <4>2. 1 \in 1..Len(h) /\ Len(head) = HeadLen
        BY <2>1, <3>1
      <4> QED BY <3>1, <4>1, <4>2
    <3> HIDE DEF most
    <3>3. /\ Len(most \o tail) = (HeadLen + 1) + TailLen
          /\ \A i \in 1..(HeadLen + 1) : (most \o tail)[i] = most[i]
      <4>1. most \in Seq(Marks) /\ tail \in Seq(Marks)
        BY <2>2, <3>2
      <4>2. /\ Len(most \o tail) = Len(most) + Len(tail)
            /\ \A i \in 1..Len(most) : (most \o tail)[i] = most[i]
        BY <4>1, Joined
      <4> QED BY <2>2, <3>2, <4>2
    <3>4. HeadLen + 1 \in 1..(HeadLen + 1)
      BY <1>1
    <3> QED BY <3>2, <3>3, <3>4 DEF most, h
  <2>5. HeadLen + 1 \in 1..Len(view) /\ Len(view) < Len(t)
    BY <1>1, <1>2, <2>4
  <2> HIDE DEF view
  <2>6. Contains(view, "handle")
    BY <2>4, <2>5 DEF Contains
  <2>7. Elided(t, recovery) = t \/ (recovery = "works" /\ Elided(t, recovery) = view)
    <3> DEFINE C == Len(t) >= Threshold /\ recovery = "works"
                    /\ ~Occurs(ErrorName, SubSeq(t, HeadLen + 1, Len(t) - TailLen))
                    /\ Verdicts(SubSeq(t, HeadLen + 1, Len(t) - TailLen)) = {}
    <3>1. Elided(t, recovery) = IF C THEN view ELSE t
      BY DEF Elided, view, head, tail
    <3>2. C => recovery = "works"
      OBVIOUS
    <3> HIDE DEF C
    <3> QED BY <3>1, <3>2
  <2> QED BY <2>5, <2>6, <2>7
<1>3. CASE ~(Len(t) >= Threshold)
  BY <1>3 DEF Elided
<1> QED BY <1>2, <1>3

LEMMA CompressedFails ==
  ASSUME CompressorTypeOK PROVE FailClosed
<1> SUFFICES ASSUME NEW recovery \in {"works", "fails"}
             PROVE  LET view == Compressed(block, recovery) IN
                      \/ view = block
                      \/ /\ Len(view) < Len(block)
                         /\ Preserved(block, view)
                         /\ \/ recovery = "works" /\ Contains(view, "handle")
                            \/ ToSet(block) \ {"escape", "break"} \subseteq ToSet(view)
  BY DEF FailClosed, Preserved
<1> DEFINE s == Shrunk(block)
           v == Elided(s, recovery)
<1>1. block \in Seq(Marks)
  BY DEF CompressorTypeOK, Marks
<1>2. Less(block, s)
  BY <1>1, ShrunkLess
<1>3. \/ v = s
      \/ recovery = "works" /\ Contains(v, "handle") /\ Len(v) < Len(s)
  BY <1>2, ElidedLess DEF Less
<1>4. Compressed(block, recovery) \in {block, v} /\
        (Compressed(block, recovery) # block => Preserved(block, v))
  <2> HIDE DEF v
  <2>1. Compressed(block, recovery) \in {block, Checked(block, v)}
    BY DEF Compressed, v, s
  <2> QED BY <2>1 DEF Checked
<1> HIDE DEF v, s
<1>5. Len(block) \in Nat /\ Len(s) \in Nat
  BY <1>1, <1>2 DEF Less
<1>6. CASE v = s
  BY <1>2, <1>4, <1>6 DEF Less, Retains, Spare
<1>7. CASE recovery = "works" /\ Contains(v, "handle") /\ Len(v) < Len(s)
  <2>1. CASE Compressed(block, recovery) = block
    BY <2>1
  <2>2. CASE Compressed(block, recovery) # block
    <3>1. s = block \/ Len(s) < Len(block)
      BY <1>2 DEF Less
    <3>2. Len(v) < Len(s) /\ Len(s) <= Len(block)
      BY <1>5, <1>7, <3>1
    <3>3. v = block \/ Len(v) < Len(block)
      BY <1>4, <2>2, <3>2, <1>5
    <3> QED BY <1>4, <1>7, <2>2, <3>3
  <2> QED BY <2>1, <2>2
<1> QED BY <1>3, <1>6, <1>7

(* Whatever grows, blocks are sequences of tokens. *)
THEOREM CompressorTyped == CompressorSpec => []CompressorTypeOK
<1>1. CompressorInit => CompressorTypeOK
  BY DEF CompressorInit, CompressorTypeOK
<1>2. CompressorTypeOK /\ [Grow]_compressorVars => CompressorTypeOK'
  BY DEF CompressorTypeOK, compressorVars, Grow
<1> QED BY <1>1, <1>2, PTL DEF CompressorSpec

(* Whatever the block and the bounds, the view is the block or shows all that *)
(* matters of it (compress_text's fail-closed contract).                      *)
THEOREM FailsClosed == CompressorSpec => []FailClosed
BY CompressorTyped, CompressedFails, PTL

-----------------------------------------------------------------------------
(* The compactor: flattening message by message.                           *)

USE CompactorAssumption

\* The recursion FlattenSeq follows.
Joining(f, ss) == f[0] = <<>> /\ \A n \in 1..Len(ss) : f[n] = f[n - 1] \o ss[n]

LEMMA FlattenAppend ==
  ASSUME NEW T, NEW ss \in Seq(Seq(T)), NEW s \in Seq(T)
  PROVE  FlattenSeq(Append(ss, s)) = FlattenSeq(ss) \o s
<1> DEFINE N == Len(ss)
           more == Append(ss, s)
<1>1. /\ more \in Seq(Seq(T)) /\ Len(more) = N + 1 /\ N \in Nat /\ more[N + 1] = s
      /\ \A n \in 1..N : more[n] = ss[n]
  OBVIOUS
<1> HIDE DEF more
<1>2. PICK f \in [0..N -> Seq(T)] : Joining(f, ss) /\ FlattenSeq(ss) = f[N]
  BY FlattenFcn DEF Joining
<1>3. PICK g \in [0..(N + 1) -> Seq(T)] : Joining(g, more) /\ FlattenSeq(more) = g[N + 1]
  <2>1. \E g \in [0..Len(more) -> Seq(T)] :
           /\ g[0] = <<>> /\ FlattenSeq(more) = g[Len(more)]
           /\ \A n \in 1..Len(more) : g[n] = g[n - 1] \o more[n]
    BY <1>1, FlattenFcn
  <2> QED BY <2>1, <1>1 DEF Joining
<1> DEFINE P == {n \in 0..N : g[n] = f[n]}
<1>4. 0 \in P
  BY <1>1, <1>2, <1>3 DEF Joining
<1>5. ASSUME NEW n \in 1..N, n - 1 \in P PROVE n \in P
  <2>1. n \in 1..(N + 1) /\ n \in 0..N
    BY <1>1
  <2>2. g[n] = g[n - 1] \o more[n] /\ f[n] = f[n - 1] \o ss[n] /\ more[n] = ss[n]
    BY <2>1, <1>1, <1>2, <1>3 DEF Joining
  <2> QED BY <2>1, <2>2, <1>5
<1>6. g[N] = f[N]
  <2>1. N \in P
    <3> HIDE DEF P
    <3>1. 0..N \subseteq P
      BY <1>1, <1>4, <1>5, BoundedInduction
    <3>2. N \in 0..N
      BY <1>1
    <3> QED BY <3>1, <3>2
  <2> QED BY <2>1
<1>7. g[N + 1] = g[N] \o s
  <2>1. N + 1 \in 1..(N + 1) /\ (N + 1) - 1 = N
    BY <1>1
  <2> QED BY <2>1, <1>1, <1>3 DEF Joining
<1> QED BY <1>2, <1>3, <1>6, <1>7 DEF more

(* What is in a flattened sequence is in one of the sequences. *)
LEMMA FlattenMembers ==
  ASSUME NEW T, NEW ss \in Seq(Seq(T)), NEW x
  PROVE  x \in ToSet(FlattenSeq(ss)) <=> \E n \in 1..Len(ss) : x \in ToSet(ss[n])
<1> DEFINE r == FlattenSeq(ss)
<1>1. r \in Seq(T) /\ \E o : Spread(o, r, ss)
  BY FlattenSpread
<1>2. PICK o : Spread(o, r, ss)
  BY <1>1
<1> HIDE DEF r
<1>3. \A n \in 1..Len(ss) : o[n - 1] \in Nat /\ o[n] \in Nat /\ ss[n] \in Seq(T)
  <2> SUFFICES ASSUME NEW n \in 1..Len(ss) PROVE o[n - 1] \in Nat /\ o[n] \in Nat
    OBVIOUS
  <2>1. n \in 0..Len(ss) /\ n - 1 \in 0..Len(ss)
    OBVIOUS
  <2> QED BY <2>1, <1>2 DEF Spread
<1>4. ASSUME x \in ToSet(r) PROVE \E n \in 1..Len(ss) : x \in ToSet(ss[n])
  <2>1. PICK p \in 1..Len(r) : r[p] = x
    BY <1>1, <1>4 DEF ToSet
  <2>2. PICK n \in 1..Len(ss) : o[n - 1] < p /\ p <= o[n]
    BY <1>2 DEF Spread
  <2> DEFINE a == o[n - 1]
             z == o[n]
             s == ss[n]
  <2>3. z = a + Len(s) /\ \A k \in 1..Len(s) : r[a + k] = s[k]
    BY <1>2 DEF Spread
  <2>4. a \in Nat /\ z \in Nat /\ s \in Seq(T) /\ a < p /\ p <= z
    BY <1>3, <2>2
  <2> HIDE DEF a, z, s
  <2>5. p - a \in 1..Len(s) /\ a + (p - a) = p
    BY <2>3, <2>4
  <2>6. s[p - a] = x
    BY <2>1, <2>3, <2>5
  <2>7. x \in ToSet(s)
    BY <2>4, <2>5, <2>6 DEF ToSet
  <2> QED BY <2>7 DEF s
<1>5. ASSUME NEW n \in 1..Len(ss), x \in ToSet(ss[n]) PROVE x \in ToSet(r)
  <2> DEFINE a == o[n - 1]
             s == ss[n]
  <2>1. o[n] = a + Len(s) /\ o[n] <= Len(r) /\ \A k \in 1..Len(s) : r[a + k] = s[k]
    BY <1>2 DEF Spread
  <2>2. a \in Nat /\ s \in Seq(T)
    BY <1>3
  <2>3. PICK k \in 1..Len(s) : s[k] = x
    BY <1>5, <2>2 DEF ToSet
  <2> HIDE DEF a, s
  <2>4. a + k \in 1..Len(r) /\ r[a + k] = x
    BY <1>1, <2>1, <2>2, <2>3
  <2> QED BY <2>4, <1>1 DEF ToSet
<1> QED BY <1>4, <1>5 DEF r

-----------------------------------------------------------------------------
(* Messages: what a call and its result say of the whole conversation.      *)

Conversation == Seq(Message)
Calls(r, ms, i) == r \in ToSet(ms[i].uses)
Brings(r, ms, i) == r \in ToSet(ms[i].results)

LEMMA MessageFacts ==
  ASSUME NEW m \in Message
  PROVE  /\ m.nr \in 0..MaxMessages
         /\ m.uses \in Seq(Ids) /\ m.results \in Seq(Ids)
         /\ m = [nr |-> m.nr, role |-> m.role, uses |-> m.uses, results |-> m.results,
                 text |-> m.text, capsule |-> m.capsule]
BY DEF Message

LEMMA PendingIs ==
  ASSUME NEW ms \in Conversation, NEW r
  PROVE  r \in Pending(ms) <=> /\ \E i \in 1..Len(ms) : Calls(r, ms, i)
                               /\ \A i \in 1..Len(ms) : ~Brings(r, ms, i)
<1> DEFINE us == [i \in DOMAIN ms |-> ms[i].uses]
           rs == [i \in DOMAIN ms |-> ms[i].results]
<1>1. \A i \in 1..Len(ms) : ms[i].uses \in Seq(Ids) /\ ms[i].results \in Seq(Ids)
  BY MessageFacts DEF Conversation
<1>2. DOMAIN ms = 1..Len(ms) /\ Len(ms) \in Nat
  BY DEF Conversation
<1>3. us \in Seq(Seq(Ids)) /\ Len(us) = Len(ms) /\ \A i \in 1..Len(ms) : us[i] = ms[i].uses
  BY <1>1, <1>2
<1>4. rs \in Seq(Seq(Ids)) /\ Len(rs) = Len(ms) /\ \A i \in 1..Len(ms) : rs[i] = ms[i].results
  BY <1>1, <1>2
<1>5. Uses(ms) = FlattenSeq(us) /\ Results(ms) = FlattenSeq(rs)
  BY DEF Uses, Results
<1> HIDE DEF us, rs
<1>6. r \in ToSet(FlattenSeq(us)) <=> \E n \in 1..Len(us) : r \in ToSet(us[n])
  BY <1>3, FlattenMembers
<1>7. r \in ToSet(FlattenSeq(rs)) <=> \E n \in 1..Len(rs) : r \in ToSet(rs[n])
  BY <1>4, FlattenMembers
<1> QED BY <1>3, <1>4, <1>5, <1>6, <1>7 DEF Pending, Calls, Brings

\* Valid, message by message.
Whole(ms) ==
  /\ \A i \in 1..Len(ms) : \A r \in ToSet(ms[i].results) :
       /\ \E j \in 1..(i - 1) : Calls(r, ms, j)
       /\ \A j \in 1..(i - 1) : ~Brings(r, ms, j)
  /\ \A i, j \in 1..Len(ms) : \A r \in ToSet(ms[j].uses) :
       format = "openai" /\ ms[i].role = "user" /\ j < i =>
         \E k \in 1..(i - 1) : Brings(r, ms, k)
  /\ \A j \in 1..Len(ms) : \A r \in ToSet(ms[j].uses) :
       \E k \in 1..Len(ms) : Brings(r, ms, k)

LEMMA PastIs ==
  ASSUME NEW ms \in Conversation, NEW i \in 1..Len(ms)
  PROVE  LET past == SubSeq(ms, 1, i - 1) IN
         /\ past \in Conversation /\ Len(past) = i - 1
         /\ \A j \in 1..(i - 1) : past[j] = ms[j]
BY DEF Conversation

LEMMA PastPending ==
  ASSUME NEW ms \in Conversation, NEW i \in 1..Len(ms), NEW r
  PROVE  r \in Pending(SubSeq(ms, 1, i - 1)) <=>
           /\ \E j \in 1..(i - 1) : Calls(r, ms, j)
           /\ \A j \in 1..(i - 1) : ~Brings(r, ms, j)
<1> DEFINE past == SubSeq(ms, 1, i - 1)
<1>1. past \in Conversation /\ Len(past) = i - 1 /\ \A j \in 1..(i - 1) : past[j] = ms[j]
  BY PastIs
<1> HIDE DEF past
<1>2. r \in Pending(past) <=> /\ \E j \in 1..(i - 1) : Calls(r, past, j)
                              /\ \A j \in 1..(i - 1) : ~Brings(r, past, j)
  BY <1>1, PendingIs
<1>3. \A j \in 1..(i - 1) : (Calls(r, past, j) <=> Calls(r, ms, j)) /\
                            (Brings(r, past, j) <=> Brings(r, ms, j))
  BY <1>1 DEF Calls, Brings
<1> QED BY <1>2, <1>3 DEF past

LEMMA ValidIsWhole ==
  ASSUME NEW ms \in Conversation
  PROVE  Valid(ms) <=> Whole(ms)
<1> DEFINE Past(i) == Pending(SubSeq(ms, 1, i - 1))
<1>1. DOMAIN ms = 1..Len(ms) /\ Len(ms) \in Nat
  BY DEF Conversation
<1>2. \A i \in 1..Len(ms) : Follows(ms, i) <=>
        /\ \A r \in ToSet(ms[i].results) : r \in Past(i)
        /\ format = "openai" /\ ms[i].role = "user" => Past(i) = {}
  BY DEF Follows
<1>3. \A i \in 1..Len(ms) : \A r : r \in Past(i) <=>
           /\ \E j \in 1..(i - 1) : Calls(r, ms, j)
           /\ \A j \in 1..(i - 1) : ~Brings(r, ms, j)
  BY PastPending
<1> HIDE DEF Past
<1>4. \A i \in 1..Len(ms) : Past(i) = {} <=>
        \A j \in 1..Len(ms) : \A r \in ToSet(ms[j].uses) :
          j < i => \E k \in 1..(i - 1) : Brings(r, ms, k)
  <2> SUFFICES ASSUME NEW i \in 1..Len(ms)
               PROVE  Past(i) = {} <=>
                        \A j \in 1..Len(ms) : \A r \in ToSet(ms[j].uses) :
                          j < i => \E k \in 1..(i - 1) : Brings(r, ms, k)
    OBVIOUS
  <2>1. \A j \in 1..Len(ms) : j < i <=> j \in 1..(i - 1)
    BY <1>1
  <2>2. \A j \in 1..(i - 1) : j \in 1..Len(ms)
    BY <1>1
  <2> QED BY <1>3, <2>1, <2>2 DEF Calls
<1>5. Pending(ms) = {} <=> \A j \in 1..Len(ms) : \A r \in ToSet(ms[j].uses) :
                             \E k \in 1..Len(ms) : Brings(r, ms, k)
  BY PendingIs DEF Calls
<1> QED BY <1>1, <1>2, <1>3, <1>4, <1>5 DEF Valid, Whole

-----------------------------------------------------------------------------
(* What clients send.                                                      *)

\* What a client may send: calls are the assistant's, results come as the
\* format has them.
WellMade(fmt, m) ==
  /\ m.uses # <<>> => m.role = "assistant"
  /\ m.results # <<>> => m.role = (IF fmt = "openai" THEN "tool" ELSE "user")
  /\ m.role = "user" /\ m.text = "none" => m.results # <<>>
  /\ m.capsule = "no" /\ m.text # "shown"

\* Messages are numbered, results follow their calls, and no two messages make
\* the same call: the next ones are numbered on.
CompactorInv ==
  /\ CompactorTypeOK
  /\ \A i \in 1..Len(messages) :
       messages[i].nr = i /\ WellMade(format, messages[i]) /\ Follows(messages, i)
  /\ \A r \in ToSet(Uses(messages)) : r <= Len(Uses(messages))
  /\ \A i, j \in 1..Len(messages) : \A r \in ToSet(messages[i].uses) :
       r \in ToSet(messages[j].uses) => i = j

LEMMA UsesAppend ==
  ASSUME NEW ms \in Conversation, NEW m \in Message
  PROVE  /\ Uses(ms) \in Seq(Ids) /\ Uses(Append(ms, m)) = Uses(ms) \o m.uses
         /\ \A r : r \in ToSet(Uses(ms)) <=> \E i \in 1..Len(ms) : r \in ToSet(ms[i].uses)
<1> DEFINE us == [i \in DOMAIN ms |-> ms[i].uses]
           more == Append(ms, m)
           vs == [i \in DOMAIN more |-> more[i].uses]
<1>1. \A i \in 1..Len(ms) : ms[i].uses \in Seq(Ids)
  BY MessageFacts DEF Conversation
<1>2. /\ DOMAIN ms = 1..Len(ms) /\ Len(ms) \in Nat /\ Len(more) = Len(ms) + 1
      /\ DOMAIN more = 1..Len(more) /\ more[Len(ms) + 1] = m
      /\ \A i \in 1..Len(ms) : more[i] = ms[i]
  BY DEF Conversation
<1>3. us \in Seq(Seq(Ids)) /\ Len(us) = Len(ms) /\ \A i \in 1..Len(ms) : us[i] = ms[i].uses
  BY <1>1, <1>2
<1>4. m.uses \in Seq(Ids)
  BY MessageFacts
<1>5. vs = Append(us, m.uses)
  <2>1. \A i \in 1..(Len(ms) + 1) : vs[i] = IF i = Len(ms) + 1 THEN m.uses ELSE us[i]
    <3> SUFFICES ASSUME NEW i \in 1..(Len(ms) + 1)
                 PROVE  more[i].uses = IF i = Len(ms) + 1 THEN m.uses ELSE us[i]
      BY <1>2
    <3>1. i # Len(ms) + 1 => i \in 1..Len(ms)
      BY <1>2
    <3> HIDE DEF more, us
    <3> QED BY <3>1, <1>2, <1>3
  <2>2. DOMAIN vs = 1..(Len(ms) + 1) /\ vs = [i \in DOMAIN vs |-> vs[i]]
    BY <1>2
  <2>3. Append(us, m.uses) = [i \in 1..(Len(ms) + 1) |-> IF i = Len(ms) + 1 THEN m.uses ELSE us[i]]
    <3> HIDE DEF us
    <3> QED BY <1>3, <1>4
  <2> HIDE DEF vs, us
  <2> QED BY <2>1, <2>2, <2>3
<1>6. Uses(ms) = FlattenSeq(us) /\ Uses(more) = FlattenSeq(vs)
  BY DEF Uses
<1> HIDE DEF us, vs, more
<1>7. FlattenSeq(us) \in Seq(Ids)
  BY <1>3, FlattenSpread
<1>8. FlattenSeq(Append(us, m.uses)) = FlattenSeq(us) \o m.uses
  BY <1>3, <1>4, FlattenAppend
<1>9. \A r : r \in ToSet(FlattenSeq(us)) <=> \E i \in 1..Len(ms) : r \in ToSet(ms[i].uses)
  <2>1. \A r : r \in ToSet(FlattenSeq(us)) <=> \E n \in 1..Len(us) : r \in ToSet(us[n])
    BY <1>3, FlattenMembers
  <2> QED BY <2>1, <1>3
<1> QED BY <1>5, <1>6, <1>7, <1>8, <1>9 DEF more

LEMMA PlainFacts ==
  ASSUME NEW role \in Instructions \cup {"user", "assistant", "tool"}
  PROVE  /\ Plain(role) \in Message /\ Plain(role).role = role /\ Plain(role).uses = <<>>
         /\ Plain(role).results = <<>> /\ Plain(role).text = "plain"
         /\ Plain(role).capsule = "no" /\ Plain(role).nr = 0
BY DEF Plain, Message, Instructions

(* A message is added, with calls that are new. *)
LEMMA SayInv ==
  ASSUME CompactorInv, NEW m \in Message, Say(m), WellMade(format, m),
         \A r \in ToSet(m.uses) : /\ r > Len(Uses(messages))
                                  /\ r <= Len(Uses(messages)) + Len(m.uses)
  PROVE  CompactorInv'
<1> DEFINE L == Len(messages)
           n == [m EXCEPT !.nr = L + 1]
           U == Uses(messages)
<1>1. /\ messages \in Conversation /\ L \in Nat /\ L < MaxMessages
      /\ messages' = Append(messages, n) /\ Follows(messages', Len(messages'))
      /\ format' = format /\ format \in {"openai", "anthropic"}
  BY DEF CompactorInv, CompactorTypeOK, Say, Conversation
<1>2. /\ n \in Message /\ n.nr = L + 1 /\ n.uses = m.uses /\ n.results = m.results
      /\ n.role = m.role /\ n.text = m.text /\ n.capsule = m.capsule
  <2>1. L + 1 \in 0..MaxMessages
    BY <1>1
  <2> HIDE DEF L
  <2> QED BY <2>1 DEF Message
<1> HIDE DEF n
<1>3. messages' \in Conversation /\ Len(messages') = L + 1
  BY <1>1, <1>2 DEF Conversation
<1>4. messages'[L + 1] = n /\ \A i \in 1..L : messages'[i] = messages[i]
  BY <1>1, <1>2 DEF Conversation
<1>5. \A i \in 1..(L + 1) : i = L + 1 \/ i \in 1..L
  BY <1>1
<1>6. CompactorTypeOK'
  BY <1>1, <1>3 DEF CompactorTypeOK, Conversation
<1>7. ASSUME NEW i \in 1..L PROVE Follows(messages', i) = Follows(messages, i)
  <2>1. SubSeq(messages', 1, i - 1) = SubSeq(messages, 1, i - 1)
    <3>1. \A j \in 1..(i - 1) : messages'[j] = messages[j]
      BY <1>1, <1>4
    <3> HIDE DEF L
    <3> QED BY <3>1, <1>1, <1>3 DEF Conversation
  <2> QED BY <2>1, <1>4 DEF Follows
<1>8. ASSUME NEW i \in 1..(L + 1)
      PROVE  messages'[i].nr = i /\ WellMade(format, messages'[i]) /\ Follows(messages', i)
  <2>1. CASE i \in 1..L
    BY <2>1, <1>4, <1>7 DEF CompactorInv
  <2>2. CASE i = L + 1
    BY <2>2, <1>1, <1>2, <1>3, <1>4 DEF WellMade
  <2> QED BY <2>1, <2>2, <1>5
<1>9. \A i \in 1..(L + 1) : Follows(messages, i)'
  BY <1>1, <1>8 DEF Follows
<1>10. Uses(messages') = U \o m.uses /\ U \in Seq(Ids) /\ m.uses \in Seq(Ids)
  BY <1>1, <1>2, UsesAppend, MessageFacts
<1>11. \A r \in ToSet(Uses(messages')) : r <= Len(Uses(messages'))
  <2> SUFFICES ASSUME NEW r \in ToSet(U \o m.uses) PROVE r <= Len(U \o m.uses)
    BY <1>10
  <2>1. \A x \in ToSet(U) : x <= Len(U) /\ x \in Ids
    BY <1>10 DEF CompactorInv, ToSet
  <2>2. \A x \in ToSet(m.uses) : x <= Len(U) + Len(m.uses)
    OBVIOUS
  <2> HIDE DEF U
  <2>3. r \in ToSet(U) \/ r \in ToSet(m.uses)
    BY <1>10 DEF ToSet
  <2>4. Len(U \o m.uses) = Len(U) + Len(m.uses) /\ Len(U) \in Nat /\ Len(m.uses) \in Nat
    BY <1>10
  <2>5. CASE r \in ToSet(U)
    <3>1. r <= Len(U) /\ r \in Nat
      BY <2>1, <2>5 DEF Ids
    <3> QED BY <3>1, <2>4
  <2> QED BY <2>2, <2>3, <2>4, <2>5
<1>12. ASSUME NEW i \in 1..(L + 1), NEW j \in 1..(L + 1), NEW r \in ToSet(messages'[i].uses),
              r \in ToSet(messages'[j].uses)
       PROVE  i = j
  <2>1. \A k \in 1..L : \A x \in ToSet(messages[k].uses) : x <= Len(U) /\ x \in Nat
    <3> SUFFICES ASSUME NEW k \in 1..L, NEW x \in ToSet(messages[k].uses)
                 PROVE  x <= Len(U) /\ x \in Nat
      OBVIOUS
    <3>1. x \in ToSet(U)
      BY <1>1, <1>2, UsesAppend
    <3>2. x \in Ids
      BY <3>1, <1>10 DEF ToSet
    <3> QED BY <3>1, <3>2 DEF CompactorInv, Ids
  <2>2. \A x \in ToSet(m.uses) : x > Len(U)
    OBVIOUS
  <2>3. Len(U) \in Nat
    BY <1>10
  <2>4. CASE i \in 1..L /\ j \in 1..L
    BY <2>4, <1>4, <1>12 DEF CompactorInv
  <2> HIDE DEF U
  <2>5. CASE i \in 1..L /\ j = L + 1
    <3>1. r \in ToSet(messages[i].uses) /\ r \in ToSet(m.uses)
      BY <2>5, <1>2, <1>4, <1>12
    <3>2. r <= Len(U) /\ r > Len(U) /\ r \in Nat
      BY <2>1, <2>2, <2>5, <3>1
    <3> QED BY <2>3, <3>2
  <2>6. CASE i = L + 1 /\ j \in 1..L
    <3>1. r \in ToSet(messages[j].uses) /\ r \in ToSet(m.uses)
      BY <2>6, <1>2, <1>4, <1>12
    <3>2. r <= Len(U) /\ r > Len(U) /\ r \in Nat
      BY <2>1, <2>2, <2>6, <3>1
    <3> QED BY <2>3, <3>2
  <2> QED BY <2>4, <2>5, <2>6, <1>5
<1> QED
  <2> HIDE DEF L
  <2>1. \A i \in 1..Len(messages') : messages'[i].nr = i /\ WellMade(format', messages'[i])
    BY <1>1, <1>3, <1>8
  <2>2. \A i \in 1..Len(messages') : Follows(messages, i)'
    BY <1>3, <1>9
  <2>3. \A i, j \in 1..Len(messages') : \A r \in ToSet(messages'[i].uses) :
          r \in ToSet(messages'[j].uses) => i = j
    BY <1>3, <1>12
  <2> QED BY <2>1, <2>2, <2>3, <1>6, <1>11 DEF CompactorInv

LEMMA CompactorInitInv == CompactorInit => CompactorInv
<1> SUFFICES ASSUME CompactorInit PROVE CompactorInv
  OBVIOUS
<1>1. messages = <<>> /\ Len(messages) = 0 /\ CompactorTypeOK
  BY DEF CompactorInit, CompactorTypeOK
<1>2. Uses(messages) = <<>>
  BY <1>1 DEF Uses, FlattenSeq
<1> QED BY <1>1, <1>2 DEF CompactorInv, ToSet

(* A message without calls. *)
LEMMA SayNoCall ==
  ASSUME CompactorInv, NEW m \in Message, Say(m), WellMade(format, m), m.uses = <<>>
  PROVE  CompactorInv'
BY SayInv DEF ToSet

LEMMA InstructInv == ASSUME CompactorInv, Instruct PROVE CompactorInv'
<1>1. CASE Say(Plain("developer"))
  <2>1. "developer" \in Instructions
    BY DEF Instructions
  <2>2. WellMade(format, Plain("developer"))
    BY <2>1, PlainFacts DEF WellMade
  <2> QED BY <1>1, <2>1, <2>2, PlainFacts, SayNoCall
<1>2. ASSUME NEW txt \in {"plain", "padded", "parts"}, Say([Plain("system") EXCEPT !.text = txt])
      PROVE  CompactorInv'
  <2> DEFINE m == [Plain("system") EXCEPT !.text = txt]
  <2>1. /\ m \in Message /\ m.uses = <<>> /\ m.results = <<>> /\ m.role = "system"
        /\ m.text = txt /\ m.capsule = "no"
    <3> DEFINE p == Plain("system")
    <3>1. /\ p \in Message /\ p.role = "system" /\ p.uses = <<>> /\ p.results = <<>>
          /\ p.text = "plain" /\ p.capsule = "no"
      BY PlainFacts DEF Instructions
    <3>2. m = [p EXCEPT !.text = txt]
      OBVIOUS
    <3> HIDE DEF p, m
    <3> QED BY <3>1, <3>2 DEF Message
  <2> HIDE DEF m
  <2>3. WellMade(format, m)
    BY <2>1 DEF WellMade
  <2>2. Say(m)
    BY <1>2 DEF m
  <2> QED BY <2>1, <2>2, <2>3, SayNoCall
<1> QED BY <1>1, <1>2 DEF Instruct

(* Results the user brings are those of calls that wait for one. *)
LEMMA ResultsOf ==
  ASSUME CompactorInv, NEW rs \in SUBSET Pending(messages), rs # {}
  PROVE  LET s == Select([id \in Ids |-> id], rs) IN s \in Seq(Ids) /\ s # <<>>
<1> DEFINE ids == [id \in Ids |-> id]
           s == Select(ids, rs)
<1>1. Uses(messages) \in Seq(Ids)
  <2>1. messages \in Conversation
    BY DEF CompactorInv, CompactorTypeOK, Conversation
  <2>2. Plain("user") \in Message
    BY PlainFacts
  <2> QED BY <2>1, <2>2, UsesAppend
<1>2. rs \subseteq Ids
  BY <1>1 DEF Pending, ToSet
<1>3. ids \in Seq(Ids) /\ Len(ids) = MaxCalls /\ \A i \in Ids : ids[i] = i
  BY DEF Ids
<1> HIDE DEF ids
<1>4. s \in Seq(Ids \cap rs) /\ \E e : Places(e, s, ids, rs)
  BY <1>3, SelectPlaces
<1> HIDE DEF s
<1>5. PICK r \in rs : r \in Ids
  BY <1>2
<1>6. \E j \in 1..Len(s) : TRUE
  <2>1. r \in 1..Len(ids) /\ ids[r] \in rs
    BY <1>3, <1>5 DEF Ids
  <2> QED BY <2>1, <1>4 DEF Places
<1>7. s # <<>>
  BY <1>6
<1>8. s \in Seq(Ids)
  BY <1>4
<1> QED BY <1>7, <1>8 DEF s, ids

LEMMA AskInv == ASSUME CompactorInv, Ask PROVE CompactorInv'
<1>1. CASE Say(Plain("user"))
  <2>1. WellMade(format, Plain("user"))
    BY PlainFacts DEF WellMade
  <2> QED BY <1>1, <2>1, PlainFacts, SayNoCall
<1>2. ASSUME format = "anthropic", NEW rs \in (SUBSET Pending(messages)) \ {{}},
             NEW txt \in {"none", "plain"},
             Say([Plain("user") EXCEPT !.results = Select([id \in Ids |-> id], rs), !.text = txt])
      PROVE  CompactorInv'
  <2> DEFINE s == Select([id \in Ids |-> id], rs)
             m == [Plain("user") EXCEPT !.results = s, !.text = txt]
  <2>1. s \in Seq(Ids) /\ s # <<>>
    <3>1. rs \in SUBSET Pending(messages) /\ rs # {}
      BY <1>2
    <3> QED BY <3>1, ResultsOf
  <2> HIDE DEF s
  <2>2. /\ m \in Message /\ m.uses = <<>> /\ m.results = s /\ m.role = "user"
        /\ m.text = txt /\ m.capsule = "no"
    <3> DEFINE p == Plain("user")
    <3>1. /\ p \in Message /\ p.role = "user" /\ p.uses = <<>> /\ p.results = <<>>
          /\ p.text = "plain" /\ p.capsule = "no"
      BY PlainFacts DEF Instructions
    <3>2. m = [p EXCEPT !.results = s, !.text = txt]
      OBVIOUS
    <3> HIDE DEF p, m
    <3> QED BY <3>1, <3>2, <2>1 DEF Message
  <2> HIDE DEF m
  <2>4. WellMade(format, m)
    BY <1>2, <2>1, <2>2 DEF WellMade
  <2>3. Say(m)
    BY <1>2 DEF m, s
  <2> QED BY <2>2, <2>3, <2>4, SayNoCall
<1> QED BY <1>1, <1>2 DEF Ask

LEMMA AnswerInv == ASSUME CompactorInv, Answer PROVE CompactorInv'
<1>1. PICK n \in 0..2 : /\ Len(Uses(messages)) + n <= MaxCalls
                        /\ Say([Plain("assistant") EXCEPT !.uses = Fresh(n)])
  BY DEF Answer
<1> DEFINE U == Len(Uses(messages))
           m == [Plain("assistant") EXCEPT !.uses = Fresh(n)]
<1>2. U \in Nat
  <2>1. messages \in Conversation
    BY DEF CompactorInv, CompactorTypeOK, Conversation
  <2>2. Plain("user") \in Message
    BY PlainFacts
  <2>3. Uses(messages) \in Seq(Ids)
    BY <2>1, <2>2, UsesAppend
  <2> QED BY <2>3
<1>3. /\ Fresh(n) \in Seq(Ids) /\ Len(Fresh(n)) = n
      /\ \A r \in ToSet(Fresh(n)) : r > U /\ r <= U + n
  <2>1. Fresh(n) = [i \in 1..n |-> U + i]
    BY DEF Fresh
  <2> HIDE DEF U
  <2>2. \A i \in 1..n : U + i \in Ids /\ U + i > U /\ U + i <= U + n
    BY <1>1, <1>2 DEF Ids, U
  <2>3. Fresh(n) \in Seq(Ids) /\ Len(Fresh(n)) = n /\ \A i \in 1..n : Fresh(n)[i] = U + i
    BY <2>1, <2>2
  <2> QED BY <2>2, <2>3 DEF ToSet
<1>4. m \in Message /\ m.uses = Fresh(n) /\ WellMade(format, m)
  <2> DEFINE f == Fresh(n)
  <2>1. f \in Seq(Ids)
    BY <1>3
  <2> HIDE DEF f
  <2> DEFINE k == [Plain("assistant") EXCEPT !.uses = f]
  <2>2. /\ k \in Message /\ k.uses = f /\ k.results = <<>> /\ k.role = "assistant"
        /\ k.text = "plain" /\ k.capsule = "no"
    <3> DEFINE p == Plain("assistant")
    <3>1. /\ p \in Message /\ p.role = "assistant" /\ p.uses = <<>> /\ p.results = <<>>
          /\ p.text = "plain" /\ p.capsule = "no"
      BY PlainFacts DEF Instructions
    <3>2. k = [p EXCEPT !.uses = f]
      OBVIOUS
    <3> HIDE DEF p, k
    <3> QED BY <3>1, <3>2, <2>1 DEF Message
  <2> HIDE DEF k
  <2>3. WellMade(format, k)
    BY <2>1, <2>2 DEF WellMade
  <2> QED BY <2>2, <2>3 DEF k, f
<1> HIDE DEF m
<1>5. Say(m)
  BY <1>1 DEF m
<1> QED BY <1>3, <1>4, <1>5, SayInv

LEMMA ReturnInv == ASSUME CompactorInv, Return PROVE CompactorInv'
<1>1. PICK r \in Pending(messages) : Say([Plain("tool") EXCEPT !.results = <<r>>])
  BY DEF Return
<1> DEFINE m == [Plain("tool") EXCEPT !.results = <<r>>]
<1>2. r \in Ids
  <2>1. messages \in Conversation
    BY DEF CompactorInv, CompactorTypeOK, Conversation
  <2>2. Plain("user") \in Message
    BY PlainFacts
  <2>3. Uses(messages) \in Seq(Ids)
    BY <2>1, <2>2, UsesAppend
  <2> QED BY <2>3 DEF Pending, ToSet
<1>3. m \in Message /\ m.uses = <<>> /\ WellMade(format, m)
  <2> DEFINE s == <<r>>
  <2>1. s \in Seq(Ids) /\ format = "openai"
    BY <1>2 DEF Return
  <2> HIDE DEF s
  <2> DEFINE k == [Plain("tool") EXCEPT !.results = s]
  <2>2. /\ k \in Message /\ k.uses = <<>> /\ k.results = s /\ k.role = "tool"
        /\ k.text = "plain" /\ k.capsule = "no"
    <3> DEFINE p == Plain("tool")
    <3>1. /\ p \in Message /\ p.role = "tool" /\ p.uses = <<>> /\ p.results = <<>>
          /\ p.text = "plain" /\ p.capsule = "no"
      BY PlainFacts DEF Instructions
    <3>2. k = [p EXCEPT !.results = s]
      OBVIOUS
    <3> HIDE DEF p, k
    <3> QED BY <3>1, <3>2, <2>1 DEF Message
  <2> HIDE DEF k
  <2>3. WellMade(format, k)
    BY <2>1, <2>2 DEF WellMade
  <2> QED BY <2>2, <2>3 DEF k, s
<1> HIDE DEF m
<1>4. Say(m)
  BY <1>1 DEF m
<1> QED BY <1>3, <1>4, SayNoCall

LEMMA CompactorIsInv == CompactorSpec => []CompactorInv
<1>1. ASSUME CompactorInv, [CompactorNext]_compactorVars PROVE CompactorInv'
  <2>1. CASE CompactorNext
    BY <1>1, <2>1, InstructInv, AskInv, AnswerInv, ReturnInv DEF CompactorNext
  <2>2. CASE UNCHANGED compactorVars
    BY <1>1, <2>2 DEF compactorVars, CompactorInv, CompactorTypeOK, Follows
  <2> QED BY <1>1, <2>1, <2>2
<1> QED BY <1>1, CompactorInitInv, PTL DEF CompactorSpec

(* Conversations stay sequences of messages. *)
THEOREM CompactorTyped == CompactorSpec => []CompactorTypeOK
<1>1. CompactorInv => CompactorTypeOK
  BY DEF CompactorInv
<1> QED BY <1>1, CompactorIsInv, PTL

-----------------------------------------------------------------------------
(* What is kept, and what is put back.                                     *)

LEMMA PrefixIs ==
  ASSUME NEW ms \in Conversation
  PROVE  /\ Prefix(ms) \in 0..Len(ms)
         /\ \A i \in 1..Prefix(ms) : ms[i].role \in Instructions
         /\ Prefix(ms) < Len(ms) => ms[Prefix(ms) + 1].role \notin Instructions
<1> DEFINE L == Len(ms)
           Ends(n) == /\ \A i \in 1..n : ms[i].role \in Instructions
                      /\ n < L => ms[n + 1].role \notin Instructions
           S == {i \in 1..L : ms[i].role \notin Instructions}
<1>1. L \in Nat
  BY DEF Conversation
<1>2. \E n \in 0..L : Ends(n)
  <2>1. CASE S = {}
    <3>1. L \in 0..L /\ \A i \in 1..L : ms[i].role \in Instructions
      BY <1>1, <2>1
    <3> QED BY <3>1, <1>1
  <2>2. CASE S # {}
    <3>1. PICK x \in S : \A y \in S : x <= y
      <4>1. S \in SUBSET Nat
        OBVIOUS
      <4> HIDE DEF S
      <4> QED BY <2>2, <4>1, Least
    <3>2. x - 1 \in 0..L /\ (x - 1) + 1 = x /\ ms[x].role \notin Instructions
      BY <1>1
    <3>3. \A i \in 1..(x - 1) : i \in 1..L /\ ~(x <= i)
      BY <1>1
    <3>4. \A i \in 1..(x - 1) : ms[i].role \in Instructions
      BY <3>1, <3>3
    <3> QED BY <3>2, <3>4
  <2> QED BY <2>1, <2>2
<1>3. Prefix(ms) = CHOOSE n \in 0..L : Ends(n)
  BY DEF Prefix
<1>4. Prefix(ms) \in 0..L /\ Ends(Prefix(ms))
  <2> HIDE DEF Ends, L
  <2> QED BY <1>2, <1>3
<1> QED BY <1>4

LEMMA PlacesFinite ==
  ASSUME NEW N \in Nat, NEW S \in SUBSET (1..N)
  PROVE  IsFiniteSet(S) /\ Cardinality(S) \in Nat
<1>1. IsFiniteSet(1..N)
  BY FS_Interval
<1>2. IsFiniteSet(S)
  BY <1>1, FS_Subset
<1> QED BY <1>2, FS_CardinalityType

(* A finite set of naturals has a greatest one. *)
LEMMA Greatest ==
  ASSUME NEW N \in Nat, NEW S \in SUBSET (1..N), S # {}
  PROVE  \E x \in S : \A y \in S : y <= x
<1> DEFINE T == {u \in Nat : \A x \in S : x <= u}
<1>1. T \in SUBSET Nat /\ N \in T
  OBVIOUS
<1>2. PICK u \in T : \A v \in T : u <= v
  <2> HIDE DEF T
  <2> QED BY <1>1, Least
<1>3. CASE u \in S
  BY <1>2, <1>3
<1>4. CASE u \notin S
  <2>1. u # 0 /\ u - 1 \in Nat
    <3>1. PICK x \in S : TRUE
      OBVIOUS
    <3> QED BY <3>1
  <2>2. \A x \in S : x <= u - 1
    BY <1>4
  <2>3. u - 1 \in T
    BY <2>1, <2>2
  <2>4. u <= u - 1
    BY <1>2, <2>3
  <2> QED BY <2>1, <2>4
<1> QED BY <1>3, <1>4

Above(S, i) == {j \in S : j > i}
\* Sets of places with more than `h` elements have one with `h` above it.
HasNth(h, N) == \A S \in SUBSET (1..N) : Cardinality(S) > h =>
                  \E i \in S : Cardinality(Above(S, i)) = h

LEMMA NthFromLast ==
  ASSUME NEW N \in Nat, NEW h \in Nat
  PROVE  HasNth(h, N)
<1> DEFINE P == {n \in Nat : HasNth(n, N)}
<1>0. \A S \in SUBSET (1..N) : IsFiniteSet(S) /\ Cardinality(S) \in Nat
  BY PlacesFinite
<1>1. 0 \in P
  <2> SUFFICES ASSUME NEW S \in SUBSET (1..N), Cardinality(S) > 0
               PROVE  \E i \in S : Cardinality(Above(S, i)) = 0
    BY DEF HasNth
  <2>1. S # {}
    BY FS_EmptySet
  <2>2. PICK x \in S : \A y \in S : y <= x
    BY <2>1, Greatest
  <2>3. Above(S, x) = {}
    <3> SUFFICES ASSUME NEW j \in S, j > x PROVE FALSE
      BY DEF Above
    <3>1. j <= x /\ j \in Nat /\ x \in Nat
      BY <2>2
    <3> QED BY <3>1
  <2> QED BY <2>3, FS_EmptySet
<1>2. ASSUME NEW n \in Nat, n \in P PROVE n + 1 \in P
  <2> SUFFICES ASSUME NEW S \in SUBSET (1..N), Cardinality(S) > n + 1
               PROVE  \E i \in S : Cardinality(Above(S, i)) = n + 1
    BY DEF HasNth
  <2>1. S # {}
    BY FS_EmptySet
  <2>2. PICK x \in S : \A y \in S : y <= x
    BY <2>1, Greatest
  <2> DEFINE T == S \ {x}
  <2>3. Cardinality(T) = Cardinality(S) - 1 /\ T \in SUBSET (1..N)
    BY <1>0, <2>2, FS_RemoveElement
  <2>4. Cardinality(T) > n
    BY <2>3, <1>0
  <2>5. PICK i \in T : Cardinality(Above(T, i)) = n
    <3> HIDE DEF T
    <3> QED BY <1>2, <2>3, <2>4 DEF HasNth
  <2>6. Above(S, i) = Above(T, i) \cup {x} /\ x \notin Above(T, i)
    BY <2>2 DEF Above
  <2>7. IsFiniteSet(Above(T, i))
    <3>1. Above(T, i) \in SUBSET (1..N)
      BY DEF Above
    <3> QED BY <3>1, <1>0
  <2>8. Cardinality(Above(S, i)) = n + 1
    BY <2>5, <2>6, <2>7, FS_AddElement
  <2> QED BY <2>8
<1> HIDE DEF P
<1>3. Nat \subseteq P
  BY <1>1, <1>2, Induction
<1> QED BY <1>3 DEF P

(* The kept turns begin with a turn. *)
LEMMA FromIs ==
  ASSUME NEW ms \in Conversation, NEW h \in Nat
  PROVE  /\ From(ms, h) \in (Prefix(ms) + 1)..(Len(ms) + 1)
         /\ IF Prefix(ms) = Len(ms) THEN From(ms, h) = Prefix(ms) + 1
            ELSE From(ms, h) \in Starts(ms)
         /\ Cardinality(Starts(ms)) <= h \/ Cardinality(Above(Starts(ms), From(ms, h))) = h
         /\ Cardinality(Starts(ms)) <= h => From(ms, h) = Prefix(ms) + 1
<1> DEFINE p == Prefix(ms)
           L == Len(ms)
           S == Starts(ms)
           f == From(ms, h)
<1>1. p \in 0..L /\ L \in Nat
  BY PrefixIs DEF Conversation
<1>2. DOMAIN ms = 1..L
  BY DEF Conversation
<1>3. /\ S \in SUBSET (1..L) /\ \A i \in S : i >= p + 1
      /\ p = L => S = {}
      /\ p # L => p + 1 \in S
  <2> HIDE DEF p, L
  <2>1. S = {i \in 1..L : i = p + 1 \/ (i > p /\ Begins(ms[i]))}
    BY <1>2 DEF Starts, p
  <2> QED BY <1>1, <2>1
<1>4. Cardinality(S) \in Nat
  <2> HIDE DEF S, L
  <2> QED BY <1>1, <1>3, PlacesFinite
<1>5. f = IF Cardinality(S) <= h THEN p + 1
          ELSE CHOOSE i \in S : Cardinality({j \in S : j > i}) = h
  BY DEF From
<1> HIDE DEF f, p, L, S
<1>6. CASE Cardinality(S) <= h
  BY <1>1, <1>3, <1>5, <1>6 DEF f, p, L, S
<1>7. CASE ~(Cardinality(S) <= h)
  <2>1. \E i \in S : Cardinality(Above(S, i)) = h
    <3>1. HasNth(h, L)
      BY <1>1, NthFromLast
    <3>2. Cardinality(S) > h
      BY <1>4, <1>7
    <3> QED BY <3>1, <3>2, <1>3 DEF HasNth
  <2>2. f = CHOOSE i \in S : Cardinality(Above(S, i)) = h
    BY <1>5, <1>7 DEF Above
  <2>3. f \in S /\ Cardinality(Above(S, f)) = h
    BY <2>1, <2>2
  <2>4. p # L
    BY <2>3, <1>3
  <2>5. f \in (p + 1)..(L + 1)
    BY <2>3, <1>1, <1>3
  <2> QED BY <2>3, <2>4, <2>5, <1>7 DEF f, p, L, S
<1> QED BY <1>6, <1>7

LEMMA KeptIs ==
  ASSUME NEW ms \in Conversation, NEW h \in Nat
  PROVE  LET p == Prefix(ms)
             f == From(ms, h)
             K == Kept(ms, h)
         IN /\ K \in Conversation /\ Len(K) = p + (Len(ms) - f + 1)
            /\ \A i \in 1..p : K[i] = ms[i]
            /\ \A i \in f..Len(ms) : K[p + (i - f + 1)] = ms[i]
<1> DEFINE p == Prefix(ms)
           L == Len(ms)
           f == From(ms, h)
           a == SubSeq(ms, 1, p)
           b == SubSeq(ms, f, L)
<1>1. p \in 0..L /\ f \in (p + 1)..(L + 1) /\ L \in Nat
  <2>1. L \in Nat
    BY DEF Conversation
  <2>2. p \in 0..L
    BY PrefixIs
  <2>3. f \in (p + 1)..(L + 1)
    BY FromIs
  <2> QED BY <2>1, <2>2, <2>3
<1>2. Kept(ms, h) = a \o b
  BY DEF Kept
<1> HIDE DEF p, f
<1>3. a \in Conversation /\ Len(a) = p /\ \A i \in 1..p : a[i] = ms[i]
  BY <1>1 DEF Conversation
<1>4. b \in Conversation /\ Len(b) = L - f + 1 /\ \A k \in 1..(L - f + 1) : b[k] = ms[f + k - 1]
  BY <1>1 DEF Conversation
<1> HIDE DEF a, b, L
<1>5. /\ a \o b \in Conversation /\ Len(a \o b) = p + (L - f + 1)
      /\ (\A i \in 1..p : (a \o b)[i] = a[i])
      /\ \A k \in 1..(L - f + 1) : (a \o b)[p + k] = b[k]
  <2>1. a \in Seq(Message) /\ b \in Seq(Message)
    BY <1>3, <1>4 DEF Conversation
  <2>2. /\ a \o b \in Seq(Message) /\ Len(a \o b) = Len(a) + Len(b)
        /\ (\A i \in 1..Len(a) : (a \o b)[i] = a[i])
        /\ \A k \in 1..Len(b) : (a \o b)[Len(a) + k] = b[k]
    BY <2>1, Joined
  <2> QED BY <2>2, <1>3, <1>4 DEF Conversation
<1>6. ASSUME NEW i \in f..L PROVE (a \o b)[p + (i - f + 1)] = ms[i]
  <2>1. i - f + 1 \in 1..(L - f + 1) /\ f + (i - f + 1) - 1 = i
    BY <1>1
  <2> QED BY <2>1, <1>4, <1>5
<1> QED BY <1>2, <1>3, <1>5, <1>6 DEF p, f, L

-----------------------------------------------------------------------------
(* The repair.                                                              *)

LEMMA OrphansAre ==
  ASSUME NEW K \in Conversation, NEW i \in 1..Len(K)
  PROVE  /\ Orphans(K, i) \in Seq(Ids)
         /\ \A r : r \in ToSet(Orphans(K, i)) <=>
              r \in ToSet(K[i].results) /\ \A n \in 1..Len(K) : r \notin ToSet(K[n].uses)
<1> DEFINE s == K[i].results
           S == Ids \ ToSet(Uses(K))
           q == Select(s, S)
<1>1. s \in Seq(Ids)
  BY MessageFacts DEF Conversation
<1>2. q \in Seq(Ids \cap S) /\ \E e : Places(e, q, s, S)
  <2> HIDE DEF s, S
  <2> QED BY <1>1, SelectPlaces
<1>3. \A r : r \in ToSet(Uses(K)) <=> \E n \in 1..Len(K) : r \in ToSet(K[n].uses)
  <2>1. Plain("user") \in Message
    BY PlainFacts
  <2> QED BY <2>1, UsesAppend
<1>4. Orphans(K, i) = q
  BY DEF Orphans
<1> HIDE DEF q, s
<1>5. PICK e : Places(e, q, s, S)
  BY <1>2
<1>6. q \in Seq(Ids)
  BY <1>2
<1>7. ASSUME NEW r, r \in ToSet(q) PROVE r \in ToSet(s) /\ r \in S
  <2>1. PICK k \in 1..Len(q) : q[k] = r
    BY <1>6, <1>7 DEF ToSet
  <2>2. e[k] \in 1..Len(s) /\ q[k] = s[e[k]] /\ s[e[k]] \in S
    BY <1>5 DEF Places
  <2> HIDE DEF S
  <2> QED BY <2>1, <2>2, <1>1 DEF ToSet
<1>8. ASSUME NEW r, r \in ToSet(s), r \in S PROVE r \in ToSet(q)
  <2>1. PICK k \in 1..Len(s) : s[k] = r
    BY <1>1, <1>8 DEF ToSet
  <2>2. PICK j \in 1..Len(q) : e[j] = k
    BY <1>5, <1>8, <2>1 DEF Places
  <2>3. q[j] = r
    BY <2>1, <2>2, <1>5 DEF Places
  <2> QED BY <2>3, <1>6 DEF ToSet
<1>9. \A r : r \in ToSet(s) => r \in Ids
  BY <1>1 DEF ToSet
<1> QED BY <1>3, <1>4, <1>6, <1>7, <1>8, <1>9 DEF s

LEMMA SlimFacts ==
  ASSUME NEW r \in Ids
  PROVE  /\ Slim(r) \in Message /\ Slim(r).nr = 0 /\ Slim(r).role = "assistant"
         /\ Slim(r).uses = <<r>> /\ Slim(r).results = <<>> /\ Slim(r).text = "none"
         /\ Slim(r).capsule = "no"
<1> DEFINE p == Plain("assistant")
           u == <<r>>
<1>1. /\ p \in Message /\ p.role = "assistant" /\ p.uses = <<>> /\ p.results = <<>>
      /\ p.text = "plain" /\ p.capsule = "no" /\ p.nr = 0
  BY PlainFacts
<1>2. u \in Seq(Ids)
  OBVIOUS
<1>3. Slim(r) = [p EXCEPT !.uses = u, !.text = "none"]
  BY DEF Slim
<1> HIDE DEF p, u
<1>4. /\ Slim(r) \in Message /\ Slim(r).nr = 0 /\ Slim(r).role = "assistant"
      /\ Slim(r).uses = u /\ Slim(r).results = <<>> /\ Slim(r).text = "none"
      /\ Slim(r).capsule = "no"
  BY <1>1, <1>2, <1>3 DEF Message
<1> QED BY <1>4 DEF u

\* The repaired conversation, from what was kept: the i-th message of that ends
\* up in place o[i], and the calls of its orphans before it.
Laid(o, R, K) ==
  /\ o \in [0..Len(K) -> Nat] /\ o[0] = 0 /\ Len(R) = o[Len(K)]
  /\ \A i \in 1..Len(K) :
       /\ o[i] = o[i - 1] + Len(Orphans(K, i)) + 1 /\ o[i] <= Len(R) /\ R[o[i]] = K[i]
       /\ \A k \in 1..Len(Orphans(K, i)) : R[o[i - 1] + k] = Slim(Orphans(K, i)[k])
  /\ \A j \in 1..Len(R) : \E i \in 1..Len(K) : o[i - 1] < j /\ j <= o[i]

LEMMA RepairedIs ==
  ASSUME NEW K \in Conversation, NEW ms
  PROVE  Repaired(K, ms) \in Conversation /\ \E o : Laid(o, Repaired(K, ms), K)
<1> DEFINE Piece(i) == [k \in DOMAIN Orphans(K, i) |-> Slim(Orphans(K, i)[k])] \o <<K[i]>>
           ss == [i \in DOMAIN K |-> Piece(i)]
           R == FlattenSeq(ss)
<1>1. DOMAIN K = 1..Len(K) /\ Len(K) \in Nat /\ \A i \in 1..Len(K) : K[i] \in Message
  BY DEF Conversation
<1>2. ASSUME NEW i \in 1..Len(K)
      PROVE  /\ Piece(i) \in Seq(Message) /\ Len(Piece(i)) = Len(Orphans(K, i)) + 1
             /\ Len(Orphans(K, i)) \in Nat
             /\ Piece(i)[Len(Orphans(K, i)) + 1] = K[i]
             /\ \A k \in 1..Len(Orphans(K, i)) : Piece(i)[k] = Slim(Orphans(K, i)[k])
  <2> DEFINE q == Orphans(K, i)
             a == [k \in DOMAIN q |-> Slim(q[k])]
             b == <<K[i]>>
  <2>1. q \in Seq(Ids)
    BY OrphansAre
  <2> HIDE DEF q
  <2>2. \A k \in 1..Len(q) : Slim(q[k]) \in Message
    BY <2>1, SlimFacts
  <2>3. a \in Seq(Message) /\ Len(a) = Len(q) /\ \A k \in 1..Len(q) : a[k] = Slim(q[k])
    BY <2>1, <2>2
  <2>4. b \in Seq(Message) /\ Len(b) = 1 /\ b[1] = K[i]
    BY <1>1
  <2> HIDE DEF a, b
  <2>5. a \o b \in Seq(Message) /\ Len(a \o b) = Len(q) + 1 /\ Len(q) \in Nat
    <3>1. a \o b \in Seq(Message) /\ Len(a \o b) = Len(a) + Len(b)
      BY <2>3, <2>4, Joined
    <3>2. Len(q) \in Nat
      BY <2>1
    <3> QED BY <3>1, <3>2, <2>3, <2>4
  <2>6. (a \o b)[Len(q) + 1] = K[i] /\ \A k \in 1..Len(q) : (a \o b)[k] = Slim(q[k])
    <3>1. /\ \A k \in 1..Len(a) : (a \o b)[k] = a[k]
          /\ \A k \in 1..Len(b) : (a \o b)[Len(a) + k] = b[k]
      BY <2>3, <2>4, Joined
    <3>2. 1 \in 1..Len(b)
      BY <2>4
    <3> QED BY <3>1, <3>2, <2>3, <2>4
  <2>7. Piece(i) = a \o b
    BY DEF a, b, q
  <2> HIDE DEF Piece
  <2> QED BY <2>5, <2>6, <2>7 DEF q
<1> HIDE DEF Piece
<1>3. ss \in Seq(Seq(Message)) /\ Len(ss) = Len(K) /\ \A i \in 1..Len(K) : ss[i] = Piece(i)
  BY <1>1, <1>2
<1>4. Repaired(K, ms) = R
  BY DEF Repaired, Piece
<1> HIDE DEF ss
<1>5. R \in Seq(Message) /\ \E o : Spread(o, R, ss)
  BY <1>3, FlattenSpread
<1> HIDE DEF R
<1>6. PICK o : Spread(o, R, ss)
  BY <1>5
<1>7. ASSUME NEW i \in 1..Len(K)
      PROVE  /\ o[i] = o[i - 1] + Len(Orphans(K, i)) + 1 /\ o[i] <= Len(R) /\ R[o[i]] = K[i]
             /\ \A k \in 1..Len(Orphans(K, i)) : R[o[i - 1] + k] = Slim(Orphans(K, i)[k])
  <2> DEFINE n == Len(Orphans(K, i))
             a == o[i - 1]
  <2>1. a \in Nat
    <3>1. i - 1 \in 0..Len(K)
      BY <1>1
    <3> QED BY <3>1, <1>3, <1>6 DEF Spread
  <2>2. o[i] = a + Len(ss[i]) /\ o[i] <= Len(R) /\ \A k \in 1..Len(ss[i]) : R[a + k] = ss[i][k]
    BY <1>3, <1>6 DEF Spread
  <2>3. /\ Len(ss[i]) = n + 1 /\ n \in Nat /\ ss[i][n + 1] = K[i]
        /\ \A k \in 1..n : ss[i][k] = Slim(Orphans(K, i)[k])
    BY <1>2, <1>3
  <2> HIDE DEF a, n
  <2>4. o[i] = a + n + 1 /\ n + 1 \in 1..(n + 1) /\ \A k \in 1..n : k \in 1..(n + 1)
    BY <2>1, <2>2, <2>3
  <2>5. R[a + (n + 1)] = K[i] /\ a + (n + 1) = o[i]
    BY <2>1, <2>2, <2>3, <2>4
  <2>6. \A k \in 1..n : R[a + k] = Slim(Orphans(K, i)[k])
    BY <2>2, <2>3, <2>4
  <2> QED BY <2>2, <2>4, <2>5, <2>6 DEF a, n
<1>8. /\ o \in [0..Len(K) -> Nat] /\ o[0] = 0 /\ Len(R) = o[Len(K)]
      /\ \A j \in 1..Len(R) : \E i \in 1..Len(K) : o[i - 1] < j /\ j <= o[i]
  BY <1>3, <1>6 DEF Spread
<1>9. Laid(o, R, K)
  BY <1>7, <1>8 DEF Laid
<1> QED BY <1>4, <1>5, <1>9 DEF Conversation

(* What climbs at each step climbs. *)
LEMMA Climbing ==
  ASSUME NEW N \in Nat, NEW o \in [0..N -> Nat], \A i \in 1..N : o[i - 1] < o[i]
  PROVE  \A i, k \in 0..N : i < k => o[i] < o[k]
<1> DEFINE P == {k \in 0..N : \A i \in 0..N : i < k => o[i] < o[k]}
<1>1. 0 \in P
  OBVIOUS
<1>2. ASSUME NEW k \in 1..N, k - 1 \in P PROVE k \in P
  <2>1. k - 1 \in 0..N /\ o[k - 1] < o[k] /\ k \in 0..N
    OBVIOUS
  <2> SUFFICES ASSUME NEW i \in 0..N, i < k PROVE o[i] < o[k]
    BY <2>1
  <2>2. i = k - 1 \/ o[i] < o[k - 1]
    BY <1>2
  <2>3. o[i] \in Nat /\ o[k] \in Nat /\ o[k - 1] \in Nat
    BY <2>1
  <2>4. CASE i = k - 1
    BY <2>1, <2>4
  <2>5. CASE o[i] < o[k - 1]
    <3> DEFINE x == o[i]
               a == o[k - 1]
               z == o[k]
    <3>1. x < a /\ a < z /\ x \in Nat /\ a \in Nat /\ z \in Nat
      BY <2>1, <2>3, <2>5
    <3> HIDE DEF x, a, z
    <3>2. x < z
      BY <3>1
    <3> QED BY <3>2 DEF x, z
  <2> QED BY <2>2, <2>4, <2>5
<1> HIDE DEF P
<1>3. 0..N \subseteq P
  BY <1>1, <1>2, BoundedInduction
<1> QED BY <1>3 DEF P

LEMMA LaidClimbs ==
  ASSUME NEW K \in Conversation, NEW R \in Conversation, NEW o, Laid(o, R, K)
  PROVE  /\ \A i \in 1..Len(K) : o[i] \in 1..Len(R) /\ o[i - 1] \in Nat /\ o[i - 1] < o[i]
         /\ \A i, k \in 1..Len(K) : i < k => o[i] < o[k] /\ o[i] <= o[k - 1]
         /\ \A j \in 1..Len(R) :
              \/ \E i \in 1..Len(K) : j = o[i]
              \/ \E i \in 1..Len(K) : /\ o[i - 1] < j /\ j < o[i]
                                      /\ \E r \in ToSet(Orphans(K, i)) : R[j] = Slim(r)
         /\ \A i \in 1..Len(K) : \A r \in ToSet(Orphans(K, i)) :
              \E j \in 1..Len(R) : o[i - 1] < j /\ j < o[i] /\ R[j] = Slim(r)
<1> DEFINE N == Len(K)
<1>1. N \in Nat /\ Len(R) \in Nat /\ \A i \in 1..N : i \in 0..N /\ i - 1 \in 0..N
  BY DEF Conversation
<1>2. o \in [0..N -> Nat]
  BY DEF Laid
<1>3. ASSUME NEW i \in 1..N
      PROVE  /\ o[i] \in Nat /\ o[i - 1] \in Nat /\ o[i] <= Len(R)
             /\ o[i] = o[i - 1] + Len(Orphans(K, i)) + 1 /\ Orphans(K, i) \in Seq(Ids)
             /\ \A k \in 1..Len(Orphans(K, i)) : R[o[i - 1] + k] = Slim(Orphans(K, i)[k])
  BY <1>1, <1>2, OrphansAre DEF Laid
<1>4. ASSUME NEW i \in 1..N PROVE o[i] \in 1..Len(R) /\ o[i - 1] < o[i]
  <2> DEFINE a == o[i - 1]
             z == o[i]
             n == Len(Orphans(K, i))
  <2>1. a \in Nat /\ z \in Nat /\ n \in Nat /\ z = a + n + 1 /\ z <= Len(R)
    BY <1>3
  <2> HIDE DEF a, z, n
  <2>2. z \in 1..Len(R) /\ a < z
    BY <2>1, <1>1
  <2> QED BY <2>2 DEF a, z
<1>5. \A i, k \in 0..N : i < k => o[i] < o[k]
  BY <1>1, <1>2, <1>4, Climbing
<1>6. ASSUME NEW i \in 1..N, NEW k \in 1..N, i < k PROVE o[i] < o[k] /\ o[i] <= o[k - 1]
  <2>1. i = k - 1 \/ i < k - 1
    BY <1>6
  <2>2. o[i] \in Nat /\ o[k - 1] \in Nat /\ o[k] \in Nat
    BY <1>3
  <2>3. i < k - 1 => o[i] < o[k - 1]
    BY <1>1, <1>5
  <2> QED BY <1>1, <1>5, <1>6, <2>1, <2>2, <2>3
<1>7. ASSUME NEW j \in 1..Len(R)
      PROVE  \/ \E i \in 1..N : j = o[i]
             \/ \E i \in 1..N : /\ o[i - 1] < j /\ j < o[i]
                                /\ \E r \in ToSet(Orphans(K, i)) : R[j] = Slim(r)
  <2>1. PICK i \in 1..N : o[i - 1] < j /\ j <= o[i]
    BY DEF Laid
  <2>2. CASE j = o[i]
    BY <2>2
  <2>3. CASE j # o[i]
    <3> DEFINE a == o[i - 1]
               z == o[i]
               q == Orphans(K, i)
    <3>1. /\ a \in Nat /\ z \in Nat /\ q \in Seq(Ids) /\ z = a + Len(q) + 1 /\ a < j /\ j < z
          /\ \A k \in 1..Len(q) : R[a + k] = Slim(q[k])
      BY <1>3, <2>1, <2>3
    <3> HIDE DEF a, z, q
    <3>2. j - a \in 1..Len(q) /\ a + (j - a) = j
      BY <3>1
    <3>3. R[j] = Slim(q[j - a]) /\ q[j - a] \in ToSet(q)
      <4>1. R[a + (j - a)] = Slim(q[j - a])
        BY <3>1, <3>2
      <4> QED BY <4>1, <3>1, <3>2 DEF ToSet
    <3>4. a < j /\ j < z /\ \E r \in ToSet(q) : R[j] = Slim(r)
      BY <3>1, <3>3
    <3> QED BY <3>4 DEF a, z, q
  <2> QED BY <2>2, <2>3
<1>8. ASSUME NEW i \in 1..N, NEW r \in ToSet(Orphans(K, i))
      PROVE  \E j \in 1..Len(R) : o[i - 1] < j /\ j < o[i] /\ R[j] = Slim(r)
  <2> DEFINE a == o[i - 1]
             z == o[i]
             q == Orphans(K, i)
  <2>1. /\ a \in Nat /\ z \in Nat /\ q \in Seq(Ids) /\ z = a + Len(q) + 1 /\ z <= Len(R)
        /\ \A k \in 1..Len(q) : R[a + k] = Slim(q[k])
    BY <1>3
  <2>2. r \in ToSet(q)
    OBVIOUS
  <2> HIDE DEF a, z, q
  <2>3. PICK k \in 1..Len(q) : q[k] = r
    BY <2>1, <2>2 DEF ToSet
  <2>4. a + k \in 1..Len(R) /\ a < a + k /\ a + k < z /\ R[a + k] = Slim(r)
    BY <2>1, <2>3, <1>1
  <2> QED BY <2>4 DEF a, z
<1> QED BY <1>3, <1>4, <1>6, <1>7, <1>8

-----------------------------------------------------------------------------
(* Conversations as clients have them.                                      *)

KeptNrs(h) == (1..Prefix(messages)) \cup (From(messages, h)..Len(messages))
\* Calls that are kept.
CallKept(r, h) == \E n \in KeptNrs(h) : r \in ToSet(messages[n].uses)

LEMMA MessagesFacts ==
  ASSUME CompactorInv
  PROVE  /\ messages \in Conversation /\ Len(messages) \in Nat
         /\ \A i \in 1..Len(messages) : messages[i] \in Message /\ messages[i].nr = i
                                        /\ WellMade(format, messages[i])
BY DEF CompactorInv, CompactorTypeOK, Conversation

LEMMA KeptPlaces ==
  ASSUME CompactorInv, NEW h \in Nat
  PROVE  /\ Prefix(messages) \in 0..Len(messages)
         /\ From(messages, h) \in (Prefix(messages) + 1)..(Len(messages) + 1)
         /\ KeptNrs(h) \subseteq 1..Len(messages)
<1>1. messages \in Conversation /\ Len(messages) \in Nat
  BY MessagesFacts
<1>2. Prefix(messages) \in 0..Len(messages)
  BY <1>1, PrefixIs
<1>3. From(messages, h) \in (Prefix(messages) + 1)..(Len(messages) + 1)
  BY <1>1, FromIs
<1> DEFINE p == Prefix(messages)
           f == From(messages, h)
           L == Len(messages)
<1>4. p \in 0..L /\ f \in (p + 1)..(L + 1) /\ L \in Nat
  BY <1>1, <1>2, <1>3
<1> HIDE DEF p, f, L
<1>5. (1..p) \cup (f..L) \subseteq 1..L
  BY <1>4
<1> QED BY <1>2, <1>3, <1>5 DEF KeptNrs, p, f, L

LEMMA KeptMessages ==
  ASSUME CompactorInv, NEW h \in Nat
  PROVE  LET K == Kept(messages, h) IN
         /\ K \in Conversation
         /\ \A i \in 1..Len(K) : K[i].nr \in KeptNrs(h) /\ K[i] = messages[K[i].nr]
         /\ \A i, k \in 1..Len(K) : i < k => K[i].nr < K[k].nr
         /\ \A n \in KeptNrs(h) : \E i \in 1..Len(K) : K[i].nr = n
<1> DEFINE p == Prefix(messages)
           L == Len(messages)
           f == From(messages, h)
           K == Kept(messages, h)
           M == Len(K)
           Src(i) == IF i <= p THEN i ELSE i - p + f - 1
<1>1. p \in 0..L /\ f \in (p + 1)..(L + 1) /\ L \in Nat
  <2>1. L \in Nat
    BY MessagesFacts
  <2> QED BY <2>1, KeptPlaces
<1>2. /\ K \in Conversation /\ M = p + (L - f + 1)
      /\ \A i \in 1..p : K[i] = messages[i]
      /\ \A i \in f..L : K[p + (i - f + 1)] = messages[i]
  <2>1. messages \in Conversation
    BY MessagesFacts
  <2> QED BY <2>1, KeptIs
<1>3. \A i \in 1..L : messages[i].nr = i
  BY MessagesFacts
<1>4. KeptNrs(h) = (1..p) \cup (f..L)
  BY DEF KeptNrs
<1> HIDE DEF p, L, f, K, M
<1>5. ASSUME NEW i \in 1..M
      PROVE  /\ Src(i) \in (1..p) \cup (f..L) /\ Src(i) \in 1..L
             /\ K[i] = messages[Src(i)] /\ K[i].nr = Src(i)
  <2>1. CASE i <= p
    <3>1. i \in 1..p /\ i \in 1..L /\ Src(i) = i
      BY <1>1, <1>2, <2>1
    <3> QED BY <3>1, <1>2, <1>3
  <2>2. CASE ~(i <= p)
    <3> DEFINE m == i - p + f - 1
    <3>1. m \in f..L /\ m \in 1..L /\ Src(i) = m /\ p + (m - f + 1) = i
      BY <1>1, <1>2, <2>2
    <3> HIDE DEF m, Src
    <3> QED BY <3>1, <1>2, <1>3
  <2> QED BY <2>1, <2>2
<1>6. ASSUME NEW i \in 1..M, NEW k \in 1..M, i < k PROVE Src(i) < Src(k)
  BY <1>1, <1>2, <1>6
<1>7. ASSUME NEW n \in (1..p) \cup (f..L) PROVE \E i \in 1..M : Src(i) = n
  <2>1. CASE n \in 1..p
    <3>1. n \in 1..M /\ Src(n) = n
      BY <1>1, <1>2, <2>1
    <3> QED BY <3>1
  <2>2. CASE n \in f..L
    <3> DEFINE i == p + (n - f + 1)
    <3>1. i \in 1..M /\ Src(i) = n
      BY <1>1, <1>2, <2>2
    <3> QED BY <3>1
  <2> QED BY <2>1, <2>2
<1> HIDE DEF Src
<1>8. \A i \in 1..M : K[i].nr \in KeptNrs(h) /\ K[i] = messages[K[i].nr]
  BY <1>4, <1>5
<1>9. \A i, k \in 1..M : i < k => K[i].nr < K[k].nr
  BY <1>5, <1>6
<1>10. \A n \in KeptNrs(h) : \E i \in 1..M : K[i].nr = n
  BY <1>4, <1>5, <1>7
<1> QED BY <1>2, <1>8, <1>9, <1>10 DEF K, M

\* What is made of a client's conversation, before the capsule is pinned: what
\* is kept, as it was and in its order, and between, before the results that
\* need them, the calls that are not kept.
Shape(R, h) ==
  /\ R \in Conversation
  /\ \A j \in 1..Len(R) : R[j].nr > 0 => R[j].nr \in KeptNrs(h) /\ R[j] = messages[R[j].nr]
  /\ \A j, k \in 1..Len(R) : j < k /\ R[j].nr > 0 /\ R[k].nr > 0 => R[j].nr < R[k].nr
  /\ \A n \in KeptNrs(h) : \E j \in 1..Len(R) : R[j].nr = n
  /\ \A j \in 1..Len(R) : R[j].nr = 0 =>
       \E r \in Ids : /\ R[j] = Slim(r) /\ ~CallKept(r, h)
                      /\ \E k \in 1..Len(R) : /\ j < k /\ r \in ToSet(R[k].results)
                                              /\ \A l \in j..(k - 1) : R[l].nr = 0
  /\ \A k \in 1..Len(R) : \A r \in ToSet(R[k].results) : ~CallKept(r, h) =>
       \E j \in 1..(k - 1) : R[j] = Slim(r)

LEMMA RepairedShape ==
  ASSUME CompactorInv, NEW h \in Nat
  PROVE  Shape(Repaired(Kept(messages, h), messages), h)
<1> DEFINE K == Kept(messages, h)
           R == Repaired(K, messages)
           N == Len(K)
<1>1. /\ K \in Conversation
      /\ \A i \in 1..N : K[i].nr \in KeptNrs(h) /\ K[i] = messages[K[i].nr]
      /\ \A i, k \in 1..N : i < k => K[i].nr < K[k].nr
      /\ \A n \in KeptNrs(h) : \E i \in 1..N : K[i].nr = n
  BY KeptMessages
<1>2. KeptNrs(h) \subseteq 1..Len(messages)
  BY KeptPlaces
<1> HIDE DEF K
<1>3. R \in Conversation /\ \E o : Laid(o, R, K)
  BY <1>1, RepairedIs
<1> HIDE DEF R
<1>4. PICK o : Laid(o, R, K)
  BY <1>3
<1>5. \A i \in 1..N : /\ o[i] \in 1..Len(R) /\ R[o[i]] = K[i]
                      /\ o[i - 1] \in Nat /\ o[i - 1] < o[i]
  BY <1>1, <1>3, <1>4, LaidClimbs DEF Laid
<1>6. \A i, k \in 1..N : i < k => o[i] < o[k] /\ o[i] <= o[k - 1]
  BY <1>1, <1>3, <1>4, LaidClimbs
<1>7. \A j \in 1..Len(R) :
        \/ \E i \in 1..N : j = o[i]
        \/ \E i \in 1..N : /\ o[i - 1] < j /\ j < o[i]
                           /\ \E r \in ToSet(Orphans(K, i)) : R[j] = Slim(r)
  BY <1>1, <1>3, <1>4, LaidClimbs
<1>8. \A i \in 1..N : \A r \in ToSet(Orphans(K, i)) :
        \E j \in 1..Len(R) : o[i - 1] < j /\ j < o[i] /\ R[j] = Slim(r)
  <2>1. K \in Conversation
    BY <1>1
  <2> QED BY <2>1, <1>3, <1>4, LaidClimbs
<1>9. \A r : CallKept(r, h) <=> \E n \in 1..N : r \in ToSet(K[n].uses)
  BY <1>1 DEF CallKept
<1>10. \A i \in 1..N : \A r : r \in ToSet(Orphans(K, i)) <=>
          r \in ToSet(K[i].results) /\ ~CallKept(r, h)
  BY <1>1, <1>9, OrphansAre
<1>11. \A i \in 1..N : \A r \in ToSet(Orphans(K, i)) : r \in Ids
  BY <1>1, OrphansAre DEF ToSet
<1>12. \A i \in 1..N : K[i].nr > 0
  BY <1>1, <1>2
<1>13. \A r \in Ids : Slim(r).nr = 0 /\ ToSet(Slim(r).results) = {}
  BY SlimFacts DEF ToSet
<1>14. ASSUME NEW j \in 1..Len(R)
       PROVE  \/ R[j].nr > 0 /\ \E i \in 1..N : j = o[i] /\ R[j] = K[i]
              \/ /\ R[j].nr = 0
                 /\ \E i \in 1..N : /\ o[i - 1] < j /\ j < o[i]
                                    /\ \E r \in ToSet(Orphans(K, i)) : R[j] = Slim(r)
  <2>1. ASSUME NEW i \in 1..N, j = o[i] PROVE R[j].nr > 0 /\ R[j] = K[i]
    BY <1>5, <1>12, <2>1
  <2>2. ASSUME NEW i \in 1..N, NEW r \in ToSet(Orphans(K, i)), R[j] = Slim(r) PROVE R[j].nr = 0
    BY <1>11, <1>13, <2>2
  <2> QED BY <1>7, <2>1, <2>2
<1>15. \A j \in 1..Len(R) : R[j].nr \in Nat
  BY <1>3, MessageFacts DEF Conversation
<1>16. ASSUME NEW j \in 1..Len(R), R[j].nr > 0
       PROVE  \E i \in 1..N : j = o[i] /\ R[j] = K[i]
  BY <1>14, <1>15, <1>16
<1>17. \A j \in 1..Len(R) : R[j].nr > 0 => R[j].nr \in KeptNrs(h) /\ R[j] = messages[R[j].nr]
  BY <1>1, <1>16
<1>18. ASSUME NEW j \in 1..Len(R), NEW k \in 1..Len(R), j < k, R[j].nr > 0, R[k].nr > 0
       PROVE  R[j].nr < R[k].nr
  <2>1. PICK a \in 1..N : j = o[a] /\ R[j] = K[a]
    BY <1>16, <1>18
  <2>2. PICK b \in 1..N : k = o[b] /\ R[k] = K[b]
    BY <1>16, <1>18
  <2>3. ~(b < a) /\ a # b
    <3>1. b < a => o[b] < o[a]
      BY <1>6
    <3>2. ~(k < j) /\ j # k
      BY <1>18
    <3> QED BY <2>1, <2>2, <3>1, <3>2
  <2>4. a < b
    BY <2>3
  <2> QED BY <1>1, <2>1, <2>2, <2>4
<1>19. \A n \in KeptNrs(h) : \E j \in 1..Len(R) : R[j].nr = n
  BY <1>1, <1>5
<1>20. ASSUME NEW j \in 1..Len(R), R[j].nr = 0
       PROVE  \E r \in Ids : /\ R[j] = Slim(r) /\ ~CallKept(r, h)
                             /\ \E k \in 1..Len(R) : /\ j < k /\ r \in ToSet(R[k].results)
                                                     /\ \A l \in j..(k - 1) : R[l].nr = 0
  <2>1. PICK i \in 1..N : /\ o[i - 1] < j /\ j < o[i]
                          /\ \E r \in ToSet(Orphans(K, i)) : R[j] = Slim(r)
    BY <1>14, <1>20
  <2>2. PICK r \in ToSet(Orphans(K, i)) : R[j] = Slim(r)
    BY <2>1
  <2>3. r \in Ids /\ r \in ToSet(K[i].results) /\ ~CallKept(r, h)
    BY <1>10, <1>11
  <2>4. o[i] \in 1..Len(R) /\ R[o[i]] = K[i] /\ j < o[i]
    BY <1>5, <2>1
  <2>5. ASSUME NEW l \in j..(o[i] - 1) PROVE R[l].nr = 0
    <3>1. l \in 1..Len(R) /\ o[i - 1] < l /\ l < o[i]
      BY <2>1, <2>4, <1>5
    <3>2. ASSUME NEW a \in 1..N, l = o[a] PROVE FALSE
      <4>1. a \in 1..N /\ i \in 1..N
        OBVIOUS
      <4>2. a < i => o[a] <= o[i - 1]
        BY <1>6
      <4>3. i < a => o[i] < o[a]
        BY <1>6
      <4>4. o[a] \in Nat /\ o[i] \in Nat /\ o[i - 1] \in Nat
        BY <1>5
      <4>5. ~(a < i) /\ a # i /\ ~(i < a)
        BY <3>1, <3>2, <4>2, <4>3, <4>4
      <4> QED BY <4>1, <4>5
    <3> QED BY <3>1, <3>2, <1>14
  <2> QED BY <2>2, <2>3, <2>4, <2>5
<1>21. ASSUME NEW k \in 1..Len(R), NEW r \in ToSet(R[k].results), ~CallKept(r, h)
       PROVE  \E j \in 1..(k - 1) : R[j] = Slim(r)
  <2>1. CASE R[k].nr = 0
    <3>1. PICK x \in Ids : R[k] = Slim(x)
      BY <1>20, <2>1
    <3> QED BY <3>1, <1>13
  <2>2. CASE R[k].nr > 0
    <3>1. PICK i \in 1..N : k = o[i] /\ R[k] = K[i]
      BY <1>16, <2>2
    <3>2. r \in ToSet(Orphans(K, i))
      BY <1>10, <1>21, <3>1
    <3>3. PICK j \in 1..Len(R) : o[i - 1] < j /\ j < o[i] /\ R[j] = Slim(r)
      BY <1>8, <3>2
    <3>4. j \in 1..(k - 1)
      BY <3>1, <3>3
    <3> QED BY <3>3, <3>4
  <2> QED BY <2>1, <2>2, <1>15
<1>22. Shape(R, h)
  BY <1>3, <1>17, <1>18, <1>19, <1>20, <1>21 DEF Shape
<1> QED BY <1>22 DEF R, K

(* What is whole stays whole.                                               *)
LEMMA ShapeWhole ==
  ASSUME CompactorInv, Valid(messages), NEW h \in Nat, NEW R, Shape(R, h)
  PROVE  Whole(R)
<1> DEFINE L == Len(messages)
           p == Prefix(messages)
           f == From(messages, h)
<1>1. /\ messages \in Conversation /\ L \in Nat
      /\ \A i \in 1..L : messages[i].nr = i /\ WellMade(format, messages[i])
  BY MessagesFacts
<1>2. Whole(messages)
  BY <1>1, ValidIsWhole
<1>3. p \in 0..L /\ f \in (p + 1)..(L + 1) /\ KeptNrs(h) \subseteq 1..L
  BY KeptPlaces
<1>4. R \in Conversation /\ Len(R) \in Nat /\ \A j \in 1..Len(R) : R[j].nr \in Nat
  BY MessageFacts DEF Shape, Conversation
<1>5. \A j \in 1..Len(R) : R[j].nr > 0 =>
        R[j].nr \in KeptNrs(h) /\ R[j].nr \in 1..L /\ R[j] = messages[R[j].nr]
  BY <1>3 DEF Shape
<1>6. \A j, k \in 1..Len(R) : j < k /\ R[j].nr > 0 /\ R[k].nr > 0 => R[j].nr < R[k].nr
  BY DEF Shape
<1>7. \A n \in KeptNrs(h) : \E j \in 1..Len(R) : R[j].nr = n
  BY DEF Shape
<1>8. \A j \in 1..Len(R) : R[j].nr = 0 =>
        \E r \in Ids : /\ R[j] = Slim(r) /\ ~CallKept(r, h)
                       /\ \E k \in 1..Len(R) : /\ j < k /\ r \in ToSet(R[k].results)
                                               /\ \A l \in j..(k - 1) : R[l].nr = 0
  BY DEF Shape
<1>9. \A k \in 1..Len(R) : \A r \in ToSet(R[k].results) : ~CallKept(r, h) =>
        \E j \in 1..(k - 1) : R[j] = Slim(r)
  BY DEF Shape
<1>10. \A r \in Ids : /\ ToSet(Slim(r).results) = {} /\ ToSet(Slim(r).uses) = {r}
                      /\ Slim(r).role = "assistant" /\ r \in ToSet(Slim(r).uses)
  BY SlimFacts DEF ToSet
<1>11. \A i, j \in 1..L : \A r \in ToSet(messages[i].uses) :
         r \in ToSet(messages[j].uses) => i = j
  BY DEF CompactorInv
<1>12. \A i \in 1..p : ToSet(messages[i].uses) = {}
  <2> SUFFICES ASSUME NEW i \in 1..p PROVE ToSet(messages[i].uses) = {}
    OBVIOUS
  <2>1. messages[i].role \in Instructions
    BY <1>1, PrefixIs
  <2>2. i \in 1..L
    BY <1>3
  <2>3. messages[i].uses = <<>>
    BY <1>1, <2>1, <2>2 DEF WellMade, Instructions
  <2> QED BY <2>3 DEF ToSet
<1> HIDE DEF p, f, L
\* The place of a kept message, and places in order.
<1>13. ASSUME NEW j \in 1..Len(R), NEW k \in 1..Len(R), R[j].nr > 0, R[k].nr > 0,
              R[j].nr < R[k].nr
       PROVE  j < k
  <2>1. k < j => R[k].nr < R[j].nr
    BY <1>6, <1>13
  <2>2. j # k /\ ~(k < j)
    BY <2>1, <1>4, <1>13
  <2> QED BY <2>2
\* A result that is kept follows its call, and no other result of it.
<1>14. ASSUME NEW i \in 1..Len(R), NEW r \in ToSet(R[i].results)
       PROVE  /\ \E j \in 1..(i - 1) : Calls(r, R, j)
              /\ \A j \in 1..(i - 1) : ~Brings(r, R, j)
  <2> DEFINE n == R[i].nr
  <2>1. n > 0
    <3>1. n \in Nat
      BY <1>4
    <3>2. n # 0
      <4> SUFFICES ASSUME R[i].nr = 0 PROVE FALSE
        OBVIOUS
      <4>1. PICK x \in Ids : R[i] = Slim(x)
        BY <1>8
      <4> QED BY <4>1, <1>10
    <3> QED BY <3>1, <3>2
  <2>2. n \in KeptNrs(h) /\ n \in 1..L /\ R[i] = messages[n]
    BY <1>5, <2>1
  <2> HIDE DEF n
  <2>3. /\ \E j \in 1..(n - 1) : Calls(r, messages, j)
        /\ \A j \in 1..(n - 1) : ~Brings(r, messages, j)
    <3>1. r \in ToSet(messages[n].results)
      BY <2>2
    <3> QED BY <3>1, <1>2, <2>2 DEF Whole, L
  <2>4. \E j \in 1..(i - 1) : Calls(r, R, j)
    <3>1. CASE ~CallKept(r, h)
      <4>1. PICK j \in 1..(i - 1) : R[j] = Slim(r)
        BY <1>9, <3>1
      <4>2. r \in Ids
        <5>1. R[i].results \in Seq(Ids)
          BY <1>4, MessageFacts DEF Conversation
        <5> QED BY <5>1 DEF ToSet
      <4> QED BY <4>1, <4>2, <1>10 DEF Calls
    <3>2. CASE CallKept(r, h)
      <4>1. PICK m \in KeptNrs(h) : r \in ToSet(messages[m].uses)
        BY <3>2 DEF CallKept
      <4>2. PICK j0 \in 1..(n - 1) : r \in ToSet(messages[j0].uses)
        BY <2>3 DEF Calls
      <4>3. j0 \in 1..L /\ m \in 1..L
        BY <1>1, <1>3, <2>2
      <4>4. m = j0
        BY <1>11, <4>1, <4>2, <4>3
      <4>5. m < n /\ m > 0 /\ n > 0
        BY <4>2, <4>4, <2>2
      <4>6. PICK j \in 1..Len(R) : R[j].nr = m
        BY <1>7
      <4>7. R[j] = messages[m]
        BY <1>5, <4>5, <4>6
      <4>8. j < i
        BY <1>13, <4>5, <4>6 DEF n
      <4>9. j \in 1..(i - 1)
        BY <4>8, <1>4
      <4> QED BY <4>1, <4>7, <4>9 DEF Calls
    <3> QED BY <3>1, <3>2
  <2>5. ASSUME NEW j \in 1..(i - 1) PROVE ~Brings(r, R, j)
    <3>1. j \in 1..Len(R) /\ j < i
      BY <1>4
    <3>2. CASE R[j].nr = 0
      BY <1>8, <1>10, <3>1, <3>2 DEF Brings
    <3>3. CASE R[j].nr > 0
      <4>1. R[j] = messages[R[j].nr] /\ R[j].nr < n
        BY <1>5, <1>6, <2>1, <3>1, <3>3 DEF n
      <4>2. R[j].nr \in 1..(n - 1)
        BY <1>4, <2>2, <3>1, <3>3, <4>1
      <4> QED BY <2>3, <4>1, <4>2 DEF Brings
    <3> QED BY <1>4, <3>1, <3>2, <3>3
  <2> QED BY <2>4, <2>5
\* A call that is kept is answered by what is kept, no later than it was.
<1>15. ASSUME NEW j \in 1..Len(R), R[j].nr > 0, NEW r \in ToSet(R[j].uses),
              NEW m \in 1..L, r \in ToSet(messages[m].results)
       PROVE  \E k \in 1..Len(R) : R[k].nr = m /\ r \in ToSet(R[k].results)
  <2> DEFINE n == R[j].nr
  <2>1. n \in KeptNrs(h) /\ n \in 1..L /\ R[j] = messages[n]
    BY <1>5, <1>15
  <2> HIDE DEF n
  <2>2. r \in ToSet(messages[n].uses)
    BY <2>1
  <2>3. PICK j0 \in 1..(m - 1) : r \in ToSet(messages[j0].uses)
    BY <1>2, <1>15 DEF Whole, Calls, L
  <2>4. j0 = n
    <3>1. j0 \in 1..L
      BY <1>1
    <3> QED BY <3>1, <2>1, <2>2, <2>3, <1>11
  <2>5. n \notin 1..p
    BY <1>12, <2>2
  <2>6. n \in f..L
    BY <2>1, <2>5 DEF KeptNrs, p, f, L
  <2>7. m \in f..L
    BY <2>3, <2>4, <2>6, <1>1, <1>3
  <2>8. m \in KeptNrs(h)
    BY <2>7 DEF KeptNrs, f, L
  <2>9. PICK k \in 1..Len(R) : R[k].nr = m
    BY <1>7, <2>8
  <2>10. R[k] = messages[m]
    BY <1>5, <2>9
  <2> QED BY <2>9, <2>10, <1>15
<1>16. ASSUME NEW j \in 1..Len(R), NEW r \in ToSet(R[j].uses)
       PROVE  \E k \in 1..Len(R) : Brings(r, R, k)
  <2>1. CASE R[j].nr = 0
    <3>1. PICK x \in Ids : /\ R[j] = Slim(x)
                           /\ \E k \in 1..Len(R) : x \in ToSet(R[k].results)
      BY <1>8, <2>1
    <3> QED BY <3>1, <1>10 DEF Brings
  <2>2. CASE R[j].nr > 0
    <3>1. PICK m \in 1..L : r \in ToSet(messages[m].results)
      BY <1>2, <1>5, <2>2 DEF Whole, Brings, L
    <3> QED BY <1>15, <2>2, <3>1 DEF Brings
  <2> QED BY <1>4, <2>1, <2>2
<1>17. ASSUME NEW i \in 1..Len(R), NEW j \in 1..Len(R), NEW r \in ToSet(R[j].uses),
              format = "openai", R[i].role = "user", j < i
       PROVE  \E k \in 1..(i - 1) : Brings(r, R, k)
  <2> DEFINE n == R[i].nr
  <2>1. n > 0
    BY <1>4, <1>8, <1>10, <1>17
  <2>2. n \in 1..L /\ R[i] = messages[n]
    BY <1>5, <2>1
  <2>3. CASE R[j].nr = 0
    <3>1. PICK x \in Ids : /\ R[j] = Slim(x)
                           /\ \E k \in 1..Len(R) : /\ j < k /\ x \in ToSet(R[k].results)
                                                   /\ \A l \in j..(k - 1) : R[l].nr = 0
      BY <1>8, <2>3
    <3>2. PICK k \in 1..Len(R) : /\ j < k /\ x \in ToSet(R[k].results)
                                 /\ \A l \in j..(k - 1) : R[l].nr = 0
      BY <3>1
    <3>3. r = x
      BY <3>1, <1>10
    <3>4. R[i].results = <<>>
      BY <1>1, <1>17, <2>2 DEF WellMade
    <3>5. k # i
      BY <3>2, <3>4 DEF ToSet
    <3>6. ~(i < k)
      <4>1. i < k => i \in j..(k - 1)
        BY <1>17
      <4> QED BY <4>1, <3>2, <2>1
    <3>7. k \in 1..(i - 1)
      BY <3>5, <3>6, <1>4
    <3> QED BY <3>2, <3>3, <3>7 DEF Brings
  <2>4. CASE R[j].nr > 0
    <3>1. R[j].nr \in 1..L /\ R[j] = messages[R[j].nr] /\ R[j].nr < n
      BY <1>5, <1>6, <1>17, <2>1, <2>4
    <3> HIDE DEF n
    <3>2. PICK m \in 1..(n - 1) : r \in ToSet(messages[m].results)
      <4>1. r \in ToSet(messages[R[j].nr].uses) /\ messages[n].role = "user"
        BY <3>1, <2>2, <1>17
      <4> QED BY <4>1, <3>1, <2>2, <1>2, <1>17 DEF Whole, Brings, L
    <3>3. m \in 1..L /\ m < n /\ m > 0
      BY <2>2, <1>1
    <3>4. PICK k \in 1..Len(R) : R[k].nr = m /\ r \in ToSet(R[k].results)
      BY <1>15, <2>4, <3>2, <3>3
    <3>5. k < i
      BY <1>13, <2>1, <3>3, <3>4 DEF n
    <3>6. k \in 1..(i - 1)
      BY <3>5, <1>4
    <3> QED BY <3>4, <3>6 DEF Brings
  <2> QED BY <1>4, <2>3, <2>4
<1> QED BY <1>14, <1>16, <1>17 DEF Whole

-----------------------------------------------------------------------------
(* The capsule.                                                             *)

Capsule == [Plain("system") EXCEPT !.text = "none", !.capsule = "yes"]
Holders(ms) == {i \in DOMAIN ms : ms[i].role = "system" /\ ms[i].capsule = "yes"}

LEMMA CapsuleFacts ==
  /\ Capsule \in Message /\ Capsule.nr = 0 /\ Capsule.role = "system" /\ Capsule.uses = <<>>
  /\ Capsule.results = <<>> /\ Capsule.text = "none" /\ Capsule.capsule = "yes"
<1> DEFINE p == Plain("system")
<1>1. /\ p \in Message /\ p.role = "system" /\ p.uses = <<>> /\ p.results = <<>>
      /\ p.text = "plain" /\ p.capsule = "no" /\ p.nr = 0
  BY PlainFacts DEF Instructions
<1>2. Capsule = [p EXCEPT !.text = "none", !.capsule = "yes"]
  BY DEF Capsule
<1> HIDE DEF p
<1> QED BY <1>1, <1>2 DEF Message

\* What the capsule goes into, and what becomes of the text.
Stripped(m) == [m EXCEPT !.text = IF @ = "padded" THEN "plain" ELSE @]
Filled(m) == [m EXCEPT !.capsule = "yes", !.text = IF @ = "parts" THEN "shown" ELSE @]

LEMMA PutFacts ==
  ASSUME NEW m \in Message
  PROVE  /\ Stripped(m) \in Message /\ Filled(m) \in Message
         /\ Stripped(m).uses = m.uses /\ Filled(m).uses = m.uses
         /\ Stripped(m).results = m.results /\ Filled(m).results = m.results
         /\ Stripped(m).role = m.role /\ Filled(m).role = m.role
         /\ Stripped(m).nr = m.nr /\ Filled(m).nr = m.nr
         /\ Stripped(m).capsule = m.capsule /\ Filled(m).capsule = "yes"
         /\ Stripped(m).text = (IF m.text = "padded" THEN "plain" ELSE m.text)
         /\ Filled(m).text = (IF m.text = "parts" THEN "shown" ELSE m.text)
         /\ m.text # "padded" => Stripped(m) = m
BY DEF Message, Stripped, Filled

LEMMA PinnedIs ==
  ASSUME NEW R \in Conversation
  PROVE  \/ \E i \in Holders(R) : /\ \A j \in Holders(R) : i <= j
                                  /\ Pinned(R) = [R EXCEPT ![i] = Stripped(R[i])]
         \/ /\ Holders(R) = {} /\ Len(R) > 0 /\ R[1].role = "system"
            /\ Pinned(R) = [R EXCEPT ![1] = Filled(R[1])]
         \/ /\ Holders(R) = {} /\ (Len(R) > 0 => R[1].role # "system")
            /\ Pinned(R) = InsertAt(R, Prefix(R) + 1, Capsule)
<1> DEFINE has == Holders(R)
<1>1. R \in Seq(Message) /\ DOMAIN R = 1..Len(R) /\ Len(R) \in Nat
      /\ (R # <<>> <=> Len(R) > 0)
  BY DEF Conversation
<1>2. CASE has # {}
  <2>1. \E i \in has : \A j \in has : i <= j
    <3>1. has \in SUBSET Nat
      BY <1>1 DEF Holders
    <3> QED BY <1>2, <3>1, Least
  <2> DEFINE first == CHOOSE i \in has : \A j \in has : i <= j
  <2>2. first \in has /\ \A j \in has : first <= j
    BY <2>1
  <2>3. Pinned(R) = [R EXCEPT ![first].text = IF @ = "padded" THEN "plain" ELSE @]
    BY <1>2 DEF Pinned, Holders
  <2> HIDE DEF first
  <2>4. [R EXCEPT ![first].text = IF @ = "padded" THEN "plain" ELSE @]
          = [R EXCEPT ![first] = Stripped(R[first])]
    BY DEF Stripped
  <2> QED BY <2>2, <2>3, <2>4
<1>3. CASE has = {} /\ R # <<>> /\ R[1].role = "system"
  <2>1. Pinned(R) = [R EXCEPT ![1].capsule = "yes", ![1].text = IF @ = "parts" THEN "shown" ELSE @]
    BY <1>3 DEF Pinned, Holders
  <2>2. [R EXCEPT ![1].capsule = "yes", ![1].text = IF @ = "parts" THEN "shown" ELSE @]
          = [R EXCEPT ![1] = Filled(R[1])]
    <3>1. R[1] \in Message /\ 1 \in DOMAIN R
      BY <1>1, <1>3
    <3> QED BY <3>1, <1>1 DEF Filled, Message
  <2> QED BY <2>1, <2>2, <1>1, <1>3
<1>4. CASE has = {} /\ ~(R # <<>> /\ R[1].role = "system")
  <2>1. Pinned(R) = InsertAt(R, Prefix(R) + 1, Capsule)
    BY <1>4 DEF Pinned, Holders, Capsule
  <2> QED BY <2>1, <1>1, <1>4
<1> QED BY <1>2, <1>3, <1>4

LEMMA InsertIs ==
  ASSUME NEW R \in Conversation, NEW n \in 1..(Len(R) + 1), NEW m \in Message
  PROVE  LET Q == InsertAt(R, n, m) IN
         /\ Q \in Conversation /\ Len(Q) = Len(R) + 1 /\ Q[n] = m
         /\ \A i \in 1..Len(R) : Q[IF i < n THEN i ELSE i + 1] = R[i]
<1> DEFINE a == SubSeq(R, 1, n - 1)
           b == SubSeq(R, n, Len(R))
           c == <<m>>
           L == Len(R)
           ac == a \o c
           Q == ac \o b
<1>1. L \in Nat /\ R \in Seq(Message) /\ n \in 1..(L + 1)
  BY DEF Conversation
<1>2. a \in Seq(Message) /\ Len(a) = n - 1 /\ \A i \in 1..(n - 1) : a[i] = R[i]
  BY <1>1
<1>3. b \in Seq(Message) /\ Len(b) = L - n + 1 /\ \A i \in 1..(L - n + 1) : b[i] = R[n + i - 1]
  BY <1>1
<1>4. c \in Seq(Message) /\ Len(c) = 1 /\ c[1] = m
  OBVIOUS
<1>5. InsertAt(R, n, m) = Q
  BY DEF InsertAt
<1> HIDE DEF a, b, c, L
<1>6. /\ ac \in Seq(Message) /\ Len(ac) = Len(a) + Len(c)
      /\ (\A i \in 1..Len(a) : ac[i] = a[i]) /\ \A i \in 1..Len(c) : ac[Len(a) + i] = c[i]
  <2>1. a \in Seq(Message) /\ c \in Seq(Message)
    BY <1>2, <1>4
  <2> QED BY <2>1, Joined
<1> HIDE DEF ac
<1>7. ac \in Seq(Message) /\ Len(ac) = n /\ ac[n] = m /\ \A i \in 1..(n - 1) : ac[i] = R[i]
  <2>1. 1 \in 1..Len(c) /\ Len(a) + 1 = n
    BY <1>1, <1>2, <1>4
  <2> QED BY <2>1, <1>1, <1>2, <1>4, <1>6
<1>8. /\ Q \in Seq(Message) /\ Len(Q) = Len(ac) + Len(b)
      /\ (\A i \in 1..Len(ac) : Q[i] = ac[i]) /\ \A i \in 1..Len(b) : Q[Len(ac) + i] = b[i]
  <2>1. ac \in Seq(Message) /\ b \in Seq(Message)
    BY <1>3, <1>7
  <2> QED BY <2>1, Joined
<1> HIDE DEF Q
<1>9. Len(Q) = L + 1 /\ Q[n] = m
  BY <1>1, <1>3, <1>7, <1>8
<1>10. ASSUME NEW i \in 1..L PROVE Q[IF i < n THEN i ELSE i + 1] = R[i]
  <2>1. CASE i < n
    <3>1. i \in 1..(n - 1) /\ i \in 1..n
      BY <1>1, <2>1
    <3> QED BY <3>1, <2>1, <1>7, <1>8
  <2>2. CASE ~(i < n)
    <3>1. i - n + 1 \in 1..(L - n + 1) /\ n + (i - n + 1) = i + 1 /\ n + (i - n + 1) - 1 = i
      BY <1>1, <2>2
    <3>2. Q[n + (i - n + 1)] = b[i - n + 1] /\ b[i - n + 1] = R[n + (i - n + 1) - 1]
      BY <3>1, <1>3, <1>7, <1>8
    <3> QED BY <3>1, <3>2, <2>2
  <2> QED BY <2>1, <2>2
<1> QED BY <1>5, <1>8, <1>9, <1>10 DEF Conversation, L

\* Q holds R's messages in their order, as far as calls and results go.
Carries(e, Q, R) ==
  /\ e \in [1..Len(R) -> 1..Len(Q)]
  /\ \A i, k \in 1..Len(R) : i < k => e[i] < e[k]
  /\ \A i \in 1..Len(R) : /\ Q[e[i]].uses = R[i].uses /\ Q[e[i]].results = R[i].results
                          /\ Q[e[i]].role = R[i].role
  /\ \A j \in 1..Len(Q) : \/ \E i \in 1..Len(R) : j = e[i]
                          \/ Q[j].uses = <<>> /\ Q[j].results = <<>> /\ Q[j].role # "user"

LEMMA CarriesWhole ==
  ASSUME NEW R \in Conversation, NEW Q \in Conversation, NEW e, Carries(e, Q, R), Whole(R)
  PROVE  Whole(Q)
<1>1. Len(R) \in Nat /\ Len(Q) \in Nat /\ \A i \in 1..Len(R) : e[i] \in 1..Len(Q)
  BY DEF Conversation, Carries
<1>2. ASSUME NEW i \in 1..Len(R), NEW k \in 1..Len(R), e[i] < e[k] PROVE i < k
  <2>1. k < i => e[k] < e[i]
    BY DEF Carries
  <2> QED BY <2>1, <1>1, <1>2
<1>3. ASSUME NEW j \in 1..Len(Q), NEW r, r \in ToSet(Q[j].uses) \/ r \in ToSet(Q[j].results)
      PROVE  \E i \in 1..Len(R) : j = e[i]
  <2>1. ToSet(<<>>) = {}
    BY DEF ToSet
  <2> QED BY <2>1, <1>3 DEF Carries
<1>4. ASSUME NEW i \in 1..Len(Q), NEW r \in ToSet(Q[i].results)
      PROVE  /\ \E j \in 1..(i - 1) : Calls(r, Q, j)
             /\ \A j \in 1..(i - 1) : ~Brings(r, Q, j)
  <2>1. PICK a \in 1..Len(R) : i = e[a]
    BY <1>3
  <2>2. r \in ToSet(R[a].results)
    BY <2>1 DEF Carries
  <2>3. PICK b \in 1..(a - 1) : Calls(r, R, b)
    BY <2>2 DEF Whole
  <2>4. b \in 1..Len(R) /\ b < a
    BY <1>1
  <2>5. e[b] \in 1..(i - 1) /\ Calls(r, Q, e[b])
    <3>1. e[b] < i /\ e[b] \in 1..Len(Q)
      BY <1>1, <2>1, <2>4 DEF Carries
    <3>2. Calls(r, Q, e[b])
      BY <2>3, <2>4 DEF Calls, Carries
    <3> QED BY <3>1, <3>2
  <2>6. ASSUME NEW j \in 1..(i - 1), Brings(r, Q, j) PROVE FALSE
    <3>1. j \in 1..Len(Q) /\ j < i
      BY <1>1
    <3>2. PICK c \in 1..Len(R) : j = e[c]
      BY <1>3, <2>6, <3>1 DEF Brings
    <3>3. c < a
      BY <1>2, <2>1, <3>1, <3>2
    <3>4. c \in 1..(a - 1) /\ Brings(r, R, c)
      BY <2>6, <3>2, <3>3 DEF Brings, Carries
    <3> QED BY <2>2, <3>4 DEF Whole
  <2> QED BY <2>5, <2>6
<1>5. ASSUME NEW j \in 1..Len(Q), NEW r \in ToSet(Q[j].uses)
      PROVE  \E k \in 1..Len(Q) : Brings(r, Q, k)
  <2>1. PICK a \in 1..Len(R) : j = e[a]
    BY <1>3
  <2>2. r \in ToSet(R[a].uses)
    BY <2>1 DEF Carries
  <2>3. PICK k \in 1..Len(R) : Brings(r, R, k)
    BY <2>2 DEF Whole
  <2>4. Brings(r, Q, e[k])
    BY <2>3 DEF Brings, Carries
  <2> QED BY <2>4, <1>1
<1>6. ASSUME NEW i \in 1..Len(Q), NEW j \in 1..Len(Q), NEW r \in ToSet(Q[j].uses),
             format = "openai", Q[i].role = "user", j < i
      PROVE  \E k \in 1..(i - 1) : Brings(r, Q, k)
  <2>1. PICK a \in 1..Len(R) : j = e[a]
    BY <1>3
  <2>2. PICK b \in 1..Len(R) : i = e[b]
    BY <1>6 DEF Carries
  <2>3. a < b /\ r \in ToSet(R[a].uses) /\ R[b].role = "user"
    BY <1>2, <1>6, <2>1, <2>2 DEF Carries
  <2>4. PICK k \in 1..(b - 1) : Brings(r, R, k)
    BY <1>6, <2>3 DEF Whole
  <2>5. k \in 1..Len(R) /\ k < b
    BY <1>1
  <2>6. Brings(r, Q, e[k])
    BY <2>4, <2>5 DEF Brings, Carries
  <2>7. e[k] < i /\ e[k] \in 1..Len(Q)
    BY <1>1, <2>2, <2>5 DEF Carries
  <2>8. e[k] \in 1..(i - 1)
    BY <2>7
  <2> QED BY <2>6, <2>8
<1> QED BY <1>4, <1>5, <1>6 DEF Whole

\* One message is replaced by one with the same calls and results.
LEMMA ReplaceCarries ==
  ASSUME NEW R \in Conversation, NEW i \in 1..Len(R), NEW m \in Message,
         m.uses = R[i].uses, m.results = R[i].results, m.role = R[i].role
  PROVE  /\ [R EXCEPT ![i] = m] \in Conversation /\ Len([R EXCEPT ![i] = m]) = Len(R)
         /\ \E e : Carries(e, [R EXCEPT ![i] = m], R)
<1> DEFINE Q == [R EXCEPT ![i] = m]
           e == [k \in 1..Len(R) |-> k]
<1>1. Q \in Conversation /\ Len(Q) = Len(R) /\ Len(R) \in Nat
      /\ \A k \in 1..Len(R) : Q[k] = IF k = i THEN m ELSE R[k]
  BY DEF Conversation
<1> HIDE DEF Q
<1>2. e \in [1..Len(R) -> 1..Len(Q)] /\ \A k \in 1..Len(R) : e[k] = k
  BY <1>1
<1> HIDE DEF e
<1>3. Carries(e, Q, R)
  BY <1>1, <1>2 DEF Carries
<1> QED BY <1>1, <1>3 DEF Q

LEMMA PinnedCarries ==
  ASSUME NEW R \in Conversation
  PROVE  Pinned(R) \in Conversation /\ \E e : Carries(e, Pinned(R), R)
<1>1. R \in Seq(Message) /\ Len(R) \in Nat /\ DOMAIN R = 1..Len(R)
      /\ \A i \in 1..Len(R) : R[i] \in Message
  BY DEF Conversation
<1>2. ASSUME NEW i \in Holders(R), Pinned(R) = [R EXCEPT ![i] = Stripped(R[i])]
      PROVE  Pinned(R) \in Conversation /\ \E e : Carries(e, Pinned(R), R)
  <2>1. i \in 1..Len(R) /\ R[i] \in Message
    BY <1>1 DEF Holders
  <2> DEFINE m == Stripped(R[i])
  <2>2. m \in Message /\ m.uses = R[i].uses /\ m.results = R[i].results /\ m.role = R[i].role
    BY <2>1, PutFacts
  <2> HIDE DEF m
  <2>3. Pinned(R) = [R EXCEPT ![i] = m]
    BY <1>2 DEF m
  <2> QED BY <2>1, <2>2, <2>3, ReplaceCarries
<1>3. ASSUME Len(R) > 0, Pinned(R) = [R EXCEPT ![1] = Filled(R[1])]
      PROVE  Pinned(R) \in Conversation /\ \E e : Carries(e, Pinned(R), R)
  <2>1. 1 \in 1..Len(R) /\ R[1] \in Message
    BY <1>1, <1>3
  <2> DEFINE m == Filled(R[1])
  <2>2. m \in Message /\ m.uses = R[1].uses /\ m.results = R[1].results /\ m.role = R[1].role
    BY <2>1, PutFacts
  <2> HIDE DEF m
  <2>3. Pinned(R) = [R EXCEPT ![1] = m]
    BY <1>3 DEF m
  <2> DEFINE i == 1
  <2>4. i \in 1..Len(R) /\ m.uses = R[i].uses /\ m.results = R[i].results /\ m.role = R[i].role
        /\ Pinned(R) = [R EXCEPT ![i] = m]
    BY <2>1, <2>2, <2>3
  <2> HIDE DEF i
  <2> QED BY <2>2, <2>4, ReplaceCarries
<1>4. ASSUME Pinned(R) = InsertAt(R, Prefix(R) + 1, Capsule)
      PROVE  Pinned(R) \in Conversation /\ \E e : Carries(e, Pinned(R), R)
  <2> DEFINE n == Prefix(R) + 1
             Q == Pinned(R)
             e == [i \in 1..Len(R) |-> IF i < n THEN i ELSE i + 1]
  <2>1. n \in 1..(Len(R) + 1)
    <3>1. Prefix(R) \in 0..Len(R)
      BY PrefixIs
    <3> QED BY <3>1, <1>1
  <2> HIDE DEF n
  <2>2. /\ InsertAt(R, n, Capsule) \in Conversation /\ Len(InsertAt(R, n, Capsule)) = Len(R) + 1
        /\ InsertAt(R, n, Capsule)[n] = Capsule
        /\ \A i \in 1..Len(R) : InsertAt(R, n, Capsule)[IF i < n THEN i ELSE i + 1] = R[i]
    BY <2>1, CapsuleFacts, InsertIs
  <2>3. Q = InsertAt(R, n, Capsule)
    BY <1>4 DEF n
  <2> HIDE DEF Q
  <2>4. /\ Q \in Conversation /\ Len(Q) = Len(R) + 1 /\ Q[n] = Capsule
        /\ \A i \in 1..Len(R) : Q[e[i]] = R[i] /\ e[i] = IF i < n THEN i ELSE i + 1
    BY <2>2, <2>3
  <2>5. e \in [1..Len(R) -> 1..Len(Q)]
    BY <2>4, <1>1
  <2> HIDE DEF e
  <2>6. \A i, k \in 1..Len(R) : i < k => e[i] < e[k]
    BY <2>4, <2>1, <1>1
  <2>7. ASSUME NEW j \in 1..Len(Q), j # n PROVE \E i \in 1..Len(R) : j = e[i]
    <3>1. CASE j < n
      <4>1. j \in 1..Len(R)
        BY <2>1, <3>1, <1>1
      <4> QED BY <4>1, <3>1, <2>4
    <3>2. CASE ~(j < n)
      <4>1. j - 1 \in 1..Len(R) /\ ~(j - 1 < n) /\ (j - 1) + 1 = j
        BY <2>1, <2>4, <2>7, <3>2, <1>1
      <4> QED BY <4>1, <2>4
    <3> QED BY <3>1, <3>2
  <2>8. Carries(e, Q, R)
    BY <2>4, <2>5, <2>6, <2>7, CapsuleFacts DEF Carries
  <2> QED BY <2>4, <2>8 DEF Q
<1> QED BY <1>2, <1>3, <1>4, PinnedIs

-----------------------------------------------------------------------------
(* Pairs stay whole.                                                        *)

LEMMA CompactIs ==
  ASSUME NEW ms \in Conversation, NEW h \in Nat, NEW capsule \in {"no", "yes"}
  PROVE  Compact(ms, h, capsule) =
           IF ms = <<>> THEN <<>>
           ELSE IF capsule = "yes" THEN Pinned(Repaired(Kept(ms, h), ms))
                ELSE Repaired(Kept(ms, h), ms)
BY DEF Compact

LEMMA CompactWhole ==
  ASSUME CompactorInv, Valid(messages), NEW h \in Nat, NEW capsule \in {"no", "yes"}
  PROVE  /\ Compact(messages, h, capsule) \in Conversation
         /\ Valid(Compact(messages, h, capsule))
<1> DEFINE R == Repaired(Kept(messages, h), messages)
<1>1. R \in Conversation /\ Whole(R)
  <2>1. Shape(R, h)
    BY RepairedShape
  <2> HIDE DEF R
  <2> QED BY <2>1, ShapeWhole DEF Shape
<1>2. messages \in Conversation
  BY MessagesFacts
<1>3. <<>> \in Conversation /\ Whole(<<>>)
  BY DEF Conversation, Whole
<1>4. Pinned(R) \in Conversation /\ Whole(Pinned(R))
  <2> HIDE DEF R
  <2> QED BY <1>1, PinnedCarries, CarriesWhole
<1> DEFINE C == Compact(messages, h, capsule)
<1>5. C \in {<<>>, R, Pinned(R)}
  BY <1>2, CompactIs
<1> HIDE DEF C, R
<1>6. C \in Conversation /\ Whole(C)
  BY <1>1, <1>3, <1>4, <1>5
<1> QED BY <1>6, ValidIsWhole DEF C

(* Whatever a client's conversation and however much of it is kept, the      *)
(* compactor never orphans a call or a result.                               *)
THEOREM PairsKept == CompactorSpec => []PairsStayWhole
<1>1. CompactorInv => PairsStayWhole
  <2> SUFFICES ASSUME CompactorInv, Valid(messages), NEW h \in Turns, NEW capsule \in {"no", "yes"}
               PROVE  Valid(Compact(messages, h, capsule))
    BY DEF PairsStayWhole
  <2>1. h \in Nat
    OBVIOUS
  <2> QED BY <2>1, CompactWhole
<1> QED BY <1>1, CompactorIsInv, PTL

-----------------------------------------------------------------------------
(* The active turn survives.                                                *)

\* As it was, or the first message with the capsule put into it.
Same(m, i, capsule) ==
  \/ m = messages[i]
  \/ /\ i = 1 /\ capsule = "yes"
     /\ [m EXCEPT !.capsule = "no", !.text = IF @ = "shown" THEN "parts" ELSE @] = messages[1]

Tells(out, h, capsule) ==
  /\ out \in Conversation
  /\ \A j, k \in 1..Len(out) : j < k /\ out[j].nr > 0 /\ out[k].nr > 0 => out[j].nr < out[k].nr
  /\ \A n \in KeptNrs(h) : \E j \in 1..Len(out) : out[j].nr = n /\ Same(out[j], n, capsule)

LEMMA ShapeTells ==
  ASSUME CompactorInv, NEW h \in Nat, NEW R, Shape(R, h), NEW capsule
  PROVE  Tells(R, h, capsule)
<1>1. \A n \in KeptNrs(h) : n > 0
  BY KeptPlaces, MessagesFacts
<1>2. \A n \in KeptNrs(h) : \E j \in 1..Len(R) : R[j].nr = n /\ Same(R[j], n, capsule)
  <2> SUFFICES ASSUME NEW n \in KeptNrs(h)
               PROVE  \E j \in 1..Len(R) : R[j].nr = n /\ Same(R[j], n, capsule)
    OBVIOUS
  <2>1. PICK j \in 1..Len(R) : R[j].nr = n
    BY DEF Shape
  <2>2. R[j] = messages[n]
    BY <1>1, <2>1 DEF Shape
  <2> QED BY <2>1, <2>2 DEF Same
<1> QED BY <1>2 DEF Shape, Tells

(* Nothing that a client sent, and no call put back, holds a capsule.        *)
LEMMA NoHolders ==
  ASSUME CompactorInv, NEW h \in Nat, NEW R, Shape(R, h)
  PROVE  Holders(R) = {} /\ \A j \in 1..Len(R) : R[j].role = "system" => R[j].nr > 0
<1>1. R \in Conversation /\ DOMAIN R = 1..Len(R) /\ \A j \in 1..Len(R) : R[j].nr \in Nat
  BY MessageFacts DEF Shape, Conversation
<1>2. \A n \in KeptNrs(h) : messages[n].capsule = "no"
  BY KeptPlaces, MessagesFacts DEF WellMade
<1>3. ASSUME NEW j \in 1..Len(R)
      PROVE  R[j].capsule = "no" /\ (R[j].role = "system" => R[j].nr > 0)
  <2>1. CASE R[j].nr > 0
    BY <1>2, <2>1 DEF Shape
  <2>2. CASE R[j].nr = 0
    <3>1. PICK r \in Ids : R[j] = Slim(r)
      BY <2>2 DEF Shape
    <3> QED BY <3>1, SlimFacts
  <2> QED BY <1>1, <2>1, <2>2
<1> QED BY <1>1, <1>3 DEF Holders

(* A system message that comes first came first.                             *)
LEMMA FirstIsFirst ==
  ASSUME CompactorInv, NEW h \in Nat, NEW R, Shape(R, h), Len(R) > 0, R[1].role = "system"
  PROVE  R[1].nr = 1 /\ R[1] = messages[1]
<1> DEFINE p == Prefix(messages)
           f == From(messages, h)
           L == Len(messages)
           n == R[1].nr
<1>1. /\ p \in 0..L /\ f \in (p + 1)..(L + 1) /\ L \in Nat /\ messages \in Conversation
      /\ KeptNrs(h) = (1..p) \cup (f..L)
  BY KeptPlaces, MessagesFacts DEF KeptNrs
<1>2. 1 \in 1..Len(R) /\ Len(R) \in Nat
  BY DEF Shape, Conversation
<1>3. n > 0 /\ n \in KeptNrs(h) /\ R[1] = messages[n] /\ n \in Nat
  <2>1. n > 0
    BY <1>2, NoHolders
  <2>2. n \in KeptNrs(h) /\ R[1] = messages[n]
    BY <1>2, <2>1 DEF Shape
  <2>3. n \in Nat
    <3>1. KeptNrs(h) \subseteq 1..Len(messages)
      BY KeptPlaces
    <3> QED BY <3>1, <2>2
  <2> QED BY <2>1, <2>2, <2>3
<1>4. ASSUME NEW m \in KeptNrs(h), m > 0 PROVE n <= m
  <2>1. PICK j \in 1..Len(R) : R[j].nr = m
    BY DEF Shape
  <2>2. CASE j = 1
    BY <2>1, <2>2, <1>3
  <2>3. CASE j # 1
    <3>1. 1 < j
      BY <1>2, <2>3
    <3>2. n < m
      BY <1>2, <1>3, <1>4, <2>1, <3>1 DEF Shape
    <3>3. m \in Nat
      <4>1. KeptNrs(h) \subseteq 1..Len(messages)
        BY KeptPlaces
      <4> QED BY <4>1
    <3> QED BY <3>2, <3>3, <1>3
  <2> QED BY <2>2, <2>3
<1> HIDE DEF n
<1>5. CASE p > 0
  <2>1. 1 \in KeptNrs(h)
    BY <1>1, <1>5
  <2>2. n = 1
    BY <2>1, <1>3, <1>4
  <2> QED BY <2>2, <1>3 DEF n
<1>6. CASE p = 0
  <2>1. n \in f..L /\ f \in KeptNrs(h) /\ f > 0 /\ p # L
    BY <1>1, <1>3, <1>6
  <2>2. n = f
    BY <2>1, <1>1, <1>4
  <2>3. f \in Starts(messages)
    BY <2>1, <1>1, FromIs
  <2>4. messages[f].role = "system"
    BY <1>3, <2>2
  <2>5. ~Begins(messages[f])
    BY <2>4 DEF Begins
  <2>6. f = p + 1
    BY <2>3, <2>5 DEF Starts
  <2>7. messages[p + 1].role \notin Instructions
    BY <1>1, <2>1, PrefixIs
  <2> QED BY <2>4, <2>6, <2>7 DEF Instructions
<1> QED BY <1>1, <1>5, <1>6

LEMMA FilledSame ==
  ASSUME NEW m \in Message, m.capsule = "no", m.text # "shown"
  PROVE  [Filled(m) EXCEPT !.capsule = "no", !.text = IF @ = "shown" THEN "parts" ELSE @] = m
BY DEF Filled, Message

LEMMA PinnedTells ==
  ASSUME CompactorInv, NEW h \in Nat, NEW R, Shape(R, h)
  PROVE  Tells(Pinned(R), h, "yes")
<1>1. /\ R \in Conversation /\ Len(R) \in Nat
      /\ \A j, k \in 1..Len(R) : j < k /\ R[j].nr > 0 /\ R[k].nr > 0 => R[j].nr < R[k].nr
      /\ \A n \in KeptNrs(h) : \E j \in 1..Len(R) : R[j].nr = n /\ R[j] = messages[n]
  <2>1. \A n \in KeptNrs(h) : n > 0
    BY KeptPlaces, MessagesFacts
  <2> QED BY <2>1 DEF Shape, Conversation
<1>2. Pinned(R) \in Conversation
  BY <1>1, PinnedCarries
<1>3. Holders(R) = {}
  BY NoHolders
<1> DEFINE Q == Pinned(R)
<1>4. CASE Len(R) > 0 /\ R[1].role = "system" /\ Q = [R EXCEPT ![1] = Filled(R[1])]
  <2>1. R[1].nr = 1 /\ R[1] = messages[1]
    BY <1>4, FirstIsFirst
  <2>2. R[1] \in Message /\ 1 \in 1..Len(R) /\ DOMAIN R = 1..Len(R)
    BY <1>1, <1>4 DEF Conversation
  <2>3. messages[1].capsule = "no" /\ messages[1].text # "shown"
    <3>1. 1 \in KeptNrs(h)
      BY <2>1, <2>2 DEF Shape
    <3>2. 1 \in 1..Len(messages)
      BY <3>1, KeptPlaces
    <3> QED BY <3>2, MessagesFacts DEF WellMade
  <2> DEFINE m == Filled(R[1])
  <2>4. /\ m.nr = 1
        /\ [m EXCEPT !.capsule = "no", !.text = IF @ = "shown" THEN "parts" ELSE @] = messages[1]
    <3> DEFINE x == messages[1]
    <3>1. R[1] = x /\ x \in Message /\ x.nr = 1 /\ x.capsule = "no" /\ x.text # "shown"
      BY <2>1, <2>2, <2>3
    <3> HIDE DEF x
    <3>2. Filled(x).nr = 1
      BY <3>1, PutFacts
    <3>3. [Filled(x) EXCEPT !.capsule = "no", !.text = IF @ = "shown" THEN "parts" ELSE @] = x
      BY <3>1, FilledSame
    <3>4. m = Filled(x)
      BY <3>1
    <3> HIDE DEF m
    <3> QED BY <3>2, <3>3, <3>4 DEF x
  <2> HIDE DEF m, Q
  <2>5. /\ Len(Q) = Len(R) /\ \A j \in 1..Len(R) : Q[j] = IF j = 1 THEN m ELSE R[j]
    BY <1>1, <1>4, <2>2 DEF m, Conversation
  <2>6. \A j \in 1..Len(R) : Q[j].nr = R[j].nr
    BY <2>1, <2>4, <2>5
  <2>7. ASSUME NEW n \in KeptNrs(h)
        PROVE  \E j \in 1..Len(Q) : Q[j].nr = n /\ Same(Q[j], n, "yes")
    <3>1. PICK j \in 1..Len(R) : R[j].nr = n /\ R[j] = messages[n]
      BY <1>1
    <3>2. CASE j = 1
      BY <3>1, <3>2, <2>1, <2>4, <2>5, <2>6 DEF Same
    <3>3. CASE j # 1
      BY <3>1, <3>3, <2>5 DEF Same
    <3> QED BY <3>2, <3>3
  <2> QED BY <1>1, <1>2, <2>5, <2>6, <2>7 DEF Tells, Q
<1>5. CASE Q = InsertAt(R, Prefix(R) + 1, Capsule)
  <2> DEFINE n == Prefix(R) + 1
             E(i) == IF i < n THEN i ELSE i + 1
  <2>1. n \in 1..(Len(R) + 1)
    <3>1. Prefix(R) \in 0..Len(R)
      BY <1>1, PrefixIs
    <3> QED BY <3>1, <1>1
  <2> HIDE DEF n
  <2>2. /\ Len(Q) = Len(R) + 1 /\ Q[n] = Capsule /\ \A i \in 1..Len(R) : Q[E(i)] = R[i]
    <3>1. Q = InsertAt(R, n, Capsule)
      BY <1>5 DEF n
    <3> HIDE DEF Q
    <3> QED BY <3>1, <2>1, <1>1, CapsuleFacts, InsertIs
  <2> HIDE DEF Q
  <2>3. \A i \in 1..Len(R) : E(i) \in 1..Len(Q)
    BY <2>1, <2>2, <1>1
  <2>4. Q[n].nr = 0
    BY <2>2, CapsuleFacts
  <2>5. ASSUME NEW j \in 1..Len(Q), Q[j].nr > 0 PROVE \E i \in 1..Len(R) : j = E(i) /\ Q[j] = R[i]
    <3>1. j # n
      BY <2>4, <2>5
    <3>2. CASE j < n
      <4>1. j \in 1..Len(R) /\ E(j) = j
        BY <2>1, <3>2, <1>1
      <4> QED BY <4>1, <2>2
    <3>3. CASE ~(j < n)
      <4>1. j - 1 \in 1..Len(R) /\ E(j - 1) = j
        BY <2>1, <2>2, <3>1, <3>3, <1>1
      <4> QED BY <4>1, <2>2
    <3> QED BY <3>2, <3>3
  <2>6. ASSUME NEW j \in 1..Len(Q), NEW k \in 1..Len(Q), j < k, Q[j].nr > 0, Q[k].nr > 0
        PROVE  Q[j].nr < Q[k].nr
    <3>1. PICK a \in 1..Len(R) : j = E(a) /\ Q[j] = R[a]
      BY <2>5, <2>6
    <3>2. PICK b \in 1..Len(R) : k = E(b) /\ Q[k] = R[b]
      BY <2>5, <2>6
    <3>3. a < b
      BY <2>1, <2>6, <3>1, <3>2, <1>1
    <3> QED BY <2>6, <3>1, <3>2, <3>3, <1>1
  <2>7. ASSUME NEW m \in KeptNrs(h)
        PROVE  \E j \in 1..Len(Q) : Q[j].nr = m /\ Same(Q[j], m, "yes")
    <3>1. PICK i \in 1..Len(R) : R[i].nr = m /\ R[i] = messages[m]
      BY <1>1
    <3>2. Q[E(i)] = R[i] /\ E(i) \in 1..Len(Q)
      BY <2>2, <2>3
    <3> HIDE DEF E
    <3> QED BY <3>1, <3>2 DEF Same
  <2> QED BY <1>2, <2>6, <2>7 DEF Tells, Q
<1> QED BY <1>1, <1>3, <1>4, <1>5, PinnedIs

LEMMA CompactTells ==
  ASSUME CompactorInv, NEW h \in Nat, NEW capsule \in {"no", "yes"}
  PROVE  Tells(Compact(messages, h, capsule), h, capsule)
<1> DEFINE R == Repaired(Kept(messages, h), messages)
<1>1. Shape(R, h)
  BY RepairedShape
<1>2. messages \in Conversation
  BY MessagesFacts
<1> DEFINE C == Compact(messages, h, capsule)
<1>3. C = IF messages = <<>> THEN <<>> ELSE IF capsule = "yes" THEN Pinned(R) ELSE R
  BY <1>2, CompactIs
<1> HIDE DEF C, R
<1>4. CASE messages = <<>>
  <2>1. Len(messages) = 0
    BY <1>4
  <2>2. KeptNrs(h) = {}
    BY <2>1, KeptPlaces
  <2>3. <<>> \in Conversation /\ Len(<<>>) = 0
    BY DEF Conversation
  <2> QED BY <1>3, <1>4, <2>2, <2>3 DEF Tells, C
<1>5. CASE messages # <<>> /\ capsule = "yes"
  BY <1>1, <1>3, <1>5, PinnedTells DEF C
<1>6. CASE messages # <<>> /\ capsule # "yes"
  BY <1>1, <1>3, <1>6, ShapeTells DEF C
<1> QED BY <1>4, <1>5, <1>6

(* What leads and what follows the last question is among what is kept.      *)
LEMMA ActiveKept ==
  ASSUME CompactorInv, NEW h \in Nat, NEW i \in 1..Len(messages),
         \/ \A j \in 1..Len(messages) : messages[j].role = "user" /\ messages[j].text # "none" =>
              i >= j
         \/ i <= Prefix(messages)
  PROVE  i \in KeptNrs(h)
<1> DEFINE p == Prefix(messages)
           f == From(messages, h)
           L == Len(messages)
<1>1. /\ p \in 0..L /\ f \in (p + 1)..(L + 1) /\ L \in Nat /\ messages \in Conversation
      /\ KeptNrs(h) = (1..p) \cup (f..L)
  BY KeptPlaces, MessagesFacts DEF KeptNrs
<1>2. CASE i <= p
  BY <1>1, <1>2
<1>3. CASE ~(i <= p)
  <2>1. p # L
    BY <1>1, <1>3
  <2>2. f \in Starts(messages)
    BY <1>1, <2>1, FromIs
  <2>3. i >= f
    <3>1. CASE f = p + 1
      BY <1>1, <1>3, <3>1
    <3>2. CASE f # p + 1
      <4>1. Begins(messages[f]) /\ f \in 1..L
        BY <1>1, <2>2, <3>2 DEF Starts
      <4>2. WellMade(format, messages[f])
        BY <4>1, MessagesFacts
      <4>3. messages[f].role = "user" /\ messages[f].text # "none"
        <5>1. format \in {"openai", "anthropic"}
          BY DEF CompactorInv, CompactorTypeOK
        <5> QED BY <4>1, <4>2, <5>1 DEF Begins, WellMade
      <4> QED BY <4>1, <4>3, <1>3
    <3> QED BY <3>1, <3>2
  <2> QED BY <1>1, <2>3
<1> QED BY <1>2, <1>3

LEMMA ActiveHolds == ASSUME CompactorInv PROVE ActiveTurnSurvives
<1> SUFFICES ASSUME Valid(messages), NEW h \in Turns, NEW capsule \in {"no", "yes"}
             PROVE  LET out  == Compact(messages, h, capsule)
                        old  == Select(out, {m \in ToSet(out) : m.nr > 0})
                        asks == {i \in DOMAIN messages :
                                   messages[i].role = "user" /\ messages[i].text # "none"}
                    IN /\ \A i, j \in DOMAIN old : i < j => old[i].nr < old[j].nr
                       /\ \A i \in DOMAIN messages :
                            (\A j \in asks : i >= j) \/ i <= Prefix(messages) =>
                              \E j \in DOMAIN old : Same(old[j], i, capsule)
  BY DEF ActiveTurnSurvives, Same
<1> DEFINE out == Compact(messages, h, capsule)
           S == {m \in ToSet(out) : m.nr > 0}
           old == Select(out, S)
           asks == {i \in DOMAIN messages : messages[i].role = "user" /\ messages[i].text # "none"}
<1>0. h \in Nat
  OBVIOUS
<1>1. Tells(out, h, capsule)
  BY <1>0, CompactTells
<1> HIDE DEF out
<1>2. out \in Seq(Message) /\ DOMAIN out = 1..Len(out)
  BY <1>1 DEF Tells, Conversation
<1>3. \A j \in 1..Len(out) : out[j] \in S <=> out[j].nr > 0
  BY <1>2 DEF ToSet
<1> HIDE DEF S
<1>4. old \in Seq(Message \cap S) /\ \E e : Places(e, old, out, S)
  BY <1>2, SelectPlaces
<1> HIDE DEF old
<1>5. PICK e : Places(e, old, out, S)
  BY <1>4
<1>6. DOMAIN old = 1..Len(old)
  BY <1>4
<1>7. ASSUME NEW i \in DOMAIN old, NEW j \in DOMAIN old, i < j PROVE old[i].nr < old[j].nr
  <2>1. /\ e[i] \in 1..Len(out) /\ old[i] = out[e[i]] /\ out[e[i]] \in S
        /\ e[j] \in 1..Len(out) /\ old[j] = out[e[j]] /\ out[e[j]] \in S
        /\ e[i] < e[j]
    BY <1>5, <1>6, <1>7 DEF Places
  <2> QED BY <2>1, <1>1, <1>3 DEF Tells
<1>8. ASSUME NEW i \in DOMAIN messages, (\A j \in asks : i >= j) \/ i <= Prefix(messages)
      PROVE  \E j \in DOMAIN old : Same(old[j], i, capsule)
  <2>1. DOMAIN messages = 1..Len(messages)
    BY MessagesFacts DEF Conversation
  <2>2. i \in KeptNrs(h)
    BY <1>0, <1>8, <2>1, ActiveKept
  <2>3. i > 0
    BY <2>1
  <2>4. PICK k \in 1..Len(out) : out[k].nr = i /\ Same(out[k], i, capsule)
    BY <1>1, <2>2 DEF Tells
  <2>5. out[k] \in S
    BY <1>3, <2>3, <2>4
  <2>6. PICK j \in 1..Len(old) : e[j] = k
    BY <1>5, <2>5 DEF Places
  <2>7. old[j] = out[k]
    BY <1>5, <2>6 DEF Places
  <2> QED BY <1>6, <2>4, <2>7
<1> QED BY <1>7, <1>8 DEF old, S, out

(* The instructions that lead and all from the last question on are there,   *)
(* as they were and in order (the compactor's active turn), whatever is cut. *)
THEOREM ActiveTurnKept == CompactorSpec => []ActiveTurnSurvives
BY CompactorIsInv, ActiveHolds, PTL

-----------------------------------------------------------------------------
(* Compacting what is compact.                                              *)

LEMMA PrefixUnique ==
  ASSUME NEW ms \in Conversation, NEW n \in 0..Len(ms),
         \A i \in 1..n : ms[i].role \in Instructions,
         n < Len(ms) => ms[n + 1].role \notin Instructions
  PROVE  Prefix(ms) = n
<1> DEFINE p == Prefix(ms)
<1>1. /\ p \in 0..Len(ms) /\ \A i \in 1..p : ms[i].role \in Instructions
      /\ p < Len(ms) => ms[p + 1].role \notin Instructions
  BY PrefixIs
<1>2. Len(ms) \in Nat
  BY DEF Conversation
<1> HIDE DEF p
<1>3. CASE p < n
  <2>1. p + 1 \in 1..n /\ p < Len(ms)
    BY <1>1, <1>2, <1>3
  <2> QED BY <2>1, <1>1
<1>4. CASE n < p
  <2>1. n + 1 \in 1..p /\ n < Len(ms)
    BY <1>1, <1>2, <1>4
  <2> QED BY <2>1, <1>1
<1>5. CASE p = n
  BY <1>5 DEF p
<1> QED BY <1>1, <1>2, <1>3, <1>4, <1>5

(* Where messages end up when one of them, at most, has orphans.             *)
LEMMA LaidOne ==
  ASSUME NEW K \in Conversation, NEW R \in Conversation, NEW o, Laid(o, R, K),
         NEW m \in 0..Len(K), NEW n \in 1..(Len(K) + 1),
         \A i \in 1..m : i # n => Orphans(K, i) = <<>>
  PROVE  \A i \in 0..m : o[i] = IF i < n THEN i ELSE i + Len(Orphans(K, n))
<1> DEFINE c == Len(Orphans(K, n))
           Pos(i) == IF i < n THEN i ELSE i + c
           P == {i \in 0..m : o[i] = Pos(i)}
<1>1. m \in Nat /\ Len(K) \in Nat /\ m <= Len(K)
  BY DEF Conversation
<1>2. o[0] = 0 /\ \A i \in 1..Len(K) : o[i] = o[i - 1] + Len(Orphans(K, i)) + 1
  BY DEF Laid
<1>3. n \in 1..Len(K) => c \in Nat
  BY OrphansAre
<1> HIDE DEF c
<1>4. 0 \in P
  BY <1>1, <1>2
<1>5. ASSUME NEW i \in 1..m, i - 1 \in P PROVE i \in P
  <2>1. i \in 1..Len(K) /\ i \in 0..m
    BY <1>1
  <2>2. o[i] = Pos(i - 1) + Len(Orphans(K, i)) + 1
    BY <1>2, <1>5, <2>1
  <2>3. CASE i = n
    <3>1. Pos(i - 1) = i - 1 /\ Pos(i) = i + c /\ c \in Nat /\ Len(Orphans(K, i)) = c
      BY <1>3, <2>1, <2>3 DEF c
    <3>2. o[i] = (i - 1) + c + 1
      BY <2>2, <3>1
    <3> HIDE DEF Pos
    <3> QED BY <2>1, <3>1, <3>2
  <2>4. CASE i # n
    <3>1. Orphans(K, i) = <<>> /\ Len(Orphans(K, i)) = 0
      BY <2>4
    <3>2. Pos(i) = Pos(i - 1) + 1
      BY <1>3, <2>1, <2>4
    <3>3. Pos(i - 1) \in Nat
      <4>1. ~(i - 1 < n) => n \in 1..Len(K)
        BY <2>1, <1>1
      <4> QED BY <4>1, <1>3
    <3> HIDE DEF Pos
    <3> QED BY <2>1, <2>2, <3>1, <3>2, <3>3
  <2> QED BY <2>3, <2>4
<1> HIDE DEF P
<1>6. 0..m \subseteq P
  BY <1>1, <1>4, <1>5, BoundedInduction
<1> QED BY <1>6 DEF P, c

\* No message of `K` has orphans, but the one at `u`.
OneGap(K, u) == \A i \in 1..Len(K) : i # u => Orphans(K, i) = <<>>

LEMMA LaidGap ==
  ASSUME NEW K \in Conversation, NEW R \in Conversation, NEW o, Laid(o, R, K),
         NEW u \in 1..(Len(K) + 1), OneGap(K, u)
  PROVE  \A i \in 0..Len(K) : o[i] = IF i < u THEN i ELSE i + Len(Orphans(K, u))
<1> DEFINE w == Len(K)
<1>1. w \in 0..Len(K) /\ \A i \in 1..w : i # u => Orphans(K, i) = <<>>
  BY DEF Conversation, OneGap
<1> HIDE DEF w
<1>2. \A i \in 0..w : o[i] = IF i < u THEN i ELSE i + Len(Orphans(K, u))
  BY <1>1, LaidOne
<1> QED BY <1>2 DEF w

(* A conversation cut in one place, right before a message whose calls were  *)
(* all cut away, is put together again.                                      *)
CutOut(K, Q, n, c) ==
  /\ n \in 0..Len(Q) /\ c \in Nat /\ n + c <= Len(Q) /\ (c > 0 => n + c < Len(Q))
  /\ Len(K) = Len(Q) - c
  /\ \A i \in 1..n : K[i] = Q[i]
  /\ \A i \in (n + 1)..Len(K) : K[i] = Q[i + c]
  /\ OneGap(K, n + 1)
  /\ n < Len(K) => /\ Len(Orphans(K, n + 1)) = c
                   /\ \A k \in 1..c : Q[n + k] = Slim(Orphans(K, n + 1)[k])

LEMMA RepairedAgain ==
  ASSUME NEW Q \in Conversation, NEW K \in Conversation, NEW n, NEW c, CutOut(K, Q, n, c), NEW ms
  PROVE  Repaired(K, ms) = Q
<1> DEFINE X == Repaired(K, ms)
           M == Len(Q)
<1>1. X \in Conversation /\ \E o : Laid(o, X, K)
  BY RepairedIs
<1> HIDE DEF X
<1>2. PICK o : Laid(o, X, K)
  BY <1>1
<1>3. /\ M \in Nat /\ Len(K) = M - c /\ Len(K) \in Nat /\ n \in Nat /\ n + c <= M
      /\ c \in Nat /\ (c > 0 => n + c < M)
  BY DEF Conversation, CutOut
<1>4. \A i \in 0..Len(K) : o[i] = IF i < n + 1 THEN i ELSE i + Len(Orphans(K, n + 1))
  <2> DEFINE u == n + 1
  <2>1. u \in 1..(Len(K) + 1)
    BY <1>3
  <2>4. OneGap(K, u)
    BY DEF CutOut
  <2>2. X \in Conversation
    BY <1>1
  <2> HIDE DEF u
  <2>3. \A i \in 0..Len(K) : o[i] = IF i < u THEN i ELSE i + Len(Orphans(K, u))
    BY <1>2, <2>1, <2>2, <2>4, LaidGap
  <2> QED BY <2>3 DEF u
<1>5. ASSUME NEW i \in 0..Len(K) PROVE o[i] = IF i <= n THEN i ELSE i + c
  <2>1. i \in Nat /\ o[i] = IF i < n + 1 THEN i ELSE i + Len(Orphans(K, n + 1))
    BY <1>4
  <2>2. CASE i <= n
    <3>1. i < n + 1
      BY <2>1, <2>2, <1>3
    <3> QED BY <2>1, <2>2, <3>1
  <2>3. CASE ~(i <= n)
    <3>1. ~(i < n + 1) /\ n < Len(K)
      BY <2>1, <2>3, <1>3
    <3>2. Len(Orphans(K, n + 1)) = c
      BY <3>1 DEF CutOut
    <3> QED BY <2>1, <2>3, <3>1, <3>2
  <2> QED BY <2>2, <2>3
<1>6. Len(X) = M
  <2>1. Len(X) = o[Len(K)] /\ Len(K) \in 0..Len(K)
    BY <1>2, <1>3 DEF Laid
  <2>2. CASE c = 0
    BY <1>3, <1>5, <2>1, <2>2
  <2>3. CASE c > 0
    <3>1. ~(Len(K) <= n)
      BY <1>3, <2>3
    <3>2. o[Len(K)] = Len(K) + c
      BY <1>5, <2>1, <3>1
    <3> QED BY <1>3, <2>1, <3>2
  <2> QED BY <1>3, <2>2, <2>3
<1>7. \A i \in 1..Len(K) : X[o[i]] = K[i]
  BY <1>2 DEF Laid
<1>8. ASSUME NEW j \in 1..M PROVE X[j] = Q[j]
  <2>1. CASE j <= n
    <3>1. j \in 1..Len(K) /\ j \in 0..Len(K) /\ j \in 1..n
      BY <1>3, <2>1
    <3>2. o[j] = j
      BY <1>5, <2>1, <3>1
    <3> QED BY <1>7, <3>1, <3>2 DEF CutOut
  <2>2. CASE n < j /\ j <= n + c
    <3>1. j - n \in 1..c /\ n + (j - n) = j /\ n < Len(K) /\ n + 1 \in 1..Len(K) /\ n \in 0..Len(K)
      BY <1>3, <2>2
    <3>2. o[n] = n
      BY <1>5, <3>1
    <3>3. \A k \in 1..Len(Orphans(K, n + 1)) : X[o[(n + 1) - 1] + k] = Slim(Orphans(K, n + 1)[k])
      BY <1>2, <3>1 DEF Laid
    <3>4. (n + 1) - 1 = n
      BY <1>3
    <3>6. Len(Orphans(K, n + 1)) = c
      BY <3>1 DEF CutOut
    <3>7. \A k \in 1..c : X[n + k] = Slim(Orphans(K, n + 1)[k])
      BY <3>2, <3>3, <3>4, <3>6
    <3>5. X[n + (j - n)] = Slim(Orphans(K, n + 1)[j - n])
      BY <3>1, <3>7
    <3> QED BY <3>1, <3>5 DEF CutOut
  <2>3. CASE n + c < j
    <3> DEFINE i == j - c
    <3>1. i \in (n + 1)..Len(K) /\ i \in 1..Len(K) /\ i \in 0..Len(K) /\ i + c = j /\ ~(i <= n)
      BY <1>3, <2>3
    <3> HIDE DEF i
    <3>2. o[i] = j
      BY <1>5, <3>1
    <3> QED BY <1>7, <3>1, <3>2 DEF CutOut
  <2> QED BY <1>3, <2>1, <2>2, <2>3
<1>9. X = Q
  <2>1. X = [j \in 1..M |-> X[j]] /\ Q = [j \in 1..M |-> Q[j]]
    BY <1>1, <1>6 DEF Conversation
  <2> QED BY <2>1, <1>8
<1> QED BY <1>9 DEF X

LEMMA SelectSame ==
  ASSUME NEW T, NEW s \in Seq(T), NEW S, NEW U, \A i \in 1..Len(s) : s[i] \in S <=> s[i] \in U
  PROVE  Select(s, S) = Select(s, U)
<1> DEFINE N == Len(s)
<1>1. PICK f \in [0..N -> Seq(T)] :
        /\ f[0] = <<>> /\ Select(s, S) = f[N]
        /\ \A n \in 1..N : f[n] = IF s[n] \in S THEN Append(f[n - 1], s[n]) ELSE f[n - 1]
  BY SelectFcn
<1>2. PICK g \in [0..N -> Seq(T)] :
        /\ g[0] = <<>> /\ Select(s, U) = g[N]
        /\ \A n \in 1..N : g[n] = IF s[n] \in U THEN Append(g[n - 1], s[n]) ELSE g[n - 1]
  BY SelectFcn
<1> DEFINE P == {n \in 0..N : f[n] = g[n]}
<1>3. 0 \in P
  BY <1>1, <1>2
<1>4. ASSUME NEW n \in 1..N, n - 1 \in P PROVE n \in P
  <2>1. f[n - 1] = g[n - 1] /\ n \in 0..N
    BY <1>4
  <2> QED BY <2>1, <1>1, <1>2
<1>5. N \in P
  <2> HIDE DEF P
  <2>1. N \in Nat /\ N \in 0..N
    OBVIOUS
  <2>2. 0..N \subseteq P
    BY <1>3, <1>4, <2>1, BoundedInduction
  <2> QED BY <2>1, <2>2
<1> QED BY <1>1, <1>2, <1>5

(* The further along, the fewer places above.                               *)
LEMMA AboveStrict ==
  ASSUME NEW N \in Nat, NEW S \in SUBSET (1..N), NEW a \in S, NEW b \in S, a < b
  PROVE  Cardinality(Above(S, b)) + 1 <= Cardinality(Above(S, a))
<1> DEFINE A == Above(S, a)
           B == Above(S, b)
<1>0. /\ A = {j \in S : j > a} /\ B = {j \in S : j > b} /\ a \in Nat /\ b \in Nat
      /\ \A j \in S : j \in 1..N /\ j \in Nat
  BY DEF Above
<1>1. /\ A \in SUBSET (1..N) /\ B \in SUBSET (1..N) /\ b \notin B
      /\ B \cup {b} \subseteq A
  <2> HIDE DEF A, B
  <2>1. b \notin B /\ b \in A
    BY <1>0
  <2>2. \A j \in B : j \in A
    BY <1>0
  <2>3. A \in SUBSET (1..N) /\ B \in SUBSET (1..N)
    BY <1>0
  <2> QED BY <2>1, <2>2, <2>3
<1> HIDE DEF A, B
<1>2. IsFiniteSet(A) /\ IsFiniteSet(B) /\ Cardinality(A) \in Nat /\ Cardinality(B) \in Nat
  BY <1>1, PlacesFinite
<1>3. Cardinality(B \cup {b}) = Cardinality(B) + 1
  BY <1>1, <1>2, FS_AddElement
<1>4. Cardinality(B \cup {b}) <= Cardinality(A)
  BY <1>1, <1>2, FS_Subset
<1> QED BY <1>3, <1>4 DEF A, B

LEMMA AboveFewer ==
  ASSUME NEW N \in Nat, NEW S \in SUBSET (1..N), NEW a \in S
  PROVE  Cardinality(Above(S, a)) + 1 <= Cardinality(S)
<1> DEFINE A == Above(S, a)
<1>0. A = {j \in S : j > a} /\ a \in Nat
  BY DEF Above
<1>1. A \in SUBSET (1..N) /\ a \notin A /\ A \cup {a} \subseteq S
  <2> HIDE DEF A
  <2>1. a \notin A
    BY <1>0
  <2> QED BY <1>0, <2>1
<1> HIDE DEF A
<1>2. IsFiniteSet(A) /\ IsFiniteSet(S)
  BY <1>1, PlacesFinite
<1>3. Cardinality(A \cup {a}) = Cardinality(A) + 1
  BY <1>1, <1>2, FS_AddElement
<1>4. Cardinality(A \cup {a}) <= Cardinality(S)
  BY <1>1, <1>2, FS_Subset
<1> QED BY <1>3, <1>4 DEF A

LEMMA StartsAre ==
  ASSUME NEW ms \in Conversation
  PROVE  /\ Starts(ms) \in SUBSET (1..Len(ms)) /\ Len(ms) \in Nat
         /\ \A i \in 1..Len(ms) : i \in Starts(ms) <=>
              i = Prefix(ms) + 1 \/ (i > Prefix(ms) /\ Begins(ms[i]))
BY DEF Starts, Conversation

LEMMA FromUnique ==
  ASSUME NEW ms \in Conversation, NEW h \in Nat, NEW g \in Starts(ms),
         Cardinality(Above(Starts(ms), g)) = h
  PROVE  From(ms, h) = g
<1> DEFINE S == Starts(ms)
           N == Len(ms)
           p == Prefix(ms)
           x == From(ms, h)
<1>1. /\ S \in SUBSET (1..N) /\ N \in Nat
      /\ \A i \in 1..N : i \in S <=> i = p + 1 \/ (i > p /\ Begins(ms[i]))
  BY StartsAre
<1>2. p \in 0..N
  BY PrefixIs
<1>3. /\ IF p = N THEN x = p + 1 ELSE x \in S
      /\ Cardinality(S) <= h \/ Cardinality(Above(S, x)) = h
  BY FromIs
<1>4. g \in S /\ Cardinality(Above(S, g)) = h
  OBVIOUS
<1> HIDE DEF S, N, p, x
<1>5. Cardinality(S) \in Nat /\ Cardinality(Above(S, g)) + 1 <= Cardinality(S)
  BY <1>1, <1>4, PlacesFinite, AboveFewer
<1>6. Cardinality(Above(S, x)) = h
  BY <1>3, <1>4, <1>5
<1>7. g \in 1..N /\ g > p
  BY <1>1, <1>2, <1>4
<1>8. x \in S
  BY <1>2, <1>3, <1>7
<1>9. CASE x < g
  <2>1. Cardinality(Above(S, g)) + 1 <= Cardinality(Above(S, x))
    BY <1>1, <1>4, <1>8, <1>9, AboveStrict
  <2> QED BY <2>1, <1>4, <1>6
<1>10. CASE g < x
  <2>1. Cardinality(Above(S, x)) + 1 <= Cardinality(Above(S, g))
    BY <1>1, <1>4, <1>8, <1>10, AboveStrict
  <2> QED BY <2>1, <1>4, <1>6
<1>11. g \in Nat /\ x \in Nat
  BY <1>1, <1>4, <1>8
<1> QED BY <1>9, <1>10, <1>11 DEF x

-----------------------------------------------------------------------------
(* What comes out, seen from the messages that are kept.                    *)

\* A call one of the messages from `f` on makes.
CalledFrom(f) == {r \in Ids : \E k \in f..Len(messages) : Calls(r, messages, k)}
\* Between the messages from `f` on, at the places `w` gives, are calls put
\* back; `c` of them in front, which the first of those messages answers.
Spaced(Q, n, c, w, f) ==
  /\ Q \in Conversation /\ n \in 0..Len(Q) /\ c \in Nat
  /\ Prefix(Q) = n /\ \A j \in 1..n : Q[j].uses = <<>> /\ Q[j].results = <<>>
  /\ \A i \in f..Len(messages) : w[i] \in (n + c + 1)..Len(Q) /\ Q[w[i]] = messages[i]
  /\ \A i, k \in f..Len(messages) : i < k => w[i] < w[k]
  /\ IF f > Len(messages) THEN c = 0 /\ Len(Q) = n ELSE w[f] = n + c + 1
  /\ f = Prefix(messages) + 1 => c = 0
  /\ \A j \in (n + 1)..Len(Q) :
       \/ \E i \in f..Len(messages) : j = w[i]
       \/ \E r \in Ids : /\ Q[j] = Slim(r)
                         /\ j > n + c => \E i \in (f + 1)..Len(messages) : Brings(r, messages, i)
  /\ \A i \in (f + 1)..Len(messages) : \A r \in ToSet(messages[i].results) :
       r \in CalledFrom(f) \/ \E j \in (n + c + 1)..Len(Q) : Q[j] = Slim(r)
  /\ f <= Len(messages) =>
       LET q == Select(messages[f].results, Ids \ CalledFrom(f))
       IN Len(q) = c /\ \A k \in 1..c : Q[n + k] = Slim(q[k])

\* The second time, the same turns are kept: before them, at most, the calls
\* in front go, as a turn of their own.
LEMMA FromAgain ==
  ASSUME CompactorInv, NEW h \in Nat, NEW Q, NEW n, NEW c, NEW w,
         Spaced(Q, n, c, w, From(messages, h))
  PROVE  From(Q, h) = n + c + 1
<1> DEFINE f == From(messages, h)
           L == Len(messages)
           p == Prefix(messages)
           S == Starts(messages)
           T == Starts(Q)
           M == Len(Q)
           A == Above(S, f)
<1>1. /\ f \in (p + 1)..(L + 1) /\ IF p = L THEN f = p + 1 ELSE f \in S
      /\ Cardinality(S) <= h \/ Cardinality(A) = h
      /\ Cardinality(S) <= h => f = p + 1
      /\ p \in 0..L
  BY MessagesFacts, FromIs, PrefixIs
<1>2. /\ S \in SUBSET (1..L) /\ L \in Nat
      /\ \A i \in 1..L : i \in S <=> i = p + 1 \/ (i > p /\ Begins(messages[i]))
  BY MessagesFacts, StartsAre
<1>3. Q \in Conversation /\ Prefix(Q) = n /\ n \in 0..M /\ c \in Nat
  BY DEF Spaced
<1>4. /\ T \in SUBSET (1..M) /\ M \in Nat
      /\ \A i \in 1..M : i \in T <=> i = n + 1 \/ (i > n /\ Begins(Q[i]))
  BY <1>3, StartsAre
<1>5. /\ \A i \in f..L : w[i] \in (n + c + 1)..M /\ Q[w[i]] = messages[i]
      /\ \A i, k \in f..L : i < k => w[i] < w[k]
      /\ IF f > L THEN c = 0 /\ M = n ELSE w[f] = n + c + 1
      /\ f = p + 1 => c = 0
      /\ \A j \in (n + 1)..M : (\E i \in f..L : j = w[i]) \/ (\E r \in Ids : Q[j] = Slim(r))
  BY DEF Spaced
<1> DEFINE g == n + c + 1
           B == Above(T, g)
<1> HIDE DEF f, L, p, S, T, M, A
<1>6. CASE f > L
  <2>1. From(Q, h) \in (n + 1)..(M + 1)
    BY <1>3, FromIs DEF M
  <2> QED BY <2>1, <1>3, <1>4, <1>5, <1>6
<1>7. CASE f <= L
  <2>1. f \in f..L /\ f \in 1..L /\ f \in S /\ w[f] = g /\ g \in 1..M /\ g \in Nat
    <3>1. f \in f..L /\ f \in 1..L
      BY <1>1, <1>2, <1>7
    <3>2. f \in S
      BY <1>1, <1>2, <3>1
    <3>3. w[f] = g /\ g \in (n + c + 1)..M
      BY <1>1, <1>2, <1>5, <1>7, <3>1
    <3> QED BY <3>1, <3>2, <3>3, <1>3, <1>4
  <2>2. ASSUME NEW i \in A PROVE i \in f..L /\ w[i] \in B
    <3>1. i \in S /\ i > f
      BY DEF A, Above
    <3>2. i \in f..L /\ i \in 1..L /\ i > p /\ i # p + 1
      BY <3>1, <1>1, <1>2
    <3>3. Begins(messages[i])
      BY <3>1, <3>2, <1>2
    <3>4. w[i] > g /\ w[i] \in 1..M /\ w[i] > n
      BY <3>1, <3>2, <2>1, <1>3, <1>4, <1>5
    <3>5. w[i] \in T
      BY <3>2, <3>3, <3>4, <1>4, <1>5
    <3> QED BY <3>2, <3>4, <3>5 DEF B, Above
  <2>3. ASSUME NEW j \in B PROVE \E i \in A : j = w[i]
    <3>1. j \in T /\ j > g
      BY DEF B, Above
    <3>2. j \in (n + 1)..M /\ j \in 1..M /\ j # n + 1
      BY <3>1, <1>3, <1>4
    <3>3. Begins(Q[j])
      BY <3>1, <3>2, <1>4
    <3>4. PICK i \in f..L : j = w[i]
      <4>1. ASSUME NEW r \in Ids, Q[j] = Slim(r) PROVE FALSE
        BY <3>3, <4>1, SlimFacts DEF Begins
      <4> QED BY <3>2, <4>1, <1>5
    <3>5. i # f /\ i > f /\ i \in 1..L /\ i > p
      BY <3>1, <3>4, <2>1, <1>1, <1>2
    <3>6. Begins(messages[i])
      BY <3>3, <3>4, <1>5
    <3>7. i \in S
      BY <3>5, <3>6, <1>2
    <3> QED BY <3>4, <3>5, <3>7 DEF A, Above
  <2>4. A \in SUBSET (1..L) /\ B \in SUBSET (1..M)
    BY <1>2, <1>4 DEF A, B, Above
  <2>5. IsFiniteSet(A) /\ IsFiniteSet(B) /\ Cardinality(A) \in Nat /\ Cardinality(B) \in Nat
    <3> HIDE DEF B
    <3> QED BY <2>4, <1>2, <1>4, PlacesFinite
  <2>6. Cardinality(B) = Cardinality(A)
    <3> HIDE DEF B
    <3> DEFINE t == [i \in A |-> w[i]]
    <3>1. t \in [A -> B]
      BY <2>2
    <3>2. \A i, k \in A : t[i] = t[k] => i = k
      <4> SUFFICES ASSUME NEW i \in A, NEW k \in A, w[i] = w[k] PROVE i = k
        OBVIOUS
      <4>1. i \in f..L /\ k \in f..L /\ i \in Nat /\ k \in Nat
        BY <2>2, <2>4
      <4>2. w[i] \in Nat /\ w[k] \in Nat
        BY <4>1, <1>3, <1>4, <1>5
      <4>3. ~(i < k) /\ ~(k < i)
        BY <4>1, <4>2, <1>5
      <4> QED BY <4>1, <4>3
    <3>3. \A j \in B : \E i \in A : t[i] = j
      BY <2>3
    <3> HIDE DEF t
    <3>4. t \in Injection(A, B)
      BY <3>1, <3>2 DEF Injection, IsInjective
    <3>5. t \in Surjection(A, B)
      BY <3>1, <3>3 DEF Surjection
    <3> QED BY <3>4, <3>5, <2>5, FS_Injection
  <2>7. CASE Cardinality(S) <= h
    <3>1. f = p + 1 /\ c = 0 /\ g = n + 1
      BY <1>1, <1>3, <1>5, <2>7
    <3>2. S = A \cup {f} /\ f \notin A
      <4>1. \A i \in S : i = f \/ i > f
        BY <1>1, <1>2, <3>1
      <4>2. A = {j \in S : j > f} /\ f \in Nat /\ f \in S
        BY <2>1 DEF A, Above
      <4>3. f \notin A
        BY <4>2
      <4> QED BY <4>1, <4>2, <4>3
    <3>3. T = B \cup {g} /\ g \notin B
      <4>1. \A i \in T : i = g \/ i > g
        BY <1>3, <1>4, <3>1
      <4>2. g \in T
        BY <2>1, <3>1, <1>4
      <4> QED BY <4>1, <4>2, <2>1 DEF B, Above
    <3> HIDE DEF B, g
    <3>4. Cardinality(T) = Cardinality(S)
      <4>1. Cardinality(A \cup {f}) = Cardinality(A) + 1
        BY <3>2, <2>5, FS_AddElement
      <4>2. Cardinality(B \cup {g}) = Cardinality(B) + 1
        BY <3>3, <2>5, FS_AddElement
      <4> QED BY <4>1, <4>2, <3>2, <3>3, <2>6
    <3>5. From(Q, h) = n + 1
      BY <3>4, <2>7, <1>3, FromIs DEF T
    <3> QED BY <3>1, <3>5 DEF g
  <2>8. CASE ~(Cardinality(S) <= h)
    <3>1. Cardinality(B) = h
      BY <1>1, <2>6, <2>8
    <3>2. g \in T
      <4>1. CASE f = p + 1
        BY <4>1, <2>1, <1>3, <1>4, <1>5
      <4>2. CASE f # p + 1
        <5>1. f > p
          BY <1>1
        <5>2. Begins(messages[f])
          BY <4>2, <2>1, <1>2
        <5>3. Begins(Q[g]) /\ g > n
          BY <5>2, <2>1, <1>3, <1>5
        <5> QED BY <5>3, <2>1, <1>4
      <4> QED BY <4>1, <4>2
    <3> HIDE DEF g
    <3>3. From(Q, h) = g
      BY <3>1, <3>2, <1>3, FromUnique DEF B, T
    <3> QED BY <3>3 DEF g
  <2> QED BY <2>7, <2>8
<1> QED BY <1>1, <1>2, <1>6, <1>7

LEMMA UsesMembers ==
  ASSUME NEW K \in Conversation
  PROVE  \A r : r \in ToSet(Uses(K)) <=> \E n \in 1..Len(K) : r \in ToSet(K[n].uses)
<1>1. Plain("user") \in Message
  BY PlainFacts
<1> QED BY <1>1, UsesAppend

LEMMA OrphansNone ==
  ASSUME NEW K \in Conversation, NEW i \in 1..Len(K),
         \A r \in ToSet(K[i].results) : \E n \in 1..Len(K) : r \in ToSet(K[n].uses)
  PROVE  Orphans(K, i) = <<>>
<1> DEFINE q == Orphans(K, i)
<1>1. q \in Seq(Ids) /\ \A r : r \notin ToSet(q)
  BY OrphansAre
<1> HIDE DEF q
<1>2. \A k \in 1..Len(q) : q[k] \in ToSet(q)
  BY <1>1 DEF ToSet
<1>3. Len(q) = 0
  <2>1. ~(1 \in 1..Len(q))
    BY <1>1, <1>2
  <2> QED BY <2>1, <1>1
<1> QED BY <1>1, <1>3 DEF q

\* What is put back is put back the second time as well.
LEMMA RepairedOnceMore ==
  ASSUME CompactorInv, Whole(messages), NEW h \in Nat, NEW Q, NEW n, NEW c, NEW w,
         Spaced(Q, n, c, w, From(messages, h)), NEW ms
  PROVE  Repaired(Kept(Q, h), ms) = Q
<1> DEFINE f == From(messages, h)
           L == Len(messages)
           M == Len(Q)
           K == Kept(Q, h)
           N == Len(K)
           Late(r) == \E j \in (n + c + 1)..M : Calls(r, Q, j)
<1>1. From(Q, h) = n + c + 1
  BY FromAgain
<1>2. Q \in Conversation /\ Prefix(Q) = n /\ n \in 0..M /\ c \in Nat /\ M \in Nat /\ n \in Nat
  BY DEF Spaced, Conversation
<1>3. f \in Nat /\ L \in Nat /\ messages \in Conversation /\ f > 0
  <2>1. f \in (Prefix(messages) + 1)..(L + 1) /\ Prefix(messages) \in Nat
    BY MessagesFacts, KeptPlaces
  <2> QED BY <2>1, MessagesFacts
<1>4. /\ \A j \in 1..n : Q[j].uses = <<>> /\ Q[j].results = <<>>
      /\ \A i \in f..L : w[i] \in (n + c + 1)..M /\ Q[w[i]] = messages[i]
      /\ \A i, k \in f..L : i < k => w[i] < w[k]
      /\ IF f > L THEN c = 0 /\ M = n ELSE w[f] = n + c + 1
      /\ \A i \in (f + 1)..L : \A r \in ToSet(messages[i].results) :
           r \in CalledFrom(f) \/ \E j \in (n + c + 1)..M : Q[j] = Slim(r)
  BY DEF Spaced
<1>5. \A j \in (n + 1)..M :
        \/ \E i \in f..L : j = w[i]
        \/ \E r \in Ids : /\ Q[j] = Slim(r)
                          /\ j > n + c => \E i \in (f + 1)..L : Brings(r, messages, i)
  BY DEF Spaced
<1>6. f <= L => /\ Len(Select(messages[f].results, Ids \ CalledFrom(f))) = c
                /\ \A k \in 1..c : Q[n + k] = Slim(Select(messages[f].results, Ids \ CalledFrom(f))[k])
  BY DEF Spaced
<1>7. /\ K \in Conversation /\ N = n + (M - (n + c + 1) + 1)
      /\ \A i \in 1..n : K[i] = Q[i]
      /\ \A i \in (n + c + 1)..M : K[n + (i - (n + c + 1) + 1)] = Q[i]
  <2>1. Q \in Conversation
    BY <1>2
  <2>2. /\ Kept(Q, h) \in Conversation
        /\ Len(Kept(Q, h)) = Prefix(Q) + (Len(Q) - From(Q, h) + 1)
        /\ \A i \in 1..Prefix(Q) : Kept(Q, h)[i] = Q[i]
        /\ \A i \in From(Q, h)..Len(Q) : Kept(Q, h)[Prefix(Q) + (i - From(Q, h) + 1)] = Q[i]
    BY <2>1, KeptIs
  <2>3. Prefix(Q) = n
    BY <1>2
  <2> QED BY <2>2, <2>3, <1>1
<1> HIDE DEF f, L, M, K, N
<1>8. n + c <= M /\ (c > 0 => n + c < M)
  <2>1. CASE f > L
    BY <2>1, <1>2, <1>4
  <2>2. CASE ~(f > L)
    <3>1. f \in f..L /\ w[f] = n + c + 1
      BY <2>2, <1>3, <1>4
    <3>2. n + c + 1 <= M
      BY <3>1, <1>2, <1>4
    <3> QED BY <3>2, <1>2
  <2> QED BY <2>1, <2>2
<1>9. N = M - c /\ N \in Nat
  BY <1>2, <1>7, <1>8
<1>10. ASSUME NEW i \in (n + 1)..N PROVE K[i] = Q[i + c] /\ i + c \in (n + c + 1)..M
  <2>1. i + c \in (n + c + 1)..M /\ n + ((i + c) - (n + c + 1) + 1) = i
    BY <1>2, <1>9
  <2> QED BY <2>1, <1>7
<1>11. \A r : (\E k \in 1..N : r \in ToSet(K[k].uses)) <=> Late(r)
  <2>1. ASSUME NEW r, NEW k \in 1..N, r \in ToSet(K[k].uses) PROVE Late(r)
    <3>1. ~(k <= n)
      <4>1. ASSUME k <= n PROVE K[k].uses = <<>>
        <5>1. k \in 1..n
          BY <4>1, <1>2
        <5>2. K[k] = Q[k] /\ Q[k].uses = <<>>
          BY <5>1, <1>4, <1>7
        <5> QED BY <5>2
      <4> QED BY <2>1, <4>1 DEF ToSet
    <3>2. k \in (n + 1)..N
      BY <3>1, <1>2, <1>9
    <3>3. K[k] = Q[k + c] /\ k + c \in (n + c + 1)..M
      BY <3>2, <1>10
    <3> QED BY <2>1, <3>3 DEF Calls
  <2>2. ASSUME NEW r, NEW j \in (n + c + 1)..M, Calls(r, Q, j)
        PROVE  \E k \in 1..N : r \in ToSet(K[k].uses)
    <3>1. j - c \in (n + 1)..N /\ j - c \in 1..N /\ (j - c) + c = j
      BY <1>2, <1>9
    <3>2. K[j - c] = Q[j]
      BY <3>1, <1>10
    <3> QED BY <3>1, <3>2, <2>2 DEF Calls
  <2> QED BY <2>1, <2>2
<1>12. \A r \in CalledFrom(f) : Late(r)
  BY <1>4 DEF CalledFrom, Calls, L
<1>13. \A i \in (f + 1)..L : \A r \in ToSet(messages[i].results) : Late(r)
  <2> SUFFICES ASSUME NEW i \in (f + 1)..L, NEW r \in ToSet(messages[i].results) PROVE Late(r)
    OBVIOUS
  <2>1. CASE r \in CalledFrom(f)
    BY <2>1, <1>12
  <2>2. CASE r \notin CalledFrom(f)
    <3>1. PICK j \in (n + c + 1)..M : Q[j] = Slim(r)
      BY <2>2, <1>4
    <3>2. r \in Ids
      <4>1. i \in 1..L
        BY <1>3
      <4>2. messages[i].results \in Seq(Ids)
        BY <4>1, <1>3, MessageFacts DEF Conversation, L
      <4> QED BY <4>2 DEF ToSet
    <3>3. Slim(r).uses = <<r>>
      BY <3>2, SlimFacts
    <3>4. r \in ToSet(<<r>>)
      BY DEF ToSet
    <3> QED BY <3>1, <3>3, <3>4 DEF Calls
  <2> QED BY <2>1, <2>2
<1>14. ASSUME f <= L, NEW r \in ToSet(messages[f].results), Late(r) PROVE r \in CalledFrom(f)
  <2>1. PICK j \in (n + c + 1)..M : Calls(r, Q, j)
    BY <1>14
  <2>2. j \in (n + 1)..M /\ j > n + c
    BY <1>2
  <2>3. CASE \E i \in f..L : j = w[i]
    <3>1. PICK i \in f..L : j = w[i]
      BY <2>3
    <3>2. Calls(r, messages, i)
      BY <2>1, <3>1, <1>4 DEF Calls
    <3>3. i \in 1..L
      BY <1>3
    <3>4. messages[i].uses \in Seq(Ids)
      BY <3>3, <1>3, MessageFacts DEF Conversation, L
    <3>5. r \in Ids
      BY <3>2, <3>4 DEF Calls, ToSet
    <3> QED BY <3>2, <3>5 DEF CalledFrom, L
  <2>4. CASE ~(\E i \in f..L : j = w[i])
    <3>1. PICK x \in Ids : Q[j] = Slim(x) /\ \E i \in (f + 1)..L : Brings(x, messages, i)
      BY <2>2, <2>4, <1>5
    <3>2. r = x
      <4>1. Slim(x).uses = <<x>>
        BY <3>1, SlimFacts
      <4> QED BY <4>1, <3>1, <2>1 DEF Calls, ToSet
    <3>3. PICK i \in (f + 1)..L : r \in ToSet(messages[i].results)
      BY <3>1, <3>2 DEF Brings
    <3>4. i \in 1..L /\ f \in 1..(i - 1)
      BY <1>3
    <3>5. ~Brings(r, messages, f)
      BY <3>3, <3>4 DEF Whole, L
    <3> QED BY <3>5, <1>14 DEF Brings
  <2> QED BY <2>3, <2>4
<1>15. ASSUME NEW i \in 1..N, i # n + 1 PROVE Orphans(K, i) = <<>>
  <2>1. \A r \in ToSet(K[i].results) : \E k \in 1..N : r \in ToSet(K[k].uses)
    <3> SUFFICES ASSUME NEW r \in ToSet(K[i].results) PROVE Late(r)
      BY <1>11
    <3>1. ~(i <= n)
      <4>1. ASSUME i <= n PROVE K[i].results = <<>>
        <5>1. i \in 1..n
          BY <4>1, <1>2
        <5>2. K[i] = Q[i] /\ Q[i].results = <<>>
          BY <5>1, <1>4, <1>7
        <5> QED BY <5>2
      <4> QED BY <4>1 DEF ToSet
    <3>2. i \in (n + 1)..N
      BY <3>1, <1>2, <1>9
    <3>3. K[i] = Q[i + c] /\ i + c \in (n + c + 1)..M
      BY <3>2, <1>10
    <3>4. i + c \in (n + 1)..M /\ i + c # n + c + 1
      BY <3>3, <1>2, <1>15
    <3>5. CASE \E k \in f..L : i + c = w[k]
      <4>1. PICK k \in f..L : i + c = w[k]
        BY <3>5
      <4>2. k # f
        BY <4>1, <3>4, <1>3, <1>4
      <4>3. k \in (f + 1)..L /\ messages[k] = K[i]
        BY <4>1, <4>2, <3>3, <1>3, <1>4
      <4> QED BY <4>3, <1>13
    <3>6. CASE ~(\E k \in f..L : i + c = w[k])
      <4>1. PICK x \in Ids : Q[i + c] = Slim(x)
        BY <3>4, <3>6, <1>5
      <4>2. K[i].results = <<>>
        BY <4>1, <3>3, SlimFacts
      <4> QED BY <4>2 DEF ToSet
    <3> QED BY <3>5, <3>6
  <2> QED BY <2>1, <1>7, OrphansNone DEF N
<1>16. ASSUME n < N
       PROVE  /\ Len(Orphans(K, n + 1)) = c
              /\ \A k \in 1..c : Q[n + k] = Slim(Orphans(K, n + 1)[k])
  <2>1. f <= L
    BY <1>2, <1>3, <1>4, <1>9, <1>16
  <2>2. n + 1 \in (n + 1)..N /\ (n + 1) + c = n + c + 1 /\ f \in f..L /\ f \in 1..L
    BY <2>1, <1>2, <1>3, <1>9, <1>16
  <2>3. K[n + 1] = messages[f]
    BY <2>1, <2>2, <1>3, <1>4, <1>10
  <2> DEFINE s == messages[f].results
             U == Ids \ ToSet(Uses(K))
             V == Ids \ CalledFrom(f)
  <2>4. s \in Seq(Ids)
    BY <2>2, <1>3, MessageFacts DEF Conversation, L
  <2>5. \A r : r \in ToSet(Uses(K)) <=> Late(r)
    <3>1. \A r : r \in ToSet(Uses(K)) <=> \E k \in 1..N : r \in ToSet(K[k].uses)
      BY <1>7, UsesMembers DEF N
    <3> QED BY <3>1, <1>11
  <2>6. ASSUME NEW k \in 1..Len(s) PROVE s[k] \in U <=> s[k] \in V
    <3> DEFINE r == s[k]
    <3>1. r \in ToSet(s) /\ r \in Ids
      BY <2>4 DEF ToSet
    <3> HIDE DEF r
    <3>2. Late(r) <=> r \in CalledFrom(f)
      BY <2>1, <3>1, <1>12, <1>14
    <3>3. r \in U <=> r \in V
      BY <2>5, <3>1, <3>2
    <3> QED BY <3>3 DEF r
  <2>7. Orphans(K, n + 1) = Select(s, U)
    BY <2>3 DEF Orphans
  <2> HIDE DEF s, U, V
  <2>8. Select(s, U) = Select(s, V)
    BY <2>4, <2>6, SelectSame
  <2>9. Orphans(K, n + 1) = Select(messages[f].results, Ids \ CalledFrom(f))
    BY <2>7, <2>8 DEF s, V
  <2> QED BY <2>1, <2>9, <1>6
<1>17. CutOut(K, Q, n, c)
  <2>1. OneGap(K, n + 1)
    BY <1>15 DEF OneGap, N
  <2>2. \A i \in (n + 1)..N : K[i] = Q[i + c]
    BY <1>10
  <2> QED BY <2>1, <2>2, <1>2, <1>7, <1>8, <1>9, <1>16 DEF CutOut, M, N
<1> QED BY <1>2, <1>7, <1>17, RepairedAgain DEF K

LEMMA LeadFacts ==
  ASSUME CompactorInv
  PROVE  \A i \in 1..Prefix(messages) : messages[i].uses = <<>> /\ messages[i].results = <<>>
<1> SUFFICES ASSUME NEW i \in 1..Prefix(messages)
             PROVE  messages[i].uses = <<>> /\ messages[i].results = <<>>
  OBVIOUS
<1>1. messages[i].role \in Instructions /\ i \in 1..Len(messages)
  BY MessagesFacts, PrefixIs
<1> QED BY <1>1, MessagesFacts DEF WellMade, Instructions

LEMMA LaidLead ==
  ASSUME NEW K \in Conversation, NEW R \in Conversation, NEW o, Laid(o, R, K),
         NEW m \in 0..Len(K), \A i \in 1..m : Orphans(K, i) = <<>>
  PROVE  \A i \in 0..m : o[i] = i
<1> DEFINE u == m + 1
<1>1. u \in 1..(Len(K) + 1) /\ \A i \in 0..m : i < u
  BY DEF Conversation
<1> HIDE DEF u
<1>2. \A i \in 1..m : i # u => Orphans(K, i) = <<>>
  OBVIOUS
<1>3. \A i \in 0..m : o[i] = IF i < u THEN i ELSE i + Len(Orphans(K, u))
  BY <1>1, <1>2, LaidOne
<1> QED BY <1>1, <1>3

\* `Q` is `R`, with at most a message more among those that lead.
Leads(Q, R, d) ==
  /\ Q \in Conversation /\ d \in {0, 1} /\ Len(Q) = Len(R) + d
  /\ Prefix(Q) = Prefix(messages) + d
  /\ \A j \in (Prefix(messages) + 1)..Len(R) : Q[j + d] = R[j]
  /\ \A j \in 1..(Prefix(messages) + d) : Q[j].uses = <<>> /\ Q[j].results = <<>>

LEMMA LeadsSpaced ==
  ASSUME CompactorInv, Whole(messages), NEW h \in Nat, NEW Q, NEW d,
         Leads(Q, Repaired(Kept(messages, h), messages), d)
  PROVE  \E c, w : Spaced(Q, Prefix(messages) + d, c, w, From(messages, h))
<1> DEFINE p == Prefix(messages)
           f == From(messages, h)
           L == Len(messages)
           K == Kept(messages, h)
           N == Len(K)
           R == Repaired(K, messages)
           n == p + d
           c == IF f > L THEN 0 ELSE Len(Orphans(K, p + 1))
<1>1. /\ p \in 0..L /\ f \in (p + 1)..(L + 1) /\ L \in Nat /\ p \in Nat /\ f \in Nat
      /\ messages \in Conversation
  <2>1. messages \in Conversation /\ L \in Nat
    BY MessagesFacts
  <2>2. p \in 0..L /\ f \in (p + 1)..(L + 1)
    BY KeptPlaces
  <2> HIDE DEF p, f, L
  <2> QED BY <2>1, <2>2
<1>2. /\ K \in Conversation /\ N = p + (L - f + 1)
      /\ \A i \in 1..p : K[i] = messages[i]
      /\ \A i \in f..L : K[p + (i - f + 1)] = messages[i]
  BY MessagesFacts, KeptIs
<1>3. R \in Conversation /\ \E o : Laid(o, R, K)
  <2> HIDE DEF K
  <2> QED BY <1>2, RepairedIs
<1>4. /\ Q \in Conversation /\ d \in {0, 1} /\ d \in Nat /\ Len(Q) = Len(R) + d
      /\ Prefix(Q) = n
      /\ \A j \in (p + 1)..Len(R) : Q[j + d] = R[j]
      /\ \A j \in 1..n : Q[j].uses = <<>> /\ Q[j].results = <<>>
  BY DEF Leads
<1>27. d \in Nat /\ Len(Q) = Len(R) + d
  BY <1>4
<1>5. \A i \in 1..p : messages[i].uses = <<>> /\ messages[i].results = <<>>
  BY LeadFacts
<1> HIDE DEF p, f, L, K, N, R
<1>6. PICK o : Laid(o, R, K)
  BY <1>3
<1>7. N \in Nat /\ p <= N /\ Len(R) \in Nat /\ (f <= L => p + 1 \in 1..N)
  BY <1>1, <1>2, <1>3 DEF Conversation
<1>8. /\ \A i \in 1..N : o[i] \in 1..Len(R) /\ o[i - 1] \in Nat /\ o[i - 1] < o[i]
      /\ \A i, k \in 1..N : i < k => o[i] < o[k] /\ o[i] <= o[k - 1]
      /\ \A j \in 1..Len(R) :
           \/ \E i \in 1..N : j = o[i]
           \/ \E i \in 1..N : /\ o[i - 1] < j /\ j < o[i]
                              /\ \E r \in ToSet(Orphans(K, i)) : R[j] = Slim(r)
      /\ \A i \in 1..N : \A r \in ToSet(Orphans(K, i)) :
           \E j \in 1..Len(R) : o[i - 1] < j /\ j < o[i] /\ R[j] = Slim(r)
  BY <1>2, <1>3, <1>6, LaidClimbs DEF N
<1>9. \A i \in 1..N : /\ o[i] = o[i - 1] + Len(Orphans(K, i)) + 1 /\ R[o[i]] = K[i]
                      /\ \A k \in 1..Len(Orphans(K, i)) : R[o[i - 1] + k] = Slim(Orphans(K, i)[k])
  BY <1>6 DEF Laid, N
<1>10. Len(R) = o[N] /\ o[0] = 0
  BY <1>6 DEF Laid, N
<1>11. ASSUME NEW i \in 1..p PROVE Orphans(K, i) = <<>>
  <2>1. i \in 1..N
    BY <1>1, <1>7
  <2>2. ToSet(K[i].results) = {}
    BY <1>2, <1>5 DEF ToSet
  <2> QED BY <2>1, <2>2, <1>2, OrphansNone DEF N
<1>12. \A i \in 0..p : o[i] = i
  <2>1. K \in Conversation
    BY <1>2
  <2>2. R \in Conversation
    BY <1>3
  <2>3. p \in 0..Len(K)
    BY <1>1, <1>7 DEF N
  <2>4. \A i \in 1..p : Orphans(K, i) = <<>>
    BY <1>11
  <2> QED BY <1>6, <2>1, <2>2, <2>3, <2>4, LaidLead
<1>13. c \in Nat /\ (f <= L => /\ o[p + 1] = p + c + 1 /\ Len(Orphans(K, p + 1)) = c
                              /\ (p + 1) - 1 = p /\ o[p] = p)
  <2>1. CASE f > L
    BY <1>1, <2>1
  <2>2. CASE ~(f > L)
    <3>1. p + 1 \in 1..N /\ (p + 1) - 1 = p /\ p \in 0..p
      BY <1>1, <1>7, <2>2
    <3>2. Orphans(K, p + 1) \in Seq(Ids)
      BY <1>2, <3>1, OrphansAre DEF N
    <3>3. c \in Nat /\ c = Len(Orphans(K, p + 1))
      BY <2>2, <3>2
    <3>4. o[p + 1] = o[p] + c + 1 /\ o[p] = p
      BY <1>9, <1>12, <3>1, <3>3
    <3> QED BY <3>1, <3>3, <3>4
  <2> QED BY <2>1, <2>2
<1> HIDE DEF c
<1> DEFINE Pos(i) == p + (i - f + 1)
           w == [i \in f..L |-> o[Pos(i)] + d]
<1>14. ASSUME NEW i \in f..L
       PROVE  /\ Pos(i) \in 1..N /\ Pos(i) >= p + 1 /\ K[Pos(i)] = messages[i] /\ Pos(i) \in Nat
              /\ i > f => Pos(i) > p + 1
  BY <1>1, <1>2, <1>7
<1>15. ASSUME NEW x \in 1..N, x > p
       PROVE  /\ x - p + f - 1 \in f..L /\ Pos(x - p + f - 1) = x
              /\ x > p + 1 => x - p + f - 1 \in (f + 1)..L
  BY <1>1, <1>2, <1>15
<1>16. \A x \in 1..N : x > p => o[x] >= p + c + 1 /\ (x > p + 1 => o[x - 1] >= p + c + 1)
  <2> SUFFICES ASSUME NEW x \in 1..N, x > p
               PROVE  o[x] >= p + c + 1 /\ (x > p + 1 => o[x - 1] >= p + c + 1)
    OBVIOUS
  <2>1. f <= L /\ p + 1 \in 1..N
    BY <1>1, <1>2
  <2>2. o[p + 1] = p + c + 1
    BY <2>1, <1>13
  <2>3. CASE x = p + 1
    BY <2>2, <2>3, <1>1, <1>13
  <2>4. CASE x # p + 1
    <3>1. p + 1 < x
      BY <2>4, <1>1
    <3>2. o[p + 1] < o[x] /\ o[p + 1] <= o[x - 1] /\ o[x] \in Nat /\ o[x - 1] \in Nat
      BY <2>1, <3>1, <1>8
    <3> QED BY <2>2, <3>2, <1>1, <1>13
  <2> QED BY <2>3, <2>4
<1>17. n \in 0..Len(Q)
  <2>1. Prefix(Q) \in 0..Len(Q)
    BY <1>4, PrefixIs
  <2> QED BY <2>1, <1>4
<1>18. \A i \in f..L : w[i] \in (n + c + 1)..Len(Q) /\ Q[w[i]] = messages[i]
  <2> SUFFICES ASSUME NEW i \in f..L
               PROVE  w[i] \in (n + c + 1)..Len(Q) /\ Q[w[i]] = messages[i]
    OBVIOUS
  <2> DEFINE a == o[Pos(i)]
  <2>1. a \in 1..Len(R) /\ R[a] = messages[i] /\ a >= p + c + 1
    BY <1>8, <1>9, <1>14, <1>16, <1>1
  <2>2. w[i] = a + d
    OBVIOUS
  <2> HIDE DEF a, w
  <2>3. a \in (p + 1)..Len(R) /\ a + d \in (n + c + 1)..Len(Q)
    <3>1. p \in Nat /\ c \in Nat /\ Len(R) \in Nat
      BY <1>1, <1>7, <1>13
    <3> QED BY <2>1, <3>1, <1>27
  <2> QED BY <2>1, <2>2, <2>3, <1>4
<1>19. \A i, k \in f..L : i < k => w[i] < w[k]
  <2> SUFFICES ASSUME NEW i \in f..L, NEW k \in f..L, i < k PROVE w[i] < w[k]
    OBVIOUS
  <2>1. Pos(i) \in 1..N /\ Pos(k) \in 1..N /\ Pos(i) < Pos(k)
    <3>1. Pos(i) \in 1..N /\ Pos(k) \in 1..N
      BY <1>14
    <3>2. p + (i - f + 1) < p + (k - f + 1)
      BY <1>1
    <3> QED BY <3>1, <3>2
  <2>2. o[Pos(i)] < o[Pos(k)] /\ o[Pos(i)] \in Nat /\ o[Pos(k)] \in Nat
    BY <2>1, <1>8
  <2>3. w[i] = o[Pos(i)] + d /\ w[k] = o[Pos(k)] + d
    OBVIOUS
  <2> HIDE DEF w, Pos
  <2> QED BY <2>2, <2>3, <1>4
<1>20. IF f > L THEN c = 0 /\ Len(Q) = n ELSE w[f] = n + c + 1
  <2>1. CASE f > L
    <3>1. N = p /\ p \in 0..p
      BY <1>1, <1>2, <2>1
    <3>2. Len(R) = p
      BY <3>1, <1>10, <1>12
    <3> QED BY <2>1, <3>2, <1>4 DEF c
  <2>2. CASE ~(f > L)
    <3>1. f \in f..L /\ Pos(f) = p + 1
      BY <2>2, <1>1
    <3>2. w[f] = o[p + 1] + d /\ o[p + 1] = p + c + 1
      BY <3>1, <2>2, <1>1, <1>13
    <3> HIDE DEF w
    <3> QED BY <2>2, <3>2, <1>1, <1>4, <1>13
  <2> QED BY <2>1, <2>2
<1>21. f = p + 1 => c = 0
  <2> SUFFICES ASSUME f = p + 1, f <= L PROVE c = 0
    BY <1>1 DEF c
  <2>1. p + 1 \in 1..N /\ K[p + 1] = messages[p + 1] /\ p + 1 \in 1..L /\ (p + 1) - 1 = p
    <3>1. f \in f..L /\ p + (f - f + 1) = p + 1 /\ p + 1 \in 1..L /\ (p + 1) - 1 = p
      BY <1>1
    <3> QED BY <3>1, <1>2, <1>7
  <2>2. \A r \in ToSet(K[p + 1].results) : FALSE
    <3> SUFFICES ASSUME NEW r \in ToSet(messages[p + 1].results) PROVE FALSE
      BY <2>1
    <3>1. PICK j \in 1..((p + 1) - 1) : Calls(r, messages, j)
      BY <2>1 DEF Whole, L
    <3>2. j \in 1..p
      BY <2>1, <3>1
    <3> QED BY <3>1, <3>2, <1>5 DEF Calls, ToSet
  <2>3. Orphans(K, p + 1) = <<>>
    BY <2>1, <2>2, <1>2, OrphansNone DEF N
  <2> QED BY <2>3 DEF c
<1>22. ASSUME NEW j \in (n + 1)..Len(Q)
       PROVE  \/ \E i \in f..L : j = w[i]
              \/ \E r \in Ids : /\ Q[j] = Slim(r)
                                /\ j > n + c => \E i \in (f + 1)..L : Brings(r, messages, i)
  <2> DEFINE y == j - d
  <2>1. y \in (p + 1)..Len(R) /\ y \in 1..Len(R) /\ y + d = j /\ y \in Nat
    BY <1>1, <1>4, <1>7
  <2>2. Q[j] = R[y]
    BY <2>1, <1>4
  <2>3. j > n + c => y > p + c
    BY <1>1, <1>4, <1>13
  <2> HIDE DEF y
  <2>4. CASE \E i \in 1..N : y = o[i]
    <3>1. PICK x \in 1..N : y = o[x]
      BY <2>4
    <3>2. x > p
      <4>1. ~(x <= p)
        BY <2>1, <3>1, <1>1, <1>12
      <4> QED BY <4>1, <1>1
    <3> DEFINE i == x - p + f - 1
    <3>3. i \in f..L /\ Pos(i) = x
      BY <3>2, <1>15
    <3> HIDE DEF i, Pos
    <3>4. w[i] = y + d
      BY <3>1, <3>3
    <3> QED BY <2>1, <3>3, <3>4
  <2>5. CASE ~(\E i \in 1..N : y = o[i])
    <3>1. PICK x \in 1..N : /\ o[x - 1] < y /\ y < o[x]
                            /\ \E r \in ToSet(Orphans(K, x)) : R[y] = Slim(r)
      BY <2>1, <2>5, <1>8
    <3>2. PICK r \in ToSet(Orphans(K, x)) : R[y] = Slim(r)
      BY <3>1
    <3>3. Orphans(K, x) \in Seq(Ids) /\ r \in ToSet(K[x].results)
      BY <3>2, <1>2, OrphansAre DEF N
    <3>4. r \in Ids
      BY <3>2, <3>3 DEF ToSet
    <3>5. x > p
      <4>1. ~(x <= p)
        BY <3>2, <1>1, <1>11 DEF ToSet
      <4> QED BY <4>1, <1>1
    <3>6. ASSUME j > n + c PROVE \E i \in (f + 1)..L : Brings(r, messages, i)
      <4>1. x # p + 1
        <5>1. f <= L
          BY <3>5, <1>1, <1>2
        <5> QED BY <5>1, <3>1, <3>6, <2>1, <2>3, <1>1, <1>13
      <4>2. x > p + 1
        BY <4>1, <3>5, <1>1
      <4> DEFINE i == x - p + f - 1
      <4>3. i \in (f + 1)..L /\ i \in f..L /\ Pos(i) = x
        BY <4>2, <3>5, <1>15
      <4> HIDE DEF i
      <4>4. K[x] = messages[i]
        BY <4>3, <1>14
      <4> QED BY <4>3, <4>4, <3>3 DEF Brings
    <3> QED BY <2>2, <3>2, <3>4, <3>6
  <2> QED BY <2>4, <2>5
<1>23. ToSet(Uses(K)) = CalledFrom(f)
  <2>1. \A r : r \in ToSet(Uses(K)) <=> \E x \in 1..N : r \in ToSet(K[x].uses)
    BY <1>2, UsesMembers DEF N
  <2>2. ASSUME NEW r, NEW x \in 1..N, r \in ToSet(K[x].uses) PROVE r \in CalledFrom(f)
    <3>1. x > p
      <4>1. ~(x <= p)
        BY <2>2, <1>1, <1>2, <1>5 DEF ToSet
      <4> QED BY <4>1, <1>1
    <3> DEFINE i == x - p + f - 1
    <3>2. i \in f..L /\ Pos(i) = x
      BY <3>1, <1>15
    <3> HIDE DEF i
    <3>3. K[x] = messages[i]
      BY <3>2, <1>14
    <3>4. r \in Ids
      <4>1. K[x].uses \in Seq(Ids)
        BY <1>2, MessageFacts DEF Conversation, N
      <4> QED BY <4>1, <2>2 DEF ToSet
    <3> QED BY <2>2, <3>2, <3>3, <3>4 DEF CalledFrom, Calls, L
  <2>3. ASSUME NEW r \in CalledFrom(f) PROVE \E x \in 1..N : r \in ToSet(K[x].uses)
    <3>1. PICK i \in f..L : r \in ToSet(messages[i].uses)
      BY DEF CalledFrom, Calls, L
    <3> QED BY <3>1, <1>14
  <2> QED BY <2>1, <2>2, <2>3
<1>24. \A i \in (f + 1)..L : \A r \in ToSet(messages[i].results) :
         r \in CalledFrom(f) \/ \E j \in (n + c + 1)..Len(Q) : Q[j] = Slim(r)
  <2> SUFFICES ASSUME NEW i \in (f + 1)..L, NEW r \in ToSet(messages[i].results),
                      r \notin CalledFrom(f)
               PROVE  \E j \in (n + c + 1)..Len(Q) : Q[j] = Slim(r)
    OBVIOUS
  <2> DEFINE x == Pos(i)
  <2>1. x \in 1..N /\ K[x] = messages[i] /\ x > p + 1 /\ x \in Nat
    <3>1. i \in f..L /\ i > f
      BY <1>1
    <3> QED BY <3>1, <1>14
  <2> HIDE DEF x
  <2>2. r \in ToSet(Orphans(K, x))
    <3>1. \A k \in 1..N : r \notin ToSet(K[k].uses)
      BY <1>2, <1>23, UsesMembers DEF N
    <3> QED BY <2>1, <3>1, <1>2, OrphansAre DEF N
  <2>3. PICK y \in 1..Len(R) : o[x - 1] < y /\ y < o[x] /\ R[y] = Slim(r)
    BY <2>1, <2>2, <1>8
  <2>4. o[x - 1] >= p + c + 1 /\ o[x - 1] \in Nat
    <3>1. x > p
      BY <2>1, <1>1
    <3> QED BY <2>1, <3>1, <1>8, <1>16
  <2>5. y \in (p + 1)..Len(R) /\ y + d \in (n + c + 1)..Len(Q)
    <3> DEFINE b == o[x - 1]
    <3>1. p \in Nat /\ c \in Nat /\ Len(R) \in Nat /\ b \in Nat /\ b >= p + c + 1 /\ b < y
      BY <1>1, <1>7, <1>13, <2>3, <2>4
    <3> HIDE DEF b
    <3> QED BY <3>1, <1>27
  <2> QED BY <2>3, <2>5, <1>4
<1>25. f <= L =>
         LET q == Select(messages[f].results, Ids \ CalledFrom(f))
         IN Len(q) = c /\ \A k \in 1..c : Q[n + k] = Slim(q[k])
  <2> SUFFICES ASSUME f <= L
               PROVE  LET q == Select(messages[f].results, Ids \ CalledFrom(f))
                      IN Len(q) = c /\ \A k \in 1..c : Q[n + k] = Slim(q[k])
    OBVIOUS
  <2> DEFINE q == Orphans(K, p + 1)
  <2>1. f \in f..L /\ p + (f - f + 1) = p + 1 /\ p + 1 \in 1..N
    BY <1>1, <1>7
  <2>2. K[p + 1] = messages[f]
    BY <2>1, <1>2
  <2>3. q = Select(messages[f].results, Ids \ CalledFrom(f))
    BY <2>2, <1>23 DEF Orphans
  <2>4. Len(q) = c /\ \A k \in 1..c : R[p + k] = Slim(q[k])
    <3>1. Len(q) = c /\ (p + 1) - 1 = p /\ o[p] = p
      BY <1>13
    <3>2. \A k \in 1..Len(q) : R[o[(p + 1) - 1] + k] = Slim(q[k])
      BY <2>1, <1>9
    <3> HIDE DEF q
    <3> QED BY <3>1, <3>2
  <2>5. o[p + 1] \in 1..Len(R) /\ o[p + 1] = p + c + 1
    BY <2>1, <1>8, <1>13
  <2> HIDE DEF q
  <2>6. \A k \in 1..c : p + k \in (p + 1)..Len(R) /\ (p + k) + d = n + k
    BY <2>5, <1>1, <1>4, <1>7, <1>13
  <2>7. \A k \in 1..c : Q[n + k] = Slim(q[k])
    BY <2>4, <2>6, <1>4
  <2> QED BY <2>3, <2>4, <2>7
<1> HIDE DEF w, n
<1>26. Spaced(Q, n, c, w, f)
  BY <1>4, <1>13, <1>17, <1>18, <1>19, <1>20, <1>21, <1>22, <1>24, <1>25 DEF Spaced, L, p
<1> QED BY <1>26 DEF n, f, p

LEMMA RepairedLead ==
  ASSUME CompactorInv, Whole(messages), NEW h \in Nat
  PROVE  LET R == Repaired(Kept(messages, h), messages) IN
         /\ R \in Conversation /\ Prefix(R) = Prefix(messages)
         /\ \A i \in 1..Prefix(messages) : R[i] = messages[i]
<1> DEFINE p == Prefix(messages)
           f == From(messages, h)
           L == Len(messages)
           K == Kept(messages, h)
           N == Len(K)
           R == Repaired(K, messages)
<1>1. /\ p \in 0..L /\ f \in (p + 1)..(L + 1) /\ L \in Nat /\ p \in Nat /\ f \in Nat
      /\ messages \in Conversation
  <2>1. messages \in Conversation /\ L \in Nat
    BY MessagesFacts
  <2>2. p \in 0..L /\ f \in (p + 1)..(L + 1)
    BY KeptPlaces
  <2> HIDE DEF p, f, L
  <2> QED BY <2>1, <2>2
<1>2. /\ K \in Conversation /\ N = p + (L - f + 1)
      /\ \A i \in 1..p : K[i] = messages[i]
      /\ \A i \in f..L : K[p + (i - f + 1)] = messages[i]
  BY MessagesFacts, KeptIs
<1>3. R \in Conversation /\ \E o : Laid(o, R, K)
  <2> HIDE DEF K
  <2> QED BY <1>2, RepairedIs
<1>4. \A i \in 1..p : messages[i].results = <<>> /\ messages[i].role \in Instructions
  BY <1>1, LeadFacts, PrefixIs
<1>5. f <= L => messages[f].role \notin Instructions
  <2> SUFFICES ASSUME f <= L PROVE messages[f].role \notin Instructions
    OBVIOUS
  <2>1. CASE f = p + 1
    <3>1. p < L
      BY <2>1, <1>1
    <3> QED BY <2>1, <3>1, <1>1, PrefixIs
  <2>2. CASE f # p + 1
    <3>1. f \in Starts(messages)
      BY <2>2, <1>1, FromIs
    <3>2. Begins(messages[f])
      BY <3>1, <2>2, <1>1, StartsAre
    <3> QED BY <3>2 DEF Begins, Instructions
  <2> QED BY <2>1, <2>2
<1> HIDE DEF p, f, L, K, N, R
<1>6. PICK o : Laid(o, R, K)
  BY <1>3
<1>7. N \in Nat /\ p <= N /\ Len(R) \in Nat
  BY <1>1, <1>2, <1>3 DEF Conversation
<1>8. \A i \in 1..p : Orphans(K, i) = <<>>
  <2> SUFFICES ASSUME NEW i \in 1..p PROVE Orphans(K, i) = <<>>
    OBVIOUS
  <2>1. i \in 1..N
    BY <1>1, <1>7
  <2>2. ToSet(K[i].results) = {}
    BY <1>2, <1>4 DEF ToSet
  <2> QED BY <2>1, <2>2, <1>2, OrphansNone DEF N
<1>9. \A i \in 0..p : o[i] = i
  <2>1. K \in Conversation
    BY <1>2
  <2>2. R \in Conversation
    BY <1>3
  <2>3. p \in 0..Len(K)
    BY <1>1, <1>7 DEF N
  <2> QED BY <1>6, <1>8, <2>1, <2>2, <2>3, LaidLead
<1>10. /\ \A i \in 1..N : o[i] \in 1..Len(R) /\ o[i - 1] \in Nat /\ o[i - 1] < o[i]
       /\ \A i, k \in 1..N : i < k => o[i] < o[k]
       /\ \A j \in 1..Len(R) :
            (\E i \in 1..N : j = o[i]) \/ (\E i \in 1..N : \E r \in ToSet(Orphans(K, i)) : R[j] = Slim(r))
  <2>1. /\ \A i \in 1..N : o[i] \in 1..Len(R) /\ o[i - 1] \in Nat /\ o[i - 1] < o[i]
        /\ \A i, k \in 1..N : i < k => o[i] < o[k] /\ o[i] <= o[k - 1]
        /\ \A j \in 1..Len(R) :
             \/ \E i \in 1..N : j = o[i]
             \/ \E i \in 1..N : /\ o[i - 1] < j /\ j < o[i]
                                /\ \E r \in ToSet(Orphans(K, i)) : R[j] = Slim(r)
    BY <1>2, <1>3, <1>6, LaidClimbs DEF N
  <2> QED BY <2>1
<1>11. (\A i \in 1..N : R[o[i]] = K[i]) /\ Len(R) = o[N]
  BY <1>6 DEF Laid, N
<1>12. \A i \in 1..p : R[i] = messages[i]
  <2> SUFFICES ASSUME NEW i \in 1..p PROVE R[i] = messages[i]
    OBVIOUS
  <2>1. i \in 1..N /\ i \in 0..p
    BY <1>1, <1>7
  <2> QED BY <2>1, <1>2, <1>9, <1>11
<1>13. p <= Len(R)
  <2>1. CASE p = 0
    BY <2>1, <1>7
  <2>2. CASE p # 0
    <3>1. p \in 1..N /\ p \in 0..p
      BY <2>2, <1>1, <1>7
    <3>2. o[p] = p /\ o[p] \in 1..Len(R)
      BY <3>1, <1>9, <1>10
    <3> QED BY <3>2
  <2> QED BY <2>1, <2>2
<1>14. p < Len(R) => R[p + 1].role \notin Instructions
  <2> SUFFICES ASSUME p < Len(R) PROVE R[p + 1].role \notin Instructions
    OBVIOUS
  <2>1. p + 1 \in 1..Len(R) /\ p \in 0..p
    BY <1>1, <1>7
  <2>2. CASE \E i \in 1..N : p + 1 = o[i]
    <3>1. PICK x \in 1..N : p + 1 = o[x]
      BY <2>2
    <3>2. x > p
      <4>1. x \in 0..p => o[x] = x
        BY <1>9
      <4> QED BY <4>1, <3>1, <1>1
    <3>3. f <= L /\ p + 1 \in 1..N /\ f \in f..L /\ p + (f - f + 1) = p + 1 /\ (p + 1) - 1 = p
      BY <3>2, <1>1, <1>2
    <3>4. x = p + 1
      <4>1. o[p] < o[p + 1] /\ o[p] = p /\ o[p + 1] \in Nat
        BY <3>3, <2>1, <1>9, <1>10
      <4>2. p + 1 < x => o[p + 1] < o[x]
        BY <3>3, <1>10
      <4> QED BY <4>1, <4>2, <3>1, <3>2, <1>1
    <3>5. R[p + 1] = messages[f]
      BY <3>1, <3>3, <3>4, <1>2, <1>11
    <3> QED BY <3>3, <3>5, <1>5
  <2>3. CASE ~(\E i \in 1..N : p + 1 = o[i])
    <3>1. PICK i \in 1..N : \E r \in ToSet(Orphans(K, i)) : R[p + 1] = Slim(r)
      BY <2>1, <2>3, <1>10
    <3>2. PICK r \in ToSet(Orphans(K, i)) : R[p + 1] = Slim(r)
      BY <3>1
    <3>3. Orphans(K, i) \in Seq(Ids)
      BY <1>2, OrphansAre DEF N
    <3>4. r \in Ids
      BY <3>3 DEF ToSet
    <3> QED BY <3>2, <3>4, SlimFacts DEF Instructions
  <2> QED BY <2>2, <2>3
<1>15. \A i \in 1..p : R[i].role \in Instructions
  BY <1>4, <1>12
<1>16. Prefix(R) = p
  <2>1. R \in Conversation /\ p \in 0..Len(R)
    BY <1>1, <1>3, <1>7, <1>13
  <2> QED BY <2>1, <1>14, <1>15, PrefixUnique
<1> QED BY <1>3, <1>12, <1>16 DEF R, p, K

LEMMA LeadsPlain ==
  ASSUME CompactorInv, Whole(messages), NEW h \in Nat
  PROVE  LET R == Repaired(Kept(messages, h), messages) IN Leads(R, R, 0)
<1> DEFINE R == Repaired(Kept(messages, h), messages)
           p == Prefix(messages)
<1>1. R \in Conversation /\ Prefix(R) = p /\ \A i \in 1..p : R[i] = messages[i]
  BY RepairedLead
<1>2. \A i \in 1..p : messages[i].uses = <<>> /\ messages[i].results = <<>>
  BY LeadFacts
<1>3. p \in Nat /\ Len(R) \in Nat
  <2>1. p \in 0..Len(messages)
    BY MessagesFacts, PrefixIs
  <2> QED BY <2>1, <1>1 DEF Conversation
<1> HIDE DEF R, p
<1>4. 0 \in {0, 1} /\ p + 0 = p /\ Len(R) = Len(R) + 0 /\ \A j \in (p + 1)..Len(R) : j + 0 = j
  BY <1>3
<1>5. Leads(R, R, 0)
  BY <1>1, <1>2, <1>4 DEF Leads, p
<1> QED BY <1>5 DEF R

LEMMA LeadsPinned ==
  ASSUME CompactorInv, Whole(messages), NEW h \in Nat
  PROVE  LET R == Repaired(Kept(messages, h), messages) IN \E d : Leads(Pinned(R), R, d)
<1> DEFINE R == Repaired(Kept(messages, h), messages)
           p == Prefix(messages)
<1>1. R \in Conversation /\ Prefix(R) = p /\ \A i \in 1..p : R[i] = messages[i]
  BY RepairedLead
<1>2. \A i \in 1..p : messages[i].uses = <<>> /\ messages[i].results = <<>>
  BY LeadFacts
<1>3. Holders(R) = {}
  <2>1. Shape(R, h)
    BY RepairedShape
  <2> HIDE DEF R
  <2> QED BY <2>1, NoHolders
<1> HIDE DEF R
<1>4. /\ p \in 0..Len(R) /\ p \in Nat /\ Len(R) \in Nat
      /\ \A i \in 1..p : R[i].role \in Instructions
      /\ p < Len(R) => R[p + 1].role \notin Instructions
  <2>1. Len(R) \in Nat
    BY <1>1 DEF Conversation
  <2> QED BY <2>1, <1>1, PrefixIs
<1> HIDE DEF p
<1>5. CASE Len(R) > 0 /\ R[1].role = "system" /\ Pinned(R) = [R EXCEPT ![1] = Filled(R[1])]
  <2> DEFINE Q == [R EXCEPT ![1] = Filled(R[1])]
  <2>1. 1 \in 1..p /\ 1 \in 1..Len(R)
    <3>1. p # 0
      BY <1>4, <1>5 DEF Instructions
    <3> QED BY <3>1, <1>4
  <2>2. /\ R[1] \in Message /\ Filled(R[1]) \in Message /\ Filled(R[1]).role = R[1].role
        /\ Filled(R[1]).uses = R[1].uses /\ Filled(R[1]).results = R[1].results
    <3>1. R[1] \in Message
      BY <1>1, <2>1 DEF Conversation
    <3> QED BY <3>1, PutFacts
  <2> DEFINE m == Filled(R[1])
  <2>3. Q \in Conversation /\ Len(Q) = Len(R) /\ Q[1] = m /\ \A j \in 1..Len(R) : j # 1 => Q[j] = R[j]
    <3> HIDE DEF m
    <3>1. Q = [R EXCEPT ![1] = m]
      BY DEF m
    <3>2. m \in Message
      BY <2>2 DEF m
    <3> HIDE DEF Q
    <3> QED BY <3>1, <3>2, <2>1, <1>1 DEF Conversation
  <2> HIDE DEF Q
  <2>4. \A j \in 1..Len(R) : Q[j].role = R[j].role /\ Q[j].uses = R[j].uses
                             /\ Q[j].results = R[j].results
    BY <2>2, <2>3
  <2> HIDE DEF m
  <2>5. Prefix(Q) = p
    <3>1. \A i \in 1..p : i \in 1..Len(R)
      BY <1>4
    <3>2. \A i \in 1..p : Q[i].role \in Instructions
      BY <3>1, <2>4, <1>4
    <3>3. p < Len(Q) => Q[p + 1].role \notin Instructions
      <4>1. p < Len(R) => p + 1 \in 1..Len(R)
        BY <1>4
      <4> QED BY <4>1, <2>3, <2>4, <1>4
    <3>4. p \in 0..Len(Q) /\ Q \in Conversation
      BY <2>3, <1>4
    <3> QED BY <3>2, <3>3, <3>4, PrefixUnique
  <2>6. \A j \in 1..p : Q[j].uses = <<>> /\ Q[j].results = <<>>
    <3>1. \A j \in 1..p : j \in 1..Len(R)
      BY <1>4
    <3> QED BY <3>1, <2>4, <1>1, <1>2
  <2>7. 0 \in {0, 1} /\ p + 0 = p /\ Len(R) = Len(R) + 0
        /\ \A j \in (p + 1)..Len(R) : j + 0 = j /\ j \in 1..Len(R) /\ j # 1
    BY <1>4, <2>1
  <2>8. Leads(Q, R, 0)
    BY <2>3, <2>5, <2>6, <2>7 DEF Leads, p
  <2> QED BY <2>8, <1>5 DEF Q, R
<1>6. CASE Pinned(R) = InsertAt(R, Prefix(R) + 1, Capsule)
  <2> DEFINE n == p + 1
             Q == InsertAt(R, n, Capsule)
  <2>1. n \in 1..(Len(R) + 1) /\ Capsule \in Message
    BY <1>4, CapsuleFacts
  <2> HIDE DEF n
  <2>2. /\ Q \in Conversation /\ Len(Q) = Len(R) + 1 /\ Q[n] = Capsule
        /\ \A i \in 1..Len(R) : Q[IF i < n THEN i ELSE i + 1] = R[i]
    BY <2>1, <1>1, InsertIs
  <2> HIDE DEF Q
  <2>3. \A i \in 1..p : Q[i] = R[i]
    <3>1. \A i \in 1..p : i \in 1..Len(R) /\ i < n
      BY <1>4 DEF n
    <3> QED BY <3>1, <2>2
  <2>4. \A i \in (p + 1)..Len(R) : Q[i + 1] = R[i]
    <3>1. \A i \in (p + 1)..Len(R) : i \in 1..Len(R) /\ ~(i < n)
      BY <1>4 DEF n
    <3> QED BY <3>1, <2>2
  <2>5. \A j \in 1..n : Q[j].uses = <<>> /\ Q[j].results = <<>> /\ Q[j].role \in Instructions
    <3> SUFFICES ASSUME NEW j \in 1..n
                 PROVE  Q[j].uses = <<>> /\ Q[j].results = <<>> /\ Q[j].role \in Instructions
      OBVIOUS
    <3>1. CASE j = n
      BY <3>1, <2>2, CapsuleFacts DEF Instructions
    <3>2. CASE j # n
      <4>1. j \in 1..p
        BY <3>2, <1>4 DEF n
      <4> QED BY <4>1, <2>3, <1>1, <1>2, <1>4
    <3> QED BY <3>1, <3>2
  <2>6. Prefix(Q) = n
    <3>1. n < Len(Q) => Q[n + 1].role \notin Instructions
      <4> SUFFICES ASSUME n < Len(Q) PROVE Q[n + 1].role \notin Instructions
        OBVIOUS
      <4>1. p + 1 \in (p + 1)..Len(R) /\ p < Len(R) /\ n + 1 = (p + 1) + 1
        BY <2>2, <1>4 DEF n
      <4>2. Q[n + 1] = R[p + 1]
        BY <4>1, <2>4
      <4> QED BY <4>1, <4>2, <1>4
    <3>2. n \in 0..Len(Q) /\ Q \in Conversation
      BY <2>1, <2>2, <1>4
    <3> QED BY <2>5, <3>1, <3>2, PrefixUnique
  <2>7. Leads(Q, R, 1)
    BY <2>2, <2>4, <2>5, <2>6 DEF Leads, p, n
  <2>8. Pinned(R) = Q
    BY <1>1, <1>6 DEF Q, n
  <2> QED BY <2>7, <2>8 DEF R
<1> QED BY <1>1, <1>3, <1>5, <1>6, PinnedIs DEF R

-----------------------------------------------------------------------------

NonePadded(ms) == \A i \in 1..Len(ms) : ms[i].text # "padded"

LEMMA RepairedNonePadded ==
  ASSUME CompactorInv, NEW h \in Nat, NonePadded(messages)
  PROVE  NonePadded(Repaired(Kept(messages, h), messages))
<1> DEFINE R == Repaired(Kept(messages, h), messages)
<1>1. Shape(R, h)
  BY RepairedShape
<1> HIDE DEF R
<1>2. R \in Conversation /\ \A j \in 1..Len(R) : R[j].nr \in Nat
  BY <1>1, MessageFacts DEF Shape, Conversation
<1>3. ASSUME NEW j \in 1..Len(R) PROVE R[j].text # "padded"
  <2>1. CASE R[j].nr > 0
    <3>1. R[j].nr \in KeptNrs(h) /\ R[j] = messages[R[j].nr]
      BY <1>1, <2>1 DEF Shape
    <3>2. R[j].nr \in 1..Len(messages)
      BY <3>1, KeptPlaces
    <3> QED BY <3>1, <3>2 DEF NonePadded
  <2>2. CASE R[j].nr = 0
    <3>1. PICK r \in Ids : R[j] = Slim(r)
      BY <1>1, <2>2 DEF Shape
    <3> QED BY <3>1, SlimFacts
  <2> QED BY <1>2, <2>1, <2>2
<1> QED BY <1>3 DEF NonePadded, R

LEMMA PinnedTwice ==
  ASSUME NEW R \in Conversation, NonePadded(R)
  PROVE  Pinned(Pinned(R)) = Pinned(R)
<1> DEFINE Q == Pinned(R)
<1>1. Len(R) \in Nat /\ DOMAIN R = 1..Len(R) /\ \A i \in 1..Len(R) : R[i] \in Message
  BY DEF Conversation
<1>2. ASSUME NEW i \in Holders(R), Q = [R EXCEPT ![i] = Stripped(R[i])] PROVE Q = R
  <2>1. i \in 1..Len(R)
    BY <1>1 DEF Holders
  <2>2. Stripped(R[i]) = R[i]
    BY <2>1, <1>1, PutFacts DEF NonePadded
  <2> HIDE DEF Q
  <2> QED BY <2>1, <2>2, <1>1, <1>2 DEF Conversation
<1>3. ASSUME Len(R) > 0, R[1].role = "system", Q = [R EXCEPT ![1] = Filled(R[1])]
      PROVE  Q \in Conversation /\ NonePadded(Q) /\ Holders(Q) # {}
  <2>1. 1 \in 1..Len(R)
    BY <1>1, <1>3
  <2> DEFINE m == Filled(R[1])
  <2>2. m \in Message /\ m.role = "system" /\ m.capsule = "yes" /\ m.text # "padded"
    BY <2>1, <1>1, <1>3, PutFacts DEF NonePadded
  <2> HIDE DEF Q
  <2>3. Q = [R EXCEPT ![1] = m]
    BY <1>3
  <2> HIDE DEF m
  <2>4. Q \in Conversation /\ Len(Q) = Len(R) /\ DOMAIN Q = 1..Len(R) /\ Q[1] = m
        /\ \A j \in 1..Len(R) : j # 1 => Q[j] = R[j]
    BY <2>1, <2>2, <2>3, <1>1 DEF Conversation
  <2>5. 1 \in Holders(Q)
    BY <2>1, <2>2, <2>4 DEF Holders
  <2>6. NonePadded(Q)
    BY <2>2, <2>4 DEF NonePadded
  <2> QED BY <2>4, <2>5, <2>6
<1>4. ASSUME Q = InsertAt(R, Prefix(R) + 1, Capsule)
      PROVE  Q \in Conversation /\ NonePadded(Q) /\ Holders(Q) # {}
  <2> DEFINE n == Prefix(R) + 1
  <2>1. n \in 1..(Len(R) + 1) /\ Capsule \in Message
    <3>1. Prefix(R) \in 0..Len(R)
      BY PrefixIs
    <3> QED BY <3>1, <1>1, CapsuleFacts
  <2> HIDE DEF Q
  <2>2. Q = InsertAt(R, n, Capsule)
    BY <1>4
  <2> HIDE DEF n
  <2>3. /\ Q \in Conversation /\ Len(Q) = Len(R) + 1 /\ Q[n] = Capsule
        /\ \A i \in 1..Len(R) : Q[IF i < n THEN i ELSE i + 1] = R[i]
    BY <2>1, <2>2, InsertIs
  <2>4. n \in DOMAIN Q
    BY <2>1, <2>3, <1>1 DEF Conversation
  <2>5. n \in Holders(Q)
    BY <2>3, <2>4, CapsuleFacts DEF Holders
  <2>6. ASSUME NEW j \in 1..Len(Q) PROVE Q[j].text # "padded"
    <3>1. CASE j = n
      BY <3>1, <2>3, CapsuleFacts
    <3>2. CASE j < n
      <4>1. j \in 1..Len(R)
        BY <3>2, <2>1, <1>1
      <4>2. Q[j] = R[j]
        BY <4>1, <3>2, <2>3
      <4> QED BY <4>1, <4>2 DEF NonePadded
    <3>3. CASE j > n
      <4> DEFINE i == j - 1
      <4>1. i \in 1..Len(R) /\ ~(i < n) /\ i + 1 = j
        BY <3>3, <2>1, <2>3, <1>1
      <4> HIDE DEF i
      <4>2. Q[j] = R[i]
        BY <4>1, <2>3
      <4> QED BY <4>1, <4>2 DEF NonePadded
    <3> QED BY <3>1, <3>2, <3>3, <2>1
  <2> QED BY <2>3, <2>5, <2>6 DEF NonePadded
<1>5. ASSUME Q \in Conversation, NonePadded(Q), Holders(Q) # {} PROVE Pinned(Q) = Q
  <2> HIDE DEF Q
  <2>1. PICK i \in Holders(Q) : Pinned(Q) = [Q EXCEPT ![i] = Stripped(Q[i])]
    BY <1>5, PinnedIs
  <2>2. i \in 1..Len(Q) /\ Q[i] \in Message /\ Len(Q) \in Nat /\ DOMAIN Q = 1..Len(Q)
    BY <1>5 DEF Holders, Conversation
  <2>3. Stripped(Q[i]) = Q[i]
    BY <2>2, <1>5, PutFacts DEF NonePadded
  <2> QED BY <2>1, <2>2, <2>3, <1>5 DEF Conversation
<1> HIDE DEF Q
<1>6. \/ \E i \in Holders(R) : Q = [R EXCEPT ![i] = Stripped(R[i])]
      \/ Len(R) > 0 /\ R[1].role = "system" /\ Q = [R EXCEPT ![1] = Filled(R[1])]
      \/ Q = InsertAt(R, Prefix(R) + 1, Capsule)
  BY PinnedIs DEF Q
<1>7. CASE \E i \in Holders(R) : Q = [R EXCEPT ![i] = Stripped(R[i])]
  <2>1. Q = R
    BY <1>2, <1>7
  <2> QED BY <2>1 DEF Q
<1> QED BY <1>3, <1>4, <1>5, <1>6, <1>7 DEF Q

LEMMA CompactAgain ==
  ASSUME CompactorInv, Valid(messages), NonePadded(messages), NEW h \in Nat,
         NEW capsule \in {"no", "yes"}
  PROVE  LET once == Compact(messages, h, capsule) IN Compact(once, h, capsule) = once
<1> DEFINE R == Repaired(Kept(messages, h), messages)
           Q == Compact(messages, h, capsule)
<1>1. messages \in Conversation
  BY MessagesFacts
<1>2. Whole(messages)
  BY <1>1, ValidIsWhole
<1>3. R \in Conversation /\ NonePadded(R)
  BY <1>2, RepairedLead, RepairedNonePadded
<1>4. Q = IF messages = <<>> THEN <<>> ELSE IF capsule = "yes" THEN Pinned(R) ELSE R
  BY <1>1, CompactIs
<1>5. Q \in Conversation
  BY CompactWhole
<1>6. Compact(Q, h, capsule) =
        IF Q = <<>> THEN <<>>
        ELSE IF capsule = "yes" THEN Pinned(Repaired(Kept(Q, h), Q)) ELSE Repaired(Kept(Q, h), Q)
  BY <1>5, CompactIs
<1>7. Leads(R, R, 0) /\ \E d : Leads(Pinned(R), R, d)
  BY <1>2, LeadsPlain, LeadsPinned
<1>8. ASSUME NEW d, Leads(Q, R, d) PROVE Repaired(Kept(Q, h), Q) = Q
  <2> HIDE DEF Q
  <2>1. PICK c, w : Spaced(Q, Prefix(messages) + d, c, w, From(messages, h))
    BY <1>2, <1>8, LeadsSpaced
  <2> DEFINE n == Prefix(messages) + d
  <2>2. Spaced(Q, n, c, w, From(messages, h))
    BY <2>1
  <2> HIDE DEF n
  <2> QED BY <1>2, <2>2, RepairedOnceMore
<1> HIDE DEF Q, R
<1>9. CASE messages = <<>>
  BY <1>4, <1>6, <1>9 DEF Q
<1>10. CASE messages # <<>> /\ capsule = "no"
  <2>1. Q = R
    BY <1>4, <1>10
  <2>2. Repaired(Kept(Q, h), Q) = Q
    BY <2>1, <1>7, <1>8
  <2> QED BY <2>2, <1>6, <1>10 DEF Q
<1>11. CASE messages # <<>> /\ capsule = "yes"
  <2>1. Q = Pinned(R)
    BY <1>4, <1>11
  <2>2. Repaired(Kept(Q, h), Q) = Q
    BY <2>1, <1>7, <1>8
  <2>3. Pinned(Q) = Q
    BY <2>1, <1>3, PinnedTwice
  <2> QED BY <2>2, <2>3, <1>6, <1>11 DEF Q
<1> QED BY <1>9, <1>10, <1>11

(* Compacting a conversation twice is compacting it once (compact_messages). *)
THEOREM CompactsOnce == CompactorSpec => []CompactIsIdempotent
<1>1. CompactorInv => CompactIsIdempotent
  <2> SUFFICES ASSUME CompactorInv, Valid(messages),
                      \A i \in DOMAIN messages : messages[i].text # "padded",
                      NEW h \in Turns, NEW capsule \in {"no", "yes"}
               PROVE  LET once == Compact(messages, h, capsule) IN Compact(once, h, capsule) = once
    BY DEF CompactIsIdempotent
  <2>1. NonePadded(messages)
    BY MessagesFacts DEF NonePadded, Conversation
  <2>2. h \in Nat
    OBVIOUS
  <2> QED BY <2>1, <2>2, CompactAgain
<1> QED BY <1>1, CompactorIsInv, PTL
=============================================================================
