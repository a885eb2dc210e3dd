--------------------------- MODULE ToolCompactor ---------------------------
(***************************************************************************)
(* The tool-pair compactor (proxy/tool_compactor.py): what it makes of any *)
(* conversation a client may send.  Conversations grow a message at a time *)
(* and compact_messages is a function of them.                             *)
(*                                                                         *)
(* A message keeps its role, the calls it makes and the results it brings, *)
(* in order, and whether it has text.  Both providers give calls distinct  *)
(* ids.  Of an instruction message the form of its text is kept, as far as *)
(* pinning the memory capsule changes it.                                  *)
(***************************************************************************)
EXTENDS Integers, SequencesExt, Selection

CONSTANTS
  MaxMessages,  \* bound on a conversation
  MaxCalls,     \* bound on the tool calls in it
  Turns         \* values of max_history_turns

ASSUME CompactorAssumption == MaxMessages \in Nat /\ MaxCalls \in Nat /\ Turns \subseteq Nat

VARIABLES format, messages

compactorVars == <<format, messages>>

Instructions == {"system", "developer"}
Ids == 1..MaxCalls
\* `nr` is the message's place in the conversation, 0 for one the compactor
\* makes; `text` is "padded" when it ends in blanks, "parts" when it is a list
\* of parts, "shown" when such a list was printed into a string.
Message == [nr : 0..MaxMessages, role : Instructions \cup {"user", "assistant", "tool"},
            uses : Seq(Ids), results : Seq(Ids),
            text : {"none", "plain", "padded", "parts", "shown"}, capsule : {"no", "yes"}]
Plain(role) == [nr |-> 0, role |-> role, uses |-> <<>>, results |-> <<>>,
                text |-> "plain", capsule |-> "no"]

CompactorTypeOK == format \in {"openai", "anthropic"} /\ messages \in Seq(Message)

Uses(ms) == FlattenSeq([i \in DOMAIN ms |-> ms[i].uses])
Results(ms) == FlattenSeq([i \in DOMAIN ms |-> ms[i].results])

-----------------------------------------------------------------------------
(* validate_tool_integrity.                                                *)

Pending(ms) == ToSet(Uses(ms)) \ ToSet(Results(ms))
\* Every result answers a call made before it, once; a call is answered, by
\* OpenAI's rules before the user speaks again.
Follows(ms, i) ==
  LET past == SubSeq(ms, 1, i - 1) IN
    /\ \A r \in ToSet(ms[i].results) : r \in Pending(past)
    /\ format = "openai" /\ ms[i].role = "user" => Pending(past) = {}
Valid(ms) ==
  /\ \A i \in DOMAIN ms : Follows(ms, i)
  /\ Pending(ms) = {}

-----------------------------------------------------------------------------
(* compact_messages.                                                       *)

Prefix(ms) ==
  CHOOSE n \in 0..Len(ms) :
    /\ \A i \in 1..n : ms[i].role \in Instructions
    /\ n < Len(ms) => ms[n + 1].role \notin Instructions

\* Mutant: bare results begin a turn of their own.
Begins_AnyUser(m) == m.role = "user"
\* A turn begins with what the user says; bare results belong to their turn.
Begins(m) ==
  m.role = "user" /\ (format = "anthropic" => m.text # "none" \/ m.results = <<>>)
Starts(ms) == {i \in DOMAIN ms : i = Prefix(ms) + 1 \/ (i > Prefix(ms) /\ Begins(ms[i]))}

\* The first turn that is kept: `history` turns follow it.
From(ms, history) ==
  IF Cardinality(Starts(ms)) <= history THEN Prefix(ms) + 1
  ELSE CHOOSE i \in Starts(ms) : Cardinality({j \in Starts(ms) : j > i}) = history

\* The instructions that lead, the active turn, and some turns before it.
Kept(ms, history) ==
  SubSeq(ms, 1, Prefix(ms)) \o SubSeq(ms, From(ms, history), Len(ms))

\* The message of a call, with that call only.
Slim(id) == [Plain("assistant") EXCEPT !.uses = <<id>>, !.text = "none"]

\* Results whose calls are not kept.
Orphans(kept, i) == Select(kept[i].results, Ids \ ToSet(Uses(kept)))

\* Mutant: the whole message of a call is pulled forward.
Repaired_Whole(kept, ms) ==
  FlattenSeq([i \in DOMAIN kept |->
    LET orphans == Orphans(kept, i) IN
      [k \in DOMAIN orphans |-> SelectSeq(ms, LAMBDA m : Contains(m.uses, orphans[k]))[1]]
      \o <<kept[i]>>])
\* Before a message whose calls were pruned they are put back, one by one.
Repaired(kept, ms) ==
  FlattenSeq([i \in DOMAIN kept |->
    LET orphans == Orphans(kept, i) IN
      [k \in DOMAIN orphans |-> Slim(orphans[k])] \o <<kept[i]>>])

\* Mutant: a capsule that is there is not looked for.
Pinned_Again(ms) ==
  IF ms # <<>> /\ ms[1].role = "system"
  THEN [ms EXCEPT ![1].capsule = "yes", ![1].text = IF @ = "parts" THEN "shown" ELSE @]
  ELSE InsertAt(ms, Prefix(ms) + 1, [Plain("system") EXCEPT !.text = "none", !.capsule = "yes"])
\* The capsule goes where there is one, into the first message if that is the
\* system's, or else after the instructions.  A string it is put after keeps
\* its blanks; where one is replaced they are stripped.
Pinned(ms) ==
  LET has == {i \in DOMAIN ms : ms[i].role = "system" /\ ms[i].capsule = "yes"}
      first == CHOOSE i \in has : \A j \in has : i <= j
  IN IF has # {} THEN [ms EXCEPT ![first].text = IF @ = "padded" THEN "plain" ELSE @]
     ELSE IF ms # <<>> /\ ms[1].role = "system"
     THEN [ms EXCEPT ![1].capsule = "yes", ![1].text = IF @ = "parts" THEN "shown" ELSE @]
     ELSE InsertAt(ms, Prefix(ms) + 1, [Plain("system") EXCEPT !.text = "none", !.capsule = "yes"])

Compact(ms, history, capsule) ==
  LET whole == Repaired(Kept(ms, history), ms) IN
    IF ms = <<>> THEN <<>> ELSE IF capsule = "yes" THEN Pinned(whole) ELSE whole

-----------------------------------------------------------------------------
(* Conversations.                                                          *)

CompactorInit == format \in {"openai", "anthropic"} /\ messages = <<>>

Fresh(n) == [i \in 1..n |-> Len(Uses(messages)) + i]
Say(m) ==
  /\ Len(messages) < MaxMessages
  /\ messages' = Append(messages, [m EXCEPT !.nr = Len(messages) + 1])
  /\ Follows(messages', Len(messages'))
  /\ UNCHANGED format

Instruct ==
  \/ Say(Plain("developer"))
  \/ \E text \in {"plain", "padded", "parts"} : Say([Plain("system") EXCEPT !.text = text])

\* In Anthropic's format results are the user's, alone or with words.
Ask ==
  \/ Say(Plain("user"))
  \/ /\ format = "anthropic"
     /\ \E rs \in (SUBSET Pending(messages)) \ {{}}, text \in {"none", "plain"} :
          Say([Plain("user") EXCEPT !.results = Select([id \in Ids |-> id], rs), !.text = text])

Answer ==
  \E n \in 0..2 :
    /\ Len(Uses(messages)) + n <= MaxCalls
    /\ Say([Plain("assistant") EXCEPT !.uses = Fresh(n)])

Return ==
  /\ format = "openai"
  /\ \E r \in Pending(messages) : Say([Plain("tool") EXCEPT !.results = <<r>>])

CompactorNext == Instruct \/ Ask \/ Answer \/ Return

CompactorSpec == CompactorInit /\ [][CompactorNext]_compactorVars

-----------------------------------------------------------------------------
(* Correctness.                                                            *)

\* "Never orphans tool_call / tool_result blocks": whatever is pruned, the
\* compactor's own check of its output accepts it, so that the proxy never has
\* to fall back to the long conversation.
PairsStayWhole ==
  Valid(messages) =>
    \A history \in Turns, capsule \in {"no", "yes"} : Valid(Compact(messages, history, capsule))

\* "compact(compact(m)) == compact(m)", but for blanks at the end of a system
\* message, which only the second time strips.
CompactIsIdempotent ==
  Valid(messages) /\ (\A i \in DOMAIN messages : messages[i].text # "padded") =>
    \A history \in Turns, capsule \in {"no", "yes"} :
      LET once == Compact(messages, history, capsule)
      IN Compact(once, history, capsule) = once

\* The instructions that lead and everything from the last question the user
\* asked are there, unaltered, and what is there keeps its order.  Only the first
\* message may have the capsule put into it, and is printed if it was in parts.
ActiveTurnSurvives ==
  Valid(messages) =>
    \A history \in Turns, capsule \in {"no", "yes"} :
      LET out  == Compact(messages, history, capsule)
          old  == Select(out, {m \in ToSet(out) : m.nr > 0})
          asks == {i \in DOMAIN messages : messages[i].role = "user" /\ messages[i].text # "none"}
          Alike(m, i) ==
            \/ m = messages[i]
            \/ /\ i = 1 /\ capsule = "yes"
               /\ [m EXCEPT !.capsule = "no", !.text = IF @ = "shown" THEN "parts" ELSE @] = messages[1]
      IN /\ \A i, j \in DOMAIN old : i < j => old[i].nr < old[j].nr
         /\ \A i \in DOMAIN messages :
              (\A j \in asks : i >= j) \/ i <= Prefix(messages) =>
                \E j \in DOMAIN old : Alike(old[j], i)
=============================================================================
