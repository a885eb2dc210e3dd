----------------------------- MODULE SpoolRead ------------------------------
(***************************************************************************)
(* What read_spool (proxy/spool.py) shows of a log, and an agent that      *)
(* reads one through the tool genesis_log: by pages, by windows, by a      *)
(* grep, or, once it is refused, as the refusal suggests.  Lines are       *)
(* numbered from 1, offsets and pages from 0.                              *)
(***************************************************************************)
EXTENDS Integers, Sequences, FiniteSets

CONSTANTS
  MaxTotal,  \* bound on the lines of a log
  Gate,      \* lines a log may have to be read from its start unasked
  Chunk,     \* lines of a page
  Most,      \* lines a window may have
  Limits     \* values of `lines`

ASSUME SpoolReadAssumption ==
  /\ MaxTotal \in Nat /\ Gate \in Nat /\ Chunk \in Nat \ {0} /\ Most \in Nat \ {0}
  /\ Limits \subseteq Nat \ {0}

VARIABLES
  total,    \* lines of the log
  matches,  \* the lines a grep matches, and the anchors: lines of a failure
  query,    \* how the agent reads, and where it reads next
  shown     \* lines it was shown, in order

spoolReadVars == <<total, matches, query, shown>>

Query == [how : {"none", "pages", "lines", "grep"}, at : Nat, limit : Limits, from : Nat,
          told : {"nothing", "more", "end", "refused"}]

SpoolReadTypeOK ==
  /\ total \in 0..MaxTotal /\ matches \subseteq 1..total
  /\ query \in Query /\ shown \in Seq(1..total)

SpoolReadInit ==
  /\ total \in 0..MaxTotal /\ matches \in SUBSET (1..total)
  /\ \E limit \in Limits :
       query = [how |-> "none", at |-> 0, limit |-> limit, from |-> 0, told |-> "nothing"]
  /\ shown = <<>>

\* lines[start:end], of n lines.
Slice(start, end, n) ==
  SubSeq([i \in 1..n |-> i], start + 1, IF end < n THEN end ELSE n)

\* Mutant: the last page, not full, is not one.
TotalPages_Full(n) == IF n \div Chunk = 0 THEN 1 ELSE n \div Chunk
TotalPages(n) == IF n = 0 THEN 1 ELSE (n + Chunk - 1) \div Chunk

ReadPage ==
  /\ query.how = "pages" /\ query.told # "end"
  /\ shown' = shown \o Slice(query.at * Chunk, (query.at + 1) * Chunk, total)
  /\ query' = [query EXCEPT !.told = IF query.at + 1 < TotalPages(total) THEN "more" ELSE "end",
                            !.at = @ + 1]
  /\ UNCHANGED <<total, matches>>

\* The lines that match, all of them without a grep.
Selected == IF query.how = "grep" THEN Cardinality(matches) ELSE total
Limit == IF query.limit < Most THEN query.limit ELSE Most
Refused == total > Gate /\ query.how = "lines" /\ query.at = 0

\* The agent goes on after the lines it was shown while the window was cut.
ReadWindow ==
  /\ query.how \in {"lines", "grep"} /\ query.told \in {"nothing", "more"} /\ ~Refused
  /\ shown' = shown \o Slice(query.at, query.at + Limit, Selected)
  /\ query' = [query EXCEPT !.told = IF query.at + Limit < Selected THEN "more" ELSE "end",
                            !.at = @ + Limit]
  /\ UNCHANGED <<total, matches>>

\* A long log is not shown from its start: the answer names its first failure
\* instead, for a window, and the other ways.
ReadRefused ==
  /\ query.told = "nothing" /\ Refused
  /\ query' = [query EXCEPT !.told = "refused"]
  /\ UNCHANGED <<total, matches, shown>>

FirstAnchor == CHOOSE i \in matches : \A j \in matches : i <= j
Suggested == IF matches = {} THEN 1 ELSE FirstAnchor

Start ==
  /\ query.how = "none"
  /\ \E how \in {"pages", "lines", "grep"} : query' = [query EXCEPT !.how = how]
  /\ UNCHANGED <<total, matches, shown>>

TakeSuggestion ==
  /\ query.told = "refused"
  /\ \/ \E how \in {"pages", "grep"} :
          query' = [query EXCEPT !.how = how, !.told = "nothing"]
     \/ query' = [query EXCEPT !.at = Suggested, !.from = Suggested, !.told = "nothing"]
  /\ UNCHANGED <<total, matches, shown>>

SpoolReadNext == Start \/ ReadPage \/ ReadWindow \/ ReadRefused \/ TakeSuggestion

SpoolReadSpec == SpoolReadInit /\ [][SpoolReadNext]_spoolReadVars

-----------------------------------------------------------------------------
(* Properties.                                                             *)

\* An agent that follows next_page, or reads on while is_truncated, has been
\* shown every line from where it began, once and in order, when it is told
\* that nothing follows.
ReadToTheEnd ==
  query.told = "end" =>
    shown = [i \in 1..(IF Selected > query.from THEN Selected - query.from ELSE 0)
               |-> query.from + i]
=============================================================================
