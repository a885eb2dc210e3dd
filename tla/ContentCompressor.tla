------------------------- MODULE ContentCompressor -------------------------
(***************************************************************************)
(* The content compressor (proxy/content_compressor.py): the view it makes *)
(* of one block of text, however the block is put together.  Blocks grow a *)
(* token at a time and compress_text is a function of them; the store that *)
(* handles point into is Recovery's subject.                               *)
(*                                                                         *)
(* Tokens: a line, the same each time; a line break that JSON, and a run   *)
(* of blank lines, can do without; a terminal escape; the two halves of an *)
(* error's name; numbers, each with the blank behind it, and the "failed"  *)
(* that makes one of them a pytest verdict, after more blank lines or      *)
(* none; and, in views, the notes for repeats and for what was elided.     *)
(***************************************************************************)
EXTENDS Integers, SequencesExt, Selection

CONSTANTS
  MaxBlock,   \* bound on a block
  MinBlock,   \* a shorter block is left alone
  Threshold,  \* a block as long as this may be elided, ...
  HeadLen, TailLen,  \* ... but for so much of its ends
  Repeats,    \* a line repeated as often as this is collapsed
  Blanks,     \* line breaks that may follow each other
  Numbers     \* the numbers blocks may hold

ASSUME CompressorAssumption ==
  /\ {MaxBlock, MinBlock, Threshold, HeadLen, TailLen, Repeats, Blanks} \subseteq Nat
  /\ HeadLen + 1 + TailLen < Threshold /\ Repeats > 2
  /\ Numbers \cap {"line", "break", "escape", "Name", "Error", "failed", "repeats", "handle"} = {}

VARIABLES kind, block

compressorVars == <<kind, block>>

Tokens == {"line", "break", "escape", "Name", "Error", "failed"} \cup Numbers
CompressorTypeOK == kind \in {"json", "code", "text"} /\ block \in Seq(Tokens)

Occurs(part, t) ==
  \E i \in 1..(Len(t) - Len(part) + 1) : SubSeq(t, i, i + Len(part) - 1) = part

\* Where RE_PYTEST matches: from a number to the "failed" behind it.
Verdicts(t) ==
  {at \in {i \in DOMAIN t : t[i] \in Numbers} \X {j \in DOMAIN t : t[j] = "failed"} :
     at[1] < at[2] /\ \A k \in (at[1] + 1)..(at[2] - 1) : t[k] = "break"}

\* _signatures: the names of errors there are, here one, and the first verdict.
ErrorName == <<"Name", "Error">>
FirstVerdict(t) ==
  {SubSeq(t, at[1], at[2]) : at \in {v \in Verdicts(t) : \A w \in Verdicts(t) : v[1] <= w[1]}}

\* _signatures_preserved: every error's name, and the text of the first verdict
\* of `t`; what other verdicts `t` holds is not looked at.
Preserved(t, view) ==
  /\ Occurs(ErrorName, t) => Occurs(ErrorName, view)
  /\ \A verdict \in FirstVerdict(t) : Occurs(verdict, view)

-----------------------------------------------------------------------------
(* The transforms.                                                         *)

Drop(t, token) == Select(t, ToSet(t) \ {token})

\* How many of the same token end, and stand, together at `i`.
Nth(t, i) == Cardinality({j \in 1..i : \A k \in j..i : t[k] = t[i]})
RunLength(t, i) == Nth(t, i) + Cardinality({j \in (i + 1)..Len(t) : \A k \in i..j : t[k] = t[i]})

JsonMinify(t) == IF kind = "json" THEN Drop(t, "break") ELSE t
AnsiStrip(t) == Drop(t, "escape")
RepeatCollapse(t) ==
  FlattenSeq([i \in DOMAIN t |->
    IF t[i] # "line" \/ RunLength(t, i) < Repeats \/ Nth(t, i) = 1 THEN <<t[i]>>
    ELSE IF Nth(t, i) = 2 THEN <<"repeats">> ELSE <<>>])
BlankCollapse(t) ==
  IF kind = "code" THEN t
  ELSE FlattenSeq([i \in DOMAIN t |->
         IF t[i] = "break" /\ Nth(t, i) > Blanks THEN <<>> ELSE <<t[i]>>])

\* A transform is taken back unless it saves something and keeps what matters.
Shorter(t, old, new) == IF Len(new) < Len(old) /\ Preserved(t, new) THEN new ELSE old

Shrunk(t) ==
  LET mini  == Shorter(t, t, JsonMinify(t))
      bare  == Shorter(t, t, AnsiStrip(t))
      once  == Shorter(t, bare, RepeatCollapse(bare))
  IN IF mini # t THEN mini ELSE Shorter(t, once, BlankCollapse(once))

\* The middle goes if it holds no signature and the original could be stored.
Elided(t, recovery) ==
  LET middle == SubSeq(t, HeadLen + 1, Len(t) - TailLen) IN
    IF Len(t) >= Threshold /\ recovery = "works" /\ ~Occurs(ErrorName, middle) /\ Verdicts(middle) = {}
    THEN SubSeq(t, 1, HeadLen) \o <<"handle">> \o SubSeq(t, Len(t) - TailLen + 1, Len(t))
    ELSE t

\* Mutant: what was elided is not checked again.
Checked_Not(t, view) == view
\* An error's name, or the first verdict, that the elision cut in two is missed
\* last: all is taken back.
Checked(t, view) == IF Preserved(t, view) THEN view ELSE t

\* compress_text; without a store, or when it fails, nothing is elided.
Compressed(t, recovery) ==
  IF Len(t) < MinBlock THEN t ELSE Checked(t, Elided(Shrunk(t), recovery))

-----------------------------------------------------------------------------
(* Blocks.                                                                 *)

CompressorInit == kind \in {"json", "code", "text"} /\ block = <<>>

\* JSON does not parse with an escape in it, and what follows a line break of
\* it is quoted.
Grow ==
  /\ Len(block) < MaxBlock
  /\ \E token \in Tokens :
       /\ kind = "json" =>
            /\ token # "escape"
            /\ token \in {"Error", "failed"} /\ block # <<>> => Last(block) # "break"
       /\ block' = Append(block, token)
  /\ UNCHANGED kind

CompressorSpec == CompressorInit /\ [][Grow]_compressorVars

-----------------------------------------------------------------------------
(* Correctness.                                                            *)

\* The safety contract, "fail-closed, every transform", as far as the code keeps
\* it: the view is the block itself, or it is smaller, shows every error and the
\* first verdict, and without a handle in it lacks nothing but escapes, line
\* breaks and repeats.  What it says of the other verdicts is SignaturesSurvive.
FailClosed ==
  \A recovery \in {"works", "fails"} :
    LET view == Compressed(block, recovery) IN
      \/ view = block
      \/ /\ Len(view) < Len(block)
         /\ Occurs(ErrorName, block) => Occurs(ErrorName, view)
         /\ \A verdict \in FirstVerdict(block) : Occurs(verdict, view)
         /\ \/ recovery = "works" /\ Contains(view, "handle")
            \/ ToSet(block) \ {"escape", "break"} \subseteq ToSet(view)

\* The contract's second rule: "All error signatures (RE_ERROR_SIG) and pytest
\* gate signatures (RE_PYTEST) present in the original must survive
\* byte-identical in the output".  Errors do; verdicts after the first may not.
SignaturesSurvive ==
  \A recovery \in {"works", "fails"} :
    LET view == Compressed(block, recovery) IN
      /\ Occurs(ErrorName, block) => Occurs(ErrorName, view)
      /\ \A at \in Verdicts(block) : Occurs(SubSeq(block, at[1], at[2]), view)
=============================================================================
