-------------------------------- MODULE Text --------------------------------
(***************************************************************************)
(* The text and selection vocabulary shared by the address evaluator and   *)
(* the exec engine: character-indexed text, the line index a buffer keeps  *)
(* (try_line_to_char / try_char_to_line), and the Dot value.               *)
(*                                                                         *)
(* Indices are 0-based as in the code; a TLA+ sequence is 1-based, so the  *)
(* character at index i is t[i+1].  The buffer and dot modules are not     *)
(* part of the engine's sources: their operators here follow the contract *)
(* the engine relies on (spec section 4.2 and 4.7).                        *)
(***************************************************************************)
EXTENDS Integers, Sequences, FiniteSets

NL == "\n"

\* Sentinel for an absent usize (the code's None).
None == -1

MinOf(a, b) == IF a <= b THEN a ELSE b
MaxOf(a, b) == IF a >= b THEN a ELSE b

\* The characters of t in the half-open index range [from, to), bounded by
\* the end of the text as IterBoundedChars::iter_between is.
Between(t, from, to) ==
    IF from >= MinOf(to, Len(t)) THEN <<>> ELSE SubSeq(t, from + 1, MinOf(to, Len(t)))

\* Number of newlines among the first c characters.
NlsBefore(t, c) == Cardinality({i \in 1..c : t[i] = NL})

\* Lines are separated by newlines; a trailing newline opens an empty line.
NumLines(t) == NlsBefore(t, Len(t)) + 1

\* GapBuffer::try_line_to_char: the start of line l (just after the l-th
\* newline), absent past the last line.
TryLineToChar(t, l) ==
    CASE l = 0 -> 0
      [] l > 0 /\ l < NumLines(t) ->
            CHOOSE i \in 1..Len(t) : t[i] = NL /\ NlsBefore(t, i) = l
      [] OTHER -> None

\* GapBuffer::try_char_to_line: the line holding index c, for 0 <= c <= len.
TryCharToLine(t, c) ==
    IF c < 0 \/ c > Len(t) THEN None
    ELSE NlsBefore(t, c)

(***************************************************************************)
(* Dot: a selection [from, to] (inclusive for a range, from = to for a     *)
(* cursor) and which end is active.                                        *)
(***************************************************************************)
Dot(a, b, startActive) == [from |-> a, to |-> b, sa |-> startActive]

\* Sentinel for an absent Option<Dot>.
NoDot == Dot(-1, -1, FALSE)

\* Cur { idx }.into()
CurDot(i) == Dot(i, i, FALSE)

\* Range::from_cursors(c1, c2, c1_was_start): the cursors in order.
FromCursors(c1, c2, c1WasStart) ==
    IF c1 <= c2 THEN Dot(c1, c2, c1WasStart) ELSE Dot(c2, c1, ~c1WasStart)

\* Dot::from_char_indices
FromCharIndices(a, b) == FromCursors(a, b, FALSE)

ActiveCur(d) == IF d.sa THEN d.from ELSE d.to
FirstCur(d) == d.from
LastCur(d) == d.to

\* Dot::clamp_idx
ClampIdx(d, max) == Dot(MinOf(d.from, max), MinOf(d.to, max), d.sa)

=============================================================================
