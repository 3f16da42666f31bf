-------------------------------- MODULE Addr --------------------------------
(***************************************************************************)
(* Address evaluation (src/src/exec/addr.rs, trait Address): an Addr is   *)
(* resolved against a text and the current dot to a new Dot.              *)
(*                                                                         *)
(* Addresses are records:                                                  *)
(*   AddrBase   [k |-> "Current" | "CurrentLine" | "Bol" | "Eol" | "Bof"  *)
(*                    | "Eof" | "Line" | "RelLine" | "Char" | "RelChar"   *)
(*                    | "LineCol" | "Regex" | "RegexBack", ...]           *)
(*   SimpleAddr [base |-> AddrBase, suffixes |-> Seq(AddrBase)]            *)
(*   Addr       [k |-> "Explicit", dot] | [k |-> "Simple", a]              *)
(*              | [k |-> "Compound", a, b]                                  *)
(*                                                                         *)
(* usize arithmetic is kept: an `as usize` cast of a negative isize wraps  *)
(* modulo UsizeModulus (2^64 in the code, a smaller power of two that is   *)
(* still far above every index here in the model), and `len - 1` on an     *)
(* empty text panics when the build has overflow checks (debug, tests)     *)
(* and wraps when it has not (release).                                    *)
(***************************************************************************)
EXTENDS Regex

CONSTANTS
    UsizeModulus,     \* stands for 2^64
    OverflowChecks,   \* TRUE: debug build, usize underflow panics
    OnePastLastLine   \* TRUE: try_line_to_char(len_lines) is Some(len)

ASSUME UsizeModulus \in Nat /\ UsizeModulus > 16
ASSUME OverflowChecks \in BOOLEAN /\ OnePastLastLine \in BOOLEAN

\* Sentinels: a usize computation that panicked, and the dot of a panic.
Panic == -2
PanicDot == Dot(-2, -2, FALSE)

\* `x as usize` for an isize x.
Wrap(x) == x % UsizeModulus

\* a - b on usize.
USub(a, b) ==
    IF a >= b THEN a - b
    ELSE IF OverflowChecks THEN Panic ELSE Wrap(a - b)

\* usize::saturating_sub
SatSub(a, b) == IF a >= b THEN a - b ELSE 0

\* The buffer's try_line_to_char, with the choice of whether the line just
\* past the last one resolves to the end of the text.
LineToChar(t, l) ==
    IF OnePastLastLine /\ l = NumLines(t) THEN Len(t) ELSE TryLineToChar(t, l)

\* Address for Buffer: char_to_line_end.  Absent for an index past the end;
\* the start of the next line, or len - 1 on the last line.
CharToLineEnd(t, c) ==
    LET line == TryCharToLine(t, c)
    IN CASE line = None -> None
         [] LineToChar(t, line + 1) = None -> USub(Len(t), 1)
         [] OTHER -> LineToChar(t, line + 1)

\* Address for Buffer: char_to_line_start.
CharToLineStart(t, c) ==
    LET line == TryCharToLine(t, c)
    IN IF line = None THEN None ELSE LineToChar(t, line)

\* Address for GapBuffer: current_dot is Dot::default(), a cursor at 0.
GapCurrentDot == CurDot(0)

\* current_dot of the Edit the engine runs on: the buffer's own dot, or
\* the gap buffer's default one.
CurrentDot(target, dot) == IF target = "GapBuffer" THEN GapCurrentDot ELSE dot

\* The dot d built from usize value v, or the absent or panicked dot.
Lift(v, d) == CASE v = None -> NoDot [] v = Panic -> PanicDot [] OTHER -> d

\* Address::full_line
FullLine(t, l) ==
    LET from == LineToChar(t, l)
        end  == IF from = None THEN None ELSE CharToLineEnd(t, from)
    IN Lift(end, FromCharIndices(from, SatSub(end, 1)))

\* Variant: the exclusive end of the match kept as the inclusive end.
MatchDotNoSub(m) == IF m = NoMatch THEN NoDot ELSE FromCharIndices(m.from, m.to)

\* A regex match as a dot: [from, to - 1] inclusive.
MatchDot(m) == IF m = NoMatch THEN NoDot ELSE FromCharIndices(m.from, SatSub(m.to, 1))

\* Variant: the line after the active cursor's character.
RelLineTargetPastCur(t, cur, n) ==
    LET line == TryCharToLine(t, ActiveCur(cur) + 1)
    IN IF line = None THEN None ELSE Wrap(line + n)

\* The line a relative line address n selects: n lines from the line of
\* the active cursor, `as usize`.
RelLineTarget(t, cur, n) ==
    LET line == TryCharToLine(t, ActiveCur(cur))
    IN IF line = None THEN None ELSE Wrap(line + n)

\* Address::map_addr_base
MapAddrBase(t, b, cur) ==
    CASE b.k = "Current" -> cur
      [] b.k = "Bof" -> CurDot(0)
      [] b.k = "Eof" -> CurDot(Len(t))
      [] b.k = "Bol" ->
            LET from == CharToLineStart(t, cur.from)
            IN Lift(from, FromCharIndices(from, cur.to))
      [] b.k = "Eol" ->
            LET to == CharToLineEnd(t, cur.to)
            IN Lift(to, FromCharIndices(cur.from, to))
      [] b.k = "CurrentLine" ->
            LET from == CharToLineStart(t, cur.from)
                to   == CharToLineEnd(t, cur.to)
            IN Lift(from, Lift(to, FromCharIndices(from, to)))
      [] b.k = "Line" -> FullLine(t, b.n)
      [] b.k = "RelLine" ->
            LET line == RelLineTarget(t, cur, b.n)
            IN IF line = None THEN NoDot ELSE FullLine(t, line)
      [] b.k = "Char" -> CurDot(b.n)
      [] b.k = "RelChar" -> CurDot(Wrap(ActiveCur(cur) + b.n))
      [] b.k = "LineCol" ->
            LET idx == LineToChar(t, b.line)
            IN Lift(idx, CurDot(idx + b.col))
      [] b.k = "Regex" -> MatchDot(FirstMatch(t, b.re, LastCur(cur), Len(t)))
      [] b.k = "RegexBack" -> MatchDot(BackMatch(t, b.re, FirstCur(cur)))

Failed(d) == d \in {NoDot, PanicDot}

\* Address::map_simple_addr: the base, then every suffix against the dot
\* its predecessor produced, stopping at the first absent result.
RECURSIVE ApplySuffixes(_, _, _)
ApplySuffixes(t, d, sufs) ==
    IF sufs = <<>> \/ Failed(d) THEN d
    ELSE ApplySuffixes(t, MapAddrBase(t, Head(sufs), d), Tail(sufs))

MapSimpleAddr(t, a, cur) == ApplySuffixes(t, MapAddrBase(t, a.base, cur), a.suffixes)

\* Address::map_compound_addr: both ends against the current dot, from the
\* first cursor of the start to the last cursor of the end.  The start is
\* resolved first: when it is absent (or panics) the ? returns before the
\* end is looked at.
MapCompoundAddr(t, a, b, cur) ==
    LET d1 == MapSimpleAddr(t, a, cur)
        d2 == MapSimpleAddr(t, b, cur)
    IN CASE Failed(d1) -> d1
         [] Failed(d2) -> d2
         [] OTHER -> FromCursors(FirstCur(d1), LastCur(d2), FALSE)

\* Variant: the resolved dot is not clamped.
MapAddrNoClamp(t, a, cur) ==
    LET maybe == CASE a.k = "Explicit" -> a.dot
                   [] a.k = "Simple" -> MapSimpleAddr(t, a.a, cur)
                   [] a.k = "Compound" -> MapCompoundAddr(t, a.a, a.b, cur)
    IN IF maybe = NoDot THEN CurDot(0) ELSE maybe

\* Variant: an absent dot is returned as is instead of the default.
MapAddrNoDefault(t, a, cur) ==
    LET maybe == CASE a.k = "Explicit" -> a.dot
                   [] a.k = "Simple" -> MapSimpleAddr(t, a.a, cur)
                   [] a.k = "Compound" -> MapCompoundAddr(t, a.a, a.b, cur)
    IN IF maybe \in {NoDot, PanicDot} THEN maybe ELSE ClampIdx(maybe, Len(t))

\* Address::map_addr: an absent dot becomes the default (cursor at 0) and
\* the result is clamped to the end of the text.
MapAddr(t, a, cur) ==
    LET maybe == CASE a.k = "Explicit" -> a.dot
                   [] a.k = "Simple" -> MapSimpleAddr(t, a.a, cur)
                   [] a.k = "Compound" -> MapCompoundAddr(t, a.a, a.b, cur)
    IN CASE maybe = PanicDot -> PanicDot
         [] maybe = NoDot -> ClampIdx(CurDot(0), Len(t))
         [] OTHER -> ClampIdx(maybe, Len(t))

(***************************************************************************)
(* Constructors for the addresses of the grammar.                          *)
(***************************************************************************)
Base(kind) == [k |-> kind]
BaseN(kind, n) == [k |-> kind, n |-> n]
BaseRe(kind, re) == [k |-> kind, re |-> re]
Simple(b) == [base |-> b, suffixes |-> <<>>]
SimpleAddr(b) == [k |-> "Simple", a |-> Simple(b)]
CompoundAddr(a, b) == [k |-> "Compound", a |-> a, b |-> b]

\* Addr::full
Full == CompoundAddr(Simple(Base("Bof")), Simple(Base("Eof")))

=============================================================================
