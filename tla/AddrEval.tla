------------------------------ MODULE AddrEval ------------------------------
(***************************************************************************)
(* Address::map_addr as a step: a buffer with a text and a current dot     *)
(* resolves one address.  The inputs are every combination of the texts,  *)
(* dots and addresses given as constants.                                  *)
(***************************************************************************)
EXTENDS Addr

CONSTANTS
    Texts,   \* buffer contents, sequences of characters
    Addrs    \* parsed addresses

VARIABLES
    text,    \* the buffer's characters
    cur,     \* Buffer::dot, what current_dot() returns
    addr,    \* the address being resolved
    result,  \* the resolved dot, NoDot until then
    done

vars == <<text, cur, addr, result, done>>

\* Every dot of a text: a cursor or a range, either end active.
DotsOf(t) == {Dot(a, b, s) : a \in 0..Len(t), b \in 0..Len(t), s \in BOOLEAN} \cap
             {d \in [from : Nat, to : Nat, sa : BOOLEAN] : d.from <= d.to /\ (d.from = d.to => ~d.sa)}

Init ==
    /\ text \in Texts
    /\ cur \in DotsOf(text)
    /\ addr \in Addrs
    /\ result = NoDot
    /\ done = FALSE

Eval ==
    /\ ~done
    /\ result' = MapAddr(text, addr, cur)
    /\ done' = TRUE
    /\ UNCHANGED <<text, cur, addr>>

Next == Eval

Spec == Init /\ [][Next]_vars

(***************************************************************************)
(* Properties                                                              *)
(***************************************************************************)
TypeOK ==
    /\ done \in BOOLEAN
    /\ result \in [from : Int, to : Int, sa : BOOLEAN]
    /\ done => result # NoDot

\* Spec section 8, invariant 2: whatever the address, the resolved dot lies
\* inside the text, 0 <= from <= to <= len (map_addr clamps it).
ResultInBounds ==
    (done /\ result # PanicDot) => 0 <= result.from /\ result.from <= result.to
                                   /\ result.to <= Len(text)

IsSimple(k) == addr.k = "Simple" /\ addr.a.base.k = k /\ addr.a.suffixes = <<>>

\* A regex address selects a match of the regex, as an inclusive range:
\* /re/ one starting at or after the end of the dot, -/re/ one ending at or
\* before its start (the exclusive end of a Match becomes the inclusive end
\* of a Dot in map_addr_base).
RegexAddrSelectsMatch ==
    (done /\ \E k \in {"Regex", "RegexBack"} : IsSimple(k) /\ addr.a.base.re.kind # "star") =>
        LET re == addr.a.base.re
            found == IF addr.a.base.k = "Regex"
                     THEN FirstMatch(text, re, LastCur(cur), Len(text))
                     ELSE BackMatch(text, re, FirstCur(cur))
        IN found # NoMatch =>
              /\ Between(text, result.from, result.to + 1) = re.s
              /\ addr.a.base.k = "Regex" => result.from >= cur.to
              /\ addr.a.base.k = "RegexBack" => result.to < cur.from

\* A relative line suffix moves by whole lines from the line an address
\* selects: for a line n that is not the last one, n+k and n-k select line
\* n+k and n-k.  (The last line is resolved one character short, the
\* subject of LineAddrCoversLine.)
RelativeLineSteps ==
    (done /\ addr.k = "Simple" /\ addr.a.base.k = "Line"
          /\ Len(addr.a.suffixes) = 1 /\ addr.a.suffixes[1].k = "RelLine"
          /\ addr.a.base.n + 1 < NumLines(text)
          /\ addr.a.base.n + addr.a.suffixes[1].n \in 0..(NumLines(text) - 1)) =>
        result = MapAddr(text, SimpleAddr(BaseN("Line", addr.a.base.n + addr.a.suffixes[1].n)), cur)

\* -#n moves the cursor n characters back: the result never lies after the
\* active cursor it moved from (clamped at the start of the text).
BackwardCharStaysBehind ==
    (done /\ IsSimple("RelChar") /\ addr.a.base.n < 0) => result.to <= ActiveCur(cur)

\* The characters of line n: from its first to its last, the newline
\* included; an empty line is a cursor at its start.
LineSpan(t, n) ==
    LET s == TryLineToChar(t, n)
        e == IF n + 1 < NumLines(t) THEN TryLineToChar(t, n + 1) ELSE Len(t)
    IN [from |-> s, to |-> MaxOf(s, e - 1)]

\* Line addresses select whole lines: n selects line n, and -+ from a
\* cursor selects the line the cursor is on, each from its first character
\* to its last, the newline included (spec 4.2), and a lookup on a line
\* that exists never panics (spec 7).  Both go through char_to_line_end
\* and full_line.
LineAddrCoversLine ==
    LET line == IF IsSimple("Line") THEN addr.a.base.n ELSE TryCharToLine(text, cur.from)
    IN (done /\ (IsSimple("Line") \/ (IsSimple("CurrentLine") /\ cur.from = cur.to))
             /\ line < NumLines(text)) =>
           /\ result.from = LineSpan(text, line).from
           /\ result.to = LineSpan(text, line).to

====
