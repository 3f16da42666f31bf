---------------------------- MODULE AddrParser ----------------------------
(***************************************************************************)
(* The address parser (src/src/exec/addr.rs): Addr::parse,                 *)
(* SimpleAddr::parse, AddrBase::parse and parse_delimited_regex, over an   *)
(* input that is a sequence of one-character strings.                      *)
(*                                                                         *)
(* The Peekable<Chars> is a position p into the input: the index of the    *)
(* next character, Len + 1 at the end.  Every parse operator returns       *)
(* Ok(v, p) or Err(e, p), p being where the iterator stands afterwards:    *)
(* Addr::parse keeps going after a NotAnAddress of its start, from         *)
(* wherever that failed attempt left the iterator.                         *)
(*                                                                         *)
(* A regex is its source between the delimiters: Regex::compile is not     *)
(* among the modelled sources and is taken to accept every pattern.        *)
(***************************************************************************)
EXTENDS Addr
LOCAL INSTANCE SequencesExt

Ok(v, p) == [ok |-> TRUE, v |-> v, p |-> p]
Err(e, p) == [ok |-> FALSE, v |-> [err |-> e], p |-> p]
NotAnAddress == [err |-> "NotAnAddress"]
NoResult == Err("None", 0)

\* it.peek(): the next character, "" at the end of the input.
Peek(s, p) == IF p <= Len(s) THEN s[p] ELSE ""

DigitSeq == <<"0", "1", "2", "3", "4", "5", "6", "7", "8", "9">>
IsDigit(c) == \E i \in 1..10 : DigitSeq[i] = c
DigitVal(c) == CHOOSE i \in 0..9 : DigitSeq[i + 1] = c

\* The end of the run of digits starting at p.
RECURSIVE DigitsEnd(_, _)
DigitsEnd(s, p) == IF IsDigit(Peek(s, p)) THEN DigitsEnd(s, p + 1) ELSE p

\* util::parse_num: the decimal value of the digits s[p..e-1].
RECURSIVE Num(_, _, _)
Num(s, p, e) == IF e <= p THEN 0 ELSE 10 * Num(s, p, e - 1) + DigitVal(s[e - 1])

\* Regex::compile and Regex::compile_reverse, abstracted to the source.
Rx(src) == [kind |-> "src", s |-> src]

\* -n for Dir::Bck, n for Dir::Fwd.
Signed(dir, n) == IF dir = "bck" THEN -n ELSE n

\* AddrBase::is_valid_suffix
IsValidSuffix(b) ==
    b.k \in {"Bol", "Eol", "CurrentLine", "RelLine", "RelChar", "Regex", "RegexBack"}

\* Variant: the character after the closing delimiter is consumed too.
ParseDelimitedRegexOverrun(s, p, kind) ==
    LET closers == {q \in p..Len(s) :
                      s[q] = "/" /\ (IF q = p THEN "/" ELSE s[q - 1]) # "\\"}
    IN IF closers = {} THEN Err("UnclosedDelimiter", Len(s) + 1)
       ELSE LET q == Min(closers)
            IN Ok(BaseRe(kind, Rx(SubSeq(s, p, q - 1))), q + 2)

\* parse_delimited_regex: up to the first / whose predecessor is not a
\* backslash (the opening / counts as the predecessor of the first one).
ParseDelimitedRegex(s, p, kind) ==
    LET closers == {q \in p..Len(s) :
                      s[q] = "/" /\ (IF q = p THEN "/" ELSE s[q - 1]) # "\\"}
    IN IF closers = {} THEN Err("UnclosedDelimiter", Len(s) + 1)
       ELSE LET q == Min(closers)
            IN Ok(BaseRe(kind, Rx(SubSeq(s, p, q - 1))), q + 1)

\* The '#' arm of AddrBase::parse, from the character after the '#'.
ParseCharAddr(s, p, dir) ==
    IF ~IsDigit(Peek(s, p)) THEN Err("NotAnAddress", p)
    ELSE LET e == DigitsEnd(s, p)
         IN Ok(IF dir = "none" THEN BaseN("Char", Num(s, p, e))
               ELSE BaseN("RelChar", Signed(dir, Num(s, p, e))), e)

\* Variant: line and column numbers are kept one-based.
ZeroBasedKept(n) == n

\* A one-based line or column literal stored zero-based.
ZeroBased(n) == SatSub(n, 1)

\* The digit arm of AddrBase::parse: a line, a line and column, or a
\* relative line; both numbers are stored zero-based.
ParseLineAddr(s, p, dir) ==
    LET e == DigitsEnd(s, p)
        line == Num(s, p, e)
        c == Peek(s, e + 1)
    IN CASE Peek(s, e) = ":" /\ dir # "none" -> Err("NotAnAddress", e)
         [] Peek(s, e) = ":" /\ IsDigit(c) ->
               LET e2 == DigitsEnd(s, e + 1)
               IN Ok([k |-> "LineCol", line |-> ZeroBased(line),
                      col |-> ZeroBased(Num(s, e + 1, e2))], e2)
         [] Peek(s, e) = ":" /\ c = "" -> Err("NotAnAddress", e + 1)
         [] Peek(s, e) = ":" ->
               [ok |-> FALSE, v |-> [err |-> "UnexpectedCharacter", c |-> c], p |-> e + 2]
         [] dir = "none" -> Ok(BaseN("Line", ZeroBased(line)), e)
         [] OTHER -> Ok(BaseN("RelLine", Signed(dir, line)), e)

\* AddrBase::parse: an optional direction sign, then the base.
ParseBase(s, p) ==
    LET dir == CASE Peek(s, p) = "-" -> "bck" [] Peek(s, p) = "+" -> "fwd" [] OTHER -> "none"
        q == IF dir = "none" THEN p ELSE p + 1
        c == Peek(s, q)
    IN CASE c \in {".", "0", "$"} /\ dir # "none" -> Err("NotAnAddress", q)
         [] (c = "-" /\ dir = "fwd") \/ (c = "+" /\ dir = "bck") ->
               Ok(Base("CurrentLine"), q + 1)
         [] c = "." -> Ok(Base("Current"), q + 1)
         [] c = "0" -> Ok(Base("Bof"), q + 1)
         [] c = "$" -> Ok(Base("Eof"), q + 1)
         [] c = "#" -> ParseCharAddr(s, q + 1, dir)
         [] IsDigit(c) -> ParseLineAddr(s, q, dir)
         [] c = "/" -> ParseDelimitedRegex(s, q + 1, IF dir = "bck" THEN "RegexBack" ELSE "Regex")
         [] dir = "fwd" -> Ok(Base("Eol"), q)
         [] dir = "bck" -> Ok(Base("Bol"), q)
         [] OTHER -> Err("NotAnAddress", q)

\* The suffix loop of SimpleAddr::parse: bases while the next character is
\* a sign, each of which must be a valid suffix.  Each result is passed on
\* as an argument (r below) rather than LET-bound, so that it is computed
\* at a single place.
RECURSIVE ParseSuffixes(_, _, _)

\* One iteration: r is what AddrBase::parse returned for the suffix.
SuffixStep(s, r, acc) ==
    CASE ~r.ok -> r
      [] ~IsValidSuffix(r.v) -> Err("InvalidSuffix", r.p)
      [] OTHER -> ParseSuffixes(s, r.p, Append(acc, r.v))

ParseSuffixes(s, p, acc) ==
    IF Peek(s, p) \notin {"-", "+"} THEN Ok(acc, p)
    ELSE SuffixStep(s, ParseBase(s, p), acc)

\* SimpleAddr::parse after its base b: the suffixes, then the address.
SimpleWithSuffixes(b, r) ==
    IF ~r.ok THEN r ELSE Ok([base |-> b.v, suffixes |-> r.v], r.p)

SimpleAfterBase(s, b) ==
    IF ~b.ok THEN b ELSE SimpleWithSuffixes(b, ParseSuffixes(s, b.p, <<>>))

\* SimpleAddr::parse
ParseSimple(s, p) == SimpleAfterBase(s, ParseBase(s, p))

\* The ',' arm of Addr::parse, en being what SimpleAddr::parse returned for
\* the end: a missing end is Eof.
CompoundEnd(start, en) ==
    CASE en.ok -> Ok(CompoundAddr(start, en.v), en.p)
      [] en.v = NotAnAddress -> Ok(CompoundAddr(start, Simple(Base("Eof"))), en.p)
      [] OTHER -> en

\* Addr::parse after its start st: a missing start of a compound address
\* is Bof; a simple address must be followed by a space or the end.
AddrAfterStart(s, st) ==
    CASE ~st.ok /\ st.v # NotAnAddress -> st
      [] Peek(s, st.p) \in {" ", ""} /\ st.ok -> Ok([k |-> "Simple", a |-> st.v], st.p)
      [] Peek(s, st.p) \in {" ", ""} -> Err("NotAnAddress", st.p)
      [] Peek(s, st.p) = "," ->
            CompoundEnd(IF st.ok THEN st.v ELSE Simple(Base("Bof")), ParseSimple(s, st.p + 1))
      [] OTHER -> Err("NotAnAddress", st.p)

\* Addr::parse
ParseAddr(s) == AddrAfterStart(s, ParseSimple(s, 1))

(***************************************************************************)
(* The reference: the canonical spelling of an address in the grammar of  *)
(* spec section 4.1 (numbers in decimal, line and column one-based).       *)
(***************************************************************************)
RECURSIVE Digits(_)
Digits(n) == IF n < 10 THEN <<DigitSeq[n + 1]>> ELSE Digits(n \div 10) \o <<DigitSeq[(n % 10) + 1]>>

Sign(n) == IF n < 0 THEN <<"-">> ELSE <<"+">>
Abs(n) == IF n < 0 THEN -n ELSE n

PrintBase(b) ==
    CASE b.k = "Current" -> <<".">>
      [] b.k = "Bof" -> <<"0">>
      [] b.k = "Eof" -> <<"$">>
      [] b.k = "Bol" -> <<"-">>
      [] b.k = "Eol" -> <<"+">>
      [] b.k = "CurrentLine" -> <<"-", "+">>
      [] b.k = "Line" -> Digits(b.n + 1)
      [] b.k = "RelLine" -> Sign(b.n) \o Digits(Abs(b.n))
      [] b.k = "Char" -> <<"#">> \o Digits(b.n)
      [] b.k = "RelChar" -> Sign(b.n) \o <<"#">> \o Digits(Abs(b.n))
      [] b.k = "LineCol" -> Digits(b.line + 1) \o <<":">> \o Digits(b.col + 1)
      [] b.k = "Regex" -> <<"/">> \o b.re.s \o <<"/">>
      [] b.k = "RegexBack" -> <<"-", "/">> \o b.re.s \o <<"/">>

Parts(a) == <<a.base>> \o a.suffixes

\* A suffix starts with its sign: a forward regex suffix is spelled +/re/.
PrintPart(a, i) ==
    IF i > 1 /\ Parts(a)[i].k = "Regex" THEN <<"+">> \o PrintBase(Parts(a)[i])
    ELSE PrintBase(Parts(a)[i])

PrintSimple(a) == FlattenSeq([i \in 1..Len(Parts(a)) |-> PrintPart(a, i)])

Spell(addr) ==
    IF addr.k = "Simple" THEN PrintSimple(addr.a)
    ELSE PrintSimple(addr.a) \o <<",">> \o PrintSimple(addr.b)

\* A bare - followed by a part spelled with + (or + by -) reads as -+, the
\* current line: such sequences have no spelling of their own.
PrintableSimple(a) ==
    \A i \in 1..(Len(Parts(a)) - 1) :
        /\ Parts(a)[i].k = "Bol" => PrintPart(a, i + 1)[1] # "+"
        /\ Parts(a)[i].k = "Eol" => PrintPart(a, i + 1)[1] # "-"

Printable(addr) ==
    /\ PrintableSimple(addr.a)
    /\ addr.k = "Compound" => PrintableSimple(addr.b)

=============================================================================
