---------------------------- MODULE ProgramParse ----------------------------
(***************************************************************************)
(* The command parser (src/src/exec/mod.rs, Program::try_parse and         *)
(* consume_whitespace), composed with the address parser (AddrParser) and  *)
(* the validator (Validator).                                              *)
(*                                                                         *)
(* As in AddrParser the input is a sequence of one-character strings and   *)
(* the Peekable<Chars> a position in it.  Expr::try_parse lives in expr.rs, *)
(* which is not among the modelled sources: ParseExpr below follows the    *)
(* grammar of spec sections 4.3 and 6 instead.  The delimiter is the       *)
(* character after the command letter, a backslash escapes the character  *)
(* after it, the end of the input right after a command letter is Eof and *)
(* inside a delimited argument UnclosedDelimiter, and s/re/tpl/g is the    *)
(* pair x/re/ s/re/tpl/.  Regexes and templates are their source text.     *)
(***************************************************************************)
EXTENDS AddrParser, Validator
LOCAL INSTANCE SequencesExt

CONSTANTS
    Inputs,  \* the strings try_parse is run on
    Progs    \* programs [addr, exprs] whose spelling must parse back to them

VARIABLES
    prog,    \* the program input spells, NoProg for an arbitrary string
    input,   \* the program text
    result,  \* what try_parse returned, NoResult until then
    done

vars == <<prog, input, result, done>>

NoProg == [addr |-> [k |-> "None"], exprs |-> <<>>]

\* char::is_whitespace, for the characters the inputs use.
Whitespace == {" ", NL, "\t"}

\* consume_whitespace: the position of the first non-whitespace character.
RECURSIVE SkipWs(_, _)
SkipWs(s, p) == IF Peek(s, p) \in Whitespace THEN SkipWs(s, p + 1) ELSE p

\* str::trim
Trim(s) ==
    LET kept == {i \in 1..Len(s) : s[i] \notin Whitespace}
    IN IF kept = {} THEN <<>> ELSE SubSeq(s, Min(kept), Max(kept))

(***************************************************************************)
(* Expr::try_parse, from the spec (expr.rs is not under src/).            *)
(***************************************************************************)
\* The end of an argument opened by delimiter d: the next d not escaped.
RECURSIVE DelimEnd(_, _, _)
DelimEnd(s, p, d) ==
    CASE p > Len(s) -> None
      [] s[p] = "\\" -> DelimEnd(s, p + 2, d)
      [] s[p] = d -> p
      [] OTHER -> DelimEnd(s, p + 1, d)

\* n more arguments from q, delimited by d, after the arguments acc.  As in
\* AddrParser, an intermediate result is passed on as an argument (e) so
\* that it is computed at one place.
RECURSIVE ArgsFrom(_, _, _, _, _)
ArgEnd(s, q, d, n, acc, e) ==
    IF e = None THEN Err("UnclosedDelimiter", Len(s) + 1)
    ELSE ArgsFrom(s, e + 1, d, n - 1, Append(acc, SubSeq(s, q, e - 1)))
ArgsFrom(s, q, d, n, acc) ==
    IF n = 0 THEN Ok(acc, q) ELSE ArgEnd(s, q, d, n, acc, DelimEnd(s, q, d))

\* The n delimited arguments after the command letter at p; the delimiter
\* is the character after the letter.
Args(s, p, n) ==
    IF p + 1 > Len(s) THEN Err("Eof", p + 1) ELSE ArgsFrom(s, p + 2, s[p + 1], n, <<>>)

\* A command of one argument c/arg/, a being its arguments.
OneArgExpr(c, a) ==
    CASE ~a.ok -> a
      [] c \in {"x", "y", "g", "v"} -> Ok(<<[op |-> c, re |-> Rx(a.v[1])]>>, a.p)
      [] OTHER -> Ok(<<[op |-> c, tpl |-> a.v[1]]>>, a.p)

\* s/re/tpl/, and s/re/tpl/g as the pair x/re/ s/re/tpl/.
SubExpr(s, a) ==
    CASE ~a.ok -> a
      [] Peek(s, a.p) = "g" ->
            Ok(<<[op |-> "x", re |-> Rx(a.v[1])],
                 [op |-> "s", re |-> Rx(a.v[1]), tpl |-> a.v[2]]>>, a.p + 1)
      [] OTHER -> Ok(<<[op |-> "s", re |-> Rx(a.v[1]), tpl |-> a.v[2]]>>, a.p)

RECURSIVE ParseExpr(_, _), ParseBranch(_, _, _), BranchStep(_, _, _),
          ParseGroup(_, _, _), GroupStep(_, _, _)

\* One expression at p: Ok(<<e>>) for a single one, Ok(<<e1, e2>>) for a
\* pair.
ParseExpr(s, p) ==
    CASE Peek(s, p) \in {"x", "y", "g", "v", "p", "i", "a", "c"} -> OneArgExpr(s[p], Args(s, p, 1))
      [] Peek(s, p) = "s" -> SubExpr(s, Args(s, p, 2))
      [] Peek(s, p) = "d" -> Ok(<<[op |-> "d"]>>, p + 1)
      [] Peek(s, p) = "{" -> ParseGroup(s, SkipWs(s, p + 1), <<>>)
      [] OTHER -> [ok |-> FALSE, v |-> [err |-> "UnexpectedCharacter", c |-> Peek(s, p)], p |-> p]

\* The expressions of a group branch, up to the ; or } that ends it.
ParseBranch(s, p, acc) ==
    CASE Peek(s, p) = "" -> Err("UnclosedExpressionGroup", p)
      [] Peek(s, p) \in {";", "}"} -> Ok(acc, p)
      [] OTHER -> BranchStep(s, ParseExpr(s, p), acc)

BranchStep(s, r, acc) ==
    CASE ~r.ok /\ r.v.err = "Eof" -> Err("UnclosedExpressionGroup", r.p)
      [] ~r.ok -> r
      [] OTHER -> ParseBranch(s, SkipWs(s, r.p), acc \o r.v)

\* { b1 ; b2 ; ... }: the branches so far are bs, b the next one.
ParseGroup(s, p, bs) == GroupStep(s, ParseBranch(s, p, <<>>), bs)

GroupStep(s, b, bs) ==
    CASE ~b.ok -> b
      [] b.v = <<>> /\ bs = <<>> /\ Peek(s, b.p) = "}" -> Err("EmptyExpressionGroup", b.p)
      [] b.v = <<>> -> Err("EmptyExpressionGroupBranch", b.p)
      [] Peek(s, b.p) = ";" -> ParseGroup(s, SkipWs(s, b.p + 1), Append(bs, b.v))
      [] OTHER -> Ok(<<[op |-> "grp", branches |-> Append(bs, b.v)]>>, b.p + 1)

(***************************************************************************)
(* Program::try_parse                                                      *)
(***************************************************************************)
\* Variant: whitespace after an expression is left for the next one.
NextExprAtNoSkip(s, p) == p

\* Where the next expression starts: consume_whitespace.
NextExprAt(s, p) == SkipWs(s, p)

\* The loop: an expression at a time until the end of the input; Eof ends
\* the program where it stands, any other error is returned.
RECURSIVE ParseExprs(_, _, _)
ExprsStep(s, r, acc) ==
    CASE r.ok -> ParseExprs(s, NextExprAt(s, r.p), acc \o r.v)
      [] r.v.err = "Eof" -> Ok(acc, r.p)
      [] OTHER -> r
ParseExprs(s, p, acc) ==
    IF p > Len(s) THEN Ok(acc, p) ELSE ExprsStep(s, ParseExpr(s, p), acc)

\* Variant: the iterator is not rebuilt after a NotAnAddress.
ExprsStartKept(a) == IF a.ok THEN a.p ELSE a.p

\* Where the expressions start: after the address, or back at the start of
\* the input when Addr::parse found none.
ExprsStart(a) == IF a.ok THEN a.p ELSE 1

\* The end of try_parse: r is what the loop returned; a program without
\* expressions is not validated.
ProgramOf(dot, r) ==
    CASE ~r.ok -> r
      [] r.v = <<>> -> Ok([addr |-> dot, exprs |-> <<>>], r.p)
      [] ~Validate(r.v) -> Err("MissingAction", r.p)
      [] OTHER -> Ok([addr |-> dot, exprs |-> r.v], r.p)

\* try_parse after Addr::parse returned a.  The address errors are
\* returned as the engine's errors of the same name; NotAnAddress falls
\* back to the Full address.
AfterAddr(s, a) ==
    IF ~a.ok /\ a.v # NotAnAddress THEN a
    ELSE ProgramOf(IF a.ok THEN a.v ELSE Full,
                   ParseExprs(s, SkipWs(s, ExprsStart(a)), <<>>))

TryParse(raw) ==
    LET s == Trim(raw)
    IN IF s = <<>> THEN Err("EmptyProgram", 1) ELSE AfterAddr(s, ParseAddr(s))

(***************************************************************************)
(* The reference: the spelling of a program in the syntax of spec 6, the  *)
(* address (when there is one) and the expressions separated by spaces.    *)
(***************************************************************************)
RECURSIVE SpellExpr(_), SpellSeq(_, _)

SpellSeq(es, sep) ==
    IF es = <<>> THEN <<>>
    ELSE SpellExpr(Head(es)) \o (IF Len(es) = 1 THEN <<>> ELSE sep \o SpellSeq(Tail(es), sep))

SpellExpr(e) ==
    CASE e.op \in {"x", "y", "g", "v"} -> <<e.op, "/">> \o e.re.s \o <<"/">>
      [] e.op \in {"p", "i", "a", "c"} -> <<e.op, "/">> \o e.tpl \o <<"/">>
      [] e.op = "s" -> <<"s", "/">> \o e.re.s \o <<"/">> \o e.tpl \o <<"/">>
      [] e.op = "d" -> <<"d">>
      [] e.op = "grp" ->
            <<"{", " ">>
            \o FlattenSeq([i \in 1..Len(e.branches) |->
                             SpellSeq(e.branches[i], <<" ">>)
                             \o (IF i < Len(e.branches) THEN <<" ", ";", " ">> ELSE <<>>)])
            \o <<" ", "}">>

SpellProgram(pr) ==
    IF pr.addr = Full THEN SpellSeq(pr.exprs, <<" ">>)
    ELSE Spell(pr.addr) \o <<" ">> \o SpellSeq(pr.exprs, <<" ">>)

\* Spec 4.1: a compound may leave out its start when it is a plain 0 (Bof)
\* and its end when it is a plain $ (Eof).
SpellSide(a, k) == IF a = Simple(Base(k)) THEN <<>> ELSE PrintSimple(a)
SpellShort(pr) ==
    IF pr.addr.k # "Compound" THEN SpellProgram(pr)
    ELSE SpellSide(pr.addr.a, "Bof") \o <<",">> \o SpellSide(pr.addr.b, "Eof")
         \o <<" ">> \o SpellSeq(pr.exprs, <<" ">>)

Init ==
    /\ \/ \E pr \in Progs, pad \in {<<>>, <<" ">>, <<NL>>} :
             /\ prog = pr
             /\ input \in {pad \o SpellProgram(pr) \o pad, pad \o SpellShort(pr) \o pad}
       \/ prog = NoProg /\ input \in Inputs
    /\ result = NoResult
    /\ done = FALSE

Parse ==
    /\ ~done
    /\ result' = TryParse(input)
    /\ done' = TRUE
    /\ UNCHANGED <<prog, input>>

Next == Parse

Spec == Init /\ [][Next]_vars

(***************************************************************************)
(* Properties                                                              *)
(***************************************************************************)
\* Spec 4.3 and 8.1 for whole programs: a valid program, spelled with or
\* without its address, with a compound's 0 start or $ end left out or
\* not, and with whitespace around it, parses back to its address (Full
\* when it has none) and its expressions, through Addr::parse and its
\* defaults, the whitespace skipping and the expression loop.
ProgramRoundTrip ==
    (done /\ prog # NoProg) => result.ok /\ result.v = prog

\* try_parse falls back to the Full address only when the program has no
\* address: the iterator is rebuilt after Addr::parse gave up, so when the
\* text does not start with an address the program parsed starts with a
\* command, and the characters of the failed address are never skipped.
DefaultOnlyWithoutAddress ==
    (done /\ result.ok /\ ~ParseAddr(Trim(input)).ok) =>
        Trim(input)[1] \in {"x", "y", "g", "v", "p", "i", "a", "c", "s", "d", "{"}

\* Spec 4.1: a compound address defaults its start to 0 (Bof) and its end to
\* $ (Eof) only when that side is missing.  Addr::parse takes NotAnAddress
\* from SimpleAddr::parse as "missing" even when the failed attempt already
\* consumed characters (#, +., a sign before 0), so a side counts as
\* missing here only when its parse left the iterator where it started.
DefaultsOnlyMissingSides ==
    LET s == Trim(input)
        sep == ParseSimple(s, 1).p
    IN (done /\ result.ok /\ ParseAddr(s).ok /\ ParseAddr(s).v.k = "Compound") =>
           /\ ~ParseSimple(s, 1).ok => sep = 1
           /\ ~ParseSimple(s, sep + 1).ok => ParseSimple(s, sep + 1).p = sep + 1

=============================================================================
