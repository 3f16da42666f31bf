--------------------------- MODULE MCProgramParse ---------------------------
(***************************************************************************)
(* try_parse on the spelling of every program of one or two expressions   *)
(* (every command, with arguments "", "a" or a space) and of groups, under *)
(* four addresses or none, and of d under every address of the grammar   *)
(* (with up to one suffix, or compound), padded with whitespace; and on    *)
(* every string of up to four characters of address and command           *)
(* characters.                                                             *)
(***************************************************************************)
EXTENDS ProgramParse

MCArgs == {<<>>, <<"a">>, <<" ">>}

MCExprs ==
    {[op |-> c, re |-> Rx(r)] : c \in {"x", "y", "g", "v"}, r \in MCArgs} \cup
    {[op |-> c, tpl |-> t] : c \in {"p", "i", "a", "c"}, t \in MCArgs} \cup
    {[op |-> "s", re |-> Rx(r), tpl |-> t] : r \in MCArgs, t \in MCArgs} \cup
    {[op |-> "d"]}

PrintA == [op |-> "p", tpl |-> <<"a">>]
LoopA == [op |-> "x", re |-> Rx(<<"a">>)]
Del == [op |-> "d"]

MCGroups ==
    { [op |-> "grp", branches |-> <<<<PrintA>>, <<Del>>>>],
      [op |-> "grp", branches |-> <<<<LoopA, Del>>>>],
      [op |-> "grp", branches |-> <<<<LoopA, PrintA>>, <<PrintA>>, <<Del>>>>] }

MCBodies ==
    {<<e>> : e \in MCExprs \cup MCGroups} \cup
    {<<e, f>> : e \in MCExprs, f \in MCExprs} \cup
    {<<LoopA, g>> : g \in MCGroups}

\* Regex sources of addresses: up to two of the pieces a, \/ (an escaped
\* delimiter) and \a (an escaped ordinary character).
PatternPieces == {<<"a">>, <<"\\", "/">>, <<"\\", "a">>}
\* The same with \\, an escaped backslash.
EscPatternPieces == PatternPieces \cup {<<"\\", "\\">>}

PatternsOf(pieces) ==
    {<<>>} \cup pieces \cup {p \o q : p \in pieces, q \in pieces}

\* Every base of the grammar, numbers with one and two digits.
BasesWith(patterns) ==
    {Base("Current"), Base("Bof"), Base("Eof"), Base("Bol"), Base("Eol"),
     Base("CurrentLine"), BaseN("Line", 0), BaseN("Line", 11), BaseN("RelLine", 2),
     BaseN("RelLine", -1), BaseN("Char", 0), BaseN("Char", 10), BaseN("RelChar", 1),
     BaseN("RelChar", -3), [k |-> "LineCol", line |-> 0, col |-> 1]} \cup
    {BaseRe(k, Rx(p)) : k \in {"Regex", "RegexBack"}, p \in patterns}

\* Every base alone and with one valid suffix.
SimplesWith(patterns) ==
    LET bases == BasesWith(patterns)
    IN {Simple(b) : b \in bases} \cup
       {[base |-> b, suffixes |-> <<s>>] : b \in bases, s \in {x \in bases : IsValidSuffix(x)}}

\* Simple addresses, and compounds of two bases.
AddrsWith(patterns) ==
    LET plain == {Simple(b) : b \in BasesWith({<<"a">>})}
    IN {[k |-> "Simple", a |-> a] : a \in SimplesWith(patterns)} \cup
       {CompoundAddr(a, b) : a \in plain, b \in plain}

\* Every body under four addresses or none (Full: 1, /a/, 1,$); every
\* address under the body d.
MCAddrs ==
    { Full,
      [k |-> "Simple", a |-> Simple(BaseN("Line", 0))],
      [k |-> "Simple", a |-> Simple(BaseRe("Regex", Rx(<<"a">>)))],
      CompoundAddr(Simple(BaseN("Line", 0)), Simple(Base("Eof"))) }

AddrProgs(patterns) ==
    {[addr |-> a, exprs |-> <<Del>>] : a \in {x \in AddrsWith(patterns) : Printable(x)}}

MCProgs ==
    {[addr |-> a, exprs |-> b] : a \in MCAddrs, b \in {e \in MCBodies : Validate(e)}}
    \cup AddrProgs(PatternsOf(PatternPieces))

\* The programs whose address has a regex with an escaped backslash.
MCEscProgs == AddrProgs(PatternsOf(EscPatternPieces)) \ AddrProgs(PatternsOf(PatternPieces))

MCNoInputs == {}

\* Every string of up to four characters over 5 , # d x / and a space.
MCStrings == UNION {[1..n -> {"5", ",", "#", "d", "x", "/", " "}] : n \in 1..4}

=============================================================================
