----------------------------- MODULE MCTemplate -----------------------------
(***************************************************************************)
(* Instances of the template expander for TLC: every template of up to    *)
(* three pieces, each piece a variable, $FILENAME, a backslash, an n or a  *)
(* $; submatches read from a text that holds a plain letter, a variable    *)
(* and a backslash; file names plain, an n, or a variable.                *)
(***************************************************************************)
EXTENDS Template

MCPieces ==
    { <<"$", "0">>, <<"$", "1">>, FNameVar, <<"\\">>, <<"n">>, <<"$">> }

MCTemplates ==
    {<<>>} \cup MCPieces
    \cup {a \o b : a, b \in MCPieces}
    \cup {a \o b \o c : a, b, c \in MCPieces}

MCFileNames == { <<"f">>, <<"n">>, <<"$", "1">> }

\* x $ 1 \
MCTexts == { <<"x", "$", "1", "\\">> }

Loc(a, b) == [from |-> a, to |-> b]

\* Group 0 is "x", "$1" or "\"; group 1 absent, "x" or "$1".
MCMatches ==
    { [n \in Groups |-> CASE n = 0 -> g0 [] n = 1 -> g1 [] OTHER -> NoLoc] :
        g0 \in {Loc(0, 1), Loc(1, 3), Loc(3, 4)},
        g1 \in {NoLoc, Loc(0, 1), Loc(1, 3)} }

=============================================================================
