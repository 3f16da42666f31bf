------------------------------- MODULE MCExec -------------------------------
(***************************************************************************)
(* Instances of the exec engine for TLC: every text of up to three         *)
(* characters over {a, b}, and programs of the shapes the tests use:       *)
(* loops with each action, nested loops, guards, groups, sub, templates    *)
(* with $0, $1 and $FILENAME, from the full, a range and a regex address.  *)
(***************************************************************************)
EXTENDS Exec

MaxTextLen == 3

MCTexts == UNION {[1..n -> {"a", "b"}] : n \in 0..MaxTextLen}
\* The buffer's dot at the start, inside and past a match of /b/; the gap
\* buffer has none and starts from Dot::default().
MCBufDots == {CurDot(0), CurDot(2)}
MCTargets == {"Buffer", "GapBuffer"}

\* A loop over a text of n characters collects at most n + 1 matches.
MCMaxCollect == MaxTextLen + 2
MCFileName == <<"f">>

X(re) == [op |-> "x", re |-> re]
Y(re) == [op |-> "y", re |-> re]
G(re) == [op |-> "g", re |-> re]
V(re) == [op |-> "v", re |-> re]
P(tpl) == [op |-> "p", tpl |-> tpl]
I(tpl) == [op |-> "i", tpl |-> tpl]
A(tpl) == [op |-> "a", tpl |-> tpl]
C(tpl) == [op |-> "c", tpl |-> tpl]
D == [op |-> "d"]
S(re, tpl) == [op |-> "s", re |-> re, tpl |-> tpl]
Grp(bs) == [op |-> "grp", branches |-> bs]

LitA == Lit(<<"a">>)
LitB == Lit(<<"b">>)

\* ,  #1,#2  /b/  -+
MCAddrs ==
    { Full,
      CompoundAddr(Simple(BaseN("Char", 1)), Simple(BaseN("Char", 2))),
      SimpleAddr(BaseRe("Regex", LitB)),
      SimpleAddr(Base("CurrentLine")) }

MCBodies ==
    { <<>>,
      <<X(LitA), I(<<"X">>)>>,
      <<X(LitA), A(<<"X">>)>>,
      <<X(Star("a")), C(<<"X">>)>>,
      <<X(LitA), D>>,
      <<X(Cap(<<"a", "b">>)), C(<<"$1", "$1">>)>>,
      <<Y(LitA), D>>,
      <<Y(LitB), A(<<"X">>)>>,
      <<Y(LitA), C(<<"$1">>)>>,
      <<S(LitA, <<"$0", "$0">>)>>,
      <<X(Star("b")), S(LitA, <<>>)>>,
      <<X(Star("a")), X(LitA), I(<<"X">>)>>,
      <<Y(LitB), V(LitA), C(<<"$FILENAME">>)>>,
      <<G(LitB), P(<<"$0", "\\n">>)>>,
      <<Grp(<<<<P(<<"$0">>)>>, <<X(LitA), C(<<"X", "X">>)>>>>)>>,
      <<X(LitB), Grp(<<<<P(<<"$0">>)>>, <<D>>>>)>> }

MCPrograms == {[addr |-> a, exprs |-> e] : a \in MCAddrs, e \in MCBodies}

\* Groups whose first branch edits before the second one runs.
MCGroupPrograms ==
    {[addr |-> a, exprs |-> e] : a \in MCAddrs,
       e \in { <<Grp(<<<<D>>, <<A(<<"Y">>)>>>>)>>,
               <<X(LitA), Grp(<<<<I(<<"X">>)>>, <<C(<<"Y">>)>>>>)>> }}

\* A loop between the matches of a regex that matches the empty string.
MCEmptyYPrograms ==
    {[addr |-> Full, exprs |-> e] : e \in { <<Y(Star("a")), D>> }}

\* Programs that only print or test: they must not move the dot.
MCReadOnlyPrograms ==
    {[addr |-> a, exprs |-> e] : a \in MCAddrs,
       e \in { <<P(<<"$0">>)>>, <<G(LitA), P(<<"$0">>)>>, <<V(LitA), P(<<"$0">>)>> }}

=============================================================================
