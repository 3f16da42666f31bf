----------------------------- MODULE MCAddrEval -----------------------------
(***************************************************************************)
(* Every text of up to three characters over {a, b, newline}, every dot of *)
(* it, and the addresses of the grammar: each base alone, each base with  *)
(* each valid suffix, and compound addresses.                              *)
(***************************************************************************)
EXTENDS AddrEval

MaxTextLen == 3

MCTexts == UNION {[1..n -> {"a", "b", NL}] : n \in 0..MaxTextLen}

LitA == Lit(<<"a">>)
CapAB == Cap(<<"a", "b">>)

\* . 0 $ - + -+ 1 2 3 #0 #2 2:1 /a/ /(ab)/ /a*/ -/a/ -/(ab)/
Bases ==
    {Base("Current"), Base("Bof"), Base("Eof"), Base("Bol"), Base("Eol"),
     Base("CurrentLine"), BaseN("Line", 0), BaseN("Line", 1), BaseN("Line", 2),
     BaseN("Char", 0), BaseN("Char", 2), [k |-> "LineCol", line |-> 1, col |-> 0],
     BaseRe("Regex", LitA), BaseRe("Regex", CapAB), BaseRe("Regex", Star("a")),
     BaseRe("RegexBack", LitA), BaseRe("RegexBack", CapAB)}

\* - + -+ +1 -1 +#1 -#1 /a/ -/a/ (AddrBase::is_valid_suffix)
Suffixes ==
    {Base("Bol"), Base("Eol"), Base("CurrentLine"), BaseN("RelLine", 1),
     BaseN("RelLine", -1), BaseN("RelChar", 1), BaseN("RelChar", -1),
     BaseRe("Regex", LitA), BaseRe("RegexBack", LitA)}

Simples == {Simple(b) : b \in Bases} \cup
           {[base |-> b, suffixes |-> <<s>>] : b \in Bases, s \in Suffixes}

\* +1 -1 +#1 -#2 as bases of their own
RelBases == {BaseN("RelLine", 1), BaseN("RelLine", -1), BaseN("RelChar", 1),
             BaseN("RelChar", -2)}

MCAddrs ==
    {[k |-> "Simple", a |-> a] : a \in Simples} \cup
    {SimpleAddr(b) : b \in RelBases} \cup
    {CompoundAddr(Simple(a), Simple(b)) :
        a \in {Base("Bof"), BaseN("Line", 1), BaseRe("RegexBack", LitA)},
        b \in {Base("Eof"), BaseN("Line", 0), BaseRe("Regex", LitA)}}

=============================================================================
