------------------------------- MODULE Regex --------------------------------
(***************************************************************************)
(* The contract of the regex engine as the exec engine uses it.  The       *)
(* engine itself is not among the modelled sources; a regex here is one of *)
(* three shapes whose leftmost-first match is easy to state exactly:       *)
(*   Lit(s)  the literal s (non-empty)       one group  ($0)               *)
(*   Cap(s)  (s), the literal in a group     two groups ($0, $1)           *)
(*   Star(c) c*, which also matches ""       one group  ($0)               *)
(* Star is the representative of every regex that can match the empty     *)
(* string, the case the loops of the engine have to guard against.         *)
(* A Match is its location [from, to) and how many groups it carries.      *)
(***************************************************************************)
EXTENDS Text

Lit(s) == [kind |-> "lit", s |-> s]
Cap(s) == [kind |-> "cap", s |-> s]
Star(c) == [kind |-> "star", s |-> <<c>>]

NGroups(re) == IF re.kind = "cap" THEN 2 ELSE 1

MatchRec(a, b, ng) == [from |-> a, to |-> b, ng |-> ng]

\* Sentinel for "no match" (the code's None).
NoMatch == MatchRec(-1, -1, 0)

\* Match::synthetic(from, to): a match carrying only group 0.
Synthetic(a, b) == MatchRec(a, b, 1)

\* Length of the run of character c in t starting at index p, up to index e.
RunFwd(t, c, p, e) ==
    LET ends == {q \in p..MaxOf(p, e) : \A i \in p..(q - 1) : t[i + 1] = c}
    IN (CHOOSE q \in ends : \A r \in ends : r <= q) - p

\* Length of the run of character c in t ending at index e, down to index 0.
RunBck(t, c, e) ==
    LET starts == {p \in 0..e : \A i \in p..(e - 1) : t[i + 1] = c}
    IN e - (CHOOSE p \in starts : \A r \in starts : p <= r)

\* Regex::match_iter over iter_between(from, to): the leftmost match inside
\* the characters [from, to) of t, bounded by the end of the text.
FirstMatch(t, re, from, to) ==
    LET e == MinOf(to, Len(t))
        n == Len(re.s)
        at == {p \in from..(e - n) : SubSeq(t, p + 1, p + n) = re.s}
    IN IF re.kind = "star"
       THEN MatchRec(from, from + RunFwd(t, re.s[1], from, e), 1)
       ELSE IF at = {} THEN NoMatch
            ELSE LET p == CHOOSE p \in at : \A q \in at : p <= q
                 IN MatchRec(p, p + n, NGroups(re))

\* Regex::compile_reverse(..).match_iter over rev_iter_between(from, 0): the
\* match found first when scanning backwards from index from, that is the
\* one ending closest to from.
BackMatch(t, re, from) ==
    LET e == MinOf(from, Len(t))
        n == Len(re.s)
        at == {p \in 0..(e - n) : SubSeq(t, p + 1, p + n) = re.s}
    IN IF re.kind = "star"
       THEN MatchRec(e - RunBck(t, re.s[1], e), e, 1)
       ELSE IF at = {} THEN NoMatch
            ELSE LET p == CHOOSE p \in at : \A q \in at : q <= p
                 IN MatchRec(p, p + n, NGroups(re))

\* Regex::matches_iter: whether there is any match in [from, to).
Matches(t, re, from, to) == FirstMatch(t, re, from, to) # NoMatch

=============================================================================
