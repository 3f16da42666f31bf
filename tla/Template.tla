------------------------------ MODULE Template ------------------------------
(***************************************************************************)
(* The template expander (src/src/exec/mod.rs, fn template_match) at the  *)
(* level of characters: a template, a file name and the submatches are     *)
(* sequences of one-character strings, and every substitution is the       *)
(* textual str::replace the code performs, one variable after the other.   *)
(*                                                                         *)
(* A Match is known to the expander only through Match::sub_loc: here a    *)
(* function from group number 0..9 to a location [from, to) in the text,   *)
(* or NoLoc for a group the match does not have.  Edit::submatch reads the *)
(* characters of that location.                                            *)
(***************************************************************************)
EXTENDS Text
LOCAL INSTANCE FiniteSetsExt

CONSTANTS
    Templates,  \* the template strings s of Print, Insert, Append, Change, Sub
    FileNames,  \* the fname argument of execute
    Texts,      \* the buffer contents submatches are read from
    Matches     \* sub_loc of the match the template is expanded against

VARIABLES
    tpl,     \* the template s
    fname,   \* the file name
    text,    \* the buffer
    m,       \* the match: group number -> location or NoLoc
    result,  \* what template_match returned, NoResult until then
    done

vars == <<tpl, fname, text, m, result, done>>

NoLoc == [from |-> -1, to |-> -1]
Groups == 0..9
Ok(s) == [ok |-> TRUE, s |-> s]
Err(n) == [ok |-> FALSE, n |-> n]
NoResult == Err(-1)
TAB == "\t"

\* FNAME_VAR
FNameVar == <<"$", "F", "I", "L", "E", "N", "A", "M", "E">>

\* The vars array: "$0" .. "$9".
Var(n) == <<"$", <<"0", "1", "2", "3", "4", "5", "6", "7", "8", "9">>[n + 1]>>

\* str::contains
StrContains(s, pat) ==
    \E i \in 0..(Len(s) - Len(pat)) : SubSeq(s, i + 1, i + Len(pat)) = pat

\* str::replace: every non-overlapping occurrence of pat, leftmost first.
RECURSIVE StrReplace(_, _, _)
StrReplace(s, pat, new) ==
    CASE Len(s) < Len(pat) -> s
      [] SubSeq(s, 1, Len(pat)) = pat ->
            new \o StrReplace(SubSeq(s, Len(pat) + 1, Len(s)), pat, new)
      [] OTHER -> <<s[1]>> \o StrReplace(Tail(s), pat, new)

\* Edit::submatch is None when the match lacks group n (sub_loc(n)?), and
\* otherwise the characters of its location.
HasGroup(sm, n) == sm[n] # NoLoc
Submatch(t, sm, n) == Between(t, sm[n].from, sm[n].to)

\* The filename first, then the \n and \t escapes.
Prepared(s, fn) ==
    LET named == IF StrContains(s, FNameVar) THEN StrReplace(s, FNameVar, fn) ELSE s
    IN StrReplace(StrReplace(named, <<"\\", "n">>, <<NL>>), <<"\\", "t">>, <<TAB>>)

\* Variant: whether a variable is used is decided on the output so far.
VarUsedInOutput(s, output, var) == StrContains(output, var)

\* A variable is substituted when the template s contains it.
VarUsed(s, output, var) == StrContains(s, var)

\* Variant: only the first occurrence of a variable is replaced.
ReplaceVarFirst(output, var, sm) ==
    LET at == {i \in 0..(Len(output) - Len(var)) : SubSeq(output, i + 1, i + Len(var)) = var}
    IN IF at = {} THEN output
       ELSE LET i == Min(at)
            IN SubSeq(output, 1, i) \o sm \o SubSeq(output, i + Len(var) + 1, Len(output))

\* output = output.replace(var, &sm)
ReplaceVar(output, var, sm) == StrReplace(output, var, sm)

\* The loop over vars from $n on: a used variable whose group is missing
\* returns InvalidSubstitution(n) at once.
RECURSIVE SubstVars(_, _, _, _, _)
SubstVars(s, output, t, sm, n) ==
    CASE n > 9 -> Ok(output)
      [] ~VarUsed(s, output, Var(n)) -> SubstVars(s, output, t, sm, n + 1)
      [] ~HasGroup(sm, n) -> Err(n)
      [] OTHER -> SubstVars(s, ReplaceVar(output, Var(n), Submatch(t, sm, n)), t, sm, n + 1)

\* fn template_match
TemplateMatch(s, sm, t, fn) == SubstVars(s, Prepared(s, fn), t, sm, 0)

Init ==
    /\ tpl \in Templates
    /\ fname \in FileNames
    /\ text \in Texts
    /\ m \in {sm \in Matches : \A n \in Groups : sm[n].to <= Len(text)}
    /\ result = NoResult
    /\ done = FALSE

Expand ==
    /\ ~done
    /\ result' = TemplateMatch(tpl, m, text, fname)
    /\ done' = TRUE
    /\ UNCHANGED <<tpl, fname, text, m>>

Next == Expand

Spec == Init /\ [][Next]_vars

(***************************************************************************)
(* The reference: spec section 4.5 read as one left-to-right pass over    *)
(* the template, in which a value put in is never looked at again.        *)
(***************************************************************************)
At(s, i, tok) == SubSeq(s, i, MinOf(i + Len(tok) - 1, Len(s))) = tok

RECURSIVE Scan(_, _, _, _, _)
Scan(s, i, t, sm, fn) ==
    LET var == {n \in Groups : At(s, i, Var(n))}
    IN CASE i > Len(s) -> <<>>
         [] At(s, i, FNameVar) -> fn \o Scan(s, i + Len(FNameVar), t, sm, fn)
         [] At(s, i, <<"\\", "n">>) -> <<NL>> \o Scan(s, i + 2, t, sm, fn)
         [] At(s, i, <<"\\", "t">>) -> <<TAB>> \o Scan(s, i + 2, t, sm, fn)
         [] var # {} -> Submatch(t, sm, Min(var)) \o Scan(s, i + 2, t, sm, fn)
         [] OTHER -> <<s[i]>> \o Scan(s, i + 1, t, sm, fn)

\* A value that cannot form a variable or an escape with the characters
\* around it: no $, no backslash, no digit, no n or t.
Plain(v) == \A i \in 1..Len(v) : v[i] \notin {"$", "\\", "n", "t", "0", "1", "2", "3", "4", "5", "6", "7", "8", "9"}

UsedGroups == {n \in Groups : StrContains(tpl, Var(n))}

(***************************************************************************)
(* Properties                                                              *)
(***************************************************************************)
\* template_match substitutes $FILENAME, the escapes and then each $n by
\* a separate str::replace.  When the file name and the submatches used
\* are plain, this sequence of replacements agrees with one pass over the
\* template: every variable and escape is expanded, every occurrence of
\* it, with the value of its own group.
ExpansionIsSinglePass ==
    (done /\ result.ok /\ Plain(fname) /\ \A n \in UsedGroups : Plain(Submatch(text, m, n)))
        => result.s = Scan(tpl, 1, text, m, fname)

\* InvalidSubstitution(n) is returned exactly when the template itself
\* names a $n whose group the match lacks, and n is the lowest such: a
\* variable that only a substituted value brought in never fails.
InvalidSubstitutionNamesTemplateVar ==
    LET missing == {n \in UsedGroups : m[n] = NoLoc}
    IN done => IF missing = {} THEN result.ok ELSE result = Err(Min(missing))

=============================================================================
