------------------------------- MODULE ExecSam -------------------------------
(***************************************************************************)
(* What execute promises (spec sections 4.6 and 5), as one atomic step:   *)
(* the final text, output, dot and status of a program are those of a      *)
(* recursive interpreter in which a loop runs its body on the matches that *)
(* existed when it started.  Here a collected match is not re-anchored by *)
(* an offset: it is remembered as the characters it covered (their ids)    *)
(* and its width, and found again in the edited text by those ids (the     *)
(* character after it for an empty match).  Exec, the frame machine with   *)
(* its running offset, is shown to implement this specification.          *)
(*                                                                         *)
(* The branches of a group run one after the other, each from the dot the *)
(* previous one returned (spec 4.6), the first from the group's match.    *)
(***************************************************************************)
EXTENDS Addr, Validator
LOCAL INSTANCE SequencesExt

CONSTANTS FileName, Programs, Texts, BufDots

VARIABLES text, nextId, bufDot, prog, status, result, out

vars == <<text, nextId, bufDot, prog, status, result, out>>

Chars(t) == [i \in 1..Len(t) |-> t[i].c]
Loc(m) == FromCharIndices(m.from, m.to)

\* The edits of spec 4.7 on a text of [c, id] records: insert s at ix with
\* fresh ids from id0, and remove [from, to); both clamp to the end.
Put(t, ix, s, id0) ==
    LET k == MinOf(ix, Len(t))
    IN SubSeq(t, 1, k) \o [i \in 1..Len(s) |-> [c |-> s[i], id |-> id0 + i - 1]]
       \o SubSeq(t, k + 1, Len(t))
Cut(t, from, to) ==
    IF from >= MinOf(to, Len(t)) THEN t
    ELSE SubSeq(t, 1, from) \o SubSeq(t, MinOf(to, Len(t)) + 1, Len(t))

\* Spec 4.5 over token templates: $0 and $1 are the matched characters (a
\* Cap regex's group spans its match); $1 needs a match with two groups.
Token(t, tok, m) ==
    CASE tok \in {"$0", "$1"} -> Chars(Between(t, m.from, m.to))
      [] tok = "$FILENAME" -> FileName
      [] tok = "\\n" -> <<NL>>
      [] OTHER -> <<tok>>
Expand(t, tpl, m) == FlattenSeq([i \in 1..Len(tpl) |-> Token(t, tpl[i], m)])
TplOk(tpl, m) == \A i \in 1..Len(tpl) : tpl[i] = "$1" => m.ng >= 2

\* x: every forward match in [from, to), moving on by one past an empty
\* match, while the search start is inside the window and the text.
RECURSIVE XMatches(_, _, _, _)
XFrom(t, re, from, to, mm) ==
    IF mm = NoMatch THEN <<>>
    ELSE LET nf == IF mm.to = from THEN from + 1 ELSE mm.to
         IN <<mm>> \o (IF nf >= MinOf(to, Len(t)) THEN <<>> ELSE XMatches(t, re, nf, to))
XMatches(t, re, from, to) == XFrom(t, re, from, to, FirstMatch(t, re, from, to))

\* y: the non-empty gaps between the matches in [from, to) and its ends.
Gap(a, b) == IF a < b THEN <<Synthetic(a, b)>> ELSE <<>>
RECURSIVE YGaps(_, _, _, _)
YFrom(t, re, from, to, mm) ==
    CASE mm = NoMatch -> Gap(from, to)
      [] mm.to >= Len(t) -> Gap(from, mm.from) \o Gap(mm.to, to)
      [] OTHER -> Gap(from, mm.from) \o YGaps(t, re, mm.to, to)
YGaps(t, re, from, to) == YFrom(t, re, from, to, FirstMatch(t, re, from, to))

\* A match remembered by identity, and found again in a later text.
Block(t, mm) ==
    [ids |-> [i \in 1..Len(Between(t, mm.from, mm.to)) |-> Between(t, mm.from, mm.to)[i].id],
     after |-> IF mm.to < Len(t) THEN t[mm.to + 1].id ELSE 0,
     w |-> mm.to - mm.from, ng |-> mm.ng]
Blocks(t, ms) == [i \in 1..Len(ms) |-> Block(t, ms[i])]
IdPos(t, id) == CHOOSE i \in 0..(Len(t) - 1) : t[i + 1].id = id
Locate(t, b) ==
    LET from == CASE b.ids # <<>> -> IdPos(t, b.ids[1])
                  [] b.after = 0 -> Len(t)
                  [] OTHER -> IdPos(t, b.after)
    IN MatchRec(from, from + b.w, b.ng)

(***************************************************************************)
(* The interpreter.  A state st is [t, nid, out, err]; a step returns      *)
(* [st, d], d the dot it returns.  Sub-results are passed on as arguments. *)
(***************************************************************************)
Ret(st, d) == [st |-> st, d |-> d]
Aborted(st) == Ret([st EXCEPT !.err = TRUE], NoDot)

EditWith(st, op, m, s) ==
    Ret([t |-> CASE op = "i" -> Put(st.t, m.from, s, st.nid)
                 [] op = "a" -> Put(st.t, m.to, s, st.nid)
                 [] op = "c" -> Put(Cut(st.t, m.from, m.to), m.from, s, st.nid),
         nid |-> st.nid + Len(s), out |-> st.out, err |-> FALSE],
        IF op = "c" THEN FromCharIndices(m.from, m.from + Len(s))
        ELSE FromCharIndices(m.from, m.to + Len(s)))

SubWith(st, m, mm, s) ==
    Ret([st EXCEPT !.t = Put(Cut(@, mm.from, mm.to), mm.from, s, st.nid),
                   !.nid = @ + Len(s)],
        FromCharIndices(m.from, m.to - (mm.to - mm.from) + Len(s)))

SubAt(st, tpl, m, mm) ==
    CASE mm = NoMatch -> Ret(st, Loc(m))
      [] ~TplOk(tpl, mm) -> Aborted(st)
      [] OTHER -> SubWith(st, m, mm, Expand(st.t, tpl, mm))

RECURSIVE Steps(_, _, _, _), ApplyAll(_, _, _, _, _), AfterBody(_, _, _, _),
          Branches(_, _, _, _), AfterBranch(_, _)

\* exprs[pc] run on match m.
Steps(st, ex, pc, m) ==
    LET e == ex[pc + 1]
    IN CASE e.op = "grp" -> Branches(st, e.branches, m, Loc(m))
         [] e.op = "x" ->
              ApplyAll(st, ex, pc, Blocks(st.t, XMatches(Chars(st.t), e.re, m.from, m.to)), Loc(m))
         [] e.op = "y" ->
              ApplyAll(st, ex, pc, Blocks(st.t, YGaps(Chars(st.t), e.re, m.from, m.to)), Loc(m))
         [] e.op \in {"g", "v"} ->
              IF Matches(Chars(st.t), e.re, m.from, m.to) = (e.op = "g")
              THEN Steps(st, ex, pc + 1, m) ELSE Ret(st, Loc(m))
         [] e.op = "p" ->
              IF TplOk(e.tpl, m) THEN Ret([st EXCEPT !.out = Append(@, Expand(st.t, e.tpl, m))], Loc(m))
              ELSE Aborted(st)
         [] e.op \in {"i", "a", "c"} ->
              IF TplOk(e.tpl, m) THEN EditWith(st, e.op, m, Expand(st.t, e.tpl, m)) ELSE Aborted(st)
         [] e.op = "d" -> Ret([st EXCEPT !.t = Cut(@, m.from, m.to)], FromCharIndices(m.from, m.from))
         [] e.op = "s" -> SubAt(st, e.tpl, m, FirstMatch(Chars(st.t), e.re, m.from, m.to))

\* The body exprs[pc + 1 ..] on each remembered match in turn; the result
\* is the last body's dot, d when there is none.
ApplyAll(st, ex, pc, bs, d) ==
    IF bs = <<>> THEN Ret(st, d)
    ELSE AfterBody(ex, pc, Tail(bs), Steps(st, ex, pc + 1, Locate(st.t, Head(bs))))
AfterBody(ex, pc, bs, r) == IF r.st.err THEN r ELSE ApplyAll(r.st, ex, pc, bs, r.d)

\* The branches bs, the next one on match m; d is the last dot.
Branches(st, bs, m, d) ==
    IF bs = <<>> THEN Ret(st, d) ELSE AfterBranch(Tail(bs), Steps(st, Head(bs), 0, m))
AfterBranch(bs, r) ==
    IF r.st.err THEN r ELSE Branches(r.st, bs, Synthetic(r.d.from, r.d.to), r.d)

Init ==
    /\ text \in {[i \in 1..Len(s) |-> [c |-> s[i], id |-> i]] : s \in Texts}
    /\ nextId = Len(text) + 1
    /\ bufDot \in {d \in BufDots : d.to <= Len(text)}
    /\ prog \in {p \in Programs : p.exprs = <<>> \/ Validate(p.exprs)}
    /\ status = "idle"
    /\ result = NoDot
    /\ out = <<>>

\* The end state of a program run by Steps.
Finish(r) ==
    /\ text' = r.st.t
    /\ nextId' = r.st.nid
    /\ out' = r.st.out
    /\ IF r.st.err THEN status' = "error" /\ UNCHANGED result
       ELSE /\ status' = "done"
            /\ result' = FromCharIndices(MinOf(r.d.from, Len(r.st.t)), MinOf(r.d.to, Len(r.st.t)))

\* execute, from the initial address to the clamped dot.
Run(d0) ==
    /\ status = "idle"
    /\ CASE d0 = PanicDot -> status' = "panic" /\ UNCHANGED <<text, nextId, result, out>>
         [] prog.exprs = <<>> -> status' = "done" /\ result' = d0 /\ UNCHANGED <<text, nextId, out>>
         [] OTHER -> Finish(Steps([t |-> text, nid |-> nextId, out |-> out, err |-> FALSE],
                                  prog.exprs, 0, Synthetic(d0.from, d0.to + 1)))
    /\ UNCHANGED <<bufDot, prog>>

Next == Run(MapAddr(Chars(text), prog.addr, bufDot))

SafetySpec == Init /\ [][Next]_vars

\* execute returns: Run is taken once it is enabled, that is while idle.
Spec == SafetySpec /\ WF_vars(Next)

=============================================================================
