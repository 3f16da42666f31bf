-------------------------------- MODULE Exec --------------------------------
(***************************************************************************)
(* The exec engine (src/src/exec/mod.rs): Program::execute resolves the    *)
(* initial address, then runs the recursive step / apply_matches           *)
(* interpreter against an Edit.                                            *)
(*                                                                         *)
(* The recursion of step is an explicit stack of frames, one per active    *)
(* call, the innermost last:                                               *)
(*   "step"    step(ed, m, pc) about to dispatch on exprs[pc]              *)
(*   "collect" the while-loop of LoopMatches (x) or LoopBetweenMatches (y) *)
(*             gathering initial_matches                                   *)
(*   "apply"   apply_matches running the rest of the program per match     *)
(*   "group"   a Group running its branches one after the other            *)
(* IfContains / IfNotContains call step(pc + 1) in tail position, so they  *)
(* replace their own frame.  A finished call returns its dot to the frame  *)
(* below it.                                                               *)
(*                                                                         *)
(* Every character of the text carries an identity (id): the original     *)
(* characters 1..n and a fresh one per inserted character.  The ids are    *)
(* never read by the engine; they let the properties say which characters *)
(* a window covers.                                                        *)
(*                                                                         *)
(* Expressions are records [op |-> "x" | "y" | "g" | "v", re],             *)
(* [op |-> "p" | "i" | "a" | "c", tpl], [op |-> "d"], [op |-> "s", re, tpl]*)
(* and [op |-> "grp", branches |-> Seq(Seq(Expr))].  A template is a       *)
(* sequence of tokens: characters, "$0", "$1", "$FILENAME" and "\\n".      *)
(***************************************************************************)
EXTENDS Addr, Validator
LOCAL INSTANCE SequencesExt

CONSTANTS
    FileName,   \* the fname argument of execute, a sequence of characters
    Programs,   \* the parsed programs [addr, exprs] an execute may run
    Texts,      \* the buffer contents an execute may start from
    BufDots,    \* the buffer's dot (current_dot) an execute may start from
    Targets,    \* the Edit implementations execute is instantiated with
    MaxCollect  \* bound on the length of initial_matches (a Vec in the code)

ASSUME MaxCollect \in Nat

VARIABLES
    text,     \* the buffer: a sequence of [c |-> char, id |-> identity]
    nextId,   \* the identity the next inserted character gets
    target,   \* "Buffer" or "GapBuffer": the type E of execute<E: Edit>
    bufDot,   \* Buffer::dot; a GapBuffer has none (NoDot)
    prog,     \* the Program being executed
    stack,    \* the frames of the active calls
    status,   \* "idle", "running", "done", "error" or "panic"
    result,   \* the dot execute returned
    out,      \* what Print wrote to the output sink, one entry per write
    txn,      \* edit transaction boundaries: [begin |-> n, end |-> n]
    win0      \* history: the initial match [a, b), the original length and text t

vars == <<text, nextId, target, bufDot, prog, stack, status, result, out, txn, win0>>

\* The characters of a buffer.
Chars(t) == [i \in 1..Len(t) |-> t[i].c]

(***************************************************************************)
(* fn template_match: $FILENAME, the \n escape, then $0 and $1 from the    *)
(* submatches of m.  A $n the match has no group for is an error           *)
(* (InvalidSubstitution).  Both groups of a Cap regex span the match.      *)
(***************************************************************************)
TokenText(tok, m) ==
    CASE tok \in {"$0", "$1"} -> Chars(Between(text, m.from, m.to))
      [] tok = "$FILENAME" -> FileName
      [] tok = "\\n" -> <<NL>>
      [] OTHER -> <<tok>>

TemplateOk(tpl, m) == ~(m.ng < 2 /\ \E i \in 1..Len(tpl) : tpl[i] = "$1")

TemplateMatch(tpl, m) == FlattenSeq([i \in 1..Len(tpl) |-> TokenText(tpl[i], m)])

(***************************************************************************)
(* The Edit operations of Buffer.  insert puts the cursor at ix and       *)
(* inserts there; remove(from, to) deletes [from, to) unless from = to.    *)
(* Indices past the end are clamped to it, as the buffer clamps its dot.   *)
(***************************************************************************)
EdInsert(t, ix, s, id0) ==
    LET k == MinOf(ix, Len(t))
        new == [i \in 1..Len(s) |-> [c |-> s[i], id |-> id0 + i - 1]]
    IN SubSeq(t, 1, k) \o new \o SubSeq(t, k + 1, Len(t))

EdRemove(t, from, to) ==
    IF from = to \/ from >= Len(t) THEN t
    ELSE SubSeq(t, 1, from) \o SubSeq(t, MinOf(to, Len(t)) + 1, Len(t))

(***************************************************************************)
(* Frames.                                                                 *)
(***************************************************************************)
StepFrame(p, pc, m) == [k |-> "step", prog |-> p, pc |-> pc, m |-> m]

\* Match::apply_offset
Shift(m, off) == [m EXCEPT !.from = Wrap(@ + off), !.to = Wrap(@ + off)]

\* Which characters a match covers, and the one just after it: how the
\* properties tell whether a shifted match still denotes the same text.
Sig(t, m) ==
    <<[i \in 1..Len(Between(t, m.from, m.to)) |-> Between(t, m.from, m.to)[i].id],
      IF m.to < Len(t) THEN t[m.to + 1].id ELSE 0>>

Top == stack[Len(stack)]

\* Replace the innermost frame.
SetTop(f) == stack' = [stack EXCEPT ![Len(stack)] = f]

\* Variant: the offset is overwritten by the last change instead of
\* accumulated.
ResumeFrameNoAccumulate(f, d, newLen) ==
    IF f.k = "apply" THEN [f EXCEPT !.dot = d, !.offset = newLen - f.curLen]
    ELSE [f EXCEPT !.dot = d]

\* The caller frame f takes the dot d its callee returned; apply_matches
\* adds the change in length the callee made to its running offset.
ResumeFrame(f, d, newLen) ==
    IF f.k = "apply" THEN [f EXCEPT !.dot = d, !.offset = @ + newLen - f.curLen]
    ELSE [f EXCEPT !.dot = d]

\* The innermost call returns dot d, the text then having length newLen.
\* The outermost return ends execute: end_edit_transaction and the clamp.
Return(d, newLen) ==
    IF Len(stack) = 1
    THEN /\ stack' = <<>>
         /\ status' = "done"
         /\ result' = FromCharIndices(MinOf(d.from, newLen), MinOf(d.to, newLen))
         /\ txn' = [txn EXCEPT !.end = @ + 1]
    ELSE /\ stack' = Append(SubSeq(stack, 1, Len(stack) - 2),
                            ResumeFrame(stack[Len(stack) - 1], d, newLen))
            /\ UNCHANGED <<status, result, txn>>

\* An error propagated by `?` out of execute: end_edit_transaction is
\* skipped.
Fail ==
    /\ stack' = <<>>
    /\ status' = "error"
    /\ UNCHANGED <<result, txn>>

(***************************************************************************)
(* Program::execute                                                        *)
(***************************************************************************)
Init ==
    /\ text \in {[i \in 1..Len(s) |-> [c |-> s[i], id |-> i]] : s \in Texts}
    /\ nextId = Len(text) + 1
    /\ target \in Targets
    /\ bufDot \in IF target = "GapBuffer" THEN {NoDot} ELSE {d \in BufDots : d.to <= Len(text)}
    /\ prog \in {p \in Programs : p.exprs = <<>> \/ Validate(p.exprs)}
    /\ stack = <<>>
    /\ status = "idle"
    /\ result = NoDot
    /\ out = <<>>
    /\ txn = [begin |-> 0, end |-> 0]
    /\ win0 = [a |-> 0, b |-> 0, len |-> Len(text), t |-> text]

Execute ==
    LET d0 == MapAddr(Chars(text), prog.addr, CurrentDot(target, bufDot))
    IN /\ status = "idle"
       /\ CASE d0 = PanicDot ->
                 /\ status' = "panic"
                 /\ UNCHANGED <<stack, result, txn, win0>>
            [] prog.exprs = <<>> ->
                 /\ status' = "done"
                 /\ result' = d0
                 /\ UNCHANGED <<stack, txn, win0>>
            [] OTHER ->
                 /\ stack' = <<StepFrame(prog.exprs, 0, Synthetic(d0.from, d0.to + 1))>>
                 /\ status' = "running"
                 /\ txn' = [txn EXCEPT !.begin = @ + 1]
                 /\ win0' = [win0 EXCEPT !.a = d0.from, !.b = MinOf(d0.to + 1, Len(text))]
                 /\ UNCHANGED result
       /\ UNCHANGED <<text, nextId, bufDot, target, prog, out>>


(***************************************************************************)
(* Program::step, one action per kind of expression.  The expression is   *)
(* Expr(f) of the innermost "step" frame f; its match is f.m = [from, to). *)
(***************************************************************************)
Expr(f) == f.prog[f.pc + 1]
IsStep(op) == Len(stack) > 0 /\ Top.k = "step" /\ Expr(Top).op = op
Loc(f) == FromCharIndices(f.m.from, f.m.to)

\* Expr::Group: run the branches in order, each from match m.
StepGroup ==
    /\ IsStep("grp")
    /\ SetTop([k |-> "group", m |-> Top.m, todo |-> Expr(Top).branches, dot |-> Loc(Top)])
    /\ UNCHANGED <<text, nextId, bufDot, target, prog, status, result, out, txn, win0>>

\* Expr::LoopMatches and Expr::LoopBetweenMatches: start collecting.
StepLoop ==
    /\ IsStep("x") \/ IsStep("y")
    /\ SetTop([k |-> "collect", x |-> Expr(Top).op = "x", re |-> Expr(Top).re,
               prog |-> Top.prog, pc |-> Top.pc, m |-> Top.m,
               from |-> Top.m.from, acc |-> <<>>])
    /\ UNCHANGED <<text, nextId, bufDot, target, prog, status, result, out, txn, win0>>

\* Expr::IfContains and Expr::IfNotContains: on to pc + 1, or return.
StepGuard ==
    /\ IsStep("g") \/ IsStep("v")
    /\ LET f == Top
           hit == Matches(Chars(text), Expr(f).re, f.m.from, f.m.to)
       IN IF hit = (Expr(f).op = "g")
          THEN /\ SetTop(StepFrame(f.prog, f.pc + 1, f.m))
               /\ UNCHANGED <<status, result, txn>>
          ELSE Return(Loc(f), Len(text))
    /\ UNCHANGED <<text, nextId, bufDot, target, prog, out, win0>>

\* Expr::Print: write the expanded template to the output.
StepPrint ==
    /\ IsStep("p")
    /\ LET f == Top IN
       IF TemplateOk(Expr(f).tpl, f.m)
       THEN /\ out' = Append(out, TemplateMatch(Expr(f).tpl, f.m))
            /\ Return(Loc(f), Len(text))
       ELSE Fail /\ UNCHANGED out
    /\ UNCHANGED <<text, nextId, bufDot, target, prog, win0>>

\* Variant: change removes one character past the end of its match.
EditedWide(t, op, from, to, s, id0) ==
    CASE op = "i" -> EdInsert(t, from, s, id0)
      [] op = "a" -> EdInsert(t, to, s, id0)
      [] op = "c" -> EdInsert(EdRemove(t, from, to + 1), from, s, id0)

\* The text after Insert, Append or Change of match [from, to) by s.
Edited(t, op, from, to, s, id0) ==
    CASE op = "i" -> EdInsert(t, from, s, id0)
      [] op = "a" -> EdInsert(t, to, s, id0)
      [] op = "c" -> EdInsert(EdRemove(t, from, to), from, s, id0)

\* Variant: Change returns its match widened by the new text, as Insert
\* and Append do.
EditDotChangeWide(op, from, to, n) == FromCharIndices(from, to + n)

\* The dot they return.
EditDot(op, from, to, n) ==
    IF op = "c" THEN FromCharIndices(from, from + n) ELSE FromCharIndices(from, to + n)

\* Expr::Insert, Expr::Append, Expr::Change: expand, then edit.
StepEdit ==
    /\ IsStep("i") \/ IsStep("a") \/ IsStep("c")
    /\ LET f == Top
           from == f.m.from
           to == f.m.to
           s == TemplateMatch(Expr(f).tpl, f.m)
           t2 == Edited(text, Expr(f).op, from, to, s, nextId)
           d == EditDot(Expr(f).op, from, to, Len(s))
       IN IF TemplateOk(Expr(f).tpl, f.m)
          THEN /\ text' = t2
               /\ nextId' = nextId + Len(s)
               /\ Return(d, Len(t2))
          ELSE Fail /\ UNCHANGED <<text, nextId>>
    /\ UNCHANGED <<bufDot, target, prog, out, win0>>

\* Expr::Delete
StepDelete ==
    /\ IsStep("d")
    /\ LET t2 == EdRemove(text, Top.m.from, Top.m.to)
       IN /\ text' = t2
          /\ Return(FromCharIndices(Top.m.from, Top.m.from), Len(t2))
    /\ UNCHANGED <<nextId, bufDot, target, prog, out, win0>>

\* Variant: the length of the replacement is subtracted, not added.
SubDotSignSwap(from, to, mfrom, mto, n) == FromCharIndices(from, to - (mto - mfrom + n))

\* The dot of a Sub of [mfrom, mto) by n characters inside [from, to).
SubDot(from, to, mfrom, mto, n) == FromCharIndices(from, to - (mto - mfrom) + n)

\* Expr::Sub: replace the first match of the regex inside [from, to).
StepSub ==
    /\ IsStep("s")
    /\ LET f == Top
           mm == FirstMatch(Chars(text), Expr(f).re, f.m.from, f.m.to)
           s == TemplateMatch(Expr(f).tpl, mm)
           t2 == EdInsert(EdRemove(text, mm.from, mm.to), mm.from, s, nextId)
       IN CASE mm = NoMatch ->
                 Return(Loc(f), Len(text)) /\ UNCHANGED <<text, nextId>>
            [] ~TemplateOk(Expr(f).tpl, mm) ->
                 Fail /\ UNCHANGED <<text, nextId>>
            [] OTHER ->
                 /\ text' = t2
                 /\ nextId' = nextId + Len(s)
                 /\ Return(SubDot(f.m.from, f.m.to, mm.from, mm.to, Len(s)), Len(t2))
    /\ UNCHANGED <<bufDot, target, prog, out, win0>>

(***************************************************************************)
(* Collecting initial_matches, one iteration of the while-loop per step.   *)
(***************************************************************************)
\* A loop that collects more than MaxCollect matches stops here: the code
\* would go on pushing to initial_matches without end.
IsCollect(isX) == Len(stack) > 0 /\ Top.k = "collect" /\ Top.x = isX
                  /\ Len(Top.acc) < MaxCollect

\* The loop is over: apply_matches starts with offset 0.  sigs is history
\* for the properties: what each collected match covered.
ToApply(f, acc) ==
    SetTop([k |-> "apply", prog |-> f.prog, pc |-> f.pc, m |-> f.m, todo |-> acc,
            offset |-> 0, curLen |-> 0, dot |-> Loc(f),
            sigs |-> [i \in 1..Len(acc) |-> Sig(text, acc[i])]])

\* Variant: no advance past an empty match.
NextFromStuck(mto, from) == mto

\* Where LoopMatches searches next: the end of the match, or one further
\* when the match is empty at from.
NextFrom(mto, from) == IF mto = from THEN from + 1 ELSE mto

\* LoopMatches: take the next match; an empty match at from moves from on
\* by one so that the search progresses.
CollectX ==
    /\ IsCollect(TRUE)
    /\ LET f == Top
           mm == FirstMatch(Chars(text), f.re, f.from, f.m.to)
           newFrom == NextFrom(mm.to, f.from)
           acc == Append(f.acc, mm)
       IN CASE mm = NoMatch -> ToApply(f, f.acc)
            [] newFrom >= f.m.to \/ newFrom >= Len(text) -> ToApply(f, acc)
            [] OTHER -> SetTop([f EXCEPT !.from = newFrom, !.acc = acc])
    /\ UNCHANGED <<text, nextId, bufDot, target, prog, status, result, out, txn, win0>>

\* LoopBetweenMatches: keep the non-empty gap before the next match, then
\* continue from its end; the gap after the last match closes the list.
CollectY ==
    /\ IsCollect(FALSE)
    /\ LET f == Top
           mm == FirstMatch(Chars(text), f.re, f.from, f.m.to)
           gapped == IF f.from < mm.from THEN Append(f.acc, Synthetic(f.from, mm.from))
                     ELSE f.acc
           Finish(from, acc) ==
               ToApply(f, IF from < f.m.to THEN Append(acc, Synthetic(from, f.m.to)) ELSE acc)
       IN CASE mm = NoMatch -> Finish(f.from, f.acc)
            [] mm.to > f.m.to \/ mm.to >= Len(text) -> Finish(mm.to, gapped)
            [] OTHER -> SetTop([f EXCEPT !.from = mm.to, !.acc = gapped])
    /\ UNCHANGED <<text, nextId, bufDot, target, prog, status, result, out, txn, win0>>

(***************************************************************************)
(* apply_matches: run step(pc + 1) on each collected match, shifted by the *)
(* change in length the earlier ones made.                                 *)
(***************************************************************************)
IsApply == Len(stack) > 0 /\ Top.k = "apply"

ApplyNext ==
    /\ IsApply
    /\ Top.todo # <<>>
    /\ LET f == Top
       IN stack' = Append([stack EXCEPT ![Len(stack)] =
                              [f EXCEPT !.todo = Tail(@), !.sigs = Tail(@),
                                        !.curLen = Len(text)]],
                          StepFrame(f.prog, f.pc + 1, Shift(Head(f.todo), f.offset)))
    /\ UNCHANGED <<text, nextId, bufDot, target, prog, status, result, out, txn, win0>>

ApplyDone ==
    /\ IsApply
    /\ Top.todo = <<>>
    /\ Return(Top.dot, Len(text))
    /\ UNCHANGED <<text, nextId, bufDot, target, prog, out, win0>>

(***************************************************************************)
(* Group: each branch is Program { initial_dot: Explicit(dot), exprs }     *)
(* stepped from pc 0 with the group's own match m.                         *)
(***************************************************************************)
IsGroup == Len(stack) > 0 /\ Top.k = "group"

GroupNext ==
    /\ IsGroup
    /\ Top.todo # <<>>
    /\ LET f == Top
       IN stack' = Append([stack EXCEPT ![Len(stack)] = [f EXCEPT !.todo = Tail(@)]],
                          StepFrame(Head(f.todo), 0, f.m))
    /\ UNCHANGED <<text, nextId, bufDot, target, prog, status, result, out, txn, win0>>

GroupDone ==
    /\ IsGroup
    /\ Top.todo = <<>>
    /\ Return(Top.dot, Len(text))
    /\ UNCHANGED <<text, nextId, bufDot, target, prog, out, win0>>

Next ==
    \/ Execute
    \/ StepGroup \/ StepLoop \/ StepGuard \/ StepPrint \/ StepEdit \/ StepDelete \/ StepSub
    \/ CollectX \/ CollectY
    \/ ApplyNext \/ ApplyDone
    \/ GroupNext \/ GroupDone

\* execute runs on the caller's thread without suspension: once it is
\* called, every enabled step is taken.
Spec == Init /\ [][Next]_vars /\ WF_vars(Next)

(***************************************************************************)
(* Properties                                                              *)
(***************************************************************************)
MatchOK(m) == m.from \in Nat /\ m.to \in Nat /\ m.from <= m.to
DotOK(d) == d.from \in Nat /\ d.to \in Nat /\ d.from <= d.to

TypeOK ==
    /\ \A i \in 1..Len(text) : text[i].id \in 1..(nextId - 1)
    /\ status \in {"idle", "running", "done", "error", "panic"}
    /\ txn \in [begin : Nat, end : Nat]
    /\ \A i \in 1..Len(stack) :
          /\ stack[i].k \in {"step", "collect", "apply", "group"}
          /\ MatchOK(stack[i].m)
          /\ stack[i].k \in {"apply", "group"} => DotOK(stack[i].dot)
          /\ stack[i].k = "apply" => \A j \in 1..Len(stack[i].todo) : MatchOK(stack[i].todo[j])
    /\ status = "done" => DotOK(result) /\ result.to <= Len(text)

\* apply_matches collects every match of a loop before the first edit and
\* re-anchors each one by the running offset (the change in length the
\* bodies of the earlier matches made).  Whenever the next match is about
\* to be run, its shifted location covers exactly the characters it covered
\* when it was collected, and sits before the same character.
LoopOffsetsTrack ==
    IsApply /\ Top.todo # <<>> =>
        Sig(text, Shift(Head(Top.todo), Top.offset)) = Head(Top.sigs)

\* A program edits only inside the dot its initial address resolved to:
\* the characters before the initial match and after it are never touched
\* by any step, loop or group (execute, step, apply_matches).
OutsideDotUntouched ==
    (status \in {"running", "done", "error"} /\ prog.exprs # <<>>) =>
        LET tail == win0.len - win0.b
        IN /\ Len(text) >= win0.a + tail
           /\ \A i \in 1..win0.a : text[i].id = i
           /\ \A j \in 1..tail : text[Len(text) - tail + j].id = win0.b + j

\* Every execute returns: the x loop's collection always progresses (an
\* empty match moves the search on by one), and so must every other loop.
Termination == <>(status \in {"done", "error", "panic"})

\* Spec section 5 and 7: the end_edit_transaction boundary is issued on
\* every exit path of execute, errors included, so every begin is closed.
TransactionClosed == status \in {"done", "error"} => txn.end = txn.begin

\* Spec 4.6: Print, and a guard that does not hold, return [m.from, m.to),
\* the match they were given, and execute turns the initial dot into that
\* match by adding one to its end (step 2).  A program of prints and
\* guards alone therefore returns the dot its address selected: step and
\* execute hand the dot back unchanged.
ReadOnlyKeepsDot ==
    (status = "done" /\ \A i \in 1..Len(prog.exprs) : prog.exprs[i].op \in {"p", "g", "v"})
        => result = MapAddr(Chars(text), prog.addr, CurrentDot(target, bufDot))

(***************************************************************************)
(* Refinement: while execute is running, the abstract state is the one    *)
(* before it was called (the original text from win0, nothing printed);    *)
(* the step that returns, fails or panics is the abstract Run.             *)
(***************************************************************************)
Running == status = "running"
SamText == IF Running THEN win0.t ELSE text
SamNextId == IF Running THEN Len(win0.t) + 1 ELSE nextId
SamStatus == IF Running THEN "idle" ELSE status
SamOut == IF Running THEN <<>> ELSE out
\* Spec 4.7: the raw gap buffer's current_dot is the empty dot at 0.
SamDot == IF target = "GapBuffer" THEN CurDot(0) ELSE bufDot

Sam == INSTANCE ExecSam
           WITH text <- SamText, bufDot <- SamDot, nextId <- SamNextId, status <- SamStatus, out <- SamOut

\* Spec 4.6 and 5: execute, with its frame stack, its match lists and the
\* running offset of apply_matches, ends in the text, output, dot and
\* status of the recursive interpreter that runs every loop body on the
\* matches found when the loop started (found again by identity, not by
\* offset).  This is the safety part of Sam!Spec; its fairness, that Run
\* is eventually taken once execute is called, is Termination.
ImplementsSam == Sam!SafetySpec

=============================================================================
