# TLA+ models of the ad structural-regex engine

This directory checks the address-and-command engine of `ad` (`src/src/exec/`)
with TLC. The engine is a Sam-style interpreter. An address selects a dot in a
buffer. A program of loops (`x`, `y`), guards (`g`, `v`) and actions (`p`, `i`,
`a`, `c`, `d`, `s`, `{...}`) then edits the buffer through the `Edit` trait.

## The system and its parts

| Part (spec.md) | Code | State it touches | Operations |
|---|---|---|---|
| C1 address parser | `addr.rs` 55-278 `Addr::parse`, `SimpleAddr::parse`, `AddrBase::parse`, `parse_delimited_regex` | a peekable char stream | parse |
| C2 address evaluator | `addr.rs` 280-458 trait `Address` and its `Buffer`/`GapBuffer` impls | reads text, line index, current dot | `map_addr`, `map_simple_addr`, `map_compound_addr`, `map_addr_base`, `full_line`, `char_to_line_end/start` |
| C3 command parser | `mod.rs` 126-181 `Program::try_parse`, 378-388 `consume_whitespace` (`Expr::try_parse` is not under `src/`) | char stream | parse |
| C4 validator | `mod.rs` 390-415 `validate` | none | validate |
| C5 template expander | `mod.rs` 417-444 `template_match` | reads text through `submatch` | expand |
| C6 execution engine | `mod.rs` 184-376 `execute`, `step`, `apply_matches` | the buffer text, the output sink, the edit transaction | every `Expr` |
| C7 interface traits | `mod.rs` 63-116 `Edit` and its impls; `addr.rs` 280-290 `Address` | the buffer | `insert`, `remove`, `begin/end_edit_transaction` |

Not part of the engine: `mode/mod.rs` (keymap tries of the modal editor), the
9p client crate `ad_client`, `examples/ts.rs` and `lib.rs`. PROJECT.json lists
them as not modelled. They hold no state the engine shares, and the client is
pure I/O.

How the parts interact: `execute` calls C2 once for the initial dot. It turns
the inclusive dot into the half-open window `[from, to+1)`. It opens an edit
transaction and runs `step` recursively. Loops first collect all their matches
with the regex engine. `apply_matches` then runs the rest of the program on
each match, shifted by the change in length that the earlier bodies made.
Actions expand templates (C5) and edit through C7.

### What is hard here

- **Offsets.** Matches are collected before any edit and re-anchored by a
  running offset (`mod.rs` 362-373). Nested loops and edits that change the
  length must keep every later match on the text it was collected from.
- **Zero-length matches.** The `x` loop advances by one past an empty match.
  The `y` loop does not (`mod.rs` 247-251 vs 266-275).
- **Group sequencing.** Every branch of a group is run with the group's
  original match, after the earlier branches have already edited.
- **Error paths.** Any error propagates out through `?`.
- **usize arithmetic.** This covers the `as usize` casts of negative offsets,
  `len_chars() - 1` on an empty buffer, and `saturating_sub` and
  `saturating_add` at the window ends.
- **Inclusive and exclusive ends.** Dots are inclusive, matches are
  exclusive, and `char_to_line_end` is exclusive except on the last line.

## Modules

```
Validator   C4: validate, as a recursive operator
Text        character text, the line index (try_line_to_char / try_char_to_line), Dot
 ├ Template   C5: template_match over characters, str::replace by str::replace
 │   └ MCTemplate    templates, file names and matches TLC expands
 └ Regex    the regex contract: Lit(s), Cap(s) with two groups, Star(c) that matches ""
    └ Addr       C2: map_addr and everything it calls, as operators
       ├ AddrEval     one map_addr call as a step (Init picks text, dot, address)
       │   └ MCAddrEval     the texts, dots and addresses TLC enumerates
       ├ ExecSam      the abstract engine: execute as one step of a recursive interpreter
       ├ Exec         C6, C7 (+ Validator): execute / step / apply_matches as a frame machine,
       │   │          shown to implement ExecSam
       │   └ MCExec         texts, programs and addresses TLC enumerates
       └ AddrParser   C1: Addr::parse and what it calls, as operators; a reference printer
           └ ProgramParse   C3 (+ Validator): Program::try_parse; Expr::try_parse from the spec
               └ MCProgramParse   the programs and strings TLC parses
```

**Text and Regex** model code that is not under `src/`, so they are marked
`spec_modelled` in the map:
- `GapBuffer` line lookups.
- `Dot` helpers.
- `Regex::match_iter`.

The regex engine is reduced to three shapes whose leftmost match is exact:
- a literal;
- a literal in a capture group, so `$1` exists;
- `c*`, the representative of every regex that can match the empty string.

**Addr** keeps the code's usize behaviour through three constants:
- `UsizeModulus` stands for 2^64. `Wrap` is the `as usize` cast.
- `OverflowChecks` is TRUE for a debug build, where underflow panics. FALSE is
  a release build, where it wraps.
- `OnePastLastLine` says whether `try_line_to_char(len_lines)` is `Some(len)`.
  The runs use FALSE, i.e. `None`, which is what the unit tests in `addr.rs`
  imply.

Each `AddrBase` variant is one arm of `MapAddrBase`. Suffixes are a RECURSIVE
fold (`ApplySuffixes`). `MapAddr` applies the default dot and the clamp.

**AddrParser** turns the `Peekable<Chars>` into a position in the input.
Every parse operator returns `Ok(v, p)` or `Err(e, p)`, with the position
where the iterator stands afterwards. Errors need the position too, because
`Addr::parse` continues after a failed start.

There is one operator per function:
- `ParseAddr`.
- `ParseSimple` and `ParseSuffixes`.
- `ParseBase`, with the `#` arm (`ParseCharAddr`) and the digit arm
  (`ParseLineAddr`).
- `ParseDelimitedRegex`.

`Spell` is the reference: the canonical spelling of an address in the grammar
of spec 4.1. It is not taken from the code. `Printable` excludes suffix
sequences that have no spelling of their own: a `-` followed by a part that
starts with `+` reads as `-+`.

Where a function looks at the result of a call more than once (`Addr::parse`
at its start, `SimpleAddr::parse` at its base), the result is passed to a
second operator as an argument (`AddrAfterStart`, `SimpleAfterBase`,
`SuffixStep`) instead of being bound by LET. The value is the same. Only TLC's
coverage profiler, which expands each syntactic use, needs the split.

**ProgramParse** models `Program::try_parse` in the same style:
- `Trim` is `str::trim`; an empty result is `EmptyProgram`.
- `AfterAddr` passes the address errors through. On `NotAnAddress` it falls
  back to `Addr::full()` and restarts at the first character (`ExprsStart`),
  as the code does by rebuilding the iterator.
- `ParseExprs` is the loop: `consume_whitespace` (`SkipWs`) after the address
  and after every expression, an `Eof` ends the program, any other error is
  returned.
- `ProgramOf` returns a program without expressions as it is, and validates
  any other.

`Expr::try_parse` lives in `expr.rs`, which is not under `src/`, so
`ParseExpr`, `ParseBranch` and `ParseGroup` follow the grammar of spec 4.3
and 6 and are marked `spec_modelled`. `s/re/tpl/g` is the pair `x/re/
s/re/tpl/`. The reference is `SpellProgram`: the address (left out when it is
Full) and the expressions separated by spaces.

**Template** works at the level of characters, because the re-expansion
FIXME needs them:
- `Prepared` replaces `$FILENAME`, then `\n`, then `\t`.
- `SubstVars` goes through `$0` .. `$9`. A variable is substituted when the
  template `s` contains it (`VarUsed`). A missing group is
  `InvalidSubstitution(n)`. Otherwise `str::replace` (`StrReplace`, every
  non-overlapping occurrence, leftmost first) runs over the whole output.
- The reference `Scan` is one left-to-right pass over the template, which
  is how spec 4.5 reads.

**Exec** represents the recursion of `step` as a stack of frames:
- `step`: about to dispatch `exprs[pc]`.
- `collect`: the `while let` loop of `x` or `y`.
- `apply`: `apply_matches`, with its `offset` and `cur_len`.
- `group`: the remaining branches.

Each step is one action:
- `Execute`.
- One action per `Expr` arm: `StepGroup`, `StepLoop`, `StepGuard`, `StepPrint`,
  `StepEdit`, `StepDelete`, `StepSub`.
- One loop iteration: `CollectX` or `CollectY`.
- One match of `apply_matches`: `ApplyNext` or `ApplyDone`.
- One group branch: `GroupNext` or `GroupDone`.

A return pops a frame and resumes its caller (`Return`, `ResumeFrame`). An
error empties the stack (`Fail`), as `?` does.

The text is a sequence of characters, each with an identity that the engine
never reads. The identities let properties say which characters a window
covers. `txn` counts `begin_edit_transaction` and `end_edit_transaction`
calls. `win0` records the initial window and the original text.

`target` is the type `E` of `execute<E: Edit>`. A `Buffer` keeps a dot of its
own (`bufDot`), which `current_dot` returns. A raw `GapBuffer` has none: its
`current_dot` is `Dot::default()`, the cursor at 0 (`GapCurrentDot`).
`CurrentDot(target, bufDot)` is what `Execute` hands to `map_addr`, so `-+`,
`/re/` and `+` are evaluated from a different dot on the two targets. In the
refinement mapping, `SamDot` gives ExecSam the same starting dot.

**ExecSam** is the abstract specification of the engine. `execute` is one step
`Run`, computed by a recursive interpreter (`Steps`). Its structure follows
spec 4.6, but two parts copy the code rather than the spec. The dot of a
print or a failed guard is the code's `from_char_indices(m.from, m.to)`,
and `XMatches`/`YGaps` collect a loop's matches as the code's `while`
loops do. `ImplementsSam` therefore agrees with the code on those dots and
collections by construction. It checks the offsets and the recursion
against identity-based relocation, and `exec_dot`, `exec_group` and
`exec_loop_between` check the copied parts against the spec:
- A loop remembers each collected match by the identities of its characters,
  or of the character after it when the match is empty. It finds the match
  again by those identities (`Block`, `Locate`), not by an offset.
- The branches of a group each start from the dot the previous branch
  returned.
- Errors stop the run and keep the edits made so far.

Exec implements ExecSam under a refinement mapping (`Sam == INSTANCE ExecSam
WITH ...`). While `status` is `running`, the abstract state is the state
before the call: the original text from `win0`, `nextId` past it, and
nothing printed. Every frame step is then a stuttering step. The step that
returns, fails or panics is `Run`.

The refinement is checked as `Sam!SafetySpec`. TLC cannot evaluate ENABLED
of the abstract action through a mapping that substitutes expressions for
variables. The fairness half of `Sam!Spec` (`WF(Run)`) says that a called
`execute` ends, because `Run` is enabled exactly while the mapped status is
`idle`. That is `Termination`, which the same run checks.

## Runs

| run | cfg | expect | what it shows |
|---|---|---|---|
| exec | MCExec.cfg | pass (20,048 states) | `TypeOK`. `LoopOffsetsTrack`: each collected match, shifted by the offset, covers exactly its original characters when its body runs. `OutsideDotUntouched`: no character before or after the initial window is edited. `Termination`: `execute` returns. `ImplementsSam`: the frame machine implements ExecSam. |
| exec_group | MCExecGroup.cfg | violation | `{d; a/Y/}` edits outside the dot (finding). The same programs also violate `ImplementsSam`. |
| exec_loop_between | MCExecLoopBetween.cfg | violation | `y/a*/ d` on `b` never returns: the empty match at 0 is found again with no advance. On the empty text, `a` and `aa` the `max_iter` break ends the loop (finding). |
| exec_txn | MCExecTxn.cfg | violation | `-+ y/a/ c/$1/` on the empty text (TLC's trace; `,` behaves the same) fails with `InvalidSubstitution` and the transaction open (finding). |
| exec_dot | MCExecDot.cfg | violation | `ReadOnlyKeepsDot` (spec 4.6): `-+ v/a/ p/$0/` on the text `a` returns the dot (0, 1), not the line (0, 0) its address selected (finding). |
| addr | MCAddrEval.cfg | pass (192,516 states) | `TypeOK`. `ResultInBounds` (spec 8.2). `RegexAddrSelectsMatch`: `/re/` and `-/re/` select a match after or before the dot. `RelativeLineSteps`: `n+k` equals line `n+k`. |
| addr_relchar | MCAddrEvalRelChar.cfg | violation | `-#2` at index 0 wraps to EOF (finding). |
| addr_lastline | MCAddrEvalLastLine.cfg | violation | `LineAddrCoversLine` in a debug build. The last-line branch of `char_to_line_end` returns `len_chars() - 1`: on the empty buffer `-+` panics (TLC's trace), and on any other text the last line loses its last character and `-+` overshoots into the next line (finding). |
| template | MCTemplate.cfg | pass (13,986 states) | `ExpansionIsSinglePass`: with plain values, the chain of `str::replace` calls equals one pass over the template. `InvalidSubstitutionNamesTemplateVar`: the error names the lowest `$n` of the template whose group is missing, and only such a variable fails. |
| program_parse | MCProgramParse.cfg | pass (43,598 states) | `ProgramRoundTrip` (spec 4.3, 8.1): every program of the grammar, under every address of the grammar and padded with whitespace, parses back to its address and expressions. `DefaultOnlyWithoutAddress`: a string that parses without an address starts with a command, because try_parse restarts after `NotAnAddress`. |
| program_parse_escape | MCProgramParseEscape.cfg | violation | `/\\/ d` (an address regex of one escaped backslash) fails with `UnclosedDelimiter` (finding). |
| parse_defaults | MCProgramParseDefaults.cfg | violation | `DefaultsOnlyMissingSides` (spec 4.1): `#,` parses as the address `,`, because `Addr::parse` takes the start it gave up on after reading `#` as a missing one (finding). |

Each property of a passing run has a mutant in PROJECT.json. A mutant is a
plausible bug in the mapped operator it replaces, and TLC finds it. The
mutants:
- the offset is overwritten instead of accumulated;
- change removes one character too many;
- no advance past an empty match;
- the sign is swapped in the Sub dot;
- change returns a dot widened like insert;
- no clamp, or no default, in `map_addr`;
- the match end is not turned into an inclusive one;
- a relative line is counted from the character after the cursor;
- only the first occurrence of a template variable is replaced;
- whether a variable is used is decided on the output so far;
- whitespace after an expression is not consumed;
- the iterator is not rebuilt after `NotAnAddress`.

`parse_defaults` is about `Addr::parse` (`addr.rs` 59 and 74). It takes
`NotAnAddress` from a start or end that already consumed characters as a
missing start or end: `#,5` parses as `0,5` and `5,#d` as `5,$ d`. Spec 4.1
defaults only a missing side. `DefaultsOnlyMissingSides` counts a side as
missing when `SimpleAddr::parse` left the iterator where it started.

`addr_lastline` runs a debug build, as the tests do, so one property
catches both outcomes of the last-line branch of `char_to_line_end`. TLC
stops at the first state that violates it, which is the panic on the empty
text. With `OverflowChecks = FALSE` the same run stops at `-+` on the text
of one newline instead, which resolves to (0, 1), one past the line.

The re-expansion of a value put in for an earlier template variable (the
FIXME above `template_match`) is not checked as a violation. Spec 4.5 and 9
accept it as a known pitfall to document, not a defect. `ExpansionIsSinglePass`
pins down the cases where the chain of replacements and one pass over the
template agree.

The dot convention behind `exec_dot` reaches further than the run shows.
Insert, Append, Change and Sub also build their dot from the exclusive end of
the match (`to + n`, `from + n`). So the dot a program returns is one
character wider than spec 4.6's `[m.from, m.to + n)` whenever it does not
end at the end of the buffer.

## Bounds

**MCExec** enumerates:
- every text over {a, b} of 0 to 3 characters;
- the addresses `,`, `#1,#2`, `/b/` and `-+`;
- both `Edit` targets, `Buffer` and `GapBuffer`, and for a `Buffer` the
  stored dots (0, 0) and (2, 2) that fit the text, so `-+` and `/b/` are
  evaluated from the start, the middle and the end;
- 16 program bodies: each loop with each action, nested loops, guards, a group
  of a print and a loop, and templates with `$0`, `$1`, `$FILENAME` and `\n`.

Three characters are enough for:
- a loop with three matches, which is where a wrong offset shows up;
- a match at both ends of the text;
- an empty text, where `-+` panics.

**MCAddrEval** enumerates:
- every text over {a, b, newline} of 0 to 3 characters, so there are up to
  four lines, with empty lines and trailing newlines;
- every dot of each text;
- every base;
- every base with each valid suffix;
- nine compound addresses.

**MCProgramParse** parses:
- every valid body of one or two expressions (every command, with arguments
  empty, `a` or a space), groups of up to three branches, and a loop followed
  by a group, under the addresses none, `1`, `/a/` and `1,$`;
- `d` under every address of the grammar: every base, with one- and
  two-digit numbers; every base with each valid suffix; compounds of two
  bases; regex sources of up to two pieces from `a`, `\/` and `\a`. The escape
  run uses the sources that contain `\\`;
- each of these spelled bare, padded by a space and padded by a newline,
  and spelled short (`SpellShort`): a compound whose start is `0` or whose
  end is `$` with that side left out (`,5`, `1,`, `,`), which `Addr::parse`
  must fill with its defaults;
- every string of one to four characters over `5 , # d x /` and a space,
  which mixes address starts, commands and delimiters.

**MCTemplate** expands every template of up to three pieces from `$0`, `$1`,
`$FILENAME`, `\`, `n` and `$`. The file names are `f`, `n` and `$1`. The
submatches are read from the text `x$1\`, group 0 at three places and
group 1 absent or at two. That is enough to put a variable, a backslash or
an `n` into the output next to template text.

The usize modulus is 2^16. Wrapped values stay far above every index, as they
do with 2^64.

## Fairness

`execute` runs to completion on the caller's thread. Nothing in it waits or
yields. `Spec` therefore has weak fairness on `Next`. A run that does not
return is a genuine loop in the code, not an unscheduled step. All
configurations set `CHECK_DEADLOCK FALSE`, because a finished `execute` (done,
error or panic) is a final state.

## Not modelled, and why

- **`Expr::try_parse`.** It is in `expr.rs`, which is not under `src/`. It is
  modelled from the grammar of the spec. An `Eof` in the middle of the last
  command (`d p`) ends the program silently (`mod.rs` 169), which spec 7
  documents as intended. The `Eof` itself comes from `expr.rs`, so a
  property about it would only restate the `Eof` arm of the loop.
- **The address parser's remaining error paths.** `util::parse_num` and
  `Regex::compile` are outside `src/`. Numbers are therefore read as plain
  decimals, and `InvalidRegex` is not produced.
- **The regex engine.** Only the three shapes above are modelled. Multi-line
  `.*` and backtracking are not represented.
- **Undo equivalence of a transaction, and the internals of the `GapBuffer`
  `Edit` impl** (`insert_str`, `remove_range`). They are outside `src/`. The
  dot that `Buffer::insert` and `Buffer::remove` store as a side effect is
  not modelled either: `execute` returns its dot, and the engine never reads
  the stored one again during a call.
- **Template expansion inside Exec** uses token templates: `$0`, `$1`,
  `$FILENAME` and `\n`. The character-level behaviour, with re-expansion,
  is checked separately in Template.
- **Modal keymaps.** `Mode::handle_keys` (`mode/mod.rs` 44-66) is the only
  operation under `src/`. It asks a `Trie` (`trie.rs`) for the pending
  keys and falls back to the mode's `handle_expired_pending` (`normal.rs`,
  `insert.rs`). Neither is under `src/`, and the spec lists modal key
  handling as out of scope, so both would have to be invented. A model of
  the 23 lines of dispatch over an invented keymap and handler would check
  the invention, not the code. The engine never calls into it.
- **The 9p client and the example binary.** `ad_client` formats file paths
  and reads and writes them over a socket. It keeps no state of its own.
  `examples/ts.rs` and `lib.rs` hold an example binary, module declarations
  and constants.

## Plan for later work

1. Compose ProgramParse with Exec, so that executed programs come from
   strings, and check `execute . try_parse` against ExecSam.
2. Run the refinement on larger texts with a smaller set of programs.
3. A debug-build variant of ProgramParse in which `parse_num` overflows.
