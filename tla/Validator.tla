------------------------------ MODULE Validator ------------------------------
(***************************************************************************)
(* The validator (src/src/exec/mod.rs, fn validate), shared by the         *)
(* command parser that calls it and the exec engine that runs only what   *)
(* it accepted.  An expression is a record whose op is one of x y g v p i *)
(* a c s d or grp; a group carries its branches, each a sequence of        *)
(* expressions.                                                            *)
(***************************************************************************)
EXTENDS Integers, Sequences

\* The expressions a program may end with.
Actions == {"grp", "i", "a", "c", "s", "p", "d"}

\* Programs whose last expression is an action, recursively for groups:
\* fn validate.
RECURSIVE Validate(_)
Validate(exprs) ==
    /\ exprs # <<>>
    /\ \A i \in 1..Len(exprs) :
          exprs[i].op = "grp" => \A j \in 1..Len(exprs[i].branches) :
                                     Validate(exprs[i].branches[j])
    /\ exprs[Len(exprs)].op \in Actions

=============================================================================
