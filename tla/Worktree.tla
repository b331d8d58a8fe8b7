------------------------------ MODULE Worktree ------------------------------
(***************************************************************************)
(* The project a run works on: the files on disk, what the project's own   *)
(* commands print over them, and what git keeps of them (src/forge/loop.py, *)
(* src/forge/failures.py).                                                  *)
(*                                                                         *)
(* A content is known by who wrote it and by the errors it causes, in its   *)
(* own file or in another: a test of this project fails because a source    *)
(* breaks it.  The error a step reports about a file stands while that file *)
(* is there and, for a test, while it asserts anything.                     *)
(***************************************************************************)
EXTENDS Integers, FiniteSets

CONSTANTS
    Tickets,    \* the backlog
    Files,      \* the files of the project, by path
    TestFiles,  \* those that are test files by their path
    Unparsed,   \* errors whose output names nothing the loop can attribute
    Compiled,   \* whether a suite is only built when the sources compile
    Ignored,    \* files git is told not to look at
    Git         \* whether the project is a git repository

Steps == {"check", "test"}
Errors == Steps \X Files

ASSUME WorktreeAssumption ==
    /\ TestFiles \subseteq Files /\ Ignored \subseteq Files
    /\ Unparsed \subseteq Errors
    /\ Compiled \in BOOLEAN /\ Git \in BOOLEAN

Contents == [by: Tickets \cup {"plan", "tester", "person", "nobody"},
             breaks: SUBSET Errors, asserts: BOOLEAN]
Absent == [by |-> "nobody", breaks |-> {}, asserts |-> FALSE]
Trees == [Files -> Contents]

\* A test file the tester wrote: one that asserts something, one that asserts
\* nothing the code violates, and one that does not build.
OwnErrors(f) == {<<"check", f>>, <<"test", f>>}
TesterWrites(f) ==
    {[by |-> "tester", breaks |-> {}, asserts |-> a] : a \in BOOLEAN}
        \cup {[by |-> "tester", breaks |-> OwnErrors(f), asserts |-> TRUE]}

Present(tree) == {f \in Files : tree[f] # Absent}

Standing(tree) ==
    {e \in Errors :
        /\ tree[e[2]] # Absent
        /\ e[1] = "test" /\ e[2] \in TestFiles => tree[e[2]].asserts
        /\ \E f \in Files : e \in tree[f].breaks}

\* What a step prints: a suite that is compiled first prints why it was not.
Printed(step, tree) ==
    LET of(s) == {e \in Standing(tree) : e[1] = s} IN
    IF Compiled /\ step = "test" /\ of("check") # {} THEN of("check") ELSE of(step)

Fails(step, tree) == Printed(step, tree) # {}
Named(printed) == {e[2] : e \in printed}

\* What the loop can attribute of it, and to which files.
Signatures(printed) == printed \ Unparsed
FilesBlamed(printed) == Named(Signatures(printed))

\* `git add -A` and `write-tree`: a snapshot holds no ignored file, and there is
\* none outside a repository.
Snapshot(tree) ==
    IF Git THEN {[f \in Files |-> IF f \in Ignored THEN Absent ELSE tree[f]]} ELSE {}
=============================================================================
