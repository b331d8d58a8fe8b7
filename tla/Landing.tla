------------------------------ MODULE Landing -------------------------------
(***************************************************************************)
(* What working through a backlog is meant to do to a project, one ticket   *)
(* at a time: a ticket lands whole or the tree is as it was.  The attempts, *)
(* their edits and tests, the compile turns and the retries do not show.    *)
(***************************************************************************)
EXTENDS Worktree

CONSTANTS
    Reach(_),  \* the files a ticket may ever write, its tests among them
    Keeps(_)   \* the files a ticket may leave behind when it gives up

VARIABLES tree, landed

Only(where) == \A f \in Files \ where : tree'[f] = tree[f]

\* A ticket lands: it changed nothing but its own files, and no command of the
\* project prints an error it did not print before.
Land(t) ==
    /\ t \notin landed /\ landed' = landed \cup {t}
    /\ tree' \in Trees /\ Only(Reach(t))
    /\ \A s \in Steps : Printed(s, tree') \subseteq Printed(s, tree)

\* A bug ticket that gives up leaves the test that proved the fault.
Leave(t) ==
    /\ t \notin landed /\ UNCHANGED landed
    /\ tree' \in Trees /\ Only(Keeps(t))

Next == \E t \in Tickets : Land(t) \/ Leave(t)
Spec == tree \in Trees /\ landed = {} /\ [][Next]_<<tree, landed>>
=============================================================================
