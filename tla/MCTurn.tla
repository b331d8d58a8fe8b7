------------------------------- MODULE MCTurn -------------------------------
(***************************************************************************)
(* A ticket may write a source file s alone, s and its manifest m, s with  *)
(* an existing test file e and a file p that is never delegated and that   *)
(* another ticket is to write, s and a test file q yet to be written, or s *)
(* and a file x too large to be shown.                                     *)
(* t is the test file named after it.  An image ticket is to draw g, with  *)
(* or without a test of it in e; one that names two pictures cannot run.   *)
(***************************************************************************)
EXTENDS Picture

CONSTANTS s, m, x, t, e, q, p, g, h

MCFound == [f \in Files |-> CASE f = s -> {"a", "b", "same"}
                              [] f = m -> {"d1", "d2"}
                              [] f = x -> {"a"}
                              [] f = e -> {"call", "v2"}
                              [] OTHER -> Absent]
MCScopes == {{s, m}, {s}, {s, e, p}, {s, q}, {s, x}, {g}, {g, e}, {g, h}}

\* The settings an image ticket meets: all leased and the server forge's, one of
\* them leased, no artifacts and no captures; and those it cannot run in.
Plain0 == Setting(FALSE, FALSE, FALSE, {}, FALSE, FALSE, FALSE)
Full == Setting(TRUE, TRUE, TRUE, {"image", "capture"}, TRUE, TRUE, TRUE)
Case(k, files, settings) == {[kind |-> k, scope |-> files, setting |-> c] : c \in settings}
MCCases ==
    UNION {Case("feature", files, {Plain0}) : files \in {{s, m}, {s}, {s, e, p}, {s, q}, {s, x}}}
    \cup Case("image", {g}, {Full, [Full EXCEPT !.leases = {"capture"}, !.edit = FALSE],
                              [Full EXCEPT !.leases = {"image"}, !.ours = FALSE],
                              [Full EXCEPT !.model = FALSE], [Full EXCEPT !.sees = FALSE]})
    \cup Case("image", {g, e}, {[Full EXCEPT !.capture = FALSE, !.keeps = FALSE]})
    \cup Case("image", {g, h}, {Full}) \cup Case("odd", {s}, {Plain0})
MCImportOf == [l \in {"imp", "lost"} |-> IF l = "imp" THEN {p} ELSE {}]
MCCriteria == {[call |-> "call", value |-> "value"]}

W(path, content) == Block(path, "above", FALSE, content, <<>>)
P(path, hunks) == Block(path, "above", FALSE, {}, hunks)
I(path, content) == Block(path, "inside", FALSE, content, <<>>)
Plain(blocks) == ReplyOf("nothing", blocks, FALSE, FALSE, FALSE)

\* What an executor may reply.
MCExecutorReplies ==
    {Plain(bs) : bs \in {
        <<>>,
        <<W(s, {"a", "c"})>>,
        <<W(s, {"a", "c"}), W(m, {"d1", "n"})>>,        \* d2 is gone
        <<W(m, {"d1", "d2", "n"})>>,
        <<W(m, {"d1", "garbled"})>>,
        <<W(s, {"a", "c"}), W(x, {"c"})>>,              \* one of two is outside its scope
        <<W(x, {"c"})>>,
        <<W(s, {"a", "c"}), W(p, {"c"})>>,
        <<W(e, {"call"})>>,                             \* no tester's checks
        <<W(s, {"c"}), P(m, <<Hunk("gone", {"n"})>>)>>, \* what is looked for is not there
        \* a line kept before one added, and one added and taken out again
        <<P(s, <<Hunk("a", {"a", "c"}), Hunk("b", {"e"}), Hunk("c", {})>>)>>,
        <<P(s, <<Hunk("a", {"c"})>>), P(s, <<Hunk("b", {"c"})>>)>>,
        <<P(s, <<Hunk("same", {"c"})>>)>>,              \* occurs more than once
        <<W(s, {"a", "b", "same"}), W(s, {"a", "b", "same", "c"})>>,
        <<W(s, {"a", "c"}), Block(m, "above", TRUE, {"d1"}, <<>>)>>,
        <<Block(s, "above", TRUE, {"a", "b", "same"}, <<>>)>>,  \* cut short at a fence inside it
        <<I(s, {"a", "c"})>>,
        <<Block(s, "inside", FALSE, {}, <<Hunk("a", {"c"})>>)>>,
        <<Block(s, "nowhere", FALSE, {"a", "b", "same", "c"}, <<>>)>>,
        <<Block(s, "nowhere", FALSE, {"c"}, <<>>)>>,
        <<W(s, {"a", "imp"})>>,
        <<W(s, {"a", "lost"})>>}}
      \cup {ReplyOf("blockedFirst", <<>>, FALSE, FALSE, FALSE),
            ReplyOf("blocked", <<W(s, {"a", "c"})>>, FALSE, FALSE, FALSE),
            ReplyOf("blocked", <<>>, FALSE, FALSE, FALSE),
            ReplyOf("impossibleFirst", <<W(s, {"c"})>>, FALSE, FALSE, FALSE),
            ReplyOf("impossible", <<W(s, {"a", "c"})>>, FALSE, FALSE, FALSE),
            ReplyOf("bare", <<I(s, {"c"})>>, FALSE, FALSE, FALSE),
            ReplyOf("nothing", <<>>, TRUE, FALSE, FALSE),
            ReplyOf("nothing", <<>>, FALSE, TRUE, FALSE),
            ReplyOf("nothing", <<W(s, {"c"})>>, FALSE, FALSE, TRUE)}

\* What a tester may reply.
MCTesterReplies ==
    {Plain(bs) : bs \in {
        <<>>,
        <<W(t, {"call", "value"})>>,
        <<W(t, {"call"})>>,
        <<W(q, {"call", "value"})>>,
        <<W(q, {"call", "value"}), P(q, <<Hunk("gone", {"n"})>>)>>,
        <<W(t, {"foreign", "call", "value"})>>,
        <<W(t, {"helper", "through"})>>,
        <<P(t, <<Hunk("value", {"v2"})>>)>>,
        <<W(e, {"call", "value"})>>,
        <<P(e, <<Hunk("v2", {"value"})>>)>>,
        <<W(x, {"call", "value"})>>}}
      \cup {ReplyOf("nothing", <<>>, FALSE, FALSE, TRUE)}
=============================================================================
