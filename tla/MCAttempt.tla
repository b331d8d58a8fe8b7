----------------------------- MODULE MCAttempt ------------------------------
(***************************************************************************)
(* Small projects for Attempt.                                             *)
(***************************************************************************)
EXTENDS Attempt

Plain == [by |-> "plan", breaks |-> {}, asserts |-> FALSE]

\* Two build tickets with a file and a test of their own.  What A writes may
\* break the other's file as well; it may also be granted a third, which never
\* compiled.
BuildTickets == {"A", "B"}
BuildFiles == {"a", "b", "c", "ta", "tb"}
BuildTests == {"ta", "tb"}
BuildPosition == [A |-> 1, B |-> 2]
BuildFound ==
    [a |-> Plain, b |-> Plain, c |-> [Plain EXCEPT !.breaks = {<<"check", "c">>}],
     ta |-> Absent, tb |-> Absent]
BuildScope == [A |-> {"a"}, B |-> {"b"}]
BuildOwnTest == [A |-> "ta", B |-> "tb"]
BuildBreaks ==
    [a |-> {<<"check", "b">>, <<"test", "ta">>}, b |-> {},
     c |-> {<<"check", "c">>}, ta |-> {}, tb |-> {}]
BuildAskable == [A |-> {"c"}, B |-> {}]
NoDiagnoses == [t \in Tickets |-> {}]

\* A bug in s, which the test r can show and the older test o asks for, and a
\* build ticket whose file may not compile.  Nothing the suite prints about r can
\* be attributed to it.
BugTickets == {"A", "X"}
BugFiles == {"a", "s", "ta", "o", "r"}
BugTests == {"ta", "o", "r"}
BugUnparsed == {<<"test", "r">>}
BugPosition == [A |-> 1, X |-> 2]
BugFound ==
    [a |-> Plain, s |-> [Plain EXCEPT !.breaks = {<<"test", "r">>}],
     ta |-> Absent, r |-> Absent, o |-> [Plain EXCEPT !.asserts = TRUE]]
BugScope == [A |-> {"a"}, X |-> {"s"}]
BugOwnTest == [A |-> "ta", X |-> "r"]
BugBreaks ==
    [a |-> {<<"check", "a">>}, s |-> {<<"test", "r">>, <<"test", "o">>},
     ta |-> {}, o |-> {}, r |-> {}]
NothingAsked == [t \in Tickets |-> {}]
BugDiagnoses == [A |-> {}, X |-> {{"a"}}]

\* The bug alone, with the test it can show and the older one.
OldTickets == {"X"}
OldFiles == {"s", "o", "r"}
OldTests == {"o", "r"}
OldPosition == [X |-> 1]
OldFound ==
    [s |-> [Plain EXCEPT !.breaks = {<<"test", "r">>}],
     o |-> [Plain EXCEPT !.asserts = TRUE], r |-> Absent]
OldScope == [X |-> {"s"}]
OldOwnTest == [X |-> "r"]
OldBreaks == [s |-> {<<"test", "r">>, <<"test", "o">>}, o |-> {}, r |-> {}]

\* One ticket whose file a person may mend in between.
LoneTickets == {"A"}
LoneFiles == {"a", "ta"}
LoneTests == {"ta"}
LonePosition == [A |-> 1]
LoneFound == [a |-> Plain, ta |-> Absent]
LoneScope == [A |-> {"a"}]
LoneOwnTest == [A |-> "ta"]
LoneBreaks == [a |-> {<<"test", "ta">>}, ta |-> {}]
=============================================================================
