------------------------------ MODULE MCCalls ------------------------------
(***************************************************************************)
(* A model that reads, with an allowance of requests and one of tokens, is *)
(* shared by two roles; two others have models of their own with neither,  *)
(* one of which has no room for a prompt at all.                           *)
(***************************************************************************)
EXTENDS Calls

MCModelOf == [r \in Roles |->
                CASE r = "tester" -> "plain" [] r = "planner" -> "tiny" [] OTHER -> "shared"]
MCContextWindow == [m \in Models |-> CASE m = "shared" -> 10 [] m = "plain" -> 4 [] OTHER -> 3]
MCMaxOutput == [m \in Models |-> 2]
MCOpening ==
    [r \in Roles |->
       CASE r = "executor" -> <<Message("opening", 2, 0, 0), Message("extra", 1, 0, 0),
                                Message("replayed", 2, 0, 0), Message("opening", 1, 0, 0)>>
         [] r = "reviewer" -> <<Message("opening", 3, 0, 0)>>
         [] OTHER -> <<Message("opening", 1, 0, 0)>>]
MCLimits ==
    [m \in Models |-> IF m = "shared" THEN <<Limit("requests", 2, 2, 2), Limit("tokens", 3, 16, 1)>>
                      ELSE <<>>]

Header(reset, after) == [reset |-> reset, after |-> after]
MCHeaders == {Header(0, Unknown), Header(Unknown, 1), Header(Unknown, Unknown), Header(1, Garbled)}

MCKind == [p \in {"a.py", "out", "src"} |->
             CASE p = "a.py" -> "python" [] p = "src" -> "directory" [] OTHER -> "outside"]
MCLineCount == [p \in {"a.py"} |-> 6]
MCDefined == [p \in {"a.py"} |-> [n \in {"f"} |-> <<2, 3>>]]
MCEntries == [p \in {"src"} |-> 3]
MCMatching == [p \in {"x", "("} |-> IF p = "(" THEN Garbled ELSE [q \in {"a.py"} |-> 2]]

Read(path, first, last) == [tool |-> "read_file", path |-> path, first |-> first, last |-> last]
Symbol(path, name) == [tool |-> "read_symbol", path |-> path, name |-> name]
Search(pattern, context) == [tool |-> "grep", pattern |-> pattern, context |-> context]
List(path) == [tool |-> "list_dir", path |-> path]

MCRequested == { <<Read("a.py", 0, 0)>>,
                 <<Symbol("a.py", "f"), Read("out", 1, 1), Search("(", 0), [tool |-> "write_file"]>>,
                 <<Search("x", 1), List("src")>> }

-----------------------------------------------------------------------------
\* What is sent fits the model's window (`fit`): before a call the prompt is
\* proved to fit, or it is refused.
PromptFits == pc = "flight" => Carried(sent) <= InputBudget
=============================================================================
