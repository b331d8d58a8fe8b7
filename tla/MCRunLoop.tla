------------------------------ MODULE MCRunLoop ------------------------------
(***************************************************************************)
(* Small backlogs for the run loop: one to four tickets, one needing      *)
(* another, one withheld, or one that a decomposition replaces by two      *)
(* pieces of which the second needs the first.                             *)
(***************************************************************************)
EXTENDS RunLoop

\* loop.retryCycles with no limit.
Unlimited == -1

\* b is built on a.
ChainPlan == {"a", "b"}
ChainPosition == [t \in ChainPlan |-> IF t = "a" THEN 1 ELSE 2]
ChainNeeds == [t \in ChainPlan |-> IF t = "b" THEN {"a"} ELSE {}]
ChainRoute == [t \in ChainPlan |-> "delegate"]

\* b is built on w, which is withheld; c stands alone.
GuardPlan == {"w", "b", "c"}
GuardPosition == [t \in GuardPlan |-> CASE t = "w" -> 1 [] t = "b" -> 2 [] t = "c" -> 3]
GuardNeeds == [t \in GuardPlan |-> IF t = "b" THEN {"w"} ELSE {}]
GuardRoute == [t \in GuardPlan |-> IF t = "w" THEN "withheld" ELSE "delegate"]

\* b is built on w, which is withheld; c and d stand alone.
QuadPlan == {"w", "b", "c", "d"}
QuadPosition == [t \in QuadPlan |-> IF t = "d" THEN 4 ELSE GuardPosition[t]]
QuadNeeds == [t \in QuadPlan |-> IF t = "b" THEN {"w"} ELSE {}]
QuadRoute == [t \in QuadPlan |-> IF t = "w" THEN "withheld" ELSE "delegate"]

\* Two tickets that do not need each other.
PairPlan == {"a", "b"}
PairPosition == [t \in PairPlan |-> IF t = "a" THEN 1 ELSE 2]
PairNeeds == [t \in PairPlan |-> {}]
PairRoute == [t \in PairPlan |-> "delegate"]

\* One ticket.
LonePlan == {"a"}
LonePosition == [t \in LonePlan |-> 1]
LoneNeeds == [t \in LonePlan |-> {}]
LoneRoute == [t \in LonePlan |-> "delegate"]

NoChildren == {}
NoParents == [c \in {} |-> "a"]

\* p may be split into p1 and p2, which needs p1.
SplitPlan == {"p"}
SplitChildren == {"p1", "p2"}
SplitParents == [c \in SplitChildren |-> "p"]
SplitPosition == [t \in SplitPlan \cup SplitChildren |->
                    CASE t = "p" -> 1 [] t = "p1" -> 101 [] t = "p2" -> 102]
SplitNeeds == [t \in SplitPlan \cup SplitChildren |-> IF t = "p2" THEN {"p1"} ELSE {}]
SplitRoute == [t \in SplitPlan |-> "delegate"]

\* The same beside another ticket.
SplitSidePlan == {"p", "q"}
SplitSideChildren == SplitChildren
SplitSideParents == SplitParents
SplitSidePosition == [t \in SplitSidePlan \cup SplitChildren |->
                        IF t = "q" THEN 2 ELSE SplitPosition[t]]
SplitSideNeeds == [t \in SplitSidePlan \cup SplitChildren |->
                        IF t = "q" THEN {} ELSE SplitNeeds[t]]
SplitSideRoute == [t \in SplitSidePlan |-> "delegate"]

-----------------------------------------------------------------------------
(***************************************************************************)
(* Sentences of the documentation and the comments that the code does not  *)
(* keep, beside those the runs check.  The README names, for each, the     *)
(* settings under which TLC finds a counterexample.                        *)
(***************************************************************************)
\* When every ticket left failed on the very kinds of the cycle before, and
\* nothing new was ever seen, there is no further cycle
\* (`_evidence_fingerprint`, `_retry_cycle`).
SameFailuresEndRetries ==
    [][pc = "measure" /\ pc' = "respec" =>
          \/ \E t \in eligible : flatCycles[t] = 0
          \/ evidenceKey # evidenceKey']_vars

\* A run is never left done over a skipped ticket whose dependencies have
\* landed: `skipped` clears itself (`_park_unreachable`, `cmd_discharge`).
SkippedClears ==
    outcome = "done" =>
        \A t \in present : status[t] = "skipped" => UnmetNeeds(t) # {}

\* Once a command is known not to run on this machine no ticket fails
\* (`_stop_for_toolchain`).
ToolchainBlamesNobody ==
    [][pc # "down" /\ toolchain =>
          \A t \in Tickets : status'[t] = "failed" => status[t] = "failed"]_vars

\* A stop asked while `forge go` is still starting the servers stops the run it
\* is about to work (`cmd_control`).  A run that is idle was never entered, so
\* the request cannot be an old one.
StopBeforeEntry ==
    pc = "servers" /\ runStatus = "idle" /\ control = "stop" ~> outcome = "stopped"

\* A ticket parked for going nowhere is not taken into the next cycle
\* (`_retry_cycle`, loop.flatCycles).
StalledStaysParked ==
    pc = "measure" /\ measured = {} =>
        \A t \in eligible : ~(status[t] = "blocked" /\ Stalled(t))

\* The same beside w, which is withheld, and b, which is built on it.
SplitGuardPlan == {"p", "w", "b"}
SplitGuardPosition == [t \in SplitGuardPlan \cup SplitChildren |->
                         CASE t = "w" -> 2 [] t = "b" -> 3 [] OTHER -> SplitPosition[t]]
SplitGuardNeeds == [t \in SplitGuardPlan \cup SplitChildren |->
                      CASE t = "p2" -> {"p1"} [] t = "b" -> {"w"} [] OTHER -> {}]
SplitGuardRoute == [t \in SplitGuardPlan |-> IF t = "w" THEN "withheld" ELSE "delegate"]
=============================================================================
