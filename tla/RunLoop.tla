------------------------------ MODULE RunLoop ------------------------------
(***************************************************************************)
(* The run loop of hybrid-forge: `Orchestrator.run` (src/forge/loop.py)    *)
(* driving one run's backlog in the SQLite store (src/forge/state.py), the *)
(* `forge go` that starts it and the commands a person gives while no loop *)
(* is up (src/forge/cli.py).                                               *)
(*                                                                         *)
(* One process works the backlog, one ticket at a time.  Everything it     *)
(* keeps is a row of the store, so a process that is killed leaves the     *)
(* rows as they are and the next `forge go` starts from them; what is in   *)
(* the process's memory (halt, toolchain, widened, ...) is lost.           *)
(*                                                                         *)
(* A model call is abstracted to its outcome.  A contract (spec, criteria, *)
(* allowed files) is abstracted to a version number, which is also its     *)
(* fingerprint; failures are abstracted to a small set of failure classes. *)
(* Splitting is one level deep (loop.maxSplitDepth = 1).                   *)
(***************************************************************************)
EXTENDS Integers, FiniteSets

CONSTANTS
    Plan,           \* the tickets the plan holds
    Children,       \* the tickets a decomposition may add to the run
    ParentOf,       \* [Children -> Plan], the ticket each would come from
    Position,       \* [Tickets -> Nat], the reading order
    Needs,          \* [Tickets -> SUBSET Tickets], validated by ingest
    InitRoute,      \* [Plan -> {"delegate", "withheld"}]
    Classes,        \* the kinds of failure an attempt may end on
    MaxAttempts,    \* loop.maxAttempts
    RetryCycles,    \* loop.retryCycles, -1 for no limit
    RespecOnRetry,  \* loop.respecOnRetry
    ReopenStaleDependents, \* loop.reopenStaleDependents
    StopOnBlocked,  \* loop.stopOnBlocked
    FlatCycles,     \* loop.flatCycles, 0 for off
    VolumeThreshold,\* loop.volumeThreshold, in kinds of failure, 0 for off
    InnerTurns,     \* loop.innerTurns
    Weather,        \* which outside events happen, a subset of WeatherKinds
    Orders,         \* which commands a person gives, a subset of OrderKinds
    MaxRevision,    \* bound: times a ticket's contract is rewritten
    MaxOrders,      \* bound: commands given
    MaxCrashes,     \* bound: times the process is killed
    CycleCap,       \* bound: where the counter of cycles saturates
    NoTicket        \* no ticket in hand

Tickets == Plan \cup Children

WeatherKinds == {"preflight", "red", "canary", "toolchain", "parks", "halts",
                 "finalRed", "limits", "runtime", "dies"}
OrderKinds == {"stop", "pause", "retry", "retryAll", "retryOne",
               "release", "discharge"}

ASSUME ShapeAssumption ==
    /\ Plan \cap Children = {}
    /\ ParentOf \in [Children -> Plan]
    /\ Position \in [Tickets -> Nat]
    /\ \A s, t \in Tickets : Position[s] = Position[t] => s = t
    /\ Needs \in [Tickets -> SUBSET Tickets]
    /\ NoTicket \notin Tickets
    /\ \A t \in Plan : Needs[t] \subseteq Plan
    /\ \A c \in Children : \A d \in Needs[c] :
          d \in Children /\ ParentOf[d] = ParentOf[c]
    /\ InitRoute \in [Plan -> {"delegate", "withheld"}]

ASSUME SettingsAssumption ==
    /\ MaxAttempts \in Nat \ {0}
    /\ RetryCycles \in Int /\ RetryCycles >= -1
    /\ RespecOnRetry \in BOOLEAN
    /\ ReopenStaleDependents \in BOOLEAN
    /\ StopOnBlocked \in BOOLEAN
    /\ FlatCycles \in Nat
    /\ VolumeThreshold \in Nat
    /\ InnerTurns \in Nat

ASSUME BoundsAssumption ==
    /\ Weather \subseteq WeatherKinds
    /\ Orders \subseteq OrderKinds
    /\ MaxRevision \in Nat
    /\ MaxOrders \in Nat
    /\ MaxCrashes \in Nat
    /\ CycleCap \in Nat /\ CycleCap >= RetryCycles /\ CycleCap > 0

VARIABLES
    \* the run's row, and the control rows
    runStatus, control, retries, evidenceKey,
    \* the ticket rows
    present, status, attempts, contract, depStamp, impossible, route,
    \* the step log, read as kinds of failure
    cycleSeen, everSeen, cycleClasses, flatCycles,
    \* the loop process
    pc, current, turns, widened, halt, toolchain, eligible, measured, outcome,
    \* what bounds the behaviours
    orders, crashes

runVars    == <<runStatus, control, retries, evidenceKey>>
rowVars    == <<present, status, attempts, contract, depStamp, impossible, route>>
logVars    == <<cycleSeen, everSeen, cycleClasses, flatCycles>>
memoryVars == <<current, turns, widened, halt, toolchain, eligible, measured>>
boundVars  == <<orders, crashes>>
vars == <<runVars, rowVars, logVars, pc, memoryVars, outcome, boundVars>>

NoKey == {}
Unstamped == -1
NoFingerprint == -1

RunStatuses == {"idle", "running", "paused", "waiting_budget", "blocked",
                "done", "failed", "stopped"}
TicketStatuses == {"pending", "running", "done", "blocked", "failed",
                   "skipped", "withheld", "split"}
Retryable == {"failed", "blocked", "skipped", "withheld"}
PCs == {"down", "servers", "start", "loop", "gates", "attempt", "call", "judge",
        "audit", "learn", "gaveUp", "close", "finish", "retry", "measure", "consider", "split", "respec", "requeue",
        "count"}
Outcomes == {"none", "preflight", "toolchain", "red", "canary", "stopped", "died",
             "killed", "halted", "blocked", "done"}

(***************************************************************************)
(* Reading the backlog.                                                    *)
(***************************************************************************)
Done == {t \in present : status[t] = "done"}

UnmetNeeds(t) == Needs[t] \ Done

\* (mutant) handing out work before what it needs has landed
RunnableAnyhow == {t \in present : status[t] \in {"pending", "running"}}

Runnable == {t \in present : /\ status[t] \in {"pending", "running"}
                             /\ UnmetNeeds(t) = {}}

IsNext(t) == /\ t \in Runnable
             /\ \A s \in Runnable : Position[t] <= Position[s]

Queued == \E t \in present : status[t] \in {"pending", "running"}

\* (mutant) only the run in flight is looked for
ResumableActive == runStatus \notin {"done", "failed", "stopped"}

\* What `forge go` finds to work on: a run with work queued, or else one that
\* is neither done, failed nor stopped.
Resumable == \/ runStatus \notin {"done", "failed"} /\ Queued
             \/ runStatus \notin {"done", "failed", "stopped"}

ChildrenOf(p) == {c \in present \cap Children : ParentOf[c] = p}

Stamp(t) == [d \in Tickets |->
                IF d \in Needs[t] \cap present THEN contract[d] ELSE Unstamped]

\* (mutant) only what is not done counts as moved, not what was rewritten
StaleByStatus(st) ==
    {t \in present : st[t] = "done" /\ \E d \in Needs[t] \cap present : st[d] # "done"}

\* (mutant) only what was rewritten counts as moved, not what is not done
StaleByStamp(st) ==
    {t \in present : st[t] = "done" /\ \E d \in Needs[t] \cap present :
                                          depStamp[t][d] # contract[d]}

(***************************************************************************)
(* Done tickets whose dependencies moved under them.  `_stale_dependents`  *)
(* iterates to the least set closed under "needs something that is not     *)
(* done, or is itself stale, or no longer matches the stamp".              *)
(***************************************************************************)
StaleDependents(st) ==
    LET done == {t \in present : st[t] = "done"}
        moved(t, X) == \E d \in Needs[t] \cap present :
                          \/ st[d] # "done"
                          \/ d \in X
                          \/ depStamp[t][d] # contract[d]
        closed(X) == \A t \in done : moved(t, X) => t \in X
    IN  {t \in done : \A X \in SUBSET done : closed(X) => t \in X}

\* The statuses after `_reopen_stale` of a backlog whose statuses are st.
Reopened(st) == IF ReopenStaleDependents THEN StaleDependents(st) ELSE {}

\* (mutant) one piece that landed opens the gate
CloseOnFirstPiece(st) ==
    [p \in Tickets |-> IF st[p] = "split" /\ \E c \in ChildrenOf(p) : st[c] = "done"
                         THEN "done" ELSE st[p]]

(***************************************************************************)
(* `_close_split_parents`: a split parent is done once its children all    *)
(* are, and blocked once each has landed or parked and one parked.         *)
(***************************************************************************)
CloseSplitParents(st) ==
    [p \in Tickets |->
        LET mine == ChildrenOf(p)
        IN  IF st[p] # "split" \/ mine = {}
              THEN st[p]
            ELSE IF \A c \in mine : st[c] = "done"
              THEN "done"
            ELSE IF \A c \in mine : st[c] = "done" \/ st[c] \in Retryable
              THEN "blocked"
            ELSE "split"]

\* Write the statuses st, stamping every ticket that has just become done.
WriteStatuses(st) ==
    /\ status' = st
    /\ depStamp' = [t \in Tickets |->
                        IF st[t] = "done" /\ status[t] # "done"
                          THEN Stamp(t) ELSE depStamp[t]]

(***************************************************************************)
(* Starting, and the three ways a process ends: `run` returns, the control *)
(* channel or a setting stops it, or it is killed.                         *)
(***************************************************************************)
Init ==
    /\ runStatus = "idle" /\ control = "run"
    /\ retries = 0 /\ evidenceKey = NoKey
    /\ present = Plan
    /\ status = [t \in Tickets |-> "pending"]
    /\ attempts = [t \in Tickets |-> 0]
    /\ contract = [t \in Tickets |-> 0]
    /\ depStamp = [t \in Tickets |-> [d \in Tickets |-> Unstamped]]
    /\ impossible = [t \in Tickets |-> NoFingerprint]
    /\ route = [t \in Tickets |-> IF t \in Plan THEN InitRoute[t] ELSE "delegate"]
    /\ cycleSeen = [t \in Tickets |-> {}]
    /\ everSeen = [t \in Tickets |-> {}]
    /\ cycleClasses = [t \in Tickets |-> {}]
    /\ flatCycles = [t \in Tickets |-> 0]
    /\ pc = "down" /\ outcome = "none"
    /\ current = NoTicket /\ turns = 0 /\ widened = {}
    /\ halt = FALSE /\ toolchain = FALSE /\ eligible = {} /\ measured = {}
    /\ orders = 0 /\ crashes = 0

ForgetMemory ==
    /\ current' = NoTicket /\ turns' = 0 /\ widened' = {}
    /\ halt' = FALSE /\ toolchain' = FALSE /\ eligible' = {} /\ measured' = {}

Goto(p) == pc' = p /\ UNCHANGED outcome

Leave(why) == pc' = "down" /\ outcome' = why /\ ForgetMemory

\* `forge go`: picks the run and starts the local model servers.
Go ==
    /\ pc = "down" /\ Resumable
    /\ pc' = "servers" /\ outcome' = "none"
    /\ UNCHANGED <<runVars, rowVars, logVars, memoryVars, boundVars>>

\* The head of `run`: the control row and the run's status are written over.
Enter ==
    /\ pc = "servers" /\ Goto("start")
    /\ control' = "run" /\ runStatus' = "running"
    /\ UNCHANGED <<retries, evidenceKey, rowVars, logVars, memoryVars, boundVars>>

\* A role does not answer, the machine cannot run the commands, the tree is red,
\* or a language nobody checks: all before any ticket is touched.
PreflightFails == "preflight" \in Weather /\ runStatus' = "failed" /\ Leave("preflight")
BaselineCannotRun == "toolchain" \in Weather /\ runStatus' = "failed" /\ Leave("toolchain")
BaselineRed == "red" \in Weather /\ runStatus' = "blocked" /\ Leave("red")
CanaryFails == "canary" \in Weather /\ runStatus' = "blocked" /\ Leave("canary")

RefuseToStart ==
    /\ pc = "start"
    /\ PreflightFails \/ BaselineCannotRun \/ BaselineRed \/ CanaryFails
    /\ UNCHANGED <<control, retries, evidenceKey, rowVars, logVars, boundVars>>

\* The tree can be worked on: `_reopen_stale`, then the loop.
StartWorking ==
    /\ pc = "start" /\ Goto("loop")
    /\ LET stale == Reopened(status)
       IN  /\ status' = [t \in Tickets |-> IF t \in stale THEN "pending" ELSE status[t]]
           /\ attempts' = [t \in Tickets |-> IF t \in stale THEN 0 ELSE attempts[t]]
    /\ UNCHANGED <<runVars, present, contract, depStamp, impossible, route,
                   logVars, memoryVars, boundVars>>

\* The places the loop asks a model, and so reads the control channel and the
\* rate limits (`_call`).  A ticket that passed on rewritten criteria is put to
\* the reviewer once more; once every ticket is measured a flat one may be.
Asking == \/ pc \in {"gates", "call", "judge", "learn", "consider", "respec"}
          \/ pc = "audit" /\ contract[current] > 0
          \/ /\ pc = "measure" /\ eligible \subseteq measured
             /\ \E t \in eligible : flatCycles[t] > 0

\* The top of the loop reads the channel too.
Listening == Asking \/ pc = "loop"

Waiting == runStatus \in {"paused", "waiting_budget"}

\* (mutant) what waits polls only for the end of the wait
StopUnlessWaiting ==
    /\ Listening /\ control = "stop" /\ ~Waiting
    /\ runStatus' = "stopped" /\ Leave("stopped")
    /\ UNCHANGED <<control, retries, evidenceKey, rowVars, logVars, boundVars>>

Stop ==
    /\ Listening /\ control = "stop"
    /\ runStatus' = "stopped" /\ Leave("stopped")
    /\ UNCHANGED <<control, retries, evidenceKey, rowVars, logVars, boundVars>>

Pause ==
    /\ Listening /\ control = "pause" /\ ~Waiting
    /\ runStatus' = "paused"
    /\ UNCHANGED <<control, retries, evidenceKey, rowVars, logVars, pc,
                   memoryVars, outcome, boundVars>>

Resume ==
    /\ Listening /\ runStatus = "paused" /\ control = "run"
    /\ runStatus' = "running"
    /\ UNCHANGED <<control, retries, evidenceKey, rowVars, logVars, pc,
                   memoryVars, outcome, boundVars>>

\* `_sleep_for_window`: only a stop is read while the window is closed.
WaitForWindow ==
    /\ "limits" \in Weather /\ Asking /\ ~Waiting /\ control = "run"
    /\ runStatus' = "waiting_budget"
    /\ UNCHANGED <<control, retries, evidenceKey, rowVars, logVars, pc,
                   memoryVars, outcome, boundVars>>

WindowReopens ==
    /\ Asking /\ runStatus = "waiting_budget"
    /\ runStatus' = "running"
    /\ UNCHANGED <<control, retries, evidenceKey, rowVars, logVars, pc,
                   memoryVars, outcome, boundVars>>

\* `_check_runtime`: loop.maxRuntimeSeconds are over.
RunsOut ==
    /\ "runtime" \in Weather /\ Listening /\ ~Waiting /\ control = "run"
    /\ runStatus' = "stopped" /\ Leave("stopped")
    /\ UNCHANGED <<control, retries, evidenceKey, rowVars, logVars, boundVars>>

\* An exception inside the loop is recorded and ends the run.
Dies ==
    /\ "dies" \in Weather /\ pc \notin {"down", "servers", "start"}
    /\ runStatus' = "failed" /\ Leave("died")
    /\ UNCHANGED <<control, retries, evidenceKey, rowVars, logVars, boundVars>>

\* The process is killed: nothing is written, what was in memory is gone.
Crash ==
    /\ pc # "down" /\ crashes < MaxCrashes /\ crashes' = crashes + 1
    /\ Leave("killed")
    /\ UNCHANGED <<runVars, rowVars, logVars, orders>>

(***************************************************************************)
(* The top of the loop.                                                    *)
(***************************************************************************)
AtTop == pc = "loop" /\ control = "run" /\ ~Waiting

ToolchainEnds ==
    /\ AtTop /\ toolchain
    /\ runStatus' = "failed" /\ Leave("toolchain")
    /\ UNCHANGED <<control, retries, evidenceKey, rowVars, logVars, boundVars>>

TakeTicket ==
    /\ AtTop /\ ~toolchain /\ ~halt
    /\ \E t \in present : IsNext(t) /\ current' = t
    /\ Goto("gates")
    /\ UNCHANGED <<runVars, rowVars, logVars, turns, widened, halt, toolchain,
                   eligible, measured, boundVars>>

BacklogExhausted ==
    /\ AtTop /\ ~toolchain /\ (halt \/ Runnable = {})
    /\ Goto("finish")
    /\ UNCHANGED <<runVars, rowVars, logVars, memoryVars, boundVars>>

(***************************************************************************)
(* `_work_ticket`.  The row a ticket ends on is a write of its own.  What  *)
(* follows it may ask a model, and only then does `run` close the parents  *)
(* the ticket may have been the last piece of.                             *)
(***************************************************************************)
TicketEnds(s, next) ==
    /\ WriteStatuses([status EXCEPT ![current] = s])
    /\ Goto(next) /\ turns' = 0

\* What the steps of one phase logged as failed: nothing, or a kind of
\* failure.  An output nothing could be attributed in has no kind.
LogFailures ==
    /\ \E kinds \in {{}} \cup {{c} : c \in Classes} :
          /\ cycleSeen' = [cycleSeen EXCEPT ![current] = @ \cup kinds]
          /\ everSeen' = [everSeen EXCEPT ![current] = @ \cup kinds]
    /\ UNCHANGED <<cycleClasses, flatCycles>>

\* Triage is a hard gate: a withheld ticket is never handed to the executor.
Withhold ==
    /\ pc = "gates" /\ ~Waiting /\ route[current] = "withheld"
    /\ TicketEnds("withheld", "close")
    /\ UNCHANGED <<runVars, present, attempts, contract, impossible, route,
                   logVars, current, widened, halt, toolchain, eligible, measured, boundVars>>

\* A kind, scope or sign-off gate parks the ticket before any attempt.
ParkAtGate ==
    /\ pc = "gates" /\ ~Waiting /\ route[current] = "delegate"
    /\ "parks" \in Weather /\ LogFailures
    /\ TicketEnds("blocked", "gaveUp")
    /\ UNCHANGED <<runVars, present, attempts, contract, impossible, route,
                   current, widened, halt, toolchain, eligible, measured, boundVars>>

\* The gates pass, sign-off may have rewritten the ticket, and the baseline
\* runs: its commands start, or the ticket goes back for `run` to end on.
BeginTicket ==
    /\ pc = "gates" /\ ~Waiting /\ route[current] = "delegate"
    /\ LogFailures
    /\ \E rewritten \in {0, 1} :
          /\ contract[current] + rewritten <= MaxRevision
          /\ contract' = [contract EXCEPT ![current] = @ + rewritten]
    /\ \/ /\ WriteStatuses([status EXCEPT ![current] = "running"])
          /\ Goto("attempt")
          /\ UNCHANGED <<turns, toolchain>>
       \/ /\ "toolchain" \in Weather /\ toolchain' = TRUE
          /\ TicketEnds("pending", "close")
    /\ UNCHANGED <<runVars, present, attempts, impossible, route,
                   current, widened, halt, eligible, measured, boundVars>>

\* (mutants) one attempt too many, one too few
BudgetAndOne(t)  == attempts[t] <= MaxAttempts
BudgetLessOne(t) == attempts[t] + 1 < MaxAttempts

BudgetLeft(t) == attempts[t] < MaxAttempts

BeginAttempt ==
    /\ pc = "attempt" /\ BudgetLeft(current)
    /\ attempts' = [attempts EXCEPT ![current] = @ + 1]
    /\ Goto("call")
    /\ UNCHANGED <<runVars, present, status, contract, depStamp, impossible,
                   route, logVars, memoryVars, boundVars>>

\* The executor is asked only while the channel says run; the attempt is
\* charged either way.
AskExecutor ==
    /\ pc = "call" /\ ~Waiting /\ control = "run"
    /\ Goto("judge")
    /\ UNCHANGED <<runVars, rowVars, logVars, memoryVars, boundVars>>

GiveUp ==
    /\ pc = "attempt" /\ ~BudgetLeft(current)
    /\ TicketEnds("failed", "learn")
    /\ UNCHANGED <<runVars, present, attempts, contract, impossible, route, logVars,
                   current, widened, halt, toolchain, eligible, measured, boundVars>>

(***************************************************************************)
(* The outcomes of one attempt.                                            *)
(***************************************************************************)
Judging == pc = "judge" /\ ~Waiting

\* The compile gate sends the errors back without charging the attempt.
InnerTurn ==
    /\ Judging /\ turns < InnerTurns
    /\ turns' = turns + 1
    /\ attempts' = [attempts EXCEPT ![current] = @ - 1]
    /\ LogFailures
    /\ Goto("attempt")
    /\ UNCHANGED <<runVars, present, status, contract, depStamp, impossible, route,
                   current, widened, halt, toolchain, eligible, measured, boundVars>>

\* The attempt is charged and the next one is told why.  A command that could
\* not start is noted, and the attempt fails on it all the same.
AttemptFails ==
    /\ Judging /\ turns' = 0
    /\ LogFailures
    /\ \/ UNCHANGED toolchain
       \/ "toolchain" \in Weather /\ toolchain' = TRUE
    /\ Goto("attempt")
    /\ UNCHANGED <<runVars, rowVars, current, widened, halt, eligible, measured, boundVars>>

\* `_widen_scope`: once per ticket per process, and the attempt is not charged.
WidenScope ==
    /\ Judging /\ current \notin widened /\ contract[current] < MaxRevision
    /\ widened' = widened \cup {current} /\ turns' = 0
    /\ contract' = [contract EXCEPT ![current] = @ + 1]
    /\ attempts' = [attempts EXCEPT ![current] = @ - 1]
    /\ Goto("attempt")
    /\ UNCHANGED <<runVars, present, status, depStamp, impossible, route, logVars,
                   current, halt, toolchain, eligible, measured, boundVars>>

\* The executor said BLOCKED and there is no scope left to grant.
AttemptBlocks ==
    /\ Judging /\ LogFailures
    /\ TicketEnds("blocked", "learn")
    /\ UNCHANGED <<runVars, present, attempts, contract, impossible, route,
                   current, widened, halt, toolchain, eligible, measured, boundVars>>

\* Every check is red on files whose owners gave up: nothing was verified.
AttemptHalts ==
    /\ Judging /\ LogFailures /\ "halts" \in Weather
    /\ TicketEnds("blocked", "close") /\ halt' = TRUE
    /\ UNCHANGED <<runVars, present, attempts, contract, impossible, route,
                   current, widened, toolchain, eligible, measured, boundVars>>

AttemptPasses ==
    /\ Judging /\ LogFailures
    /\ TicketEnds("done", "audit")
    /\ UNCHANGED <<runVars, present, attempts, contract, impossible, route,
                   current, widened, halt, toolchain, eligible, measured, boundVars>>

(***************************************************************************)
(* After the ticket: what the reviewer has to say of a pass, what giving   *)
(* up taught and left in the tree, and the parents to close.               *)
(***************************************************************************)
\* `_audit_criteria` reports and never acts on the ticket's status.
Audited ==
    /\ pc = "audit" /\ ~Waiting /\ Goto("close")
    /\ UNCHANGED <<runVars, rowVars, logVars, memoryVars, boundVars>>

\* `_record_conventions`, then what the tree looks like without the ticket's
\* work (`_red_left_behind`): clean, red on files only exhausted tickets own, or
\* not measurable at all.
LookBehind ==
    /\ pc = "learn" /\ ~Waiting /\ Goto("gaveUp")
    /\ \/ UNCHANGED <<halt, toolchain>>
       \/ /\ "halts" \in Weather /\ Runnable # {} /\ ~toolchain
          /\ halt' = TRUE /\ UNCHANGED toolchain
       \/ /\ "toolchain" \in Weather /\ Runnable # {} /\ ~halt
          /\ toolchain' = TRUE /\ UNCHANGED halt
    /\ UNCHANGED <<runVars, rowVars, logVars, current, turns, widened, eligible,
                   measured, boundVars>>

\* `stopOnBlocked` raises Stopped from inside `_work_ticket`, so no parent is
\* closed.
StopOnGivingUp ==
    /\ pc = "gaveUp" /\ StopOnBlocked
    /\ runStatus' = "stopped" /\ Leave("stopped")
    /\ UNCHANGED <<control, retries, evidenceKey, rowVars, logVars, boundVars>>

CloseParents ==
    /\ \/ pc = "close"
       \/ pc = "gaveUp" /\ ~StopOnBlocked
    /\ WriteStatuses(CloseSplitParents(status))
    /\ Goto("loop") /\ current' = NoTicket
    /\ UNCHANGED <<runVars, present, attempts, contract, impossible, route, logVars,
                   turns, widened, halt, toolchain, eligible, measured, boundVars>>

(***************************************************************************)
(* `_finish`: close split parents, park what waits on a ticket that did    *)
(* not land, and say how the backlog ended.                                *)
(***************************************************************************)
\* (mutant) what waits on a ticket that did not land is left queued
ParkNothing(st) == st

ParkUnreachable(st) ==
    LET done == {t \in present : st[t] = "done"}
    IN  [t \in Tickets |->
            IF t \in present /\ st[t] = "pending" /\ ~(Needs[t] \subseteq done)
              THEN "skipped" ELSE st[t]]

\* (mutant) a failed ticket is forgotten in the count
OnlyBlockedNeedsHuman(st) == \E t \in present : st[t] \in {"blocked", "split"}

NeedsHuman(st) == \E t \in present : st[t] \in {"blocked", "failed", "split"}

Finish ==
    /\ pc = "finish"
    /\ LET st == ParkUnreachable(CloseSplitParents(status))
           needHuman == NeedsHuman(st)
       IN  /\ WriteStatuses(st)
           /\ \/ /\ needHuman /\ halt
                 /\ runStatus' = "blocked" /\ Leave("halted")
              \/ /\ needHuman /\ ~halt
                 /\ runStatus' = "blocked" /\ outcome' = "blocked"
                 /\ pc' = "retry" /\ UNCHANGED memoryVars
              \/ /\ ~needHuman /\ "finalRed" \in Weather
                 /\ runStatus' = "blocked" /\ outcome' = "blocked"
                 /\ pc' = "retry" /\ UNCHANGED memoryVars
              \/ /\ ~needHuman /\ "toolchain" \in Weather
                 /\ runStatus' = "failed" /\ outcome' = "toolchain"
                 /\ pc' = "retry" /\ toolchain' = TRUE
                 /\ UNCHANGED <<current, turns, widened, halt, eligible, measured>>
              \/ /\ ~needHuman
                 /\ runStatus' = "done" /\ Leave("done")
    /\ UNCHANGED <<control, retries, evidenceKey, present, attempts, contract,
                   impossible, route, logVars, boundVars>>

(***************************************************************************)
(* `_retry_cycle`, in the order it decides.  Measuring, splitting, parking *)
(* what stalled and comparing the evidence write rows before any planner   *)
(* is asked; the respec's calls come next, and only then the requeue.      *)
(***************************************************************************)
\* (mutant) the verdict is looked up on tickets that failed
SettledWhenFailed(t) == status[t] = "failed" /\ impossible[t] = contract[t]

\* The planner already called this very contract unsatisfiable.
Settled(t) == status[t] = "blocked" /\ impossible[t] = contract[t]

Eligible == {t \in present : /\ status[t] \in Retryable
                             /\ route[t] = "delegate"
                             /\ ~Settled(t)}

\* `return False`: `run` returns what `_finish` said.
GiveBack == pc' = "down" /\ UNCHANGED outcome /\ ForgetMemory

\* (mutant) one cycle too many
OneCycleMore == RetryCycles = 0 \/ (RetryCycles > 0 /\ retries > RetryCycles)

OutOfCycles == RetryCycles = 0 \/ (RetryCycles > 0 /\ retries >= RetryCycles)

RefuseRetry ==
    /\ pc = "retry" /\ OutOfCycles
    /\ GiveBack
    /\ UNCHANGED <<runVars, rowVars, logVars, boundVars>>

\* (mutant) the run is declared running before there is a cycle to run
OpenCycleEarly ==
    /\ pc = "retry" /\ ~OutOfCycles
    /\ eligible' = Eligible /\ measured' = {} /\ pc' = "measure"
    /\ runStatus' = "running"
    /\ UNCHANGED <<control, retries, evidenceKey, rowVars, logVars, current, turns,
                   widened, halt, toolchain, outcome, boundVars>>

OpenCycle ==
    /\ pc = "retry" /\ ~OutOfCycles
    /\ eligible' = Eligible /\ measured' = {} /\ pc' = "measure"
    /\ UNCHANGED <<runVars, rowVars, logVars, current, turns, widened, halt,
                   toolchain, outcome, boundVars>>

\* `_convergence`: a cycle is flat when it failed on the same kinds as the one
\* before and not on fewer findings of them.
Flat(t, shrunk) == /\ cycleSeen[t] # {} /\ cycleSeen[t] = cycleClasses[t]
                   /\ ~shrunk

FlatNow(t, shrunk) == IF Flat(t, shrunk) /\ FlatCycles > 0
                        THEN IF flatCycles[t] < FlatCycles
                               THEN flatCycles[t] + 1 ELSE FlatCycles
                        ELSE 0

\* The pieces a split of t adds to the run.
PiecesOf(t) == {c \in Children : ParentOf[c] = t}

\* Past the threshold, shallow enough, and with pieces whose ids are free.
Splittable(t) == /\ t \in Plan /\ VolumeThreshold > 0
                 /\ Cardinality(everSeen[t]) >= VolumeThreshold
                 /\ PiecesOf(t) # {} /\ PiecesOf(t) \cap present = {}

\* `_measure_cycle`, one ticket after the other in reading order.
MeasureTicket ==
    /\ pc = "measure"
    /\ \E t \in eligible \ measured, shrunk \in BOOLEAN :
          /\ \A s \in eligible \ measured : Position[t] <= Position[s]
          /\ flatCycles' = [flatCycles EXCEPT ![t] = FlatNow(t, shrunk)]
          /\ cycleClasses' = [cycleClasses EXCEPT ![t] = cycleSeen[t]]
          /\ cycleSeen' = [cycleSeen EXCEPT ![t] = {}]
          /\ measured' = measured \cup {t}
          /\ IF Splittable(t) THEN pc' = "consider" /\ current' = t
                              ELSE UNCHANGED <<pc, current>>
    /\ UNCHANGED <<runVars, rowVars, everSeen, turns, widened, halt, toolchain,
                   eligible, outcome, boundVars>>

\* The planner could not be asked, or what it proposed was refused.
KeepWhole ==
    /\ pc = "consider" /\ ~Waiting
    /\ pc' = "measure" /\ current' = NoTicket
    /\ UNCHANGED <<runVars, rowVars, logVars, turns, widened, halt, toolchain,
                   eligible, measured, outcome, boundVars>>

\* The pieces are added to the run; the parent's own row is written after.
AddPieces ==
    /\ pc = "consider" /\ ~Waiting /\ pc' = "split"
    /\ present' = present \cup PiecesOf(current)
    /\ UNCHANGED <<runVars, status, attempts, contract, depStamp, impossible,
                   route, logVars, memoryVars, outcome, boundVars>>

HoldGate ==
    /\ pc = "split" /\ pc' = "measure"
    /\ status' = [status EXCEPT ![current] = "split"]
    /\ current' = NoTicket
    /\ UNCHANGED <<runVars, present, attempts, contract, depStamp, impossible,
                   route, logVars, turns, widened, halt, toolchain, eligible,
                   measured, outcome, boundVars>>

\* `_evidence_fingerprint`: every kind of failure each ticket ever produced.
Evidence(tickets) == UNION {{<<t, c>> : c \in everSeen[t]} : t \in tickets}

\* (mutant) nothing ever repeats
NeverRepeats(tickets) == Evidence(tickets) = {} /\ Evidence(tickets) # evidenceKey

\* The digest lists a ticket's classes commonest first, so it may move though
\* the classes do not; without any class it never repeats.
Repeats(tickets) == Evidence(tickets) # {} /\ Evidence(tickets) = evidenceKey
MayReorder(tickets) == \E t \in tickets : Cardinality(everSeen[t]) > 1

\* (mutant) the count is kept in memory only
CycleNotKept == retries' = retries

IncrementCycle == retries' = IF retries < CycleCap THEN retries + 1 ELSE retries

Stalled(t) == FlatCycles > 0 /\ flatCycles[t] >= FlatCycles

\* What stalled is parked, and what is left is compared with the last cycle.
DecideCycle ==
    /\ pc = "measure" /\ ~Waiting /\ eligible \subseteq measured
    /\ LET whole   == {t \in eligible : status[t] # "split"}
           stalled == {t \in whole : Stalled(t)}
           left    == whole \ stalled
       IN  /\ status' = [t \in Tickets |-> IF t \in stalled THEN "blocked"
                                           ELSE status[t]]
           /\ \/ /\ left = {} /\ whole # eligible
                 /\ IncrementCycle /\ eligible' = {} /\ measured' = {}
                 /\ pc' = "loop" /\ outcome' = "none"
                 /\ UNCHANGED <<evidenceKey, current, turns, widened, halt, toolchain>>
              \/ /\ \/ left = {} /\ whole = eligible
                    \/ left # {} /\ Repeats(left)
                 /\ GiveBack
                 /\ UNCHANGED <<retries, evidenceKey>>
              \/ /\ left # {} /\ (~Repeats(left) \/ MayReorder(left))
                 /\ evidenceKey' = Evidence(left)
                 /\ eligible' = left /\ measured' = {} /\ Goto("respec")
                 /\ UNCHANGED <<retries, current, turns, widened, halt, toolchain>>
    /\ UNCHANGED <<runStatus, control, present, attempts, contract, depStamp,
                   impossible, route, logVars, boundVars>>

\* `_respec`: each ticket that ran is rewritten, left alone, or called
\* unsatisfiable.  A cycle that rewrote nothing ends the retries.
Respec ==
    /\ pc = "respec" /\ ~Waiting
    /\ LET attempted == IF RespecOnRetry THEN {t \in eligible : attempts[t] > 0} ELSE {}
       IN  \E revised \in SUBSET {t \in attempted : contract[t] < MaxRevision} :
           \E hopeless \in SUBSET (attempted \ revised) :
              /\ contract' = [t \in Tickets |-> IF t \in revised THEN contract[t] + 1
                                                ELSE contract[t]]
              /\ status' = [t \in Tickets |-> IF t \in hopeless THEN "blocked"
                                              ELSE status[t]]
              /\ impossible' = [t \in Tickets |-> IF t \in hopeless THEN contract[t]
                                                  ELSE impossible[t]]
              /\ \/ /\ attempted # {} /\ revised = {}
                    /\ GiveBack
                 \/ /\ attempted = {} \/ revised # {}
                    /\ eligible' = eligible \ hopeless /\ Goto("requeue")
                    /\ UNCHANGED <<current, turns, widened, halt, toolchain, measured>>
    /\ UNCHANGED <<runVars, present, attempts, depStamp, route, logVars, boundVars>>

\* Back to pending with a full budget, and what was built on them with them.
ResetRows(tickets) ==
    /\ status' = [t \in Tickets |-> IF t \in tickets THEN "pending" ELSE status[t]]
    /\ attempts' = [t \in Tickets |-> IF t \in tickets THEN 0 ELSE attempts[t]]

Requeue ==
    /\ pc = "requeue"
    /\ \/ /\ eligible = {} /\ GiveBack
          /\ UNCHANGED <<status, attempts>>
       \/ /\ eligible # {} /\ Goto("count")
          /\ LET st == [t \in Tickets |-> IF t \in eligible THEN "pending" ELSE status[t]]
             IN  ResetRows(eligible \cup Reopened(st))
          /\ UNCHANGED memoryVars
    /\ UNCHANGED <<runVars, present, contract, depStamp, impossible, route,
                   logVars, boundVars>>

\* (mutant) the run is left as `_finish` recorded it
CountCycleSilently ==
    /\ pc = "count" /\ pc' = "loop" /\ outcome' = "none"
    /\ IncrementCycle /\ eligible' = {}
    /\ UNCHANGED <<runStatus, control, evidenceKey, rowVars, logVars, current,
                   turns, widened, halt, toolchain, measured, boundVars>>

CountCycle ==
    /\ pc = "count" /\ pc' = "loop" /\ outcome' = "none"
    /\ IncrementCycle
    /\ runStatus' = "running" /\ eligible' = {}
    /\ UNCHANGED <<control, evidenceKey, rowVars, logVars, current, turns,
                   widened, halt, toolchain, measured, boundVars>>

(***************************************************************************)
(* What a person does: the control channel at any time, the rest between   *)
(* two runs of the loop.                                                   *)
(***************************************************************************)
Order(kind) == kind \in Orders /\ orders < MaxOrders /\ orders' = orders + 1

Ask(kind, command) ==
    /\ Order(kind) /\ pc # "down" /\ control' = command
    /\ UNCHANGED <<runStatus, retries, evidenceKey, rowVars, logVars, pc,
                   memoryVars, outcome, crashes>>

AskStop  == Ask("stop", "stop")
AskPause == Ask("pause", "pause")

AskResume ==
    /\ control = "pause" /\ control' = "run"
    /\ UNCHANGED <<runStatus, retries, evidenceKey, rowVars, logVars, pc,
                   memoryVars, outcome, boundVars>>

\* `forge retry`: what did not land, everything that ran, or one ticket.
RetryRows(tickets) ==
    /\ pc = "down" /\ tickets # {}
    /\ ResetRows(tickets)
    /\ runStatus' = "idle" /\ retries' = 0
    /\ UNCHANGED <<control, evidenceKey, present, contract, depStamp, impossible,
                   route, logVars, pc, memoryVars, outcome, crashes>>

InStatus(statuses) == {t \in present : status[t] \in statuses}

OrderRetry ==
    \/ Order("retry") /\ RetryRows(InStatus(Retryable))
    \/ Order("retryAll") /\ RetryRows(InStatus({"done", "failed", "blocked", "skipped"}))
    \/ Order("retryOne") /\ \E t \in present : RetryRows({t})

\* `forge release`: the route opens, and a ticket parked on it is requeued.
OrderRelease ==
    /\ Order("release") /\ pc = "down"
    /\ \E t \in present :
          /\ route[t] = "withheld" /\ route' = [route EXCEPT ![t] = "delegate"]
          /\ ResetRows({t} \cap InStatus({"withheld"}))
    /\ UNCHANGED <<runVars, present, contract, depStamp, impossible, logVars, pc,
                   memoryVars, outcome, crashes>>

\* `forge discharge`: a person wrote the code and the tree verified.
OrderDischarge ==
    /\ Order("discharge") /\ pc = "down"
    /\ \E t \in present :
          /\ status[t] # "done"
          /\ WriteStatuses([status EXCEPT ![t] = "done"])
    /\ UNCHANGED <<runVars, present, attempts, contract, impossible, route,
                   logVars, pc, memoryVars, outcome, crashes>>

LoopStep ==
    \/ Enter \/ RefuseToStart \/ StartWorking
    \/ Stop \/ Resume \/ WindowReopens
    \/ ToolchainEnds \/ TakeTicket \/ BacklogExhausted
    \/ Withhold \/ ParkAtGate \/ BeginTicket
    \/ BeginAttempt \/ AskExecutor \/ GiveUp
    \/ InnerTurn \/ AttemptFails \/ WidenScope
    \/ AttemptBlocks \/ AttemptHalts \/ AttemptPasses
    \/ Audited \/ LookBehind \/ StopOnGivingUp \/ CloseParents
    \/ Finish \/ RefuseRetry \/ OpenCycle
    \/ MeasureTicket \/ KeepWhole \/ AddPieces \/ HoldGate \/ DecideCycle
    \/ Respec \/ Requeue \/ CountCycle

OutsideStep == Go \/ Pause \/ WaitForWindow \/ RunsOut \/ Dies \/ Crash

PersonStep ==
    AskStop \/ AskPause \/ AskResume \/ OrderRetry \/ OrderRelease \/ OrderDischarge

Next == LoopStep \/ OutsideStep \/ PersonStep

Spec == Init /\ [][Next]_vars

\* The process is scheduled: from wherever it is, it takes its next step.
FairSpec == Spec /\ WF_vars(LoopStep)

-----------------------------------------------------------------------------
(***************************************************************************)
(* What the run loop promises.                                             *)
(***************************************************************************)

RunType ==
    /\ runStatus \in RunStatuses /\ control \in {"run", "pause", "stop"}
    /\ retries \in 0..CycleCap
    /\ evidenceKey \subseteq Tickets \X Classes

RowType ==
    /\ present \subseteq Tickets /\ Plan \subseteq present
    /\ status \in [Tickets -> TicketStatuses]
    /\ attempts \in [Tickets -> 0..MaxAttempts]
    /\ contract \in [Tickets -> 0..MaxRevision]
    /\ depStamp \in [Tickets -> [Tickets -> {Unstamped} \cup 0..MaxRevision]]
    /\ impossible \in [Tickets -> {NoFingerprint} \cup 0..MaxRevision]
    /\ route \in [Tickets -> {"delegate", "withheld"}]

LogType ==
    /\ cycleSeen \in [Tickets -> SUBSET Classes]
    /\ everSeen \in [Tickets -> SUBSET Classes]
    /\ cycleClasses \in [Tickets -> SUBSET Classes]
    /\ flatCycles \in [Tickets -> 0..FlatCycles]

ProcessType ==
    /\ pc \in PCs /\ outcome \in Outcomes
    /\ current \in Tickets \cup {NoTicket} /\ turns \in 0..InnerTurns
    /\ widened \subseteq Tickets /\ eligible \subseteq Tickets /\ measured \subseteq Tickets

FlagType == halt \in BOOLEAN /\ toolchain \in BOOLEAN

BoundType == orders \in 0..MaxOrders /\ crashes \in 0..MaxCrashes

\* Every variable stays in its type, and the counters within the budgets the
\* settings give them: in particular no ticket is charged more than
\* `loop.maxAttempts` attempts between two requeues.
TypeOK == RunType /\ RowType /\ LogType /\ ProcessType /\ FlagType /\ BoundType

\* A ticket in the executor's hands is delegated, and everything it needs has
\* landed and stays landed until the ticket ends (`next_ticket`, the triage gate
\* of `_work_ticket`).
WorksOnlyReady ==
    pc \in {"attempt", "call", "judge"} =>
        /\ current \in present /\ status[current] = "running"
        /\ route[current] = "delegate" /\ UnmetNeeds(current) = {}

\* An attempt is only ever asked for on a charged counter, and a ticket is
\* reported failed only when its whole budget was charged, whatever was handed
\* back for compile turns and widened scopes and however often the process died
\* (`_work_ticket`).
FailedSpentTheBudget ==
    /\ pc \in {"call", "judge"} => attempts[current] > 0
    /\ \A t \in present : status[t] = "failed" => attempts[t] = MaxAttempts

\* What t needs has landed, and is what it was when t landed.
UpToDate(t) == \A d \in Needs[t] : d \in Done /\ depStamp[t][d] = contract[d]

\* Past the start of `run`, a ticket that is done was built on the dependencies
\* as they now are: all of them done, none rewritten since (`_reopen_stale`,
\* `stamp_dependencies`).  In a split plan a retry by hand of what the parent needs
\* breaks it.
DoneIsCurrent ==
    pc \notin {"down", "servers", "start"} /\ ReopenStaleDependents =>
        \A t \in Done : UpToDate(t)

\* A ticket that landed, is withheld, or waits on one that is.
Accounted(t) == \/ status[t] \in {"done", "withheld"}
                \/ status[t] = "skipped" /\ route[t] = "withheld"
                \/ /\ status[t] = "skipped"
                   /\ \E d \in Needs[t] : status[d] \in {"skipped", "withheld"}

\* A run that returns done has landed every ticket but the withheld ones and
\* those that wait on a withheld one (`_finish`).
DoneRunMeansLanded ==
    [][pc # "down" /\ pc' = "down" /\ outcome' = "done"
         => \A t \in present' : Accounted(t)']_vars

\* A run that says it is done or needs a human has given up or parked every
\* ticket: it returns with nothing queued (`_park_unreachable`, and the order of
\* the respec and the requeue in `_retry_cycle`).
NothingQueuedOnReturn ==
    [][pc # "down" /\ pc' = "down" /\ outcome' \in {"done", "blocked"}
         => ~Queued']_vars

\* A verdict that a contract cannot be met is kept for as long as the contract
\* is: the loop does not queue, split or give up on that ticket any other way
\* (`settled` in `_retry_cycle`).
SettledStaysParked ==
    [][\A t \in Tickets :
          /\ pc # "down" /\ status[t] = "blocked"
          /\ impossible[t] = contract[t] /\ contract'[t] = contract[t]
          => status'[t] = "blocked"]_vars

\* What landed stays landed for as long as nobody steps in: once the loop has
\* reopened what a person's changes made stale, no cycle of its own undoes a
\* ticket that passed (the docstring of `_reopen_stale`).
LandedStaysLanded ==
    [][\A t \in Tickets :
          status[t] = "done" /\ status'[t] # "done" => pc \in {"down", "start"}]_vars

\* Without orders that undo, not even the reopening at a start does: what a run
\* finds done it has no cause to open, whatever halted the runs before (`_reopen_stale`).
NeverUndone == [][\A t \in Tickets : status[t] = "done" => status'[t] = "done"]_vars

\* What `run` returns for a worked backlog is what the run's row says
\* (`_finish`, `_retry_cycle`).
ReturnIsRecorded ==
    [][pc # "down" /\ pc' = "down" /\ outcome' \in {"done", "blocked"}
         => runStatus' = outcome']_vars

\* As long as a ticket is queued and no loop is up, `forge go` finds the run
\* (`resumable_runs`).
QueuedCanBeResumed == pc = "down" /\ Queued => Resumable

\* The loop never makes more automatic cycles than it may, however often it is
\* restarted (`retries_key` is a control row).
RetryBudget == RetryCycles > 0 => retries <= RetryCycles

\* The store says running, paused or waiting for as long as tickets are worked.
\* Stated for runs nothing was split in.
WorkingRunSaysRunning ==
    pc \in {"loop", "gates", "attempt", "call", "judge", "audit", "learn", "gaveUp",
           "close", "finish"} =>
        runStatus \in {"running", "paused", "waiting_budget"}

\* `forge stop` ends a loop that is past its start, whatever it is doing and
\* however many cycles it may make (`_honor_control`).
StopHonoured ==
    pc \notin {"down", "servers"} /\ control = "stop"
        ~> pc = "down" \/ control # "stop"

\* A run started ends by itself unless a person holds it or its models keep
\* closing their windows: the retries converge or run out (`run`, `_retry_cycle`).
RunEnds ==
    \/ pc # "down" ~> pc = "down" \/ control = "pause"
    \/ []<>(runStatus = "waiting_budget")

\* Without a limit on the cycles the run still ends, unless it keeps meeting
\* cycles that left no evidence at all (`_evidence_fingerprint`).
EvidenceEndsRetries ==
    \/ pc # "down" ~> pc = "down" \/ control = "pause"
    \/ []<>(runStatus = "waiting_budget")
    \/ []<>(pc = "respec" /\ Evidence(eligible) = {})

\* A split parent is done only over children that are all done: nothing
\* partially completes (`_close_split_parents`).
NothingPartiallyCompletes ==
    \A p \in Done : \A c \in ChildrenOf(p) : status[c] = "done"

\* The gate of a split opens over pieces that all landed: a parent goes from
\* split to done at no other moment (`_close_split_parents`).
GateOpensOverAll ==
    [][\A p \in Tickets : status[p] = "split" /\ status'[p] = "done" =>
          \A c \in ChildrenOf(p) : status'[c] = "done"]_vars

\* A run a broken toolchain ended is picked up again by `forge go`
\* (`_stop_for_toolchain`).
ToolchainRunResumes ==
    pc = "down" /\ outcome = "toolchain" /\ Queued => Resumable

-----------------------------------------------------------------------------
(***************************************************************************)
(* What the safety properties rest on: the ticket in hand, the budget, the *)
(* cycles spent and the tickets a retry cycle holds.                       *)
(***************************************************************************)
InHand ==
    /\ pc \in {"gates", "attempt", "call", "judge"} =>
          current \in present /\ UnmetNeeds(current) = {}
    /\ pc = "gates" => status[current] \in {"pending", "running"}
    /\ pc \in {"consider", "split"} => current \in eligible
    /\ eligible \subseteq present

Charged ==
    /\ pc \in {"call", "judge"} => attempts[current] > 0
    /\ \A t \in Tickets : status[t] = "failed" => attempts[t] = MaxAttempts

\* Deciding on a cycle: between the moment the count is read and the moment it
\* is written.
Deciding == {"measure", "consider", "split", "respec", "requeue", "count"}

Budgeted ==
    RetryCycles > 0 => /\ retries <= RetryCycles
                       /\ pc \in Deciding => retries < RetryCycles

\* A verdict never names a contract that is still to be written, and none of
\* the tickets a cycle holds has been given one for the contract it has.
Verdicts ==
    /\ \A t \in Tickets : impossible[t] <= contract[t]
    /\ pc \in Deciding \ {"count"} =>
          \A t \in eligible :
             /\ status[t] \in Retryable \cup {"split"}
             /\ ~(status[t] = "blocked" /\ impossible[t] = contract[t])

IInv == TypeOK /\ InHand /\ WorksOnlyReady /\ Charged /\ Budgeted /\ Verdicts

-----------------------------------------------------------------------------
(***************************************************************************)
(* What holds for as long as nobody undoes a ticket that landed, or lands  *)
(* one by hand: no retry of one ticket or of everything, no discharge.     *)
(***************************************************************************)
OnlyForward == Orders \cap {"retryAll", "retryOne", "discharge"} = {}

\* Nothing waits on a ticket that may be decomposed.
NobodyWaits == \A t \in Tickets : \A d \in Needs[t] : \A c \in Children : ParentOf[c] # d

\* No run ends between the row of a ticket and the parents it closes.
Unbroken == /\ MaxCrashes = 0 /\ "stop" \notin Orders
            /\ Weather \cap {"runtime", "dies"} = {}

\* No ticket can be left behind by a decomposition: there is none, or nothing
\* waits on what may be decomposed and no run is halted half way.
NothingStrays ==
    \/ Children = {}
    \/ "halts" \notin Weather /\ NobodyWaits

\* Nobody has touched the rows a decomposition has yet to add, and a ticket of
\* the run has its dependencies in the run.
Rows ==
    /\ \A t \in Tickets \ present : status[t] = "pending" /\ everSeen[t] = {}
    /\ \A t \in present : Needs[t] \subseteq present

\* A ticket that landed stands on what landed and did not move since; one that
\* was worked was ready then, and is ready for good.
Landed ==
    /\ \A t \in Done : UpToDate(t)
    /\ \A t \in present :
          status[t] \in {"running", "split"} \/ everSeen[t] # {} => UnmetNeeds(t) = {}
    /\ pc \in {"consider", "split"} => everSeen[current] # {}

\* A split parent has pieces, one of them yet to land unless a run ended before
\* it closed the parent; and a ticket about to be one has pieces nobody has
\* touched.
Shut ==
    /\ \A p \in present : status[p] = "split" => ChildrenOf(p) # {}
    /\ Unbroken => control # "stop"
    /\ Unbroken /\ pc \notin {"audit", "close"} =>
          \A p \in present : status[p] = "split" => \E c \in ChildrenOf(p) : status[c] # "done"
    /\ pc = "consider" => PiecesOf(current) # {} /\ PiecesOf(current) \cap present = {}
    /\ pc = "split" => /\ ChildrenOf(current) # {}
                       /\ \A c \in ChildrenOf(current) : status[c] = "pending"

\* The loop leaves the backlog with nothing to run, or because it halted on a
\* ticket that gave up.
Exhausted ==
    /\ halt => "halts" \in Weather /\ pc \in {"gaveUp", "close", "loop", "finish"}
    /\ halt \/ pc = "learn" => \E t \in present : status[t] \in {"blocked", "failed"}
    /\ pc = "finish" => halt \/ Runnable = {}

Forward == Rows /\ Landed /\ Shut /\ Exhausted

\* What is skipped waits on something that was given up, or was left by a run
\* that halted on something that still is; and a cycle takes it along.
Waits(t) == \/ \E d \in Needs[t] : status[d] \in Retryable
            \/ Children = {} /\ \E x \in present : status[x] \in {"blocked", "failed"}

Left ==
    /\ pc # "down" => outcome # "done"
    /\ \A t \in present : status[t] = "skipped" /\ route[t] = "delegate" =>
          Waits(t) /\ (pc \in Deciding \ {"count"} => t \in eligible)
=============================================================================
