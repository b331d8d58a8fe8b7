--------------------------- MODULE RunLoop_proofs ---------------------------
(***************************************************************************)
(* Proofs about the run loop, for every plan, every setting and every      *)
(* bound the assumptions of RunLoop allow.                                 *)
(***************************************************************************)
EXTENDS RunLoop, FiniteSetTheorems, TLAPS

USE DEF Tickets

\* The statuses `run`, `_finish` and the control channel write are run statuses.
LEMMA RunStatusNames ==
    {"idle", "running", "paused", "waiting_budget", "blocked", "done", "failed",
     "stopped"} \subseteq RunStatuses
BY DEF RunStatuses

\* The statuses the loop writes in a ticket's row are ticket statuses.
LEMMA TicketStatusNames ==
    {"pending", "running", "done", "blocked", "failed", "skipped", "withheld",
     "split"} \subseteq TicketStatuses
BY DEF TicketStatuses

\* The places of the loop and the reasons it ends for are the named ones.
LEMMA Names ==
    /\ {"down", "servers", "start", "loop", "gates", "attempt", "call", "judge",
        "audit", "learn", "gaveUp", "close", "finish", "retry", "measure", "consider", "split", "respec", "requeue",
        "count"} \subseteq PCs
    /\ {"none", "preflight", "toolchain", "red", "canary", "stopped", "died", "killed",
        "halted", "blocked", "done"} \subseteq Outcomes
BY DEF PCs, Outcomes

\* `stamp_dependencies` records a version for every need and nothing else.
LEMMA StampType ==
    ASSUME NEW t \in Tickets, RowType
    PROVE  Stamp(t) \in [Tickets -> {Unstamped} \cup 0..MaxRevision]
BY DEF Stamp, RowType

\* Writing rows keeps them well formed, stamps included (`update_ticket`).
LEMMA WriteStatusesType ==
    ASSUME NEW st \in [Tickets -> TicketStatuses], RowType, WriteStatuses(st)
    PROVE  /\ status' \in [Tickets -> TicketStatuses]
           /\ depStamp' \in [Tickets -> [Tickets -> {Unstamped} \cup 0..MaxRevision]]
BY StampType DEF WriteStatuses, RowType

\* `_close_split_parents` leaves ticket statuses.
LEMMA CloseType ==
    ASSUME NEW st \in [Tickets -> TicketStatuses]
    PROVE  CloseSplitParents(st) \in [Tickets -> TicketStatuses]
BY DEF CloseSplitParents, TicketStatuses

\* `_park_unreachable` leaves ticket statuses.
LEMMA ParkType ==
    ASSUME NEW st \in [Tickets -> TicketStatuses]
    PROVE  ParkUnreachable(st) \in [Tickets -> TicketStatuses]
BY DEF ParkUnreachable, TicketStatuses

\* A ticket that ends keeps the rows well formed.
LEMMA TicketEndsType ==
    ASSUME NEW s \in TicketStatuses, NEW next, RowType, current \in Tickets,
           TicketEnds(s, next)
    PROVE  /\ status' \in [Tickets -> TicketStatuses]
           /\ depStamp' \in [Tickets -> [Tickets -> {Unstamped} \cup 0..MaxRevision]]
<1>1. [status EXCEPT ![current] = s] \in [Tickets -> TicketStatuses]
  BY DEF RowType
<1> QED
  BY <1>1, WriteStatusesType DEF TicketEnds

\* Logging the failures of a step keeps the log well formed.
LEMMA LogFailuresType ==
    ASSUME LogType, LogFailures
    PROVE  LogType'
<1>1. PICK kinds \in {{}} \cup {{c} : c \in Classes} :
          /\ cycleSeen' = [cycleSeen EXCEPT ![current] = @ \cup kinds]
          /\ everSeen' = [everSeen EXCEPT ![current] = @ \cup kinds]
  BY DEF LogFailures
<1>2. kinds \subseteq Classes
  OBVIOUS
<1>3. cycleSeen' \in [Tickets -> SUBSET Classes] /\ everSeen' \in [Tickets -> SUBSET Classes]
  BY <1>1, <1>2 DEF LogType
<1> QED
  BY <1>3 DEF LogType, LogFailures

\* The ticket in hand is a ticket of the run.
LEMMA HandInPlan ==
    ASSUME IInv, pc \in {"gates", "attempt", "call", "judge", "consider", "split"}
    PROVE  current \in Tickets /\ current # NoTicket
BY ShapeAssumption DEF IInv, TypeOK, RowType, ProcessType, InHand


\* Every step keeps the step log's summaries well formed.
LEMMA LogStep ==
    ASSUME IInv, [Next]_vars
    PROVE  LogType'
<1> USE SettingsAssumption
<1>1. CASE ParkAtGate
  BY <1>1, HandInPlan, LogFailuresType DEF ParkAtGate, IInv, TypeOK, Judging
<1>2. CASE BeginTicket
  BY <1>2, HandInPlan, LogFailuresType DEF BeginTicket, IInv, TypeOK, Judging
<1>3. CASE InnerTurn
  BY <1>3, HandInPlan, LogFailuresType DEF InnerTurn, IInv, TypeOK, Judging
<1>4. CASE AttemptFails
  BY <1>4, HandInPlan, LogFailuresType DEF AttemptFails, IInv, TypeOK, Judging
<1>5. CASE AttemptBlocks
  BY <1>5, HandInPlan, LogFailuresType DEF AttemptBlocks, IInv, TypeOK, Judging
<1>6. CASE AttemptHalts
  BY <1>6, HandInPlan, LogFailuresType DEF AttemptHalts, IInv, TypeOK, Judging
<1>7. CASE AttemptPasses
  BY <1>7, HandInPlan, LogFailuresType DEF AttemptPasses, IInv, TypeOK, Judging
<1>8. CASE MeasureTicket
  <2>1. PICK t \in eligible \ measured, shrunk \in BOOLEAN :
           /\ flatCycles' = [flatCycles EXCEPT ![t] = FlatNow(t, shrunk)]
           /\ cycleClasses' = [cycleClasses EXCEPT ![t] = cycleSeen[t]]
           /\ cycleSeen' = [cycleSeen EXCEPT ![t] = {}]
           /\ UNCHANGED everSeen
    BY <1>8 DEF MeasureTicket
  <2>2. t \in Tickets /\ FlatNow(t, shrunk) \in 0..FlatCycles
    BY DEF IInv, TypeOK, ProcessType, LogType, FlatNow
  <2> QED
    BY <2>1, <2>2 DEF IInv, TypeOK, LogType
<1>9. CASE Go \/ Enter \/ RefuseToStart \/ StartWorking \/ Stop \/ Pause
  BY <1>9 DEF Go, Enter, RefuseToStart, StartWorking, Stop, Pause, logVars, LogType, IInv, TypeOK, vars, Leave, ForgetMemory, GiveBack, Goto, Ask, RetryRows
<1>10. CASE Resume \/ WaitForWindow \/ WindowReopens \/ AskStop \/ AskPause \/ AskResume
  BY <1>10 DEF Resume, WaitForWindow, WindowReopens, AskStop, AskPause, AskResume, logVars, LogType, IInv, TypeOK, vars, Leave, ForgetMemory, GiveBack, Goto, Ask, RetryRows
<1>11. CASE ToolchainEnds \/ RunsOut \/ Dies \/ Crash \/ TakeTicket \/ BacklogExhausted \/ Withhold
  BY <1>11 DEF ToolchainEnds, RunsOut, Dies, Crash, TakeTicket, BacklogExhausted, Withhold, logVars, LogType, IInv, TypeOK, vars, Leave, ForgetMemory, GiveBack, Goto, Ask, RetryRows
<1>12. CASE BeginAttempt \/ AskExecutor \/ GiveUp \/ WidenScope \/ Finish \/ RefuseRetry
  BY <1>12 DEF BeginAttempt, AskExecutor, GiveUp, WidenScope, Finish, RefuseRetry, logVars, LogType, IInv, TypeOK, vars, Leave, ForgetMemory, GiveBack, Goto, Ask, RetryRows
<1>13. CASE OpenCycle \/ KeepWhole \/ AddPieces \/ HoldGate \/ DecideCycle \/ Respec
  BY <1>13 DEF OpenCycle, KeepWhole, AddPieces, HoldGate, DecideCycle, Respec, logVars, LogType, IInv, TypeOK, vars, Leave, ForgetMemory, GiveBack, Goto, Ask, RetryRows
<1>14. CASE Requeue \/ CountCycle \/ OrderRetry \/ OrderRelease \/ OrderDischarge
  BY <1>14 DEF Requeue, CountCycle, OrderRetry, OrderRelease, OrderDischarge, logVars, LogType, IInv, TypeOK, vars, Leave, ForgetMemory, GiveBack, Goto, Ask, RetryRows
<1>15. CASE UNCHANGED vars
  BY <1>15 DEF vars, logVars, LogType, IInv, TypeOK, vars, Leave, ForgetMemory, GiveBack, Goto, Ask, RetryRows
<1>16. CASE Audited \/ LookBehind \/ StopOnGivingUp \/ CloseParents
  BY <1>16 DEF Audited, LookBehind, StopOnGivingUp, CloseParents, logVars, LogType, IInv, TypeOK, Leave, ForgetMemory, Goto
<1> QED
  BY <1>1, <1>2, <1>3, <1>4, <1>5, <1>6, <1>7, <1>8, <1>9, <1>10, <1>11, <1>12, <1>13, <1>14, <1>15, <1>16 DEF Next, LoopStep, OutsideStep, PersonStep

\* Every step keeps the counts of kills and commands within their bounds.
LEMMA BoundStep ==
    ASSUME IInv, [Next]_vars
    PROVE  BoundType'
<1> USE BoundsAssumption
<1>1. CASE Crash
  BY <1>1 DEF Crash, IInv, TypeOK, BoundType, RetryRows, boundVars, Ask, Order
<1>2. CASE AskStop
  BY <1>2 DEF AskStop, IInv, TypeOK, BoundType, RetryRows, boundVars, Ask, Order
<1>3. CASE AskPause
  BY <1>3 DEF AskPause, IInv, TypeOK, BoundType, RetryRows, boundVars, Ask, Order
<1>4. CASE OrderRetry
  <2>1. orders' = orders + 1 /\ orders < MaxOrders /\ UNCHANGED crashes
    BY <1>4 DEF OrderRetry, Order, RetryRows
  <2> QED
    BY <2>1 DEF IInv, TypeOK, BoundType
<1>5. CASE OrderRelease
  BY <1>5 DEF OrderRelease, IInv, TypeOK, BoundType, RetryRows, boundVars, Ask, Order
<1>6. CASE OrderDischarge
  BY <1>6 DEF OrderDischarge, IInv, TypeOK, BoundType, RetryRows, boundVars, Ask, Order
<1>7. CASE Go \/ Enter \/ RefuseToStart \/ StartWorking \/ Stop \/ Pause
  BY <1>7 DEF Go, Enter, RefuseToStart, StartWorking, Stop, Pause, boundVars, BoundType, IInv, TypeOK, vars, Leave, ForgetMemory, GiveBack, Goto, Ask
<1>8. CASE Resume \/ WaitForWindow \/ WindowReopens \/ AskResume \/ ToolchainEnds \/ RunsOut \/ Dies
  BY <1>8 DEF Resume, WaitForWindow, WindowReopens, AskResume, ToolchainEnds, RunsOut, Dies, boundVars, BoundType, IInv, TypeOK, vars, Leave, ForgetMemory, GiveBack, Goto, Ask
<1>9. CASE TakeTicket \/ BacklogExhausted \/ Withhold \/ ParkAtGate \/ BeginTicket \/ BeginAttempt
  BY <1>9 DEF TakeTicket, BacklogExhausted, Withhold, ParkAtGate, BeginTicket, BeginAttempt, boundVars, BoundType, IInv, TypeOK, vars, Leave, ForgetMemory, GiveBack, Goto, Ask
<1>10. CASE AskExecutor \/ GiveUp \/ InnerTurn \/ AttemptFails \/ WidenScope \/ AttemptBlocks
  BY <1>10 DEF AskExecutor, GiveUp, InnerTurn, AttemptFails, WidenScope, AttemptBlocks, boundVars, BoundType, IInv, TypeOK, vars, Leave, ForgetMemory, GiveBack, Goto, Ask
<1>11. CASE AttemptHalts \/ AttemptPasses \/ Finish \/ RefuseRetry \/ OpenCycle \/ MeasureTicket
  BY <1>11 DEF AttemptHalts, AttemptPasses, Finish, RefuseRetry, OpenCycle, MeasureTicket, boundVars, BoundType, IInv, TypeOK, vars, Leave, ForgetMemory, GiveBack, Goto, Ask
<1>12. CASE KeepWhole \/ AddPieces \/ HoldGate \/ DecideCycle \/ Respec \/ Requeue
  BY <1>12 DEF KeepWhole, AddPieces, HoldGate, DecideCycle, Respec, Requeue, boundVars, BoundType, IInv, TypeOK, vars, Leave, ForgetMemory, GiveBack, Goto, Ask
<1>13. CASE CountCycle
  BY <1>13 DEF CountCycle, boundVars, BoundType, IInv, TypeOK, vars, Leave, ForgetMemory, GiveBack, Goto, Ask
<1>14. CASE UNCHANGED vars
  BY <1>14 DEF vars, boundVars, BoundType, IInv, TypeOK, vars, Leave, ForgetMemory, GiveBack, Goto, Ask
<1>15. CASE Audited \/ LookBehind \/ StopOnGivingUp \/ CloseParents
  BY <1>15 DEF Audited, LookBehind, StopOnGivingUp, CloseParents, boundVars, BoundType, IInv, TypeOK, Leave, ForgetMemory, Goto
<1> QED
  BY <1>1, <1>2, <1>3, <1>4, <1>5, <1>6, <1>7, <1>8, <1>9, <1>10, <1>11, <1>12, <1>13, <1>14, <1>15 DEF Next, LoopStep, OutsideStep, PersonStep

\* Every step keeps the run's row and its control rows well formed.
LEMMA RunStep ==
    ASSUME IInv, [Next]_vars
    PROVE  RunType'
<1> USE BoundsAssumption
<1>1. CASE Enter
  BY <1>1, RunStatusNames DEF Enter, IInv, TypeOK, RunType, Leave, ForgetMemory, GiveBack, Goto, Ask, RetryRows
<1>2. CASE RefuseToStart
  BY <1>2, RunStatusNames DEF RefuseToStart, IInv, TypeOK, RunType, Leave, ForgetMemory, GiveBack, Goto, Ask, RetryRows, PreflightFails, BaselineCannotRun, BaselineRed, CanaryFails
<1>3. CASE Stop
  BY <1>3, RunStatusNames DEF Stop, IInv, TypeOK, RunType, Leave, ForgetMemory, GiveBack, Goto, Ask, RetryRows
<1>4. CASE Pause
  BY <1>4, RunStatusNames DEF Pause, IInv, TypeOK, RunType, Leave, ForgetMemory, GiveBack, Goto, Ask, RetryRows
<1>5. CASE Resume
  BY <1>5, RunStatusNames DEF Resume, IInv, TypeOK, RunType, Leave, ForgetMemory, GiveBack, Goto, Ask, RetryRows
<1>6. CASE WaitForWindow
  BY <1>6, RunStatusNames DEF WaitForWindow, IInv, TypeOK, RunType, Leave, ForgetMemory, GiveBack, Goto, Ask, RetryRows
<1>7. CASE WindowReopens
  BY <1>7, RunStatusNames DEF WindowReopens, IInv, TypeOK, RunType, Leave, ForgetMemory, GiveBack, Goto, Ask, RetryRows
<1>8. CASE ToolchainEnds
  BY <1>8, RunStatusNames DEF ToolchainEnds, IInv, TypeOK, RunType, Leave, ForgetMemory, GiveBack, Goto, Ask, RetryRows
<1>9. CASE RunsOut
  BY <1>9, RunStatusNames DEF RunsOut, IInv, TypeOK, RunType, Leave, ForgetMemory, GiveBack, Goto, Ask, RetryRows
<1>10. CASE Dies
  BY <1>10, RunStatusNames DEF Dies, IInv, TypeOK, RunType, Leave, ForgetMemory, GiveBack, Goto, Ask, RetryRows
<1>11. CASE ParkAtGate
  BY <1>11, RunStatusNames DEF ParkAtGate, IInv, TypeOK, RunType, runVars, Leave, ForgetMemory, GiveBack, Goto, Ask, RetryRows
<1>12. CASE GiveUp
  BY <1>12, RunStatusNames DEF GiveUp, IInv, TypeOK, RunType, runVars, Leave, ForgetMemory, GiveBack, Goto, Ask, RetryRows
<1>13. CASE AttemptBlocks
  BY <1>13, RunStatusNames DEF AttemptBlocks, IInv, TypeOK, RunType, runVars, Leave, ForgetMemory, GiveBack, Goto, Ask, RetryRows
<1>14. CASE Finish
  BY <1>14, RunStatusNames DEF Finish, IInv, TypeOK, RunType, Leave, ForgetMemory, GiveBack, Goto, Ask, RetryRows
<1>15. CASE CountCycle
  BY <1>15, RunStatusNames DEF CountCycle, IInv, TypeOK, RunType, Leave, ForgetMemory, GiveBack, Goto, Ask, RetryRows, IncrementCycle
<1>16. CASE AskStop
  BY <1>16, RunStatusNames DEF AskStop, IInv, TypeOK, RunType, Leave, ForgetMemory, GiveBack, Goto, Ask, RetryRows
<1>17. CASE AskPause
  BY <1>17, RunStatusNames DEF AskPause, IInv, TypeOK, RunType, Leave, ForgetMemory, GiveBack, Goto, Ask, RetryRows
<1>18. CASE AskResume
  BY <1>18, RunStatusNames DEF AskResume, IInv, TypeOK, RunType, Leave, ForgetMemory, GiveBack, Goto, Ask, RetryRows
<1>19. CASE OrderRetry
  <2>1. runStatus' = "idle" /\ retries' = 0 /\ UNCHANGED <<control, evidenceKey>>
    BY <1>19 DEF OrderRetry, RetryRows
  <2> QED
    BY <2>1, RunStatusNames DEF IInv, TypeOK, RunType
<1>20. CASE DecideCycle
  <2>1. evidenceKey' = evidenceKey \/ \E tickets \in SUBSET eligible : evidenceKey' = Evidence(tickets)
    BY <1>20 DEF DecideCycle, GiveBack
  <2>2. \A tickets \in SUBSET eligible : Evidence(tickets) \subseteq Tickets \X Classes
    BY DEF Evidence, IInv, TypeOK, ProcessType, LogType
  <2>3. (IncrementCycle \/ retries' = retries) /\ UNCHANGED <<runStatus, control>>
    BY <1>20 DEF DecideCycle, GiveBack
  <2>4. retries' \in 0..CycleCap
    BY <2>3 DEF IncrementCycle, IInv, TypeOK, RunType
  <2> QED
    BY <2>1, <2>2, <2>3, <2>4 DEF IInv, TypeOK, RunType
<1>21. CASE Go \/ StartWorking \/ Crash \/ TakeTicket \/ BacklogExhausted \/ Withhold
  BY <1>21 DEF Go, StartWorking, Crash, TakeTicket, BacklogExhausted, Withhold, IInv, TypeOK, RunType, runVars, vars, Leave, ForgetMemory, GiveBack, Goto, Ask, RetryRows
<1>22. CASE BeginTicket \/ BeginAttempt \/ AskExecutor \/ InnerTurn \/ AttemptFails \/ WidenScope
  BY <1>22 DEF BeginTicket, BeginAttempt, AskExecutor, InnerTurn, AttemptFails, WidenScope, IInv, TypeOK, RunType, runVars, vars, Leave, ForgetMemory, GiveBack, Goto, Ask, RetryRows
<1>23. CASE AttemptHalts \/ AttemptPasses \/ RefuseRetry \/ OpenCycle \/ MeasureTicket \/ KeepWhole
  BY <1>23 DEF AttemptHalts, AttemptPasses, RefuseRetry, OpenCycle, MeasureTicket, KeepWhole, IInv, TypeOK, RunType, runVars, vars, Leave, ForgetMemory, GiveBack, Goto, Ask, RetryRows
<1>24. CASE AddPieces \/ HoldGate \/ Respec \/ Requeue \/ OrderRelease \/ OrderDischarge
  BY <1>24 DEF AddPieces, HoldGate, Respec, Requeue, OrderRelease, OrderDischarge, IInv, TypeOK, RunType, runVars, vars, Leave, ForgetMemory, GiveBack, Goto, Ask, RetryRows
<1>25. CASE UNCHANGED vars
  BY <1>25 DEF vars, IInv, TypeOK, RunType, runVars, vars, Leave, ForgetMemory, GiveBack, Goto, Ask, RetryRows
<1>26. CASE StopOnGivingUp
  BY <1>26, RunStatusNames DEF StopOnGivingUp, IInv, TypeOK, RunType
<1>27. CASE Audited \/ LookBehind \/ CloseParents
  BY <1>27 DEF Audited, LookBehind, CloseParents, IInv, TypeOK, RunType, runVars
<1> QED
  BY <1>1, <1>2, <1>3, <1>4, <1>5, <1>6, <1>7, <1>8, <1>9, <1>10, <1>11, <1>12, <1>13, <1>14, <1>15, <1>16, <1>17, <1>18, <1>19, <1>20, <1>21, <1>22, <1>23, <1>24, <1>25, <1>26, <1>27 DEF Next, LoopStep, OutsideStep, PersonStep

\* A process that ends forgets its memory and leaves an outcome.
LEMMA LeaveType ==
    ASSUME NEW why \in Outcomes, Leave(why)
    PROVE  ProcessType'
BY Names, SettingsAssumption DEF Leave, ForgetMemory, ProcessType

\* A retry cycle that is given up forgets its memory and keeps the outcome.
LEMMA GiveBackType ==
    ASSUME ProcessType, GiveBack
    PROVE  ProcessType'
BY Names, SettingsAssumption DEF GiveBack, ForgetMemory, ProcessType

\* A ticket that ends sends the process on to what follows it.
LEMMA LoopsType ==
    ASSUME ProcessType, NEW s, NEW next \in PCs, TicketEnds(s, next),
           UNCHANGED <<current, widened, eligible, measured>>
    PROVE  ProcessType'
BY SettingsAssumption DEF TicketEnds, Goto, ProcessType

\* Every step keeps the loop process's memory well formed.
LEMMA ProcessStep ==
    ASSUME IInv, [Next]_vars
    PROVE  ProcessType'
<1> USE SettingsAssumption
<1>1. CASE Enter
  BY <1>1, Names, HandInPlan, LeaveType, GiveBackType, LoopsType DEF Enter, IInv, TypeOK, ProcessType, Goto, memoryVars
<1>2. CASE StartWorking
  BY <1>2, Names, HandInPlan, LeaveType, GiveBackType, LoopsType DEF StartWorking, IInv, TypeOK, ProcessType, Goto, memoryVars
<1>3. CASE TakeTicket
  BY <1>3, Names, HandInPlan, LeaveType, GiveBackType, LoopsType DEF TakeTicket, IInv, TypeOK, ProcessType, Goto, RowType
<1>4. CASE BacklogExhausted
  BY <1>4, Names, HandInPlan, LeaveType, GiveBackType, LoopsType DEF BacklogExhausted, IInv, TypeOK, ProcessType, Goto, memoryVars
<1>5. CASE BeginTicket
  BY <1>5, Names, HandInPlan, LeaveType, GiveBackType, LoopsType DEF BeginTicket, IInv, TypeOK, ProcessType, Goto
<1>6. CASE BeginAttempt
  BY <1>6, Names, HandInPlan, LeaveType, GiveBackType, LoopsType DEF BeginAttempt, IInv, TypeOK, ProcessType, Goto, memoryVars
<1>7. CASE AskExecutor
  BY <1>7, Names, HandInPlan, LeaveType, GiveBackType, LoopsType DEF AskExecutor, IInv, TypeOK, ProcessType, Goto, memoryVars
<1>8. CASE InnerTurn
  BY <1>8, Names, HandInPlan, LeaveType, GiveBackType, LoopsType DEF InnerTurn, IInv, TypeOK, ProcessType, Goto
<1>9. CASE AttemptFails
  BY <1>9, Names, HandInPlan, LeaveType, GiveBackType, LoopsType DEF AttemptFails, IInv, TypeOK, ProcessType, Goto
<1>10. CASE WidenScope
  BY <1>10, Names, HandInPlan, LeaveType, GiveBackType, LoopsType DEF WidenScope, IInv, TypeOK, ProcessType, Goto, Judging
<1>11. CASE OpenCycle
  BY <1>11, Names, HandInPlan, LeaveType, GiveBackType, LoopsType DEF OpenCycle, IInv, TypeOK, ProcessType, RowType, Eligible
<1>12. CASE MeasureTicket
  BY <1>12, Names, HandInPlan, LeaveType, GiveBackType, LoopsType DEF MeasureTicket, IInv, TypeOK, ProcessType, memoryVars
<1>13. CASE KeepWhole
  BY <1>13, Names, HandInPlan, LeaveType, GiveBackType, LoopsType DEF KeepWhole, IInv, TypeOK, ProcessType, Goto
<1>14. CASE AddPieces
  BY <1>14, Names, HandInPlan, LeaveType, GiveBackType, LoopsType DEF AddPieces, IInv, TypeOK, ProcessType, Goto, memoryVars
<1>15. CASE HoldGate
  BY <1>15, Names, HandInPlan, LeaveType, GiveBackType, LoopsType DEF HoldGate, IInv, TypeOK, ProcessType, Goto
<1>16. CASE DecideCycle
  BY <1>16, Names, HandInPlan, LeaveType, GiveBackType, LoopsType DEF DecideCycle, IInv, TypeOK, ProcessType, Goto
<1>17. CASE Respec
  BY <1>17, Names, HandInPlan, LeaveType, GiveBackType, LoopsType DEF Respec, IInv, TypeOK, ProcessType, Goto
<1>18. CASE Requeue
  BY <1>18, Names, HandInPlan, LeaveType, GiveBackType, LoopsType DEF Requeue, IInv, TypeOK, ProcessType, Goto, memoryVars
<1>19. CASE CountCycle
  BY <1>19, Names, HandInPlan, LeaveType, GiveBackType, LoopsType DEF CountCycle, IInv, TypeOK, ProcessType, Goto
<1>20. CASE Go
  BY <1>20, Names, HandInPlan, LeaveType, GiveBackType, LoopsType DEF Go, IInv, TypeOK, ProcessType, Goto, memoryVars
<1>21. CASE Finish
  BY <1>21, Names, HandInPlan, LeaveType, GiveBackType, LoopsType DEF Finish, IInv, TypeOK, ProcessType, Goto, memoryVars
<1>22. CASE Withhold
  BY <1>22, Names, HandInPlan, LeaveType, GiveBackType, LoopsType DEF Withhold, IInv, TypeOK, ProcessType
<1>23. CASE ParkAtGate
  BY <1>23, Names, HandInPlan, LeaveType, GiveBackType, LoopsType DEF ParkAtGate, IInv, TypeOK, ProcessType
<1>24. CASE GiveUp
  BY <1>24, Names, HandInPlan, LeaveType, GiveBackType, LoopsType DEF GiveUp, IInv, TypeOK, ProcessType
<1>25. CASE AttemptBlocks
  BY <1>25, Names, HandInPlan, LeaveType, GiveBackType, LoopsType DEF AttemptBlocks, IInv, TypeOK, ProcessType
<1>26. CASE AttemptHalts
  BY <1>26, Names, HandInPlan, LeaveType, GiveBackType, LoopsType DEF AttemptHalts, IInv, TypeOK, ProcessType
<1>27. CASE AttemptPasses
  BY <1>27, Names, HandInPlan, LeaveType, GiveBackType, LoopsType DEF AttemptPasses, IInv, TypeOK, ProcessType
<1>28. CASE RefuseToStart
  BY <1>28, Names, HandInPlan, LeaveType, GiveBackType, LoopsType DEF RefuseToStart, IInv, TypeOK, PreflightFails, BaselineCannotRun, BaselineRed, CanaryFails
<1>29. CASE Stop
  BY <1>29, Names, HandInPlan, LeaveType, GiveBackType, LoopsType DEF Stop, IInv, TypeOK
<1>30. CASE ToolchainEnds
  BY <1>30, Names, HandInPlan, LeaveType, GiveBackType, LoopsType DEF ToolchainEnds, IInv, TypeOK
<1>31. CASE RunsOut
  BY <1>31, Names, HandInPlan, LeaveType, GiveBackType, LoopsType DEF RunsOut, IInv, TypeOK
<1>32. CASE Dies
  BY <1>32, Names, HandInPlan, LeaveType, GiveBackType, LoopsType DEF Dies, IInv, TypeOK
<1>33. CASE Crash
  BY <1>33, Names, HandInPlan, LeaveType, GiveBackType, LoopsType DEF Crash, IInv, TypeOK
<1>34. CASE RefuseRetry
  BY <1>34, Names, HandInPlan, LeaveType, GiveBackType, LoopsType DEF RefuseRetry, IInv, TypeOK
<1>35. CASE Pause \/ Resume \/ WaitForWindow \/ WindowReopens \/ AskStop \/ AskPause
  BY <1>35 DEF Pause, Resume, WaitForWindow, WindowReopens, AskStop, AskPause, IInv, TypeOK, ProcessType, memoryVars, vars, Ask, RetryRows
<1>36. CASE AskResume \/ OrderRetry \/ OrderRelease \/ OrderDischarge
  BY <1>36 DEF AskResume, OrderRetry, OrderRelease, OrderDischarge, IInv, TypeOK, ProcessType, memoryVars, vars, Ask, RetryRows
<1>37. CASE UNCHANGED vars
  BY <1>37 DEF vars, IInv, TypeOK, ProcessType, memoryVars, vars, Ask, RetryRows
<1>38. CASE Audited
  BY <1>38, Names DEF Audited, IInv, TypeOK, ProcessType, Goto, memoryVars
<1>39. CASE LookBehind
  BY <1>39, Names DEF LookBehind, IInv, TypeOK, ProcessType, Goto
<1>40. CASE StopOnGivingUp
  BY <1>40, Names, LeaveType DEF StopOnGivingUp
<1>41. CASE CloseParents
  BY <1>41, Names DEF CloseParents, IInv, TypeOK, ProcessType, Goto
<1> QED
  BY <1>1, <1>2, <1>3, <1>4, <1>5, <1>6, <1>7, <1>8, <1>9, <1>10, <1>11, <1>12, <1>13, <1>14, <1>15, <1>16, <1>17, <1>18, <1>19, <1>20, <1>21, <1>22, <1>23, <1>24, <1>25, <1>26, <1>27, <1>28, <1>29, <1>30, <1>31, <1>32, <1>33, <1>34, <1>35, <1>36, <1>37, <1>38, <1>39, <1>40, <1>41 DEF Next, LoopStep, OutsideStep, PersonStep

\* Every step keeps the loop's two flags Boolean.
LEMMA FlagStep ==
    ASSUME IInv, [Next]_vars
    PROVE  FlagType'
<1>1. CASE RefuseToStart
  BY <1>1 DEF RefuseToStart, IInv, TypeOK, FlagType, Leave, ForgetMemory, PreflightFails, BaselineCannotRun, BaselineRed, CanaryFails
<1>2. CASE Stop
  BY <1>2 DEF Stop, IInv, TypeOK, FlagType, Leave, ForgetMemory
<1>3. CASE ToolchainEnds
  BY <1>3 DEF ToolchainEnds, IInv, TypeOK, FlagType, Leave, ForgetMemory
<1>4. CASE RunsOut
  BY <1>4 DEF RunsOut, IInv, TypeOK, FlagType, Leave, ForgetMemory
<1>5. CASE Dies
  BY <1>5 DEF Dies, IInv, TypeOK, FlagType, Leave, ForgetMemory
<1>6. CASE Crash
  BY <1>6 DEF Crash, IInv, TypeOK, FlagType, Leave, ForgetMemory
<1>7. CASE RefuseRetry
  BY <1>7 DEF RefuseRetry, IInv, TypeOK, FlagType, GiveBack, ForgetMemory
<1>8. CASE ParkAtGate
  BY <1>8 DEF ParkAtGate, IInv, TypeOK, FlagType, Leave, ForgetMemory
<1>9. CASE BeginTicket
  BY <1>9 DEF BeginTicket, IInv, TypeOK, FlagType, Leave, ForgetMemory
<1>10. CASE GiveUp
  BY <1>10 DEF GiveUp, IInv, TypeOK, FlagType, Leave, ForgetMemory
<1>11. CASE AttemptBlocks
  BY <1>11 DEF AttemptBlocks, IInv, TypeOK, FlagType, Leave, ForgetMemory
<1>12. CASE AttemptFails
  BY <1>12 DEF AttemptFails, IInv, TypeOK, FlagType
<1>13. CASE AttemptHalts
  BY <1>13 DEF AttemptHalts, IInv, TypeOK, FlagType
<1>14. CASE Finish
  BY <1>14 DEF Finish, IInv, TypeOK, FlagType, Leave, ForgetMemory, memoryVars
<1>15. CASE DecideCycle
  BY <1>15 DEF DecideCycle, IInv, TypeOK, FlagType, GiveBack, ForgetMemory, memoryVars
<1>16. CASE Respec
  BY <1>16 DEF Respec, IInv, TypeOK, FlagType, GiveBack, ForgetMemory, memoryVars
<1>17. CASE Requeue
  BY <1>17 DEF Requeue, IInv, TypeOK, FlagType, GiveBack, ForgetMemory, memoryVars
<1>18. CASE Go \/ Enter \/ StartWorking \/ Pause \/ Resume \/ WaitForWindow
  BY <1>18 DEF Go, Enter, StartWorking, Pause, Resume, WaitForWindow, IInv, TypeOK, FlagType, memoryVars, vars, Ask, RetryRows
<1>19. CASE WindowReopens \/ AskStop \/ AskPause \/ AskResume \/ TakeTicket \/ BacklogExhausted
  BY <1>19 DEF WindowReopens, AskStop, AskPause, AskResume, TakeTicket, BacklogExhausted, IInv, TypeOK, FlagType, memoryVars, vars, Ask, RetryRows
<1>20. CASE Withhold \/ BeginAttempt \/ AskExecutor \/ InnerTurn \/ WidenScope \/ AttemptPasses
  BY <1>20 DEF Withhold, BeginAttempt, AskExecutor, InnerTurn, WidenScope, AttemptPasses, IInv, TypeOK, FlagType, memoryVars, vars, Ask, RetryRows
<1>21. CASE OpenCycle \/ MeasureTicket \/ KeepWhole \/ AddPieces \/ HoldGate \/ CountCycle
  BY <1>21 DEF OpenCycle, MeasureTicket, KeepWhole, AddPieces, HoldGate, CountCycle, IInv, TypeOK, FlagType, memoryVars, vars, Ask, RetryRows
<1>22. CASE OrderRetry \/ OrderRelease \/ OrderDischarge
  BY <1>22 DEF OrderRetry, OrderRelease, OrderDischarge, IInv, TypeOK, FlagType, memoryVars, vars, Ask, RetryRows
<1>23. CASE UNCHANGED vars
  BY <1>23 DEF vars, IInv, TypeOK, FlagType, memoryVars, vars, Ask, RetryRows
<1>24. CASE LookBehind
  BY <1>24 DEF LookBehind, IInv, TypeOK, FlagType
<1>25. CASE Audited \/ StopOnGivingUp \/ CloseParents
  BY <1>25 DEF Audited, StopOnGivingUp, CloseParents, IInv, TypeOK, FlagType, memoryVars, Leave, ForgetMemory
<1> QED
  BY <1>1, <1>2, <1>3, <1>4, <1>5, <1>6, <1>7, <1>8, <1>9, <1>10, <1>11, <1>12, <1>13, <1>14, <1>15, <1>16, <1>17, <1>18, <1>19, <1>20, <1>21, <1>22, <1>23, <1>24, <1>25 DEF Next, LoopStep, OutsideStep, PersonStep

\* Handing one attempt back never takes the counter below zero: it was charged.
LEMMA AttemptBack ==
    ASSUME RowType, Charged, pc = "judge", current \in Tickets,
           attempts' = [attempts EXCEPT ![current] = @ - 1]
    PROVE  attempts' \in [Tickets -> 0..MaxAttempts]
<1>1. attempts[current] \in 0..MaxAttempts /\ attempts[current] > 0
  BY DEF RowType, Charged
<1>2. attempts[current] - 1 \in 0..MaxAttempts
  BY <1>1, SettingsAssumption
<1> QED
  BY <1>2 DEF RowType

\* `reset_tickets` keeps the rows well formed.
LEMMA ResetType ==
    ASSUME RowType, NEW tickets, ResetRows(tickets)
    PROVE  /\ status' \in [Tickets -> TicketStatuses]
           /\ attempts' \in [Tickets -> 0..MaxAttempts]
BY TicketStatusNames, SettingsAssumption DEF RowType, ResetRows


\* Every step keeps the ticket rows well formed.
LEMMA RowStep ==
    ASSUME IInv, [Next]_vars
    PROVE  RowType'
<1> USE SettingsAssumption, BoundsAssumption
<1>1. CASE StartWorking
  BY <1>1, TicketStatusNames DEF StartWorking, IInv, TypeOK, RowType
<1>2. CASE Withhold
  BY <1>2, TicketStatusNames, HandInPlan, TicketEndsType DEF Withhold, IInv, TypeOK, RowType
<1>3. CASE ParkAtGate
  BY <1>3, TicketStatusNames, HandInPlan, TicketEndsType DEF ParkAtGate, IInv, TypeOK, RowType
<1>4. CASE BeginTicket
  <2>1. RowType /\ current \in Tickets
    BY <1>4, HandInPlan DEF BeginTicket, IInv, TypeOK
  <2>2. contract' \in [Tickets -> 0..MaxRevision]
    <3>1. PICK rewritten \in {0, 1} :
             /\ contract[current] + rewritten <= MaxRevision
             /\ contract' = [contract EXCEPT ![current] = @ + rewritten]
      BY <1>4 DEF BeginTicket
    <3>2. contract[current] + rewritten \in 0..MaxRevision
      BY <2>1, <3>1 DEF RowType
    <3> QED
      BY <2>1, <3>1, <3>2 DEF RowType
  <2>3. \/ WriteStatuses([status EXCEPT ![current] = "running"])
        \/ TicketEnds("pending", "close")
    BY <1>4 DEF BeginTicket
  <2>4. [status EXCEPT ![current] = "running"] \in [Tickets -> TicketStatuses]
    BY <2>1, TicketStatusNames DEF RowType
  <2>5. /\ status' \in [Tickets -> TicketStatuses]
        /\ depStamp' \in [Tickets -> [Tickets -> {Unstamped} \cup 0..MaxRevision]]
    BY <2>1, <2>3, <2>4, TicketStatusNames, WriteStatusesType, TicketEndsType
  <2> QED
    BY <1>4, <2>1, <2>2, <2>5 DEF BeginTicket, RowType
<1>5. CASE BeginAttempt
  <2>1. RowType /\ current \in Tickets /\ attempts[current] < MaxAttempts
    BY <1>5, HandInPlan DEF BeginAttempt, BudgetLeft, IInv, TypeOK
  <2>2. attempts[current] + 1 \in 0..MaxAttempts
    BY <2>1 DEF RowType
  <2>3. attempts' \in [Tickets -> 0..MaxAttempts]
    BY <1>5, <2>1, <2>2 DEF BeginAttempt, RowType
  <2> QED
    BY <1>5, <2>1, <2>3 DEF BeginAttempt, RowType
<1>6. CASE GiveUp
  BY <1>6, TicketStatusNames, HandInPlan, TicketEndsType DEF GiveUp, IInv, TypeOK, RowType
<1>7. CASE InnerTurn
  <2>1. RowType /\ Charged /\ pc = "judge" /\ current \in Tickets
    BY <1>7, HandInPlan DEF InnerTurn, Judging, IInv, TypeOK
  <2>2. attempts' \in [Tickets -> 0..MaxAttempts]
    BY <1>7, <2>1, AttemptBack DEF InnerTurn
  <2> QED
    BY <1>7, <2>1, <2>2 DEF InnerTurn, RowType
<1>8. CASE WidenScope
  <2>1. RowType /\ Charged /\ pc = "judge" /\ current \in Tickets
    BY <1>8, HandInPlan DEF WidenScope, Judging, IInv, TypeOK
  <2>2. attempts' \in [Tickets -> 0..MaxAttempts]
    BY <1>8, <2>1, AttemptBack DEF WidenScope
  <2>3. contract[current] + 1 \in 0..MaxRevision
    BY <1>8, <2>1 DEF WidenScope, RowType
  <2>4. contract' \in [Tickets -> 0..MaxRevision]
    BY <1>8, <2>1, <2>3 DEF WidenScope, RowType
  <2> QED
    BY <1>8, <2>1, <2>2, <2>4 DEF WidenScope, RowType
<1>9. CASE AttemptBlocks
  BY <1>9, TicketStatusNames, HandInPlan, TicketEndsType DEF AttemptBlocks, IInv, TypeOK, RowType, Judging
<1>10. CASE AttemptHalts
  BY <1>10, TicketStatusNames, HandInPlan, TicketEndsType DEF AttemptHalts, IInv, TypeOK, RowType, Judging
<1>11. CASE AttemptPasses
  BY <1>11, TicketStatusNames, HandInPlan, TicketEndsType DEF AttemptPasses, IInv, TypeOK, RowType, Judging
<1>12. CASE Finish
  BY <1>12, CloseType, ParkType, WriteStatusesType DEF Finish, IInv, TypeOK, RowType
<1>13. CASE AddPieces
  BY <1>13 DEF AddPieces, IInv, TypeOK, RowType, PiecesOf
<1>14. CASE HoldGate
  BY <1>14, TicketStatusNames, HandInPlan DEF HoldGate, IInv, TypeOK, RowType
<1>15. CASE DecideCycle
  BY <1>15, TicketStatusNames DEF DecideCycle, IInv, TypeOK, RowType
<1>16. CASE Respec
  BY <1>16, TicketStatusNames DEF Respec, IInv, TypeOK, RowType
<1>17. CASE Requeue
  <2>1. RowType
    BY DEF IInv, TypeOK
  <2>2. UNCHANGED <<status, attempts>> \/ \E tickets : ResetRows(tickets)
    BY <1>17 DEF Requeue
  <2>3. status' \in [Tickets -> TicketStatuses] /\ attempts' \in [Tickets -> 0..MaxAttempts]
    BY <2>1, <2>2, ResetType DEF RowType
  <2> QED
    BY <1>17, <2>1, <2>3 DEF Requeue, RowType
<1>18. CASE OrderRetry
  <2>1. RowType
    BY DEF IInv, TypeOK
  <2>2. \E tickets : RetryRows(tickets)
    BY <1>18 DEF OrderRetry
  <2>3. status' \in [Tickets -> TicketStatuses] /\ attempts' \in [Tickets -> 0..MaxAttempts]
    BY <2>1, <2>2, ResetType DEF RetryRows
  <2> QED
    BY <2>1, <2>2, <2>3 DEF RetryRows, RowType
<1>19. CASE OrderRelease
  BY <1>19, ResetType DEF OrderRelease, IInv, TypeOK, RowType
<1>20. CASE OrderDischarge
  BY <1>20, TicketStatusNames, WriteStatusesType DEF OrderDischarge, IInv, TypeOK, RowType
<1>21. CASE Go \/ Enter \/ RefuseToStart \/ Stop \/ Pause \/ Resume
  BY <1>21 DEF Go, Enter, RefuseToStart, Stop, Pause, Resume, IInv, TypeOK, RowType, rowVars, vars, Ask, GiveBack
<1>22. CASE WaitForWindow \/ WindowReopens \/ AskStop \/ AskPause \/ AskResume \/ ToolchainEnds
  BY <1>22 DEF WaitForWindow, WindowReopens, AskStop, AskPause, AskResume, ToolchainEnds, IInv, TypeOK, RowType, rowVars, vars, Ask, GiveBack
<1>23. CASE RunsOut \/ Dies \/ Crash \/ TakeTicket \/ BacklogExhausted \/ AskExecutor
  BY <1>23 DEF RunsOut, Dies, Crash, TakeTicket, BacklogExhausted, AskExecutor, IInv, TypeOK, RowType, rowVars, vars, Ask, GiveBack
<1>24. CASE AttemptFails \/ RefuseRetry \/ OpenCycle \/ MeasureTicket \/ KeepWhole \/ CountCycle
  BY <1>24 DEF AttemptFails, RefuseRetry, OpenCycle, MeasureTicket, KeepWhole, CountCycle, IInv, TypeOK, RowType, rowVars, vars, Ask, GiveBack
<1>25. CASE UNCHANGED vars
  BY <1>25 DEF vars, IInv, TypeOK, RowType, rowVars, vars, Ask, GiveBack
<1>26. CASE CloseParents
  BY <1>26, CloseType, WriteStatusesType DEF CloseParents, IInv, TypeOK, RowType
<1>27. CASE Audited \/ LookBehind \/ StopOnGivingUp
  BY <1>27 DEF Audited, LookBehind, StopOnGivingUp, IInv, TypeOK, RowType, rowVars
<1> QED
  BY <1>1, <1>2, <1>3, <1>4, <1>5, <1>6, <1>7, <1>8, <1>9, <1>10, <1>11, <1>12, <1>13, <1>14, <1>15, <1>16, <1>17, <1>18, <1>19, <1>20, <1>21, <1>22, <1>23, <1>24, <1>25, <1>26, <1>27 DEF Next, LoopStep, OutsideStep, PersonStep

\* Every step keeps the type invariant.
LEMMA TypeStep ==
    ASSUME IInv, [Next]_vars
    PROVE  TypeOK'
BY RunStep, RowStep, LogStep, ProcessStep, FlagStep, BoundStep DEF TypeOK

-----------------------------------------------------------------------------
(***************************************************************************)
(* The ticket in hand.                                                     *)
(***************************************************************************)
\* Closing a gate touches split tickets only, parking what is unreachable only
\* pending ones.
LEMMA CloseOutcome ==
    ASSUME NEW st, NEW t \in Tickets
    PROVE  \/ CloseSplitParents(st)[t] = st[t]
           \/ st[t] = "split" /\ CloseSplitParents(st)[t] \in {"done", "blocked"}
BY DEF CloseSplitParents

\* Parking what is unreachable moves only pending tickets, to skipped.
LEMMA ParkOutcome ==
    ASSUME NEW st, NEW t \in Tickets
    PROVE  \/ ParkUnreachable(st)[t] = st[t]
           \/ st[t] = "pending" /\ ParkUnreachable(st)[t] = "skipped"
BY DEF ParkUnreachable

\* Every step keeps a ticket in hand exactly where the loop works on one.
LEMMA InHandStep ==
    ASSUME IInv, [Next]_vars
    PROVE  InHand'
<1>1. CASE TakeTicket
  BY <1>1 DEF TakeTicket, IInv, InHand, Done, UnmetNeeds, Goto, memoryVars, rowVars, runVars, IsNext, Runnable
<1>2. CASE BeginTicket
  <2>1. pc' = "close" \/ (pc' = "attempt" /\ UNCHANGED current)
    BY <1>2 DEF BeginTicket, TicketEnds, Goto
  <2>2. UNCHANGED <<present, eligible>>
    BY <1>2 DEF BeginTicket
  <2>3. ASSUME pc' = "attempt"
        PROVE  UnmetNeeds(current)' = {}
    <3>1. status' = [status EXCEPT ![current] = "running"] /\ UNCHANGED <<current, present>>
      BY <1>2, <2>3 DEF BeginTicket, TicketEnds, Goto, WriteStatuses
    <3>2. pc = "gates" /\ status[current] # "done" /\ UnmetNeeds(current) = {}
      BY <1>2 DEF BeginTicket, IInv, InHand
    <3>3. Done \subseteq Done'
      BY <3>1, <3>2 DEF Done, IInv, TypeOK, RowType
    <3> QED
      BY <3>1, <3>2, <3>3 DEF UnmetNeeds
  <2> QED
    BY <1>2, <2>1, <2>2, <2>3 DEF BeginTicket, IInv, InHand
<1>3. CASE BeginAttempt
  BY <1>3 DEF BeginAttempt, IInv, InHand, Done, UnmetNeeds, Goto, memoryVars, rowVars, runVars
<1>4. CASE AskExecutor
  BY <1>4 DEF AskExecutor, IInv, InHand, Done, UnmetNeeds, Goto, memoryVars, rowVars, runVars
<1>5. CASE InnerTurn
  BY <1>5 DEF InnerTurn, IInv, InHand, Done, UnmetNeeds, Goto, memoryVars, rowVars, runVars, Judging
<1>6. CASE AttemptFails
  BY <1>6 DEF AttemptFails, IInv, InHand, Done, UnmetNeeds, Goto, memoryVars, rowVars, runVars, Judging
<1>7. CASE WidenScope
  BY <1>7 DEF WidenScope, IInv, InHand, Done, UnmetNeeds, Goto, memoryVars, rowVars, runVars, Judging
<1>8. CASE MeasureTicket
  BY <1>8 DEF MeasureTicket, IInv, InHand, Done, UnmetNeeds, Goto, memoryVars, rowVars, runVars
<1>9. CASE AddPieces
  BY <1>9 DEF AddPieces, IInv, InHand, Done, UnmetNeeds, Goto, memoryVars, rowVars, runVars
<1>10. CASE OpenCycle
  BY <1>10 DEF OpenCycle, IInv, InHand, Done, UnmetNeeds, Goto, memoryVars, rowVars, runVars, Eligible
<1>11. CASE StartWorking
  BY <1>11 DEF StartWorking, IInv, rowVars, InHand, Goto, memoryVars, Leave, ForgetMemory, GiveBack, TicketEnds
<1>12. CASE Withhold
  BY <1>12 DEF Withhold, IInv, rowVars, InHand, Goto, memoryVars, Leave, ForgetMemory, GiveBack, TicketEnds
<1>13. CASE ParkAtGate
  BY <1>13 DEF ParkAtGate, IInv, rowVars, InHand, Goto, memoryVars, Leave, ForgetMemory, GiveBack, TicketEnds
<1>14. CASE GiveUp
  BY <1>14 DEF GiveUp, IInv, rowVars, InHand, Goto, memoryVars, Leave, ForgetMemory, GiveBack, TicketEnds
<1>15. CASE AttemptBlocks
  BY <1>15 DEF AttemptBlocks, IInv, rowVars, InHand, Goto, memoryVars, Leave, ForgetMemory, GiveBack, TicketEnds
<1>16. CASE AttemptHalts
  BY <1>16 DEF AttemptHalts, IInv, rowVars, InHand, Goto, memoryVars, Leave, ForgetMemory, GiveBack, TicketEnds
<1>17. CASE AttemptPasses
  BY <1>17 DEF AttemptPasses, IInv, rowVars, InHand, Goto, memoryVars, Leave, ForgetMemory, GiveBack, TicketEnds
<1>18. CASE Finish
  BY <1>18 DEF Finish, IInv, rowVars, InHand, Goto, memoryVars, Leave, ForgetMemory, GiveBack, TicketEnds
<1>19. CASE KeepWhole
  BY <1>19 DEF KeepWhole, IInv, rowVars, InHand, Goto, memoryVars, Leave, ForgetMemory, GiveBack, TicketEnds
<1>20. CASE HoldGate
  BY <1>20 DEF HoldGate, IInv, rowVars, InHand, Goto, memoryVars, Leave, ForgetMemory, GiveBack, TicketEnds
<1>21. CASE DecideCycle
  BY <1>21 DEF DecideCycle, IInv, rowVars, InHand, Goto, memoryVars, Leave, ForgetMemory, GiveBack, TicketEnds
<1>22. CASE Respec
  BY <1>22 DEF Respec, IInv, rowVars, InHand, Goto, memoryVars, Leave, ForgetMemory, GiveBack, TicketEnds
<1>23. CASE Requeue
  BY <1>23 DEF Requeue, IInv, rowVars, InHand, Goto, memoryVars, Leave, ForgetMemory, GiveBack, TicketEnds
<1>24. CASE CountCycle
  BY <1>24 DEF CountCycle, IInv, rowVars, InHand, Goto, memoryVars, Leave, ForgetMemory, GiveBack, TicketEnds
<1>25. CASE RefuseRetry
  BY <1>25 DEF RefuseRetry, IInv, rowVars, InHand, Goto, memoryVars, Leave, ForgetMemory, GiveBack, TicketEnds
<1>26. CASE OrderRetry
  BY <1>26 DEF OrderRetry, IInv, rowVars, InHand, Goto, memoryVars, Leave, ForgetMemory, GiveBack, TicketEnds, RetryRows
<1>27. CASE OrderRelease
  BY <1>27 DEF OrderRelease, IInv, rowVars, InHand, Goto, memoryVars, Leave, ForgetMemory, GiveBack, TicketEnds
<1>28. CASE OrderDischarge
  BY <1>28 DEF OrderDischarge, IInv, rowVars, InHand, Goto, memoryVars, Leave, ForgetMemory, GiveBack, TicketEnds
<1>29. CASE Go \/ Enter \/ RefuseToStart \/ Stop \/ Pause \/ Resume
  BY <1>29 DEF Go, Enter, RefuseToStart, Stop, Pause, Resume, IInv, InHand, Done, UnmetNeeds, Goto, Leave, ForgetMemory, vars, rowVars, memoryVars, Ask, PreflightFails, BaselineCannotRun, BaselineRed, CanaryFails
<1>30. CASE WaitForWindow \/ WindowReopens \/ AskStop \/ AskPause \/ AskResume \/ ToolchainEnds
  BY <1>30 DEF WaitForWindow, WindowReopens, AskStop, AskPause, AskResume, ToolchainEnds, IInv, InHand, Done, UnmetNeeds, Goto, Leave, ForgetMemory, vars, rowVars, memoryVars, Ask, PreflightFails, BaselineCannotRun, BaselineRed, CanaryFails
<1>31. CASE RunsOut \/ Dies \/ Crash \/ BacklogExhausted
  BY <1>31 DEF RunsOut, Dies, Crash, BacklogExhausted, IInv, InHand, Done, UnmetNeeds, Goto, Leave, ForgetMemory, vars, rowVars, memoryVars, Ask, PreflightFails, BaselineCannotRun, BaselineRed, CanaryFails
<1>32. CASE UNCHANGED vars
  BY <1>32 DEF vars, IInv, InHand, Done, UnmetNeeds, Goto, Leave, ForgetMemory, vars, rowVars, memoryVars, Ask, PreflightFails, BaselineCannotRun, BaselineRed, CanaryFails
<1>33. CASE Audited \/ LookBehind \/ StopOnGivingUp \/ CloseParents
  BY <1>33 DEF Audited, LookBehind, StopOnGivingUp, CloseParents, IInv, InHand, Goto, Leave, ForgetMemory, rowVars, memoryVars
<1> QED
  BY <1>1, <1>2, <1>3, <1>4, <1>5, <1>6, <1>7, <1>8, <1>9, <1>10, <1>11, <1>12, <1>13, <1>14, <1>15, <1>16, <1>17, <1>18, <1>19, <1>20, <1>21, <1>22, <1>23, <1>24, <1>25, <1>26, <1>27, <1>28, <1>29, <1>30, <1>31, <1>32, <1>33 DEF Next, LoopStep, OutsideStep, PersonStep

-----------------------------------------------------------------------------
\* Every step keeps the ticket in hand ready: no step of the loop takes a
\* landed need away while a ticket is worked on.
LEMMA ReadyStep ==
    ASSUME IInv, [Next]_vars
    PROVE  WorksOnlyReady'
<1>1. CASE BeginTicket
  <2>1. CASE pc' = "attempt"
    <3>1. status' = [status EXCEPT ![current] = "running"] /\ UNCHANGED <<current, route>>
      BY <1>1, <2>1 DEF BeginTicket, TicketEnds, Goto, WriteStatuses
    <3>2. route[current] = "delegate" /\ current \in Tickets
      BY <1>1, HandInPlan DEF BeginTicket
    <3> QED
      BY <2>1, <3>1, <3>2, InHandStep DEF InHand, WorksOnlyReady, IInv, TypeOK, RowType
  <2>2. CASE pc' = "close"
    BY <2>2 DEF WorksOnlyReady
  <2> QED
    BY <1>1, <2>1, <2>2 DEF BeginTicket, TicketEnds, Goto
<1>2. CASE BeginAttempt
  BY <1>2, InHandStep DEF BeginAttempt, IInv, WorksOnlyReady, InHand, Goto, rowVars, memoryVars, Judging
<1>3. CASE AskExecutor
  BY <1>3, InHandStep DEF AskExecutor, IInv, WorksOnlyReady, InHand, Goto, rowVars, memoryVars, Judging
<1>4. CASE InnerTurn
  BY <1>4, InHandStep DEF InnerTurn, IInv, WorksOnlyReady, InHand, Goto, rowVars, memoryVars, Judging
<1>5. CASE AttemptFails
  BY <1>5, InHandStep DEF AttemptFails, IInv, WorksOnlyReady, InHand, Goto, rowVars, memoryVars, Judging
<1>6. CASE WidenScope
  BY <1>6, InHandStep DEF WidenScope, IInv, WorksOnlyReady, InHand, Goto, rowVars, memoryVars, Judging
<1>7. CASE Go \/ Enter \/ RefuseToStart \/ StartWorking \/ Stop \/ Pause
  BY <1>7 DEF Go, Enter, RefuseToStart, StartWorking, Stop, Pause, IInv, InHand, WorksOnlyReady, Goto, Leave, ForgetMemory, GiveBack, vars, runVars, rowVars, memoryVars, Ask, RetryRows, PreflightFails, BaselineCannotRun, BaselineRed, CanaryFails, TicketEnds, Done, UnmetNeeds
<1>8. CASE Resume \/ WaitForWindow \/ WindowReopens \/ AskStop \/ AskPause \/ AskResume
  BY <1>8 DEF Resume, WaitForWindow, WindowReopens, AskStop, AskPause, AskResume, IInv, InHand, WorksOnlyReady, Goto, Leave, ForgetMemory, GiveBack, vars, runVars, rowVars, memoryVars, Ask, RetryRows, PreflightFails, BaselineCannotRun, BaselineRed, CanaryFails, TicketEnds, Done, UnmetNeeds
<1>9. CASE ToolchainEnds \/ RunsOut \/ Dies \/ Crash \/ TakeTicket \/ BacklogExhausted
  BY <1>9 DEF ToolchainEnds, RunsOut, Dies, Crash, TakeTicket, BacklogExhausted, IInv, InHand, WorksOnlyReady, Goto, Leave, ForgetMemory, GiveBack, vars, runVars, rowVars, memoryVars, Ask, RetryRows, PreflightFails, BaselineCannotRun, BaselineRed, CanaryFails, TicketEnds, Done, UnmetNeeds
<1>10. CASE Withhold \/ ParkAtGate \/ GiveUp \/ AttemptBlocks \/ AttemptHalts \/ AttemptPasses
  BY <1>10 DEF Withhold, ParkAtGate, GiveUp, AttemptBlocks, AttemptHalts, AttemptPasses, IInv, InHand, WorksOnlyReady, Goto, Leave, ForgetMemory, GiveBack, vars, runVars, rowVars, memoryVars, Ask, RetryRows, PreflightFails, BaselineCannotRun, BaselineRed, CanaryFails, TicketEnds, Done, UnmetNeeds
<1>11. CASE Finish \/ RefuseRetry \/ OpenCycle \/ MeasureTicket \/ KeepWhole \/ AddPieces
  BY <1>11 DEF Finish, RefuseRetry, OpenCycle, MeasureTicket, KeepWhole, AddPieces, IInv, InHand, WorksOnlyReady, Goto, Leave, ForgetMemory, GiveBack, vars, runVars, rowVars, memoryVars, Ask, RetryRows, PreflightFails, BaselineCannotRun, BaselineRed, CanaryFails, TicketEnds, Done, UnmetNeeds
<1>12. CASE HoldGate \/ DecideCycle \/ Respec \/ Requeue \/ CountCycle \/ OrderRetry
  BY <1>12 DEF HoldGate, DecideCycle, Respec, Requeue, CountCycle, OrderRetry, IInv, InHand, WorksOnlyReady, Goto, Leave, ForgetMemory, GiveBack, vars, runVars, rowVars, memoryVars, Ask, RetryRows, PreflightFails, BaselineCannotRun, BaselineRed, CanaryFails, TicketEnds, Done, UnmetNeeds
<1>13. CASE OrderRelease \/ OrderDischarge
  BY <1>13 DEF OrderRelease, OrderDischarge, IInv, InHand, WorksOnlyReady, Goto, Leave, ForgetMemory, GiveBack, vars, runVars, rowVars, memoryVars, Ask, RetryRows, PreflightFails, BaselineCannotRun, BaselineRed, CanaryFails, TicketEnds, Done, UnmetNeeds
<1>14. CASE UNCHANGED vars
  BY <1>14 DEF vars, IInv, InHand, WorksOnlyReady, Goto, Leave, ForgetMemory, GiveBack, vars, runVars, rowVars, memoryVars, Ask, RetryRows, PreflightFails, BaselineCannotRun, BaselineRed, CanaryFails, TicketEnds, Done, UnmetNeeds
<1>15. CASE Audited \/ LookBehind \/ StopOnGivingUp \/ CloseParents
  BY <1>15 DEF Audited, LookBehind, StopOnGivingUp, CloseParents, WorksOnlyReady, Goto, Leave
<1> QED
  BY <1>1, <1>2, <1>3, <1>4, <1>5, <1>6, <1>7, <1>8, <1>9, <1>10, <1>11, <1>12, <1>13, <1>14, <1>15 DEF Next, LoopStep, OutsideStep, PersonStep


\* Ending a ticket any other way than failed makes no ticket failed.
LEMMA NotFailed ==
    ASSUME RowType, current \in Tickets, NEW s, NEW next, s # "failed",
           TicketEnds(s, next) \/ WriteStatuses([status EXCEPT ![current] = s]),
           NEW t \in Tickets, status'[t] = "failed"
    PROVE  status[t] = "failed"
BY DEF TicketEnds, WriteStatuses, RowType

\* Every step keeps what is asked charged and what failed spent.
LEMMA ChargedStep ==
    ASSUME IInv, [Next]_vars
    PROVE  Charged'
<1>1. CASE StartWorking
  BY <1>1 DEF StartWorking, IInv, TypeOK, RowType, Charged, Goto, rowVars, memoryVars, Leave, ForgetMemory, GiveBack
<1>2. CASE Withhold
  <2>1. current \in Tickets /\ UNCHANGED attempts
    BY <1>2, HandInPlan DEF Withhold
  <2>2. TicketEnds("withheld", "close")
    BY <1>2 DEF Withhold
  <2>3. pc' = "close"
    BY <1>2 DEF Withhold, TicketEnds, Goto
  <2>4. \A t \in Tickets : status'[t] = "failed" => status[t] = "failed"
    BY <2>1, <2>2, NotFailed DEF IInv, TypeOK
  <2> QED
    BY <2>1, <2>3, <2>4 DEF IInv, Charged
<1>3. CASE ParkAtGate
  <2>1. current \in Tickets /\ UNCHANGED attempts
    BY <1>3, HandInPlan DEF ParkAtGate
  <2>2. TicketEnds("blocked", "gaveUp")
    BY <1>3 DEF ParkAtGate
  <2>3. pc' = "gaveUp"
    BY <1>3 DEF ParkAtGate, TicketEnds, Goto
  <2>4. \A t \in Tickets : status'[t] = "failed" => status[t] = "failed"
    BY <2>1, <2>2, NotFailed DEF IInv, TypeOK
  <2> QED
    BY <2>1, <2>3, <2>4 DEF IInv, Charged
<1>4. CASE BeginTicket
  <2>1. current \in Tickets /\ UNCHANGED attempts
    BY <1>4, HandInPlan DEF BeginTicket
  <2>2. \/ WriteStatuses([status EXCEPT ![current] = "running"])
        \/ TicketEnds("pending", "close")
    BY <1>4 DEF BeginTicket
  <2>3. pc' \in {"attempt", "close"}
    BY <1>4 DEF BeginTicket, TicketEnds, Goto
  <2>4. \A t \in Tickets : status'[t] = "failed" => status[t] = "failed"
    BY <2>1, <2>2, NotFailed DEF IInv, TypeOK
  <2> QED
    BY <2>1, <2>3, <2>4 DEF IInv, Charged
<1>5. CASE BeginAttempt
  <2>1. current \in Tickets /\ status[current] = "running" /\ attempts[current] \in 0..MaxAttempts
    BY <1>5, HandInPlan DEF BeginAttempt, IInv, WorksOnlyReady, TypeOK, RowType
  <2>2. /\ attempts' = [attempts EXCEPT ![current] = @ + 1]
        /\ UNCHANGED <<status, current>>
    BY <1>5 DEF BeginAttempt, memoryVars
  <2>3. attempts'[current] > 0
    BY <2>1, <2>2 DEF IInv, TypeOK, RowType
  <2>4. \A t \in Tickets : t # current => attempts'[t] = attempts[t]
    BY <2>2 DEF IInv, TypeOK, RowType
  <2> QED
    BY <2>1, <2>2, <2>3, <2>4 DEF IInv, Charged
<1>6. CASE AskExecutor
  BY <1>6 DEF AskExecutor, IInv, TypeOK, RowType, Charged, Goto, rowVars, memoryVars, Leave, ForgetMemory, GiveBack
<1>7. CASE GiveUp
  <2>1. /\ current \in Tickets /\ UNCHANGED attempts
        /\ attempts[current] \in 0..MaxAttempts /\ ~(attempts[current] < MaxAttempts)
    BY <1>7, HandInPlan DEF GiveUp, BudgetLeft, IInv, TypeOK, RowType
  <2>2. attempts[current] = MaxAttempts
    BY <2>1, SettingsAssumption
  <2>3. \A t \in Tickets : status'[t] = "failed" => t = current \/ status[t] = "failed"
    BY <1>7 DEF GiveUp, TicketEnds, WriteStatuses, IInv, TypeOK, RowType
  <2>4. pc' = "learn"
    BY <1>7 DEF GiveUp, TicketEnds, Goto
  <2> QED
    BY <2>1, <2>2, <2>3, <2>4 DEF IInv, Charged
<1>8. CASE InnerTurn
  <2>1. current \in Tickets /\ status[current] = "running"
    BY <1>8, HandInPlan DEF InnerTurn, Judging, IInv, WorksOnlyReady
  <2>2. /\ attempts' = [attempts EXCEPT ![current] = @ - 1]
        /\ UNCHANGED <<status, current>> /\ pc' = "attempt"
    BY <1>8 DEF InnerTurn, Goto
  <2>3. \A t \in Tickets : t # current => attempts'[t] = attempts[t]
    BY <2>2 DEF IInv, TypeOK, RowType
  <2> QED
    BY <2>1, <2>2, <2>3 DEF IInv, Charged
<1>9. CASE AttemptFails
  BY <1>9 DEF AttemptFails, IInv, TypeOK, RowType, Charged, Goto, rowVars, memoryVars, Leave, ForgetMemory, GiveBack
<1>10. CASE WidenScope
  <2>1. current \in Tickets /\ status[current] = "running"
    BY <1>10, HandInPlan DEF WidenScope, Judging, IInv, WorksOnlyReady
  <2>2. /\ attempts' = [attempts EXCEPT ![current] = @ - 1]
        /\ UNCHANGED <<status, current>> /\ pc' = "attempt"
    BY <1>10 DEF WidenScope, Goto
  <2>3. \A t \in Tickets : t # current => attempts'[t] = attempts[t]
    BY <2>2 DEF IInv, TypeOK, RowType
  <2> QED
    BY <2>1, <2>2, <2>3 DEF IInv, Charged
<1>11. CASE AttemptBlocks
  <2>1. current \in Tickets /\ UNCHANGED attempts
    BY <1>11, HandInPlan DEF AttemptBlocks, Judging
  <2>2. TicketEnds("blocked", "learn")
    BY <1>11 DEF AttemptBlocks
  <2>3. pc' = "learn"
    BY <1>11 DEF AttemptBlocks, TicketEnds, Goto
  <2>4. \A t \in Tickets : status'[t] = "failed" => status[t] = "failed"
    BY <2>1, <2>2, NotFailed DEF IInv, TypeOK
  <2> QED
    BY <2>1, <2>3, <2>4 DEF IInv, Charged
<1>12. CASE AttemptHalts
  <2>1. current \in Tickets /\ UNCHANGED attempts
    BY <1>12, HandInPlan DEF AttemptHalts, Judging
  <2>2. TicketEnds("blocked", "close")
    BY <1>12 DEF AttemptHalts
  <2>3. pc' = "close"
    BY <1>12 DEF AttemptHalts, TicketEnds, Goto
  <2>4. \A t \in Tickets : status'[t] = "failed" => status[t] = "failed"
    BY <2>1, <2>2, NotFailed DEF IInv, TypeOK
  <2> QED
    BY <2>1, <2>3, <2>4 DEF IInv, Charged
<1>13. CASE AttemptPasses
  <2>1. current \in Tickets /\ UNCHANGED attempts
    BY <1>13, HandInPlan DEF AttemptPasses, Judging
  <2>2. TicketEnds("done", "audit")
    BY <1>13 DEF AttemptPasses
  <2>3. pc' = "audit"
    BY <1>13 DEF AttemptPasses, TicketEnds, Goto
  <2>4. \A t \in Tickets : status'[t] = "failed" => status[t] = "failed"
    BY <2>1, <2>2, NotFailed DEF IInv, TypeOK
  <2> QED
    BY <2>1, <2>3, <2>4 DEF IInv, Charged
<1>14. CASE Finish
  BY <1>14, CloseOutcome, ParkOutcome DEF Finish, IInv, TypeOK, RowType, Charged, Goto, rowVars, memoryVars, Leave, ForgetMemory, GiveBack, WriteStatuses
<1>15. CASE HoldGate
  BY <1>15 DEF HoldGate, IInv, TypeOK, RowType, Charged, Goto, rowVars, memoryVars, Leave, ForgetMemory, GiveBack
<1>16. CASE DecideCycle
  BY <1>16 DEF DecideCycle, IInv, TypeOK, RowType, Charged, Goto, rowVars, memoryVars, Leave, ForgetMemory, GiveBack
<1>17. CASE Respec
  BY <1>17 DEF Respec, IInv, TypeOK, RowType, Charged, Goto, rowVars, memoryVars, Leave, ForgetMemory, GiveBack
<1>18. CASE Requeue
  BY <1>18 DEF Requeue, IInv, TypeOK, RowType, Charged, Goto, rowVars, memoryVars, Leave, ForgetMemory, GiveBack, ResetRows, RetryRows
<1>19. CASE OrderRetry
  BY <1>19 DEF OrderRetry, IInv, TypeOK, RowType, Charged, Goto, rowVars, memoryVars, Leave, ForgetMemory, GiveBack, ResetRows, RetryRows
<1>20. CASE OrderRelease
  BY <1>20 DEF OrderRelease, IInv, TypeOK, RowType, Charged, Goto, rowVars, memoryVars, Leave, ForgetMemory, GiveBack, ResetRows, RetryRows
<1>21. CASE OrderDischarge
  BY <1>21 DEF OrderDischarge, IInv, TypeOK, RowType, Charged, Goto, rowVars, memoryVars, Leave, ForgetMemory, GiveBack, WriteStatuses
<1>22. CASE Go \/ Enter \/ RefuseToStart \/ Stop \/ Pause \/ Resume
  BY <1>22 DEF Go, Enter, RefuseToStart, Stop, Pause, Resume, IInv, Charged, Goto, Leave, ForgetMemory, GiveBack, vars, rowVars, memoryVars, Ask, PreflightFails, BaselineCannotRun, BaselineRed, CanaryFails
<1>23. CASE WaitForWindow \/ WindowReopens \/ AskStop \/ AskPause \/ AskResume \/ ToolchainEnds
  BY <1>23 DEF WaitForWindow, WindowReopens, AskStop, AskPause, AskResume, ToolchainEnds, IInv, Charged, Goto, Leave, ForgetMemory, GiveBack, vars, rowVars, memoryVars, Ask, PreflightFails, BaselineCannotRun, BaselineRed, CanaryFails
<1>24. CASE RunsOut \/ Dies \/ Crash \/ TakeTicket \/ BacklogExhausted \/ RefuseRetry
  BY <1>24 DEF RunsOut, Dies, Crash, TakeTicket, BacklogExhausted, RefuseRetry, IInv, Charged, Goto, Leave, ForgetMemory, GiveBack, vars, rowVars, memoryVars, Ask, PreflightFails, BaselineCannotRun, BaselineRed, CanaryFails
<1>25. CASE OpenCycle \/ MeasureTicket \/ KeepWhole \/ AddPieces \/ CountCycle
  BY <1>25 DEF OpenCycle, MeasureTicket, KeepWhole, AddPieces, CountCycle, IInv, Charged, Goto, Leave, ForgetMemory, GiveBack, vars, rowVars, memoryVars, Ask, PreflightFails, BaselineCannotRun, BaselineRed, CanaryFails
<1>26. CASE UNCHANGED vars
  BY <1>26 DEF vars, IInv, Charged, Goto, Leave, ForgetMemory, GiveBack, vars, rowVars, memoryVars, Ask, PreflightFails, BaselineCannotRun, BaselineRed, CanaryFails
<1>27. CASE CloseParents
  BY <1>27, CloseOutcome DEF CloseParents, IInv, TypeOK, RowType, Charged, Goto, WriteStatuses
<1>28. CASE Audited \/ LookBehind \/ StopOnGivingUp
  BY <1>28 DEF Audited, LookBehind, StopOnGivingUp, IInv, Charged, Goto, Leave, rowVars
<1> QED
  BY <1>1, <1>2, <1>3, <1>4, <1>5, <1>6, <1>7, <1>8, <1>9, <1>10, <1>11, <1>12, <1>13, <1>14, <1>15, <1>16, <1>17, <1>18, <1>19, <1>20, <1>21, <1>22, <1>23, <1>24, <1>25, <1>26, <1>27, <1>28 DEF Next, LoopStep, OutsideStep, PersonStep

-----------------------------------------------------------------------------
\* Every step keeps the count of cycles within loop.retryCycles.
LEMMA BudgetedStep ==
    ASSUME IInv, [Next]_vars
    PROVE  Budgeted'
<1> USE SettingsAssumption, BoundsAssumption
<1>1. CASE OpenCycle
  BY <1>1 DEF OpenCycle, IInv, TypeOK, RunType, Budgeted, Deciding, OutOfCycles, IncrementCycle, Goto, GiveBack, runVars
<1>2. CASE DecideCycle
  <2>1. pc = "measure" /\ retries \in 0..CycleCap
    BY <1>2 DEF DecideCycle, IInv, TypeOK, RunType
  <2>2. \/ IncrementCycle /\ pc' = "loop"
        \/ retries' = retries
    BY <1>2 DEF DecideCycle, GiveBack
  <2> QED
    BY <2>1, <2>2 DEF IInv, Budgeted, Deciding, IncrementCycle
<1>3. CASE Respec
  BY <1>3 DEF Respec, IInv, TypeOK, RunType, Budgeted, Deciding, OutOfCycles, IncrementCycle, Goto, GiveBack, runVars
<1>4. CASE Requeue
  BY <1>4 DEF Requeue, IInv, TypeOK, RunType, Budgeted, Deciding, OutOfCycles, IncrementCycle, Goto, GiveBack, runVars
<1>5. CASE CountCycle
  BY <1>5 DEF CountCycle, IInv, TypeOK, RunType, Budgeted, Deciding, OutOfCycles, IncrementCycle, Goto, GiveBack, runVars
<1>6. CASE OrderRetry
  <2>1. retries' = 0 /\ pc' = "down"
    BY <1>6 DEF OrderRetry, RetryRows
  <2> QED
    BY <2>1 DEF Budgeted, Deciding
<1>7. CASE OrderRelease
  BY <1>7 DEF OrderRelease, IInv, TypeOK, RunType, Budgeted, Deciding, OutOfCycles, IncrementCycle, Goto, GiveBack, runVars
<1>8. CASE Go \/ Enter \/ RefuseToStart \/ StartWorking \/ Stop \/ Pause
  BY <1>8 DEF Go, Enter, RefuseToStart, StartWorking, Stop, Pause, IInv, Budgeted, Deciding, Goto, Leave, ForgetMemory, GiveBack, vars, runVars, rowVars, Ask, memoryVars, PreflightFails, BaselineCannotRun, BaselineRed, CanaryFails, TicketEnds, RetryRows
<1>9. CASE Resume \/ WaitForWindow \/ WindowReopens \/ AskStop \/ AskPause \/ AskResume
  BY <1>9 DEF Resume, WaitForWindow, WindowReopens, AskStop, AskPause, AskResume, IInv, Budgeted, Deciding, Goto, Leave, ForgetMemory, GiveBack, vars, runVars, rowVars, Ask, memoryVars, PreflightFails, BaselineCannotRun, BaselineRed, CanaryFails, TicketEnds, RetryRows
<1>10. CASE ToolchainEnds \/ RunsOut \/ Dies \/ Crash \/ TakeTicket \/ BacklogExhausted
  BY <1>10 DEF ToolchainEnds, RunsOut, Dies, Crash, TakeTicket, BacklogExhausted, IInv, Budgeted, Deciding, Goto, Leave, ForgetMemory, GiveBack, vars, runVars, rowVars, Ask, memoryVars, PreflightFails, BaselineCannotRun, BaselineRed, CanaryFails, TicketEnds, RetryRows
<1>11. CASE Withhold \/ ParkAtGate \/ BeginTicket \/ BeginAttempt \/ AskExecutor \/ GiveUp
  BY <1>11 DEF Withhold, ParkAtGate, BeginTicket, BeginAttempt, AskExecutor, GiveUp, IInv, Budgeted, Deciding, Goto, Leave, ForgetMemory, GiveBack, vars, runVars, rowVars, Ask, memoryVars, PreflightFails, BaselineCannotRun, BaselineRed, CanaryFails, TicketEnds, RetryRows
<1>12. CASE InnerTurn \/ AttemptFails \/ WidenScope \/ AttemptBlocks \/ AttemptHalts \/ AttemptPasses
  BY <1>12 DEF InnerTurn, AttemptFails, WidenScope, AttemptBlocks, AttemptHalts, AttemptPasses, IInv, Budgeted, Deciding, Goto, Leave, ForgetMemory, GiveBack, vars, runVars, rowVars, Ask, memoryVars, PreflightFails, BaselineCannotRun, BaselineRed, CanaryFails, TicketEnds, RetryRows
<1>13. CASE Finish \/ RefuseRetry \/ MeasureTicket \/ KeepWhole \/ AddPieces \/ HoldGate
  BY <1>13 DEF Finish, RefuseRetry, MeasureTicket, KeepWhole, AddPieces, HoldGate, IInv, Budgeted, Deciding, Goto, Leave, ForgetMemory, GiveBack, vars, runVars, rowVars, Ask, memoryVars, PreflightFails, BaselineCannotRun, BaselineRed, CanaryFails, TicketEnds, RetryRows
<1>14. CASE OrderDischarge
  BY <1>14 DEF OrderDischarge, IInv, Budgeted, Deciding, Goto, Leave, ForgetMemory, GiveBack, vars, runVars, rowVars, Ask, memoryVars, PreflightFails, BaselineCannotRun, BaselineRed, CanaryFails, TicketEnds, RetryRows
<1>15. CASE UNCHANGED vars
  BY <1>15 DEF vars, IInv, Budgeted, Deciding, Goto, Leave, ForgetMemory, GiveBack, vars, runVars, rowVars, Ask, memoryVars, PreflightFails, BaselineCannotRun, BaselineRed, CanaryFails, TicketEnds, RetryRows
<1>16. CASE Audited \/ LookBehind \/ StopOnGivingUp \/ CloseParents
  BY <1>16 DEF Audited, LookBehind, StopOnGivingUp, CloseParents, IInv, Budgeted, Deciding, Goto, Leave, runVars
<1> QED
  BY <1>1, <1>2, <1>3, <1>4, <1>5, <1>6, <1>7, <1>8, <1>9, <1>10, <1>11, <1>12, <1>13, <1>14, <1>15, <1>16 DEF Next, LoopStep, OutsideStep, PersonStep

-----------------------------------------------------------------------------
\* Every step keeps what a verdict of `unsatisfiable` rests on.
LEMMA VerdictsStep ==
    ASSUME IInv, [Next]_vars
    PROVE  Verdicts'
<1>1. CASE BeginTicket
  <2>1. current \in Tickets /\ RowType
    BY <1>1, HandInPlan DEF BeginTicket, IInv, TypeOK
  <2>2. PICK rewritten \in {0, 1} : contract' = [contract EXCEPT ![current] = @ + rewritten]
    BY <1>1 DEF BeginTicket
  <2>3. \A t \in Tickets : contract'[t] >= contract[t] /\ impossible'[t] = impossible[t]
    BY <1>1, <2>1, <2>2 DEF BeginTicket, RowType
  <2>4. \A t \in Tickets : impossible'[t] <= contract'[t]
    BY <2>1, <2>2, <2>3 DEF IInv, Verdicts, RowType, NoFingerprint
  <2>5. pc' \in {"attempt", "close"}
    BY <1>1 DEF BeginTicket, TicketEnds, Goto
  <2> QED
    BY <2>4, <2>5 DEF Verdicts, Deciding
<1>2. CASE WidenScope
  <2>1. current \in Tickets /\ RowType
    BY <1>2, HandInPlan DEF WidenScope, Judging, IInv, TypeOK
  <2>2. contract' = [contract EXCEPT ![current] = @ + 1] /\ UNCHANGED impossible /\ pc' = "attempt"
    BY <1>2 DEF WidenScope, Goto
  <2>3. \A t \in Tickets : impossible'[t] <= contract'[t]
    BY <2>1, <2>2 DEF IInv, Verdicts, RowType, NoFingerprint
  <2> QED
    BY <2>2, <2>3 DEF Verdicts, Deciding
<1>3. CASE OpenCycle
  BY <1>3 DEF OpenCycle, IInv, TypeOK, RowType, Verdicts, Deciding, Goto, GiveBack, rowVars, memoryVars, Eligible, Settled
<1>4. CASE MeasureTicket
  BY <1>4 DEF MeasureTicket, IInv, TypeOK, RowType, Verdicts, Deciding, Goto, GiveBack, rowVars, memoryVars
<1>5. CASE KeepWhole
  BY <1>5 DEF KeepWhole, IInv, TypeOK, RowType, Verdicts, Deciding, Goto, GiveBack, rowVars, memoryVars
<1>6. CASE AddPieces
  BY <1>6 DEF AddPieces, IInv, TypeOK, RowType, Verdicts, Deciding, Goto, GiveBack, rowVars, memoryVars
<1>7. CASE HoldGate
  BY <1>7, HandInPlan DEF HoldGate, IInv, TypeOK, RowType, Verdicts, Deciding, Goto, GiveBack, rowVars, memoryVars
<1>8. CASE DecideCycle
  <2>1. RowType /\ eligible \subseteq Tickets /\ pc = "measure" /\ UNCHANGED <<contract, impossible>>
    BY <1>8 DEF DecideCycle, IInv, TypeOK, ProcessType
  <2>2. pc' \in {"loop", "down"} \/ (eligible' \subseteq eligible
           /\ \A t \in eligible' : status[t] # "split" /\ status'[t] = status[t])
    BY <1>8, <2>1 DEF DecideCycle, GiveBack
  <2>3. \A t \in eligible : /\ status[t] \in Retryable \cup {"split"}
                            /\ ~(status[t] = "blocked" /\ impossible[t] = contract[t])
    BY <2>1 DEF IInv, Verdicts, Deciding
  <2>4. \A t \in Tickets : impossible[t] <= contract[t]
    BY DEF IInv, Verdicts
  <2> QED
    BY <2>1, <2>2, <2>3, <2>4 DEF Verdicts, Deciding
<1>9. CASE Respec
  <2> DEFINE attempted == IF RespecOnRetry THEN {t \in eligible : attempts[t] > 0} ELSE {}
  <2>1. RowType /\ eligible \subseteq Tickets /\ pc = "respec"
    BY <1>9 DEF Respec, IInv, TypeOK, ProcessType
  <2>2. PICK revised \in SUBSET {t \in attempted : contract[t] < MaxRevision} :
           \E hopeless \in SUBSET (attempted \ revised) :
              /\ contract' = [t \in Tickets |-> IF t \in revised THEN contract[t] + 1
                                                ELSE contract[t]]
              /\ status' = [t \in Tickets |-> IF t \in hopeless THEN "blocked"
                                              ELSE status[t]]
              /\ impossible' = [t \in Tickets |-> IF t \in hopeless THEN contract[t]
                                                  ELSE impossible[t]]
              /\ pc' = "down" \/ eligible' = eligible \ hopeless
    BY <1>9 DEF Respec, GiveBack
  <2>3. PICK hopeless \in SUBSET (attempted \ revised) :
           /\ contract' = [t \in Tickets |-> IF t \in revised THEN contract[t] + 1
                                             ELSE contract[t]]
           /\ status' = [t \in Tickets |-> IF t \in hopeless THEN "blocked" ELSE status[t]]
           /\ impossible' = [t \in Tickets |-> IF t \in hopeless THEN contract[t]
                                               ELSE impossible[t]]
           /\ pc' = "down" \/ eligible' = eligible \ hopeless
    BY <2>2
  <2>4. \A t \in Tickets : /\ contract[t] \in Int /\ impossible[t] \in Int
                           /\ impossible[t] <= contract[t]
    BY <2>1 DEF RowType, NoFingerprint, IInv, Verdicts
  <2>5. revised \cap hopeless = {}
    OBVIOUS
  <2>6. \A t \in Tickets : impossible'[t] <= contract'[t]
    BY <2>3, <2>4, <2>5
  <2>7. ASSUME NEW t \in eligible \ hopeless
        PROVE  /\ status'[t] \in Retryable \cup {"split"}
               /\ ~(status'[t] = "blocked" /\ impossible'[t] = contract'[t])
    <3>1. /\ t \in Tickets /\ status'[t] = status[t] /\ impossible'[t] = impossible[t]
          /\ contract'[t] = contract[t] \/ contract'[t] = contract[t] + 1
      BY <2>1, <2>3
    <3>2. /\ status[t] \in Retryable \cup {"split"}
          /\ ~(status[t] = "blocked" /\ impossible[t] = contract[t])
      BY <2>1 DEF IInv, Verdicts, Deciding
    <3>3. contract'[t] = contract[t] + 1 => impossible'[t] # contract'[t]
      BY <2>4, <3>1
    <3> QED
      BY <3>1, <3>2, <3>3
  <2> QED
    BY <2>3, <2>6, <2>7 DEF Verdicts, Deciding
<1>10. CASE Requeue
  BY <1>10 DEF Requeue, IInv, TypeOK, RowType, Verdicts, Deciding, Goto, GiveBack, rowVars, memoryVars
<1>11. CASE CountCycle
  BY <1>11 DEF CountCycle, IInv, TypeOK, RowType, Verdicts, Deciding, Goto, GiveBack, rowVars, memoryVars
<1>12. CASE Go \/ Enter \/ RefuseToStart \/ StartWorking \/ Stop \/ Pause
  BY <1>12 DEF Go, Enter, RefuseToStart, StartWorking, Stop, Pause, IInv, Verdicts, Deciding, Goto, Leave, ForgetMemory, GiveBack, vars, runVars, rowVars, Ask, memoryVars, TicketEnds, RetryRows, PreflightFails, BaselineCannotRun, BaselineRed, CanaryFails
<1>13. CASE Resume \/ WaitForWindow \/ WindowReopens \/ AskStop \/ AskPause \/ AskResume
  BY <1>13 DEF Resume, WaitForWindow, WindowReopens, AskStop, AskPause, AskResume, IInv, Verdicts, Deciding, Goto, Leave, ForgetMemory, GiveBack, vars, runVars, rowVars, Ask, memoryVars, TicketEnds, RetryRows, PreflightFails, BaselineCannotRun, BaselineRed, CanaryFails
<1>14. CASE ToolchainEnds \/ RunsOut \/ Dies \/ Crash \/ TakeTicket \/ BacklogExhausted
  BY <1>14 DEF ToolchainEnds, RunsOut, Dies, Crash, TakeTicket, BacklogExhausted, IInv, Verdicts, Deciding, Goto, Leave, ForgetMemory, GiveBack, vars, runVars, rowVars, Ask, memoryVars, TicketEnds, RetryRows, PreflightFails, BaselineCannotRun, BaselineRed, CanaryFails
<1>15. CASE Withhold \/ ParkAtGate \/ BeginAttempt \/ AskExecutor \/ GiveUp \/ InnerTurn
  BY <1>15 DEF Withhold, ParkAtGate, BeginAttempt, AskExecutor, GiveUp, InnerTurn, IInv, Verdicts, Deciding, Goto, Leave, ForgetMemory, GiveBack, vars, runVars, rowVars, Ask, memoryVars, TicketEnds, RetryRows, PreflightFails, BaselineCannotRun, BaselineRed, CanaryFails
<1>16. CASE AttemptFails \/ AttemptBlocks \/ AttemptHalts \/ AttemptPasses \/ Finish \/ RefuseRetry
  BY <1>16 DEF AttemptFails, AttemptBlocks, AttemptHalts, AttemptPasses, Finish, RefuseRetry, IInv, Verdicts, Deciding, Goto, Leave, ForgetMemory, GiveBack, vars, runVars, rowVars, Ask, memoryVars, TicketEnds, RetryRows, PreflightFails, BaselineCannotRun, BaselineRed, CanaryFails
<1>17. CASE OrderRetry \/ OrderRelease \/ OrderDischarge
  BY <1>17 DEF OrderRetry, OrderRelease, OrderDischarge, IInv, Verdicts, Deciding, Goto, Leave, ForgetMemory, GiveBack, vars, runVars, rowVars, Ask, memoryVars, TicketEnds, RetryRows, PreflightFails, BaselineCannotRun, BaselineRed, CanaryFails
<1>18. CASE UNCHANGED vars
  BY <1>18 DEF vars, IInv, Verdicts, Deciding, Goto, Leave, ForgetMemory, GiveBack, vars, runVars, rowVars, Ask, memoryVars, TicketEnds, RetryRows, PreflightFails, BaselineCannotRun, BaselineRed, CanaryFails
<1>19. CASE Audited \/ LookBehind \/ StopOnGivingUp \/ CloseParents
  BY <1>19 DEF Audited, LookBehind, StopOnGivingUp, CloseParents, IInv, Verdicts, Deciding, Goto, Leave, rowVars
<1> QED
  BY <1>1, <1>2, <1>3, <1>4, <1>5, <1>6, <1>7, <1>8, <1>9, <1>10, <1>11, <1>12, <1>13, <1>14, <1>15, <1>16, <1>17, <1>18, <1>19 DEF Next, LoopStep, OutsideStep, PersonStep

\* Every step of the loop, of the person and of the weather preserves it.
LEMMA Inductive ==
    IInv /\ [Next]_vars => IInv'
BY TypeStep, InHandStep, ReadyStep, ChargedStep, BudgetedStep, VerdictsStep DEF IInv

\* A run just ingested satisfies the inductive invariant.
LEMMA InitHolds ==
    Init => IInv
<1> SUFFICES ASSUME Init PROVE IInv
  OBVIOUS
<1> USE ShapeAssumption, SettingsAssumption, BoundsAssumption
<1>1. RunType /\ LogType /\ BoundType
  BY RunStatusNames DEF Init, RunType, LogType, BoundType, NoKey
<1>2. RowType
  BY TicketStatusNames DEF Init, RowType, Unstamped, NoFingerprint
<1>3. ProcessType
  BY Names DEF Init, ProcessType
<1>7. FlagType
  BY DEF Init, FlagType
<1>4. InHand /\ WorksOnlyReady
  BY DEF Init, InHand, WorksOnlyReady
<1>5. Charged /\ Budgeted
  BY DEF Init, Charged, Budgeted, Deciding
<1>6. Verdicts
  BY DEF Init, Verdicts, Deciding, NoFingerprint
<1> QED
  BY <1>1, <1>2, <1>3, <1>4, <1>5, <1>6, <1>7 DEF IInv, TypeOK

\* The inductive invariant holds of every behaviour of the run loop.
THEOREM Invariance == Spec => []IInv
BY InitHolds, Inductive, PTL DEF Spec

\* Every variable keeps its type; the counters of attempts, cycles and flat
\* cycles stay within the settings' budgets.
THEOREM TypeCorrect == Spec => []TypeOK
<1>1. IInv => TypeOK
  BY DEF IInv
<1> QED
  BY <1>1, Invariance, PTL

\* The executor only ever holds a delegated ticket whose dependencies have all
\* landed, whatever the plan, the settings and the order of the events.
THEOREM ReadyWork == Spec => []WorksOnlyReady
<1>1. IInv => WorksOnlyReady
  BY DEF IInv
<1> QED
  BY <1>1, Invariance, PTL

\* A call to the executor is always charged, and a ticket that is reported
\* failed was given its whole budget.
THEOREM WholeBudget == Spec => []FailedSpentTheBudget
<1>1. IInv => FailedSpentTheBudget
  BY ShapeAssumption DEF IInv, TypeOK, RowType, Charged, FailedSpentTheBudget
<1> QED
  BY <1>1, Invariance, PTL

\* No run makes more automatic cycles than loop.retryCycles, however often its
\* process is killed and restarted.
THEOREM CyclesBounded == Spec => []RetryBudget
<1>1. IInv => RetryBudget
  BY DEF IInv, Budgeted, RetryBudget
<1> QED
  BY <1>1, Invariance, PTL

-----------------------------------------------------------------------------
(***************************************************************************)
(* A verdict stands for as long as the contract does.                      *)
(***************************************************************************)
\* A ticket that ends moves no other blocked ticket.
LEMMA OthersKept ==
    ASSUME IInv, current \in Tickets, status[current] # "blocked", NEW s, NEW next,
           TicketEnds(s, next) \/ WriteStatuses([status EXCEPT ![current] = s]),
           NEW t \in Tickets, status[t] = "blocked"
    PROVE  status'[t] = "blocked"
BY DEF TicketEnds, WriteStatuses, IInv, TypeOK, RowType

\* Only done tickets are reopened as stale.
LEMMA ReopensDone ==
    ASSUME NEW st, NEW t \in Tickets, st[t] # "done"
    PROVE  t \notin Reopened(st)
BY DEF Reopened, StaleDependents

\* No step of a running loop moves a settled ticket off blocked.
LEMMA SettledStep ==
    ASSUME IInv, [Next]_vars, NEW t \in Tickets, pc # "down", status[t] = "blocked",
           impossible[t] = contract[t], contract'[t] = contract[t]
    PROVE  status'[t] = "blocked"
<1>1. CASE StartWorking
  <2>1. t \notin Reopened(status)
    BY ReopensDone
  <2> QED
    BY <1>1, <2>1 DEF StartWorking
<1>2. CASE Withhold
  <2>1. current \in Tickets /\ status[current] \in {"pending", "running"}
    BY <1>2, HandInPlan DEF Withhold, IInv, InHand, WorksOnlyReady
  <2>2. \E s, next : TicketEnds(s, next) \/ WriteStatuses([status EXCEPT ![current] = s])
    BY <1>2 DEF Withhold
  <2> QED
    BY <2>1, <2>2, OthersKept
<1>3. CASE ParkAtGate
  <2>1. current \in Tickets /\ status[current] \in {"pending", "running"}
    BY <1>3, HandInPlan DEF ParkAtGate, IInv, InHand, WorksOnlyReady
  <2>2. \E s, next : TicketEnds(s, next) \/ WriteStatuses([status EXCEPT ![current] = s])
    BY <1>3 DEF ParkAtGate
  <2> QED
    BY <2>1, <2>2, OthersKept
<1>4. CASE BeginTicket
  <2>1. current \in Tickets /\ status[current] \in {"pending", "running"}
    BY <1>4, HandInPlan DEF BeginTicket, IInv, InHand, WorksOnlyReady
  <2>2. \E s, next : TicketEnds(s, next) \/ WriteStatuses([status EXCEPT ![current] = s])
    BY <1>4 DEF BeginTicket
  <2> QED
    BY <2>1, <2>2, OthersKept
<1>5. CASE GiveUp
  <2>1. current \in Tickets /\ status[current] \in {"pending", "running"}
    BY <1>5, HandInPlan DEF GiveUp, IInv, InHand, WorksOnlyReady
  <2>2. \E s, next : TicketEnds(s, next) \/ WriteStatuses([status EXCEPT ![current] = s])
    BY <1>5 DEF GiveUp
  <2> QED
    BY <2>1, <2>2, OthersKept
<1>6. CASE AttemptBlocks
  <2>1. current \in Tickets /\ status[current] \in {"pending", "running"}
    BY <1>6, HandInPlan DEF AttemptBlocks, Judging, IInv, InHand, WorksOnlyReady
  <2>2. \E s, next : TicketEnds(s, next) \/ WriteStatuses([status EXCEPT ![current] = s])
    BY <1>6 DEF AttemptBlocks
  <2> QED
    BY <2>1, <2>2, OthersKept
<1>7. CASE AttemptHalts
  <2>1. current \in Tickets /\ status[current] \in {"pending", "running"}
    BY <1>7, HandInPlan DEF AttemptHalts, Judging, IInv, InHand, WorksOnlyReady
  <2>2. \E s, next : TicketEnds(s, next) \/ WriteStatuses([status EXCEPT ![current] = s])
    BY <1>7 DEF AttemptHalts
  <2> QED
    BY <2>1, <2>2, OthersKept
<1>8. CASE AttemptPasses
  <2>1. current \in Tickets /\ status[current] \in {"pending", "running"}
    BY <1>8, HandInPlan DEF AttemptPasses, Judging, IInv, InHand, WorksOnlyReady
  <2>2. \E s, next : TicketEnds(s, next) \/ WriteStatuses([status EXCEPT ![current] = s])
    BY <1>8 DEF AttemptPasses
  <2> QED
    BY <2>1, <2>2, OthersKept
<1>9. CASE Finish
  <2>1. CloseSplitParents(status)[t] = "blocked"
    BY CloseOutcome
  <2> QED
    BY <1>9, <2>1, ParkOutcome DEF Finish, WriteStatuses
<1>10. CASE HoldGate
  <2>1. current \in eligible /\ ~(status[current] = "blocked" /\ impossible[current] = contract[current])
    BY <1>10 DEF HoldGate, IInv, InHand, Verdicts, Deciding
  <2> QED
    BY <1>10, <2>1 DEF HoldGate, IInv, TypeOK, RowType
<1>11. CASE DecideCycle
  BY <1>11 DEF DecideCycle, IInv, rowVars
<1>12. CASE Respec
  BY <1>12 DEF Respec, IInv, rowVars
<1>13. CASE Requeue
  <2>1. t \notin eligible
    BY <1>13 DEF Requeue, IInv, Verdicts, Deciding
  <2> DEFINE st == [u \in Tickets |-> IF u \in eligible THEN "pending" ELSE status[u]]
  <2>2. t \notin Reopened(st)
    BY <2>1, ReopensDone
  <2>3. UNCHANGED status \/ ResetRows(eligible \cup Reopened(st))
    BY <1>13 DEF Requeue
  <2> QED
    BY <2>1, <2>2, <2>3 DEF ResetRows
<1>14. CASE OrderRetry
  BY <1>14 DEF OrderRetry, RetryRows
<1>15. CASE OrderRelease
  BY <1>15 DEF OrderRelease, RetryRows
<1>16. CASE OrderDischarge
  BY <1>16 DEF OrderDischarge, RetryRows
<1>17. CASE Go \/ Enter \/ RefuseToStart \/ Stop \/ Pause \/ Resume
  BY <1>17 DEF Go, Enter, RefuseToStart, Stop, Pause, Resume, rowVars, vars, Ask, GiveBack
<1>18. CASE WaitForWindow \/ WindowReopens \/ AskStop \/ AskPause \/ AskResume \/ ToolchainEnds
  BY <1>18 DEF WaitForWindow, WindowReopens, AskStop, AskPause, AskResume, ToolchainEnds, rowVars, vars, Ask, GiveBack
<1>19. CASE RunsOut \/ Dies \/ Crash \/ TakeTicket \/ BacklogExhausted \/ BeginAttempt
  BY <1>19 DEF RunsOut, Dies, Crash, TakeTicket, BacklogExhausted, BeginAttempt, rowVars, vars, Ask, GiveBack
<1>20. CASE AskExecutor \/ InnerTurn \/ AttemptFails \/ WidenScope \/ RefuseRetry \/ OpenCycle
  BY <1>20 DEF AskExecutor, InnerTurn, AttemptFails, WidenScope, RefuseRetry, OpenCycle, rowVars, vars, Ask, GiveBack
<1>21. CASE MeasureTicket \/ KeepWhole \/ AddPieces \/ CountCycle
  BY <1>21 DEF MeasureTicket, KeepWhole, AddPieces, CountCycle, rowVars, vars, Ask, GiveBack
<1>22. CASE UNCHANGED vars
  BY <1>22 DEF vars, rowVars, vars, Ask, GiveBack
<1>23. CASE CloseParents
  BY <1>23, CloseOutcome DEF CloseParents, WriteStatuses
<1>24. CASE Audited \/ LookBehind \/ StopOnGivingUp
  BY <1>24 DEF Audited, LookBehind, StopOnGivingUp, rowVars
<1> QED
  BY <1>1, <1>2, <1>3, <1>4, <1>5, <1>6, <1>7, <1>8, <1>9, <1>10, <1>11, <1>12, <1>13, <1>14, <1>15, <1>16, <1>17, <1>18, <1>19, <1>20, <1>21, <1>22, <1>23, <1>24 DEF Next, LoopStep, OutsideStep, PersonStep

\* Once a planner has called a contract unsatisfiable, the loop keeps the ticket
\* parked until somebody rewrites the contract.
THEOREM VerdictStands == Spec => SettledStaysParked
<1>1. ASSUME IInv, [Next]_vars
      PROVE  [\A t \in Tickets :
                 /\ pc # "down" /\ status[t] = "blocked"
                 /\ impossible[t] = contract[t] /\ contract'[t] = contract[t]
                 => status'[t] = "blocked"]_vars
  BY <1>1, SettledStep
<1> QED
  BY <1>1, Invariance, PTL DEF Spec, SettledStaysParked

=============================================================================
