---------------------------- MODULE Landed_proofs ----------------------------
(***************************************************************************)
(* Proofs about what landed in the run loop: what is done stays done and   *)
(* stands on what it was built on, the backlog is worked to its end, and   *)
(* what a run that returns says of it is so.                               *)
(***************************************************************************)
EXTENDS RunLoop_proofs

USE DEF Tickets

-----------------------------------------------------------------------------
(***************************************************************************)
(* What a step does to the rows: it leaves them, or works the ticket in    *)
(* hand, or is one of a few that are named.                                *)
(***************************************************************************)
RowsKept == UNCHANGED <<present, status, contract, depStamp, everSeen, route>>

\* The ticket in hand is worked: of the rows only its own is written.
Worked ==
    /\ UNCHANGED <<present, route>>
    /\ \A t \in Tickets \ {current} : contract'[t] = contract[t] /\ everSeen'[t] = everSeen[t]
    /\ \E s \in {"pending", "running", "done", "blocked", "failed", "withheld"} :
          /\ status' = [status EXCEPT ![current] = s]
          /\ s = "done" => UNCHANGED contract /\ pc' = "audit"
    /\ depStamp' = [t \in Tickets |-> IF status'[t] = "done" /\ status[t] # "done"
                                        THEN Stamp(t) ELSE depStamp[t]]

Works == \/ Withhold \/ ParkAtGate \/ BeginTicket \/ GiveUp \/ InnerTurn \/ AttemptFails
         \/ WidenScope \/ AttemptBlocks \/ AttemptHalts \/ AttemptPasses

\* A ticket in hand is queued and what it needs has landed.
LEMMA WorksOnQueued ==
    ASSUME IInv, Works
    PROVE  /\ current \in present /\ current \in Tickets
           /\ status[current] \in {"pending", "running"} /\ UnmetNeeds(current) = {}
<1>1. pc \in {"gates", "attempt", "call", "judge"}
  BY DEF Works, Withhold, ParkAtGate, BeginTicket, GiveUp, InnerTurn, AttemptFails,
         WidenScope, AttemptBlocks, AttemptHalts, AttemptPasses, Judging
<1> QED
  BY <1>1, HandInPlan DEF IInv, InHand, WorksOnlyReady

\* What was logged is about the ticket in hand.
LEMMA LogsOwn ==
    ASSUME IInv, LogFailures \/ UNCHANGED everSeen, NEW t \in Tickets \ {current}
    PROVE  everSeen'[t] = everSeen[t]
<1>1. CASE UNCHANGED everSeen
  BY <1>1
<1>2. CASE LogFailures
  BY <1>2 DEF LogFailures, IInv, TypeOK, LogType
<1> QED
  BY <1>1, <1>2

\* Working a ticket writes its own row.
LEMMA WorksRows ==
    ASSUME IInv, Works
    PROVE  Worked
<1> USE WorksOnQueued DEF Worked
<1>0. status \in [Tickets -> TicketStatuses] /\ contract \in [Tickets -> 0..MaxRevision]
      /\ depStamp \in [Tickets -> [Tickets -> {Unstamped} \cup 0..MaxRevision]]
  BY DEF IInv, TypeOK, RowType
<1>1. ASSUME NEW s \in {"pending", "running", "done", "blocked", "failed", "withheld"},
             NEW next, TicketEnds(s, next), UNCHANGED <<present, route>>,
             LogFailures \/ UNCHANGED everSeen,
             \A t \in Tickets \ {current} : contract'[t] = contract[t],
             s = "done" => UNCHANGED contract /\ next = "audit"
      PROVE  Worked
  <2>1. WriteStatuses([status EXCEPT ![current] = s]) /\ pc' = next
    BY <1>1 DEF TicketEnds, Goto
  <2>2. /\ status' = [status EXCEPT ![current] = s]
        /\ depStamp' = [t \in Tickets |-> IF status'[t] = "done" /\ status[t] # "done"
                                            THEN Stamp(t) ELSE depStamp[t]]
    BY <2>1 DEF WriteStatuses
  <2> QED
    BY <1>1, <2>1, <2>2, LogsOwn
<1>2. ASSUME UNCHANGED <<present, route, status, depStamp>>, LogFailures \/ UNCHANGED everSeen,
             \A t \in Tickets \ {current} : contract'[t] = contract[t]
      PROVE  Worked
  <2>1. depStamp' = [t \in Tickets |-> IF status'[t] = "done" /\ status[t] # "done"
                                         THEN Stamp(t) ELSE depStamp[t]]
    BY <1>2, <1>0
  <2>2. status' = [status EXCEPT ![current] = status[current]] /\ status[current] # "done"
    BY <1>2, <1>0
  <2> QED
    BY <1>2, <2>1, <2>2, LogsOwn
<1>3. CASE Withhold
  BY <1>3, <1>1 DEF Withhold, logVars
<1>4. CASE ParkAtGate
  BY <1>4, <1>1 DEF ParkAtGate
<1>5. CASE BeginTicket
  <2>1. LogFailures /\ UNCHANGED <<present, route>>
        /\ \A t \in Tickets \ {current} : contract'[t] = contract[t]
    BY <1>5, <1>0 DEF BeginTicket
  <2>2. CASE WriteStatuses([status EXCEPT ![current] = "running"])
    <3>1. depStamp' = [t \in Tickets |-> IF status'[t] = "done" /\ status[t] # "done"
                                           THEN Stamp(t) ELSE depStamp[t]]
      BY <2>2 DEF WriteStatuses
    <3> QED
      BY <2>1, <2>2, <3>1, LogsOwn DEF WriteStatuses
  <2>3. CASE TicketEnds("pending", "close")
    BY <2>1, <2>3, <1>1
  <2> QED
    BY <1>5, <2>2, <2>3 DEF BeginTicket
<1>6. CASE GiveUp
  BY <1>6, <1>1 DEF GiveUp, logVars
<1>7. CASE InnerTurn
  BY <1>7, <1>2 DEF InnerTurn
<1>8. CASE AttemptFails
  BY <1>8, <1>2 DEF AttemptFails, rowVars
<1>9. CASE WidenScope
  BY <1>9, <1>2, <1>0 DEF WidenScope, logVars
<1>10. CASE AttemptBlocks
  BY <1>10, <1>1 DEF AttemptBlocks
<1>11. CASE AttemptHalts
  BY <1>11, <1>1 DEF AttemptHalts
<1>12. CASE AttemptPasses
  BY <1>12, <1>1 DEF AttemptPasses
<1> QED
  BY <1>3, <1>4, <1>5, <1>6, <1>7, <1>8, <1>9, <1>10, <1>11, <1>12 DEF Works

Rest == \/ StartWorking \/ CloseParents \/ Finish \/ AddPieces \/ HoldGate \/ DecideCycle \/ Respec \/ Requeue
        \/ OrderRetry \/ OrderRelease \/ OrderDischarge

\* Every step keeps the rows, works the ticket in hand, or is one of the others.
LEMMA StepKinds ==
    ASSUME [Next]_vars
    PROVE  RowsKept \/ Works \/ Rest
<1> USE DEF RowsKept, rowVars, logVars
<1>1. CASE Go \/ Enter \/ RefuseToStart \/ Stop \/ Pause \/ Resume \/ WaitForWindow
  BY <1>1 DEF Go, Enter, RefuseToStart, Stop, Pause, Resume, WaitForWindow
<1>2. CASE WindowReopens \/ AskStop \/ AskPause \/ AskResume \/ ToolchainEnds \/ RunsOut
  BY <1>2 DEF WindowReopens, AskStop, AskPause, AskResume, ToolchainEnds, RunsOut, Ask
<1>3. CASE Dies \/ Crash \/ TakeTicket \/ BacklogExhausted \/ BeginAttempt \/ AskExecutor
  BY <1>3 DEF Dies, Crash, TakeTicket, BacklogExhausted, BeginAttempt, AskExecutor
<1>4. CASE RefuseRetry \/ OpenCycle \/ MeasureTicket \/ KeepWhole \/ CountCycle
  BY <1>4 DEF RefuseRetry, OpenCycle, MeasureTicket, KeepWhole, CountCycle
<1>5. CASE Audited \/ LookBehind \/ StopOnGivingUp
  BY <1>5 DEF Audited, LookBehind, StopOnGivingUp
<1>6. CASE UNCHANGED vars
  BY <1>6 DEF vars
<1> QED
  BY <1>1, <1>2, <1>3, <1>4, <1>5, <1>6 DEF Next, LoopStep, OutsideStep, PersonStep, Works, Rest

-----------------------------------------------------------------------------
(***************************************************************************)
(* `_reopen_stale`: what is left done is up to date, and nothing is stale  *)
(* where everything is.                                                    *)
(***************************************************************************)
\* What is done and not stale stands on what is done, not stale and unchanged.
LEMMA FreshStands ==
    ASSUME NEW st, NEW t \in present, st[t] = "done", t \notin StaleDependents(st),
           NEW d \in Needs[t] \cap present
    PROVE  st[d] = "done" /\ d \notin StaleDependents(st) /\ depStamp[t][d] = contract[d]
<1> DEFINE done == {u \in present : st[u] = "done"}
           moved(u, X) == \E e \in Needs[u] \cap present :
                             \/ st[e] # "done"
                             \/ e \in X
                             \/ depStamp[u][e] # contract[e]
           closed(X) == \A u \in done : moved(u, X) => u \in X
<1>1. StaleDependents(st) = {u \in done : \A X \in SUBSET done : closed(X) => u \in X}
  BY DEF StaleDependents
<1>2. PICK X \in SUBSET done : closed(X) /\ t \notin X
  BY <1>1
<1>3. ~moved(t, X)
  BY <1>2
<1>4. d \notin StaleDependents(st)
  BY <1>1, <1>2, <1>3
<1> QED
  BY <1>3, <1>4

\* Where every done ticket is up to date there is nothing to reopen.
LEMMA NothingStale ==
    ASSUME NEW st,
           \A t \in present : st[t] = "done" => \A d \in Needs[t] \cap present :
               st[d] = "done" /\ depStamp[t][d] = contract[d]
    PROVE  Reopened(st) = {}
<1> DEFINE done == {u \in present : st[u] = "done"}
           moved(u, X) == \E e \in Needs[u] \cap present :
                             \/ st[e] # "done"
                             \/ e \in X
                             \/ depStamp[u][e] # contract[e]
           closed(X) == \A u \in done : moved(u, X) => u \in X
<1>1. StaleDependents(st) = {u \in done : \A X \in SUBSET done : closed(X) => u \in X}
  BY DEF StaleDependents
<1>2. closed({})
  OBVIOUS
<1>3. {} \in SUBSET done
  OBVIOUS
<1> HIDE DEF closed
<1>4. StaleDependents(st) = {}
  BY <1>1, <1>2, <1>3
<1> QED
  BY <1>4 DEF Reopened

\* A parent is closed only over pieces that all landed, and a ticket that is no
\* open gate keeps its status.
LEMMA Closing ==
    ASSUME NEW st, NEW p \in Tickets, st[p] = "split", CloseSplitParents(st)[p] = "done"
    PROVE  ChildrenOf(p) # {} /\ \A c \in ChildrenOf(p) : st[c] = "done"
BY DEF CloseSplitParents

\* A plan without pieces has nothing to close, and all its rows from the start.
LEMMA NoPieces ==
    ASSUME IInv, Children = {}
    PROVE  /\ present = Tickets
           /\ \A p \in Tickets : ChildrenOf(p) = {}
           /\ \A st \in [Tickets -> TicketStatuses] : CloseSplitParents(st) = st
BY DEF IInv, TypeOK, RowType, ChildrenOf, CloseSplitParents

-----------------------------------------------------------------------------
(***************************************************************************)
(* What is done is up to date.  Closing a gate is the one way a ticket     *)
(* lands that is not in hand, so a gate must stand on what landed.         *)
(***************************************************************************)
GatesReady == Children = {} \/ \A p \in present : status[p] = "split" => UnmetNeeds(p) = {}

AllUpToDate == \A t \in Done : UpToDate(t)

\* What is done stays up to date when nothing done is undone or rewritten and
\* what lands is ready.
LEMMA StaysUpToDate ==
    ASSUME IInv, AllUpToDate, [Next]_vars, present \subseteq present',
           \A t \in Tickets : contract'[t] # contract[t] => status[t] # "done",
           Done \subseteq Done',
           \A t \in Done : depStamp'[t] = depStamp[t],
           \A t \in Done' \ Done : /\ UnmetNeeds(t) = {} /\ depStamp'[t] = Stamp(t)
                                   /\ \A d \in Needs[t] : contract'[d] = contract[d]
    PROVE  AllUpToDate'
<1> SUFFICES ASSUME NEW t \in Done', NEW d \in Needs[t]
             PROVE  d \in Done' /\ depStamp'[t][d] = contract'[d]
  BY DEF AllUpToDate, UpToDate
<1>1. t \in Tickets /\ d \in Tickets
  BY ShapeAssumption, TypeStep DEF Done, TypeOK, RowType
<1>2. CASE t \in Done
  <2>1. d \in Done /\ depStamp[t][d] = contract[d]
    BY <1>2 DEF AllUpToDate, UpToDate
  <2>2. contract'[d] = contract[d]
    BY <2>1, <1>1 DEF Done
  <2> QED
    BY <1>2, <2>1, <2>2
<1>3. CASE t \notin Done
  <2>1. UnmetNeeds(t) = {} /\ depStamp'[t] = Stamp(t) /\ contract'[d] = contract[d]
    BY <1>3
  <2>2. d \in Done
    BY <2>1 DEF UnmetNeeds
  <2>3. Stamp(t)[d] = contract[d]
    BY <2>2, <1>1 DEF Stamp, Done
  <2> QED
    BY <2>1, <2>2, <2>3
<1> QED
  BY <1>2, <1>3

\* What is written off or taken back by a cycle, by `forge retry` or by a
\* release had not landed.
LEMMA NotDone ==
    ASSUME NEW t \in Tickets, status[t] = "done"
    PROVE  /\ IInv /\ pc \in Deciding \ {"count"} => t \notin eligible
           /\ t \notin InStatus(Retryable) /\ t \notin InStatus({"withheld"})
BY DEF IInv, Verdicts, Retryable, InStatus

\* The statuses a cycle is about to requeue leave nothing stale.
LEMMA RequeuedFresh ==
    ASSUME IInv, pc = "requeue", AllUpToDate
    PROVE  Reopened([t \in Tickets |-> IF t \in eligible THEN "pending" ELSE status[t]]) = {}
<1> DEFINE st == [t \in Tickets |-> IF t \in eligible THEN "pending" ELSE status[t]]
<1>1. ASSUME NEW t \in present, st[t] = "done", NEW d \in Needs[t] \cap present
      PROVE  st[d] = "done" /\ depStamp[t][d] = contract[d]
  <2>1. t \in Tickets /\ d \in Tickets /\ status[t] = "done"
    BY <1>1 DEF IInv, TypeOK, RowType
  <2>2. d \in Done /\ depStamp[t][d] = contract[d]
    BY <1>1, <2>1 DEF AllUpToDate, UpToDate, Done
  <2>3. d \notin eligible
    BY <2>1, <2>2, NotDone DEF Done, Deciding
  <2> QED
    BY <2>1, <2>2, <2>3 DEF Done
<1> HIDE DEF st
<1>2. Reopened(st) = {}
  BY <1>1, NothingStale
<1> QED
  BY <1>2 DEF st

\* Where everything done is up to date the start of a run reopens nothing.
LEMMA StartFresh ==
    ASSUME IInv, AllUpToDate
    PROVE  Reopened(status) = {}
BY NothingStale DEF AllUpToDate, UpToDate, Done, IInv, TypeOK, RowType

\* No ticket that landed is undone, but by a person.
LEMMA DoneStays ==
    ASSUME IInv, [Next]_vars, AllUpToDate \/ ~ReopenStaleDependents, pc # "down" \/ OnlyForward,
           NEW t \in Tickets, status[t] = "done"
    PROVE  status'[t] = "done"
<1>1. CASE RowsKept
  BY <1>1 DEF RowsKept
<1>2. CASE Works
  <2>1. t # current
    BY <1>2, WorksOnQueued
  <2>2. PICK s : status' = [status EXCEPT ![current] = s]
    BY <1>2, WorksRows DEF Worked
  <2> QED
    BY <2>1, <2>2 DEF IInv, TypeOK, RowType
<1>3. CASE StartWorking
  <2>1. Reopened(status) = {}
    BY StartFresh DEF Reopened
  <2> QED
    BY <1>3, <2>1 DEF StartWorking
<1>4. CASE Finish
  <2>1. CloseSplitParents(status)[t] = "done"
    BY CloseOutcome
  <2> QED
    BY <1>4, <2>1, ParkOutcome DEF Finish, WriteStatuses
<1>5. CASE AddPieces
  BY <1>5 DEF AddPieces
<1>6. CASE HoldGate
  BY <1>6, NotDone DEF HoldGate, IInv, InHand, Deciding, TypeOK, RowType
<1>7. CASE DecideCycle
  BY <1>7, NotDone DEF DecideCycle, Deciding
<1>8. CASE Respec
  BY <1>8, NotDone DEF Respec, Deciding
<1>9. CASE Requeue
  <2> DEFINE st == [u \in Tickets |-> IF u \in eligible THEN "pending" ELSE status[u]]
  <2>1. pc = "requeue" /\ (UNCHANGED status \/ ResetRows(eligible \cup Reopened(st)))
    BY <1>9 DEF Requeue
  <2>2. Reopened(st) = {}
    BY <2>1, RequeuedFresh DEF Reopened
  <2>3. t \notin eligible
    BY <2>1, NotDone DEF Deciding
  <2> HIDE DEF st
  <2> QED
    BY <2>1, <2>2, <2>3 DEF ResetRows
<1>10. CASE OrderRetry
  <2>1. RetryRows(InStatus(Retryable))
    BY <1>10 DEF OrderRetry, OnlyForward, Order, RetryRows
  <2> QED
    BY <2>1, NotDone DEF RetryRows, ResetRows
<1>11. CASE OrderRelease
  <2>1. \E u \in present : ResetRows({u} \cap InStatus({"withheld"}))
    BY <1>11 DEF OrderRelease
  <2> QED
    BY <2>1, NotDone DEF ResetRows
<1>12. CASE OrderDischarge
  BY <1>12 DEF OrderDischarge, OnlyForward, Order
<1>13. CASE CloseParents
  BY <1>13, CloseOutcome DEF CloseParents, WriteStatuses
<1> QED
  BY <1>1, <1>2, <1>3, <1>4, <1>5, <1>6, <1>7, <1>8, <1>9, <1>10, <1>11, <1>12, <1>13, StepKinds
     DEF Rest

\* What a step writes into the contracts is about tickets that have not landed.
LEMMA RewritesUndone ==
    ASSUME IInv, [Next]_vars, NEW t \in Tickets, status[t] = "done"
    PROVE  contract'[t] = contract[t]
<1>1. CASE Works
  BY <1>1, WorksOnQueued, WorksRows DEF Worked
<1>2. CASE Respec
  BY <1>2, NotDone DEF Respec, Deciding
<1>3. CASE RowsKept \/ (Rest /\ ~Respec)
  BY <1>3 DEF RowsKept, Rest, StartWorking, CloseParents, Finish, AddPieces, HoldGate, DecideCycle,
              Requeue, OrderRetry, OrderRelease, OrderDischarge, RetryRows
<1> QED
  BY <1>1, <1>2, <1>3, StepKinds DEF Rest

\* A gate that closes stands on what landed, like any ticket in hand.
LEMMA ClosesReady ==
    ASSUME IInv, GatesReady, NEW st \in [Tickets -> TicketStatuses],
           NEW t \in present, st[t] # "done", CloseSplitParents(st)[t] = "done",
           st[t] = "split" => status[t] = "split"
    PROVE  UnmetNeeds(t) = {}
<1>1. t \in Tickets
  BY DEF IInv, TypeOK, RowType
<1>2. CASE Children = {}
  BY <1>2, NoPieces
<1>3. CASE Children # {}
  BY <1>1, <1>3, CloseOutcome DEF GatesReady
<1> QED
  BY <1>2, <1>3

\* A ticket that lands is ready, and the stamp it is given is of what it needs.
LEMMA LandsReady ==
    ASSUME IInv, [Next]_vars, GatesReady, pc # "down" \/ OnlyForward,
           NEW t \in Done', t \notin Done, t \in present
    PROVE  /\ UnmetNeeds(t) = {} /\ depStamp'[t] = Stamp(t)
           /\ \A d \in Needs[t] : contract'[d] = contract[d]
<1> USE DEF Done
<1>0. /\ t \in Tickets /\ status[t] # "done" /\ status'[t] = "done"
      /\ status \in [Tickets -> TicketStatuses] /\ Needs[t] \subseteq Tickets
  BY ShapeAssumption DEF IInv, TypeOK, RowType
<1>1. ASSUME UnmetNeeds(t) = {}
      PROVE  \A d \in Needs[t] : contract'[d] = contract[d]
  BY <1>0, <1>1, RewritesUndone DEF UnmetNeeds
<1>2. CASE Works
  <2>1. current \in Tickets /\ status[current] \in {"pending", "running"} /\ UnmetNeeds(current) = {}
        /\ depStamp'[t] = Stamp(t)
    BY <1>0, <1>2, WorksOnQueued, WorksRows DEF Worked
  <2>2. PICK s : status' = [status EXCEPT ![current] = s]
    BY <1>2, WorksRows DEF Worked
  <2>3. t = current
    BY <1>0, <2>2
  <2> QED
    BY <1>1, <2>1, <2>3
<1>3. CASE Finish
  <2>1. WriteStatuses(ParkUnreachable(CloseSplitParents(status)))
    BY <1>3 DEF Finish
  <2>2. CloseSplitParents(status)[t] = "done" /\ depStamp'[t] = Stamp(t)
    BY <1>0, <2>1, ParkOutcome DEF WriteStatuses
  <2>3. UnmetNeeds(t) = {}
    BY <1>0, <2>2, ClosesReady
  <2> QED
    BY <1>1, <2>2, <2>3
<1>4. CASE RowsKept \/ StartWorking \/ AddPieces \/ HoldGate \/ DecideCycle \/ Respec
  BY <1>0, <1>4 DEF RowsKept, StartWorking, AddPieces, HoldGate, DecideCycle, Respec
<1>5. CASE Requeue \/ OrderRetry \/ OrderRelease
  BY <1>0, <1>5 DEF Requeue, OrderRetry, OrderRelease, RetryRows, ResetRows
<1>6. CASE OrderDischarge
  BY <1>6 DEF OrderDischarge, OnlyForward, Order
<1>7. CASE CloseParents
  <2>1. CloseSplitParents(status)[t] = "done" /\ depStamp'[t] = Stamp(t)
    BY <1>0, <1>7 DEF CloseParents, WriteStatuses
  <2>2. UnmetNeeds(t) = {}
    BY <1>0, <2>1, ClosesReady
  <2> QED
    BY <1>1, <2>1, <2>2
<1> QED
  BY <1>2, <1>3, <1>4, <1>5, <1>6, <1>7, StepKinds DEF Rest

\* The run only ever grows, and a stamp is written when a ticket lands.
LEMMA RunGrows ==
    ASSUME IInv, [Next]_vars
    PROVE  /\ present \subseteq present'
           /\ \A t \in Done : depStamp'[t] = depStamp[t]
           /\ present' # present => AddPieces
<1>1. CASE RowsKept
  BY <1>1 DEF RowsKept
<1>2. CASE Works
  BY <1>2, WorksRows DEF Worked, Done, IInv, TypeOK, RowType
<1>3. CASE CloseParents \/ Finish \/ OrderDischarge
  BY <1>3 DEF CloseParents, Finish, OrderDischarge, WriteStatuses, Done, IInv, TypeOK, RowType
<1>4. CASE StartWorking \/ AddPieces \/ HoldGate \/ DecideCycle \/ Respec \/ Requeue
  BY <1>4 DEF StartWorking, AddPieces, HoldGate, DecideCycle, Respec, Requeue
<1>5. CASE OrderRetry \/ OrderRelease
  BY <1>5 DEF OrderRetry, OrderRelease, RetryRows
<1> QED
  BY <1>1, <1>2, <1>3, <1>4, <1>5, StepKinds DEF Rest

\* Pieces that are added have not landed.
LEMMA AddsPending ==
    ASSUME IInv, [Next]_vars, Children = {} \/ Rows, NEW t \in present' \ present
    PROVE  status'[t] = "pending"
<1>1. CASE Children = {}
  BY <1>1, NoPieces, TypeStep DEF IInv, TypeOK, RowType
<1>2. CASE Rows
  BY <1>2, RunGrows, TypeStep DEF AddPieces, Rows, TypeOK, RowType
<1> QED
  BY <1>1, <1>2

\* Every step but a person's undoing keeps what is done up to date.
LEMMA UpToDateStep ==
    ASSUME IInv, [Next]_vars, Children = {} \/ Rows, GatesReady, AllUpToDate,
           pc # "down" \/ OnlyForward
    PROVE  AllUpToDate'
<1>1. Done \subseteq Done'
  BY DoneStays, RunGrows DEF Done, IInv, TypeOK, RowType
<1>2. \A t \in Done' \ Done : t \in present
  BY AddsPending DEF Done
<1>3. \A t \in Done' \ Done : /\ UnmetNeeds(t) = {} /\ depStamp'[t] = Stamp(t)
                               /\ \A d \in Needs[t] : contract'[d] = contract[d]
  BY <1>2, LandsReady
<1> QED
  BY <1>1, <1>3, RewritesUndone, RunGrows, StaysUpToDate

-----------------------------------------------------------------------------
(***************************************************************************)
(* Plans nothing is split in: whatever a person did between two runs, the  *)
(* start of a run reopens what no longer stands.                           *)
(***************************************************************************)
\* What `_reopen_stale` leaves done is up to date.
LEMMA StartRefreshes ==
    ASSUME IInv, Children = {}, ReopenStaleDependents, StartWorking
    PROVE  AllUpToDate'
<1> SUFFICES ASSUME NEW t \in Done', NEW d \in Needs[t]
             PROVE  d \in Done' /\ depStamp'[t][d] = contract'[d]
  BY DEF AllUpToDate, UpToDate
<1> DEFINE stale == StaleDependents(status)
<1>1. /\ present' = present /\ depStamp' = depStamp /\ contract' = contract
      /\ status' = [u \in Tickets |-> IF u \in stale THEN "pending" ELSE status[u]]
  BY DEF StartWorking, Reopened
<1>2. present = Tickets /\ t \in Tickets /\ d \in Tickets
  BY <1>1, NoPieces, ShapeAssumption DEF Done, IInv, TypeOK, RowType
<1> HIDE DEF stale
<1>3. t \notin stale /\ status[t] = "done"
  BY <1>1, <1>2 DEF Done
<1>4. status[d] = "done" /\ d \notin stale /\ depStamp[t][d] = contract[d]
  BY <1>2, <1>3, FreshStands DEF stale
<1> QED
  BY <1>1, <1>2, <1>4 DEF Done

\* Only the start of a run leads into the loop.
LEMMA Entering ==
    ASSUME [Next]_vars, pc \in {"down", "servers", "start"}
    PROVE  pc' \in {"down", "servers", "start"} \/ StartWorking
<1>1. CASE RowsKept
  BY <1>1 DEF Next, LoopStep, OutsideStep, PersonStep, vars, Go, Enter, RefuseToStart, Stop, Pause,
      Resume, WaitForWindow, WindowReopens, AskStop, AskPause, AskResume, ToolchainEnds, RunsOut,
      Dies, Crash, TakeTicket, BacklogExhausted, BeginAttempt, AskExecutor, RefuseRetry, OpenCycle,
      MeasureTicket, KeepWhole, CountCycle, Goto, Leave, Ask, GiveBack, PreflightFails,
      BaselineCannotRun, BaselineRed, CanaryFails, AtTop, Listening, Asking, Withhold, ParkAtGate,
      BeginTicket, GiveUp, InnerTurn, AttemptFails, WidenScope, AttemptBlocks, AttemptHalts,
      AttemptPasses, Judging, Audited, LookBehind, StopOnGivingUp, CloseParents, Finish, AddPieces, HoldGate, DecideCycle, Respec, Requeue,
      OrderRetry, OrderRelease, OrderDischarge, RetryRows
<1>2. CASE Works
  BY <1>2 DEF Works, Withhold, ParkAtGate, BeginTicket, GiveUp, InnerTurn, AttemptFails,
              WidenScope, AttemptBlocks, AttemptHalts, AttemptPasses, Judging
<1>3. CASE Rest
  BY <1>3 DEF Rest, CloseParents, Finish, AddPieces, HoldGate, DecideCycle, Respec, Requeue,
              OrderRetry, OrderRelease, OrderDischarge, RetryRows
<1> QED
  BY <1>1, <1>2, <1>3, StepKinds

\* In a plan nothing is split in, what is done is current from the start of a
\* run to its end.
LEMMA CurrentStep ==
    ASSUME IInv, [Next]_vars, Children = {}, DoneIsCurrent
    PROVE  DoneIsCurrent'
<1> SUFFICES ASSUME pc' \notin {"down", "servers", "start"}, ReopenStaleDependents
             PROVE  AllUpToDate'
  BY DEF DoneIsCurrent, AllUpToDate
<1>1. CASE pc \in {"down", "servers", "start"}
  BY <1>1, Entering, StartRefreshes
<1>2. CASE pc \notin {"down", "servers", "start"}
  BY <1>2, UpToDateStep DEF DoneIsCurrent, AllUpToDate, GatesReady
<1> QED
  BY <1>1, <1>2

-----------------------------------------------------------------------------
(***************************************************************************)
(* While nobody undoes what landed: the rows, what landed, the gates.      *)
(***************************************************************************)
\* Rows nobody added stay as a decomposition will find them, and what is added
\* comes with what it needs.
LEMMA RowsStep ==
    ASSUME IInv, [Next]_vars, Rows
    PROVE  Rows'
<1>0. /\ present \subseteq Tickets /\ status \in [Tickets -> TicketStatuses]
      /\ everSeen \in [Tickets -> SUBSET Classes] /\ present \subseteq present'
      /\ Needs \in [Tickets -> SUBSET Tickets]
  BY RunGrows, ShapeAssumption DEF IInv, TypeOK, RowType, LogType
<1>1. ASSUME NEW t \in Tickets, t \notin present'
      PROVE  status'[t] = "pending" /\ everSeen'[t] = {}
  <2>0. t \notin present /\ status[t] = "pending" /\ everSeen[t] = {}
    BY <1>0, <1>1 DEF Rows
  <2>1. CASE RowsKept
    BY <2>0, <2>1 DEF RowsKept
  <2>2. CASE Works
    <3>1. t # current /\ current \in Tickets
      BY <2>0, <2>2, WorksOnQueued
    <3>2. (\E s : status' = [status EXCEPT ![current] = s]) /\ everSeen'[t] = everSeen[t]
      BY <2>2, <3>1, WorksRows DEF Worked
    <3> QED
      BY <1>0, <2>0, <3>1, <3>2
  <2>3. CASE Finish
    <3>1. CloseSplitParents(status)[t] = "pending"
      BY <2>0, CloseOutcome
    <3>2. ParkUnreachable(CloseSplitParents(status))[t] = "pending"
      BY <2>0, <3>1 DEF ParkUnreachable
    <3> QED
      BY <2>0, <2>3, <3>2 DEF Finish, WriteStatuses, logVars
  <2>4. CASE StartWorking \/ AddPieces \/ Requeue
    BY <2>0, <2>4 DEF StartWorking, AddPieces, Requeue, ResetRows, logVars
  <2>5. CASE HoldGate \/ DecideCycle \/ Respec
    BY <1>0, <2>0, <2>5 DEF HoldGate, DecideCycle, Respec, logVars, IInv, InHand
  <2>6. CASE OrderRetry \/ OrderRelease \/ OrderDischarge
    BY <1>0, <2>0, <2>6 DEF OrderRetry, OrderRelease, OrderDischarge, RetryRows, ResetRows,
                            WriteStatuses, logVars
  <2>7. CASE CloseParents
    BY <2>0, <2>7, CloseOutcome DEF CloseParents, WriteStatuses, logVars
  <2> QED
    BY <2>1, <2>2, <2>3, <2>4, <2>5, <2>6, <2>7, StepKinds DEF Rest
<1>2. ASSUME NEW t \in present'
      PROVE  Needs[t] \subseteq present'
  <2>1. CASE t \in present
    BY <1>0, <2>1 DEF Rows
  <2>2. CASE t \notin present
    <3>1. present' = present \cup PiecesOf(current)
      BY <1>2, <2>2, RunGrows DEF AddPieces
    <3>2. t \in Children /\ ParentOf[t] = current
      BY <1>2, <2>2, <3>1 DEF PiecesOf
    <3>3. \A d \in Needs[t] : d \in Children /\ ParentOf[d] = current
      BY <3>2, ShapeAssumption
    <3> QED
      BY <3>1, <3>3 DEF PiecesOf
  <2> QED
    BY <2>1, <2>2
<1> QED
  BY <1>1, <1>2 DEF Rows

\* Taken into consideration for a split is a ticket that failed on enough.
LEMMA Considering ==
    ASSUME IInv, [Next]_vars, pc' \in {"consider", "split"}
    PROVE  \/ /\ MeasureTicket /\ pc' = "consider" /\ current' \in Plan
              /\ everSeen'[current'] # {}
              /\ PiecesOf(current') # {} /\ PiecesOf(current') \cap present' = {}
           \/ pc = "consider" /\ pc' = "split" /\ AddPieces /\ current' = current
           \/ RowsKept /\ pc' = pc /\ current' = current
<1>1. CASE MeasureTicket
  <2>1. PICK t \in eligible \ measured :
             /\ UNCHANGED <<present, everSeen>>
             /\ IF Splittable(t) THEN pc' = "consider" /\ current' = t
                                 ELSE UNCHANGED <<pc, current>>
    BY <1>1 DEF MeasureTicket, rowVars
  <2>2. Splittable(t) /\ current' = t /\ pc' = "consider"
    BY <1>1, <2>1 DEF MeasureTicket
  <2>3. everSeen[t] # {}
    BY <2>2, FS_EmptySet, SettingsAssumption DEF Splittable
  <2> QED
    BY <1>1, <2>1, <2>2, <2>3 DEF Splittable
<1>2. CASE AddPieces
  BY <1>2 DEF AddPieces, memoryVars
<1>3. CASE Pause \/ Resume \/ WaitForWindow \/ WindowReopens \/ AskStop \/ AskPause \/ AskResume
  BY <1>3 DEF Pause, Resume, WaitForWindow, WindowReopens, AskStop, AskPause, AskResume, Ask,
              RowsKept, rowVars, logVars, memoryVars
<1>4. CASE UNCHANGED vars
  BY <1>4 DEF vars, RowsKept, rowVars, logVars, memoryVars
<1>5. CASE Go \/ Enter \/ RefuseToStart \/ Stop \/ ToolchainEnds \/ RunsOut \/ Dies \/ Crash
  BY <1>5 DEF Go, Enter, RefuseToStart, Stop, ToolchainEnds, RunsOut, Dies, Crash, Goto, Leave,
              PreflightFails, BaselineCannotRun, BaselineRed, CanaryFails
<1>6. CASE TakeTicket \/ BacklogExhausted \/ BeginAttempt \/ AskExecutor \/ RefuseRetry
           \/ OpenCycle \/ KeepWhole \/ CountCycle
  BY <1>6 DEF TakeTicket, BacklogExhausted, BeginAttempt, AskExecutor, RefuseRetry, OpenCycle,
              KeepWhole, CountCycle, Goto, GiveBack
<1>7. CASE Works
  BY <1>7 DEF Works, Withhold, ParkAtGate, BeginTicket, GiveUp, InnerTurn, AttemptFails,
              WidenScope, AttemptBlocks, AttemptHalts, AttemptPasses, Judging, TicketEnds, Goto
<1>8. CASE Rest /\ ~AddPieces
  BY <1>8 DEF Rest, StartWorking, CloseParents, Finish, HoldGate, DecideCycle, Respec, Requeue, OrderRetry,
              OrderRelease, OrderDischarge, RetryRows, Goto, Leave, GiveBack
<1>9. CASE Audited \/ LookBehind \/ StopOnGivingUp
  BY <1>9 DEF Audited, LookBehind, StopOnGivingUp, Goto, Leave
<1> QED
  BY <1>1, <1>2, <1>3, <1>4, <1>5, <1>6, <1>7, <1>8, <1>9
     DEF Next, LoopStep, OutsideStep, PersonStep, Works, Rest

\* A ticket becomes running, split or evidence only where it is ready.
LEMMA WorkedReady ==
    ASSUME IInv, [Next]_vars, Landed, NEW t \in present,
           status'[t] \in {"running", "split"} \/ everSeen'[t] # {}
    PROVE  UnmetNeeds(t) = {}
<1>0. t \in Tickets /\ status \in [Tickets -> TicketStatuses]
  BY DEF IInv, TypeOK, RowType
<1>1. ASSUME status'[t] = status[t] \/ status'[t] \notin {"running", "split"},
             everSeen'[t] = everSeen[t]
      PROVE  UnmetNeeds(t) = {}
  BY <1>1 DEF Landed
<1>2. CASE RowsKept
  BY <1>1, <1>2 DEF RowsKept
<1>3. CASE Works
  <2>1. CASE t = current
    BY <1>3, <2>1, WorksOnQueued
  <2>2. CASE t # current
    <3>1. (\E s : status' = [status EXCEPT ![current] = s]) /\ everSeen'[t] = everSeen[t]
      BY <1>0, <1>3, <2>2, WorksRows DEF Worked
    <3> QED
      BY <1>0, <1>1, <2>2, <3>1
  <2> QED
    BY <2>1, <2>2
<1>4. CASE Finish
  <2>1. CloseSplitParents(status)[t] = status[t] \/ CloseSplitParents(status)[t] \in {"done", "blocked"}
    BY <1>0, CloseOutcome
  <2>2. status'[t] = status[t] \/ status'[t] \in {"done", "blocked", "skipped"}
    BY <1>0, <1>4, <2>1, ParkOutcome DEF Finish, WriteStatuses
  <2> QED
    BY <1>1, <1>4, <2>2 DEF Finish, logVars
<1>5. CASE HoldGate
  BY <1>0, <1>1, <1>5 DEF HoldGate, logVars, Landed
<1>6. CASE StartWorking \/ AddPieces \/ DecideCycle \/ Respec \/ Requeue
  BY <1>0, <1>1, <1>6 DEF StartWorking, AddPieces, DecideCycle, Respec, Requeue, ResetRows, logVars
<1>7. CASE OrderRetry \/ OrderRelease \/ OrderDischarge
  BY <1>0, <1>1, <1>7 DEF OrderRetry, OrderRelease, OrderDischarge, RetryRows, ResetRows,
                          WriteStatuses, logVars
<1>8. CASE CloseParents
  <2>1. status'[t] = status[t] \/ status'[t] \in {"done", "blocked"}
    BY <1>0, <1>8, CloseOutcome DEF CloseParents, WriteStatuses
  <2> QED
    BY <1>1, <1>8, <2>1 DEF CloseParents, logVars
<1> QED
  BY <1>2, <1>3, <1>4, <1>5, <1>6, <1>7, <1>8, StepKinds DEF Rest

\* What landed stays, stands on what landed, and holds up what was worked.
LEMMA LandedStep ==
    ASSUME IInv, [Next]_vars, OnlyForward, Rows, Landed
    PROVE  Landed'
<1>1. AllUpToDate /\ GatesReady
  BY DEF Landed, AllUpToDate, GatesReady
<1>2. AllUpToDate'
  BY <1>1, UpToDateStep
<1>3. Done \subseteq Done'
  BY <1>1, DoneStays, RunGrows DEF Done, IInv, TypeOK, RowType
<1>4. ASSUME NEW t \in present', status'[t] \in {"running", "split"} \/ everSeen'[t] # {}
      PROVE  UnmetNeeds(t)' = {}
  <2>1. CASE t \in present
    BY <1>3, <1>4, <2>1, WorkedReady DEF UnmetNeeds
  <2>2. CASE t \notin present
    <3>1. status'[t] = "pending" /\ AddPieces
      BY <2>2, AddsPending, RunGrows
    <3>2. t \in Tickets /\ everSeen'[t] = everSeen[t] /\ everSeen[t] = {}
      BY <2>2, <3>1, TypeStep DEF AddPieces, logVars, Rows, TypeOK, RowType
    <3> QED
      BY <1>4, <3>1, <3>2
  <2> QED
    BY <2>1, <2>2
<1>5. ASSUME pc' \in {"consider", "split"}
      PROVE  everSeen'[current'] # {}
  BY <1>5, Considering DEF Landed, RowsKept, AddPieces, logVars
<1> QED
  BY <1>2, <1>4, <1>5 DEF Landed, AllUpToDate

\* A piece of a split is never split itself.
LEMMA PiecesAreWhole ==
    ASSUME NEW c \in Children
    PROVE  ChildrenOf(c) = {} /\ \A st : CloseSplitParents(st)[c] = st[c]
<1>1. ChildrenOf(c) = {}
  BY ShapeAssumption DEF ChildrenOf
<1> QED
  BY <1>1 DEF CloseSplitParents

\* A parent left at its gate has a piece that has not landed.
LEMMA StillShut ==
    ASSUME NEW st, NEW p \in Tickets, CloseSplitParents(st)[p] = "split", ChildrenOf(p) # {}
    PROVE  \E c \in ChildrenOf(p) : st[c] # "done"
BY DEF CloseSplitParents

\* A ticket is split in one place only.
LEMMA SplitsAt ==
    ASSUME IInv, [Next]_vars, Rows, NEW p \in present', status'[p] = "split"
    PROVE  /\ p \in present /\ p \in Tickets
           /\ status[p] = "split" \/ (HoldGate /\ p = current)
<1>0. /\ status \in [Tickets -> TicketStatuses] /\ present \subseteq Tickets
      /\ p \in present /\ p \in Tickets
  BY AddsPending DEF IInv, TypeOK, RowType
<1>1. CASE RowsKept
  BY <1>0, <1>1 DEF RowsKept
<1>2. CASE Works
  BY <1>0, <1>2, WorksRows DEF Worked
<1>3. CASE CloseParents
  BY <1>0, <1>3, CloseOutcome DEF CloseParents, WriteStatuses
<1>4. CASE Finish
  BY <1>0, <1>4, CloseOutcome, ParkOutcome DEF Finish, WriteStatuses
<1>5. CASE StartWorking \/ AddPieces \/ HoldGate \/ DecideCycle \/ Respec \/ Requeue
  BY <1>0, <1>5 DEF StartWorking, AddPieces, HoldGate, DecideCycle, Respec, Requeue, ResetRows
<1>6. CASE OrderRetry \/ OrderRelease \/ OrderDischarge
  BY <1>0, <1>6 DEF OrderRetry, OrderRelease, OrderDischarge, RetryRows, ResetRows, WriteStatuses
<1> QED
  BY <1>0, <1>1, <1>2, <1>3, <1>4, <1>5, <1>6, StepKinds DEF Rest

\* A piece lands in one place only: in hand, on a pass.
LEMMA PieceLands ==
    ASSUME IInv, [Next]_vars, OnlyForward, NEW c \in Children, status[c] # "done",
           status'[c] = "done"
    PROVE  pc' = "audit"
<1>0. status \in [Tickets -> TicketStatuses] /\ c \in Tickets
  BY DEF IInv, TypeOK, RowType
<1>1. CASE RowsKept
  BY <1>1 DEF RowsKept
<1>2. CASE Works
  BY <1>0, <1>2, WorksRows DEF Worked
<1>3. CASE CloseParents
  BY <1>0, <1>3, PiecesAreWhole DEF CloseParents, WriteStatuses
<1>4. CASE Finish
  BY <1>0, <1>4, PiecesAreWhole, ParkOutcome DEF Finish, WriteStatuses
<1>5. CASE StartWorking \/ AddPieces \/ HoldGate \/ DecideCycle \/ Respec \/ Requeue
  BY <1>0, <1>5 DEF StartWorking, AddPieces, HoldGate, DecideCycle, Respec, Requeue, ResetRows
<1>6. CASE OrderRetry \/ OrderRelease \/ OrderDischarge
  BY <1>0, <1>6 DEF OrderRetry, OrderRelease, OrderDischarge, RetryRows, ResetRows, OnlyForward, Order
<1> QED
  BY <1>1, <1>2, <1>3, <1>4, <1>5, <1>6, StepKinds DEF Rest

\* Where nobody may stop a run the channel never says stop.
LEMMA NeverStopped ==
    ASSUME [Next]_vars, Unbroken, control # "stop"
    PROVE  control' # "stop"
<1>1. CASE Go \/ Enter \/ RefuseToStart \/ StartWorking \/ Stop \/ Resume \/ WindowReopens
           \/ Pause \/ WaitForWindow \/ RunsOut \/ Dies \/ Crash \/ ToolchainEnds
  BY <1>1 DEF Go, Enter, RefuseToStart, StartWorking, Stop, Resume, WindowReopens, Pause,
     WaitForWindow, RunsOut, Dies, Crash, ToolchainEnds, runVars
<1>2. CASE TakeTicket \/ BacklogExhausted \/ BeginAttempt \/ AskExecutor \/ RefuseRetry \/ OpenCycle
           \/ MeasureTicket \/ KeepWhole \/ AddPieces \/ HoldGate \/ CountCycle
  BY <1>2 DEF TakeTicket, BacklogExhausted, BeginAttempt, AskExecutor, RefuseRetry, OpenCycle,
     MeasureTicket, KeepWhole, AddPieces, HoldGate, CountCycle, runVars
<1>3. CASE Finish \/ DecideCycle \/ Respec \/ Requeue \/ Audited \/ LookBehind \/ StopOnGivingUp
           \/ CloseParents
  BY <1>3 DEF Finish, DecideCycle, Respec, Requeue, Audited, LookBehind, StopOnGivingUp, CloseParents,
     runVars
<1>4. CASE Works
  BY <1>4 DEF Works, Withhold, ParkAtGate, BeginTicket, GiveUp, InnerTurn, AttemptFails, WidenScope,
     AttemptBlocks, AttemptHalts, AttemptPasses, runVars
<1>5. CASE PersonStep \/ UNCHANGED vars
  BY <1>5 DEF PersonStep, AskStop, AskPause, AskResume, Ask, Order, OrderRetry, OrderRelease,
     OrderDischarge, RetryRows, runVars, vars, Unbroken
<1> QED
  BY <1>1, <1>2, <1>3, <1>4, <1>5 DEF Next, LoopStep, OutsideStep, Works

\* Between a piece that landed and the parents it closes nothing ends the run.
LEMMA ClosesFirst ==
    ASSUME IInv, [Next]_vars, Unbroken, control # "stop", pc \in {"audit", "close"},
           pc' \notin {"audit", "close"}
    PROVE  CloseParents
<1>1. ~Crash /\ ~Stop /\ ~RunsOut /\ ~Dies
  BY BoundsAssumption DEF Unbroken, Crash, Stop, RunsOut, Dies, IInv, TypeOK, BoundType
<1>2. ~(Go \/ Enter \/ RefuseToStart \/ StartWorking \/ Resume \/ WindowReopens \/ Pause
        \/ WaitForWindow \/ ToolchainEnds \/ TakeTicket \/ BacklogExhausted)
  BY DEF Go, Enter, RefuseToStart, StartWorking, Resume, WindowReopens, Pause, WaitForWindow,
     ToolchainEnds, AtTop, TakeTicket, BacklogExhausted
<1>3. ~(BeginAttempt \/ AskExecutor \/ RefuseRetry \/ OpenCycle \/ MeasureTicket \/ KeepWhole
        \/ AddPieces \/ HoldGate \/ CountCycle \/ Finish \/ DecideCycle \/ Respec \/ Requeue)
  BY DEF BeginAttempt, AskExecutor, RefuseRetry, OpenCycle, MeasureTicket, KeepWhole, AddPieces,
     HoldGate, CountCycle, Finish, DecideCycle, Respec, Requeue
<1>4. ~(Works \/ PersonStep \/ UNCHANGED vars)
  BY DEF Works, Withhold, ParkAtGate, BeginTicket, GiveUp, InnerTurn, AttemptFails, WidenScope,
     AttemptBlocks, AttemptHalts, AttemptPasses, Judging, PersonStep, AskStop, AskPause, AskResume,
     Ask, OrderRetry, OrderRelease, OrderDischarge, RetryRows, vars
<1>5. ~(Audited \/ LookBehind \/ StopOnGivingUp)
  BY DEF Audited, LookBehind, StopOnGivingUp, Goto
<1> QED
  BY <1>1, <1>2, <1>3, <1>4, <1>5 DEF Next, LoopStep, OutsideStep, Works

\* A gate stays shut until its last piece lands.
LEMMA ShutStep ==
    ASSUME IInv, [Next]_vars, OnlyForward, Rows, Shut
    PROVE  Shut'
<1>0. status \in [Tickets -> TicketStatuses] /\ present \subseteq Tickets
  BY DEF IInv, TypeOK, RowType
<1>1. ASSUME NEW p \in present', status'[p] = "split"
      PROVE  ChildrenOf(p)' # {}
  <2>1. p \in present /\ ChildrenOf(p) # {}
    BY <1>1, SplitsAt DEF Shut, HoldGate
  <2>2. ChildrenOf(p) \subseteq ChildrenOf(p)'
    BY RunGrows DEF ChildrenOf
  <2> QED
    BY <2>1, <2>2
<1>4. Unbroken => control' # "stop"
  BY NeverStopped DEF Shut
<1>5. ASSUME Unbroken, pc' \notin {"audit", "close"}, NEW p \in present', status'[p] = "split"
      PROVE  \E c \in ChildrenOf(p)' : status'[c] # "done"
  <2>1. p \in present /\ p \in Tickets /\ (status[p] = "split" \/ (HoldGate /\ p = current))
    BY <1>5, SplitsAt
  <2>2. ChildrenOf(p) \subseteq ChildrenOf(p)' /\ ChildrenOf(p) \subseteq Children
    BY RunGrows DEF ChildrenOf
  <2>3. CASE pc \in {"audit", "close"}
    <3>1. CloseParents
      BY <1>5, <2>3, ClosesFirst DEF Shut
    <3>2. status' = CloseSplitParents(status)
      BY <3>1 DEF CloseParents, WriteStatuses
    <3>3. ChildrenOf(p) # {}
      BY <2>1, <3>1 DEF Shut, CloseParents, HoldGate
    <3>4. PICK c \in ChildrenOf(p) : status[c] # "done"
      BY <1>5, <2>1, <3>2, <3>3, StillShut
    <3> QED
      BY <2>2, <3>2, <3>4, PiecesAreWhole
  <2>4. CASE status[p] = "split" /\ pc \notin {"audit", "close"}
    <3>1. PICK c \in ChildrenOf(p) : status[c] # "done"
      BY <1>5, <2>1, <2>4 DEF Shut
    <3> QED
      BY <1>5, <2>2, <3>1, PieceLands
  <2>5. CASE HoldGate /\ p = current
    <3>1. \A c \in ChildrenOf(p) : c # current /\ c \in Tickets
      BY <2>5, ShapeAssumption DEF ChildrenOf
    <3>2. \A c \in ChildrenOf(p) : status'[c] = status[c]
      BY <1>0, <2>5, <3>1 DEF HoldGate
    <3> QED
      BY <2>2, <2>5, <3>2 DEF Shut, HoldGate
  <2> QED
    BY <2>1, <2>3, <2>4, <2>5
<1>2. ASSUME pc' = "consider"
      PROVE  PiecesOf(current') # {} /\ PiecesOf(current') \cap present' = {}
  BY <1>2, Considering DEF Shut, RowsKept
<1>3. ASSUME pc' = "split"
      PROVE  /\ ChildrenOf(current)' # {}
             /\ \A c \in ChildrenOf(current)' : status'[c] = "pending"
  <2>1. CASE pc = "consider" /\ AddPieces /\ current' = current
    <3>1. present' = present \cup PiecesOf(current) /\ UNCHANGED status
      BY <2>1 DEF AddPieces
    <3>2. ChildrenOf(current)' = PiecesOf(current)
      BY <2>1, <3>1 DEF ChildrenOf, PiecesOf
    <3>3. \A c \in PiecesOf(current) : status[c] = "pending"
      BY <2>1 DEF Shut, Rows, PiecesOf
    <3> QED
      BY <2>1, <3>1, <3>2, <3>3 DEF Shut
  <2>2. CASE RowsKept /\ pc' = pc /\ current' = current
    BY <1>3, <2>2 DEF RowsKept, Shut, ChildrenOf
  <2> QED
    BY <1>3, <2>1, <2>2, Considering
<1> QED
  BY <1>1, <1>2, <1>3, <1>4, <1>5 DEF Shut, PiecesOf

-----------------------------------------------------------------------------
(***************************************************************************)
(* The backlog is worked to its end.                                       *)
(***************************************************************************)
\* Who gives up has the status it ended on.
LEMMA EndsOn ==
    ASSUME IInv, current \in present, NEW s \in {"blocked", "failed"}, NEW next,
           TicketEnds(s, next)
    PROVE  status'[current] = s /\ pc' = next
BY DEF TicketEnds, WriteStatuses, Goto, IInv, TypeOK, RowType

\* Closing parents leaves who gave up.
LEMMA GivenUpStays ==
    ASSUME IInv, NEW t \in present, status[t] \in {"blocked", "failed"}, CloseParents
    PROVE  status'[t] = status[t] /\ present' = present
BY CloseOutcome DEF CloseParents, WriteStatuses, IInv, TypeOK, RowType

\* What needs a person at the end of the backlog needed one before it was closed.
LEMMA NeedsStill ==
    ASSUME IInv, NEW t \in present, status[t] \in {"blocked", "failed"}
    PROVE  LET st == ParkUnreachable(CloseSplitParents(status))
           IN  st[t] = status[t] /\ NeedsHuman(st)
<1>1. t \in Tickets
  BY DEF IInv, TypeOK, RowType
<1> DEFINE cl == CloseSplitParents(status)
<1>2. cl[t] = status[t]
  BY <1>1, CloseOutcome
<1> HIDE DEF cl
<1>3. ParkUnreachable(cl)[t] = status[t]
  BY <1>1, <1>2, ParkOutcome
<1> QED
  BY <1>3 DEF cl, NeedsHuman

\* The loop halts on a ticket that gave up, and leaves nothing else to run.
LEMMA ExhaustedStep ==
    ASSUME IInv, [Next]_vars, Exhausted
    PROVE  Exhausted'
<1>1. ASSUME halt'
      PROVE  "halts" \in Weather /\ pc' \in {"gaveUp", "close", "loop", "finish"}
  <2>1. CASE LookBehind \/ AttemptHalts
    BY <1>1, <2>1 DEF LookBehind, AttemptHalts, TicketEnds, Goto, Exhausted
  <2>2. CASE CloseParents \/ BacklogExhausted \/ UNCHANGED vars
    BY <1>1, <2>2 DEF CloseParents, BacklogExhausted, vars, memoryVars, Goto, Exhausted
  <2>3. CASE Finish
    <3>1. halt => NeedsHuman(ParkUnreachable(CloseSplitParents(status)))
      BY NeedsStill DEF Exhausted
    <3> QED
      BY <1>1, <2>3, <3>1 DEF Finish, Leave, ForgetMemory, memoryVars
  <2>4. CASE Go \/ Enter \/ RefuseToStart \/ Stop \/ Pause \/ Resume \/ WaitForWindow
             \/ WindowReopens \/ AskStop \/ AskPause \/ AskResume \/ ToolchainEnds
    BY <1>1, <2>4 DEF Go, Enter, RefuseToStart, Stop, Pause, Resume, WaitForWindow,
       WindowReopens, AskStop, AskPause, AskResume, Ask, ToolchainEnds, Leave, ForgetMemory,
       memoryVars, Exhausted, PreflightFails, BaselineCannotRun, BaselineRed, CanaryFails
  <2>5. CASE RunsOut \/ Dies \/ Crash \/ TakeTicket \/ BeginAttempt \/ AskExecutor \/ RefuseRetry
             \/ OpenCycle \/ MeasureTicket \/ KeepWhole \/ CountCycle \/ Audited \/ StopOnGivingUp
    BY <1>1, <2>5 DEF RunsOut, Dies, Crash, TakeTicket, BeginAttempt, AskExecutor, RefuseRetry,
       OpenCycle, MeasureTicket, KeepWhole, CountCycle, Audited, StopOnGivingUp, Leave, GiveBack,
       ForgetMemory, memoryVars, Goto, Exhausted
  <2>6. CASE Works /\ ~AttemptHalts
    BY <1>1, <2>6 DEF Works, Withhold, ParkAtGate, BeginTicket, GiveUp, InnerTurn, AttemptFails,
       WidenScope, AttemptBlocks, AttemptPasses, Judging, memoryVars, Exhausted
  <2>7. CASE Rest /\ ~Finish /\ ~CloseParents
    BY <1>1, <2>7 DEF Rest, StartWorking, AddPieces, HoldGate, DecideCycle, Respec, Requeue,
       OrderRetry, OrderRelease, OrderDischarge, RetryRows, memoryVars, GiveBack, ForgetMemory,
       Exhausted
  <2> QED
    BY <2>1, <2>2, <2>3, <2>4, <2>5, <2>6, <2>7
       DEF Next, LoopStep, OutsideStep, PersonStep, Works, Rest
<1>2. ASSUME halt' \/ pc' = "learn"
      PROVE  \E t \in present' : status'[t] \in {"blocked", "failed"}
  <2>1. CASE GiveUp \/ AttemptBlocks \/ AttemptHalts
    BY <2>1, WorksOnQueued, EndsOn DEF Works, GiveUp, AttemptBlocks, AttemptHalts
  <2>2. CASE CloseParents
    BY <1>2, <2>2, GivenUpStays DEF CloseParents, Goto, Exhausted
  <2>3. CASE Finish
    BY <1>2, <2>3, NeedsStill DEF Finish, Leave, ForgetMemory, memoryVars, Exhausted
  <2>4. CASE Audited \/ LookBehind \/ StopOnGivingUp \/ BacklogExhausted \/ UNCHANGED vars
    BY <1>2, <2>4 DEF Audited, LookBehind, StopOnGivingUp, BacklogExhausted, vars, rowVars,
       memoryVars, Goto, Leave, ForgetMemory, Exhausted
  <2>5. CASE Go \/ Enter \/ RefuseToStart \/ Stop \/ Pause \/ Resume \/ WaitForWindow
             \/ WindowReopens \/ AskStop \/ AskPause \/ AskResume \/ ToolchainEnds
    BY <1>2, <2>5 DEF Go, Enter, RefuseToStart, Stop, Pause, Resume, WaitForWindow,
       WindowReopens, AskStop, AskPause, AskResume, Ask, ToolchainEnds, Leave, ForgetMemory, Goto,
       rowVars, memoryVars, Exhausted, PreflightFails, BaselineCannotRun, BaselineRed, CanaryFails
  <2>6. CASE RunsOut \/ Dies \/ Crash \/ TakeTicket \/ BeginAttempt \/ AskExecutor \/ RefuseRetry
             \/ OpenCycle \/ MeasureTicket \/ KeepWhole \/ CountCycle
    BY <1>2, <2>6 DEF RunsOut, Dies, Crash, TakeTicket, BeginAttempt, AskExecutor, RefuseRetry,
       OpenCycle, MeasureTicket, KeepWhole, CountCycle, Leave, GiveBack, ForgetMemory, rowVars,
       memoryVars, Goto, Exhausted
  <2>7. CASE Works /\ ~(GiveUp \/ AttemptBlocks \/ AttemptHalts)
    BY <1>2, <2>7 DEF Works, Withhold, ParkAtGate, BeginTicket, InnerTurn, AttemptFails, WidenScope,
       AttemptPasses, Judging, TicketEnds, Goto, memoryVars, Exhausted
  <2>8. CASE Rest /\ ~Finish /\ ~CloseParents
    <3>1. CASE StartWorking \/ AddPieces \/ HoldGate
      BY <1>2, <3>1 DEF StartWorking, AddPieces, HoldGate, memoryVars, Goto, Exhausted
    <3>2. CASE DecideCycle \/ Respec \/ Requeue
      <4>1. ~halt' /\ pc' # "learn"
        BY <3>2 DEF DecideCycle, Respec, Requeue, memoryVars, GiveBack, ForgetMemory, Goto, Exhausted
      <4> QED
        BY <1>2, <4>1
    <3>3. CASE OrderRetry \/ OrderRelease \/ OrderDischarge
      BY <1>2, <3>3 DEF OrderRetry, OrderRelease, OrderDischarge, RetryRows, memoryVars, Exhausted
    <3> QED
      BY <2>8, <3>1, <3>2, <3>3 DEF Rest
  <2> QED
    BY <2>1, <2>2, <2>3, <2>4, <2>5, <2>6, <2>7, <2>8
       DEF Next, LoopStep, OutsideStep, PersonStep, Works, Rest
<1>3. ASSUME pc' = "finish"
      PROVE  halt' \/ Runnable' = {}
  <2>1. CASE BacklogExhausted
    BY <2>1 DEF BacklogExhausted, memoryVars, rowVars, Runnable, UnmetNeeds, Done
  <2>2. CASE UNCHANGED vars \/ AskStop \/ AskPause \/ AskResume \/ Pause \/ Resume
             \/ WaitForWindow \/ WindowReopens
    BY <1>3, <2>2 DEF vars, AskStop, AskPause, AskResume, Ask, Pause, Resume, WaitForWindow,
       WindowReopens, memoryVars, rowVars, Runnable, UnmetNeeds, Done, Exhausted
  <2>3. CASE Go \/ Enter \/ RefuseToStart \/ Stop \/ ToolchainEnds \/ RunsOut \/ Dies \/ Crash
             \/ TakeTicket \/ BeginAttempt \/ AskExecutor \/ RefuseRetry \/ OpenCycle
    BY <1>3, <2>3 DEF Go, Enter, RefuseToStart, Stop, ToolchainEnds, RunsOut, Dies, Crash, TakeTicket,
       BeginAttempt, AskExecutor, RefuseRetry, OpenCycle, Leave, GiveBack, Goto, PreflightFails,
       BaselineCannotRun, BaselineRed, CanaryFails
  <2>4. CASE MeasureTicket \/ KeepWhole \/ CountCycle \/ Works
    BY <1>3, <2>4 DEF MeasureTicket, KeepWhole, CountCycle, Works, Withhold, ParkAtGate, BeginTicket,
       GiveUp, InnerTurn, AttemptFails, WidenScope, AttemptBlocks, AttemptHalts, AttemptPasses,
       TicketEnds, Goto
  <2>5. CASE Rest
    BY <1>3, <2>5 DEF Rest, StartWorking, CloseParents, Finish, AddPieces, HoldGate, DecideCycle, Respec, Requeue,
       OrderRetry, OrderRelease, OrderDischarge, RetryRows, Leave, GiveBack, Goto
  <2>6. CASE Audited \/ LookBehind \/ StopOnGivingUp
    BY <1>3, <2>6 DEF Audited, LookBehind, StopOnGivingUp, Goto, Leave
  <2> QED
    BY <2>1, <2>2, <2>3, <2>4, <2>5, <2>6 DEF Next, LoopStep, OutsideStep, PersonStep, Works, Rest
<1> QED
  BY <1>1, <1>2, <1>3 DEF Exhausted

-----------------------------------------------------------------------------
(***************************************************************************)
(* Forward is inductive, and what follows from it.                         *)
(***************************************************************************)
\* In a run just ingested nothing landed, split or was ever worked.
LEMMA ForwardInit ==
    Init => Forward
BY ShapeAssumption DEF Init, Forward, Rows, Landed, Shut, Exhausted, Done

\* Every step of a run nobody undoes keeps it.
LEMMA ForwardStep ==
    ASSUME IInv, [Next]_vars, OnlyForward, Forward
    PROVE  Forward'
BY RowsStep, LandedStep, ShutStep, ExhaustedStep DEF Forward

\* The rows, what landed and the gates stay in order in every run a person only
\* moves forward.
THEOREM ForwardHolds ==
    ASSUME OnlyForward
    PROVE  Spec => []Forward
<1>1. IInv /\ Forward /\ [Next]_vars => Forward'
  BY ForwardStep
<1> QED
  BY <1>1, ForwardInit, Invariance, PTL DEF Spec

\* Once a run is past its start, everything done was built on its dependencies
\* as they now are.  A person may undo what they like between two runs of a plan
\* nothing is split in: the start of the run reopens what that made stale.  Where
\* tickets are split it takes a person who undoes nothing.
THEOREM CurrentAlways ==
    ASSUME Children = {} \/ OnlyForward
    PROVE  Spec => []DoneIsCurrent
<1>1. CASE Children = {}
  <2>1. Init => DoneIsCurrent
    BY DEF Init, DoneIsCurrent
  <2>2. IInv /\ DoneIsCurrent /\ [Next]_vars => DoneIsCurrent'
    BY <1>1, CurrentStep
  <2> QED
    BY <2>1, <2>2, Invariance, PTL DEF Spec
<1>2. CASE OnlyForward
  <2>1. Forward => DoneIsCurrent
    BY DEF Forward, Landed, DoneIsCurrent
  <2> QED
    BY <1>2, <2>1, ForwardHolds, PTL
<1> QED
  BY <1>1, <1>2

\* The loop undoes nothing that landed: outside a person's commands and the
\* reopening at the start of a run, a ticket that is done stays done.
THEOREM LandedForGood ==
    ASSUME Children = {} \/ OnlyForward
    PROVE  Spec => LandedStaysLanded
<1>1. ASSUME IInv, DoneIsCurrent, [Next]_vars, Children = {}
      PROVE  [\A t \in Tickets : status[t] = "done" /\ status'[t] # "done"
                                   => pc \in {"down", "start"}]_vars
  <2> SUFFICES ASSUME NEW t \in Tickets, status[t] = "done", pc \notin {"down", "start"}
               PROVE  status'[t] = "done" \/ UNCHANGED vars
    OBVIOUS
  <2>1. CASE pc = "servers"
    <3>1. RowsKept
      BY <2>1, <1>1, StepKinds DEF Works, Rest, Withhold, ParkAtGate, BeginTicket, GiveUp, InnerTurn,
         AttemptFails, WidenScope, AttemptBlocks, AttemptHalts, AttemptPasses, Judging, StartWorking,
         CloseParents, Finish, AddPieces, HoldGate, DecideCycle, Respec, Requeue, OrderRetry, OrderRelease,
         OrderDischarge, RetryRows
    <3> QED
      BY <3>1 DEF RowsKept
  <2>2. CASE pc # "servers"
    <3>1. AllUpToDate \/ ~ReopenStaleDependents
      BY <1>1, <2>2 DEF DoneIsCurrent, AllUpToDate
    <3> QED
      BY <1>1, <3>1, DoneStays
  <2> QED
    BY <2>1, <2>2
<1>2. ASSUME IInv, Forward, [Next]_vars, OnlyForward
      PROVE  [\A t \in Tickets : status[t] = "done" /\ status'[t] # "done"
                                   => pc \in {"down", "start"}]_vars
  <2>1. AllUpToDate
    BY <1>2 DEF Forward, Landed, AllUpToDate
  <2> QED
    BY <1>2, <2>1, DoneStays
<1>3. CASE Children = {}
  BY <1>1, <1>3, Invariance, CurrentAlways, PTL DEF Spec, LandedStaysLanded
<1>4. CASE OnlyForward
  BY <1>2, <1>4, Invariance, ForwardHolds, PTL DEF Spec, LandedStaysLanded
<1> QED
  BY <1>3, <1>4

\* Where nobody undoes, a ticket that is done is done for good: no cycle, no piece
\* that landed later and no start of a run opens it again.
THEOREM LandedForEver ==
    ASSUME OnlyForward
    PROVE  Spec => NeverUndone
<1>1. ASSUME IInv, Forward, [Next]_vars
      PROVE  [\A t \in Tickets : status[t] = "done" => status'[t] = "done"]_vars
  <2>1. AllUpToDate
    BY <1>1 DEF Forward, Landed, AllUpToDate
  <2> QED
    BY <1>1, <2>1, DoneStays
<1> QED
  BY <1>1, Invariance, ForwardHolds, PTL DEF Spec, NeverUndone

\* A gate closes in one step with every piece under it done.
LEMMA GateStep ==
    ASSUME IInv, [Next]_vars, "discharge" \notin Orders, NEW p \in Tickets,
           status[p] = "split", status'[p] = "done", NEW c \in ChildrenOf(p)
    PROVE  status'[c] = "done"
<1>0. status \in [Tickets -> TicketStatuses] /\ c \in Tickets
  BY DEF IInv, TypeOK, RowType, ChildrenOf
<1>1. CASE Works
  BY <1>0, <1>1, WorksOnQueued, WorksRows DEF Worked
<1>6. CASE CloseParents
  <2>1. status' = CloseSplitParents(status)
    BY <1>6 DEF CloseParents, WriteStatuses
  <2>2. status[c] = "done"
    BY <2>1, Closing
  <2> QED
    BY <1>0, <2>1, <2>2, CloseOutcome
<1>2. CASE Finish
  <2> DEFINE cl == CloseSplitParents(status)
  <2>1. \A t \in Tickets : status'[t] = ParkUnreachable(cl)[t]
    BY <1>2 DEF Finish, WriteStatuses
  <2> HIDE DEF cl
  <2>2. cl[p] = "done"
    BY <2>1, ParkOutcome
  <2>3. status[c] = "done"
    BY <2>2, Closing DEF cl
  <2>4. cl[c] = "done"
    BY <1>0, <2>3, CloseOutcome DEF cl
  <2> QED
    BY <1>0, <2>1, <2>4, ParkOutcome
<1>3. CASE RowsKept \/ StartWorking \/ AddPieces \/ HoldGate \/ DecideCycle \/ Respec
  BY <1>0, <1>3 DEF RowsKept, StartWorking, AddPieces, HoldGate, DecideCycle, Respec
<1>4. CASE Requeue \/ OrderRetry \/ OrderRelease
  BY <1>4 DEF Requeue, OrderRetry, OrderRelease, RetryRows, ResetRows
<1>5. CASE OrderDischarge
  BY <1>5 DEF OrderDischarge, Order
<1> QED
  BY <1>1, <1>2, <1>3, <1>4, <1>5, <1>6, StepKinds DEF Rest

\* The loop opens the gate of a split only over pieces that all landed, whatever
\* a person retried: only a discharge of the parent itself gets round it.
THEOREM GateHolds ==
    ASSUME "discharge" \notin Orders
    PROVE  Spec => GateOpensOverAll
<1>1. ASSUME IInv, [Next]_vars
      PROVE  [\A p \in Tickets : status[p] = "split" /\ status'[p] = "done" =>
                 \A c \in ChildrenOf(p) : status'[c] = "done"]_vars
  BY <1>1, GateStep
<1> QED
  BY <1>1, Invariance, PTL DEF Spec, GateOpensOverAll

-----------------------------------------------------------------------------
(***************************************************************************)
(* How a run ends.                                                         *)
(***************************************************************************)
\* A run that ends otherwise than by halting parks whatever it leaves queued,
\* unless its last step opens a gate something waits for.
LEMMA QuietFinish ==
    ASSUME IInv, Forward, NobodyWaits \/ Unbroken, pc = "finish",
           ~(NeedsHuman(ParkUnreachable(CloseSplitParents(status))) /\ halt),
           NEW t \in present
    PROVE  ParkUnreachable(CloseSplitParents(status))[t] \notin {"pending", "running"}
<1> DEFINE cl == CloseSplitParents(status)
           st == ParkUnreachable(cl)
<1>1. Runnable = {}
  BY NeedsStill DEF Forward, Exhausted
<1>2. t \in Tickets /\ present \subseteq Tickets
  BY DEF IInv, TypeOK, RowType
<1>3. status[t] = "running" => t \in Runnable
  BY DEF Forward, Landed, Runnable
<1>4. \A u \in Needs[t] \cap present : cl[u] = "done" => status[u] = "done"
  <2>1. ASSUME NEW u \in Needs[t] \cap present, cl[u] = "done", status[u] # "done"
        PROVE  FALSE
    <3>1. status[u] = "split" /\ u \in Tickets
      BY <1>2, <2>1, CloseOutcome
    <3>2. ChildrenOf(u) # {} /\ \A c \in ChildrenOf(u) : status[c] = "done"
      BY <2>1, <3>1, Closing
    <3>3. CASE NobodyWaits
      BY <1>2, <2>1, <3>2, <3>3 DEF NobodyWaits, ChildrenOf
    <3>4. CASE Unbroken
      BY <2>1, <3>1, <3>2, <3>4 DEF Forward, Shut
    <3> QED
      BY <3>3, <3>4
  <2> QED
    BY <2>1
<1>5. cl[t] \in {"pending", "running"} => status[t] = cl[t]
  BY <1>2, CloseOutcome
<1>6. cl[t] = "pending" /\ Needs[t] \subseteq {u \in present : cl[u] = "done"} => t \in Runnable
  BY <1>4, <1>5 DEF Runnable, UnmetNeeds, Done
<1> HIDE DEF cl
<1>7. cl[t] = "pending" => st[t] = "skipped"
  BY <1>1, <1>2, <1>6 DEF ParkUnreachable
<1>8. st[t] = cl[t] \/ st[t] = "skipped"
  BY <1>2, ParkOutcome
<1> HIDE DEF st
<1>9. st[t] \notin {"pending", "running"}
  BY <1>1, <1>3, <1>5, <1>7, <1>8
<1> QED
  BY <1>9 DEF st, cl

\* The run's row says done only while it has nothing queued, and nothing was
\* noticed that would fail it.
RowIsTrue == /\ runStatus # "failed" /\ ~toolchain
             /\ runStatus = "done" => pc = "down" /\ ~Queued

\* Nobody gives a withheld ticket back, and no step fails the run outright.
Quiet == /\ OnlyForward /\ "release" \notin Orders
         /\ Weather \cap {"preflight", "toolchain", "dies"} = {}

\* A run that is recorded done has nothing queued, and is never picked up again.
LEMMA RowIsTrueStep ==
    ASSUME IInv, [Next]_vars, Quiet, NobodyWaits \/ Unbroken, Forward, RowIsTrue
    PROVE  RowIsTrue'
<1>1. CASE Finish
  <2> DEFINE st == ParkUnreachable(CloseSplitParents(status))
  <2>1. pc = "finish" /\ present' = present /\ status' = st
    BY <1>1 DEF Finish, WriteStatuses
  <2>2. runStatus' \in {"blocked", "done"} /\ ~toolchain'
    BY <1>1 DEF Finish, Quiet, RowIsTrue, memoryVars, Leave, ForgetMemory
  <2>3. runStatus' = "done" => pc' = "down" /\ ~NeedsHuman(st)
    BY <1>1 DEF Finish, Leave
  <2> HIDE DEF st
  <2>4. ~NeedsHuman(st) => \A t \in present : st[t] \notin {"pending", "running"}
    BY <2>1, QuietFinish DEF st
  <2> QED
    BY <2>1, <2>2, <2>3, <2>4 DEF RowIsTrue, Queued
<1>2. CASE Go
  BY <1>2 DEF Go, RowIsTrue, Resumable, runVars, memoryVars
<1>3. CASE Enter \/ RefuseToStart \/ Stop \/ Pause \/ Resume \/ WaitForWindow \/ WindowReopens
  BY <1>3 DEF Enter, RefuseToStart, Stop, Pause, Resume, WaitForWindow, WindowReopens, RowIsTrue,
     Quiet, PreflightFails, BaselineCannotRun, BaselineRed, CanaryFails, memoryVars, Leave, ForgetMemory
<1>4. CASE RunsOut \/ Dies \/ ToolchainEnds
  BY <1>4 DEF RunsOut, Dies, ToolchainEnds, RowIsTrue, Quiet, Leave, ForgetMemory
<1>5. CASE UNCHANGED vars \/ AskStop \/ AskPause \/ AskResume
  BY <1>5 DEF vars, AskStop, AskPause, AskResume, Ask, RowIsTrue, Queued, runVars, rowVars, memoryVars
<1>6. CASE OrderRetry \/ OrderRelease \/ OrderDischarge
  BY <1>6 DEF OrderRetry, OrderRelease, OrderDischarge, RetryRows, Order, Quiet, OnlyForward,
              RowIsTrue, memoryVars
<1>7. CASE Works
  <2>1. runStatus # "done"
    BY <1>7 DEF Works, Withhold, ParkAtGate, BeginTicket, GiveUp, InnerTurn, AttemptFails, WidenScope,
       AttemptBlocks, AttemptHalts, AttemptPasses, Judging, RowIsTrue
  <2>2. runStatus' \in {runStatus, "stopped"} /\ ~toolchain'
    BY <1>7 DEF Works, Withhold, ParkAtGate, BeginTicket, GiveUp, InnerTurn, AttemptFails, WidenScope,
       AttemptBlocks, AttemptHalts, AttemptPasses, runVars, RowIsTrue, Quiet
  <2> QED
    BY <2>1, <2>2 DEF RowIsTrue
<1>8. CASE StartWorking \/ AddPieces \/ HoldGate
  BY <1>8 DEF StartWorking, AddPieces, HoldGate, runVars, memoryVars, RowIsTrue
<1>9. CASE DecideCycle \/ Respec \/ Requeue
  BY <1>9 DEF DecideCycle, Respec, Requeue, GiveBack, ForgetMemory, runVars, memoryVars, RowIsTrue
<1>10. CASE TakeTicket \/ BacklogExhausted \/ BeginAttempt \/ AskExecutor
  BY <1>10 DEF TakeTicket, BacklogExhausted, BeginAttempt, AskExecutor, AtTop, runVars, memoryVars,
               RowIsTrue
<1>11. CASE RefuseRetry \/ OpenCycle \/ MeasureTicket \/ KeepWhole \/ CountCycle \/ Crash
  BY <1>11 DEF RefuseRetry, OpenCycle, MeasureTicket, KeepWhole, CountCycle, Crash, GiveBack, Leave,
               ForgetMemory, runVars, memoryVars, RowIsTrue
<1>12. CASE Audited \/ LookBehind \/ StopOnGivingUp \/ CloseParents
  BY <1>12 DEF Audited, LookBehind, StopOnGivingUp, CloseParents, Leave, ForgetMemory, runVars,
               memoryVars, RowIsTrue, Quiet
<1> QED
  BY <1>1, <1>2, <1>3, <1>4, <1>5, <1>6, <1>7, <1>8, <1>9, <1>10, <1>11, <1>12
     DEF Next, LoopStep, OutsideStep, PersonStep, Works

\* While the plan is only moved forward and nothing fails the run, `forge go`
\* finds every run that has a ticket queued, wherever it was stopped or killed.
\* Nothing may wait on a ticket that is decomposed, or else no run may end
\* between a piece's row and its parent's: the parent then closes at the end of a
\* later run, which is recorded done over what waited for it.
THEOREM QueuedIsFound ==
    ASSUME Quiet, NobodyWaits \/ Unbroken
    PROVE  Spec => []QueuedCanBeResumed
<1>1. Init => RowIsTrue
  BY DEF Init, RowIsTrue
<1>2. IInv /\ Forward /\ RowIsTrue /\ [Next]_vars => RowIsTrue'
  BY RowIsTrueStep
<1>3. RowIsTrue => QueuedCanBeResumed
  BY DEF RowIsTrue, QueuedCanBeResumed, Resumable
<1>4. OnlyForward
  BY DEF Quiet
<1> QED
  BY <1>1, <1>2, <1>3, <1>4, Invariance, ForwardHolds, PTL DEF Spec

\* From the end of the backlog to the end of the cycle that follows, nothing is
\* queued: a plan nothing is split in.
NothingQueued == pc \in {"retry"} \cup (Deciding \ {"count"}) => ~Queued

\* What is given back to a person is given back with nothing queued.
LEMMA NothingQueuedStep ==
    ASSUME IInv, [Next]_vars, Children = {}, Forward, NothingQueued
    PROVE  /\ NothingQueued'
           /\ pc # "down" /\ pc' = "down" /\ outcome' \in {"done", "blocked"} => ~Queued'
<1> DEFINE Ending == {"retry"} \cup (Deciding \ {"count"})
           Kept == pc' \in Ending \/ (pc # "down" /\ pc' = "down" /\ outcome' \in {"done", "blocked"})
<1>0. SUFFICES ASSUME Kept PROVE ~Queued'
  BY DEF NothingQueued
<1> USE <1>0
<1>1. CASE Finish
  <2> DEFINE st == ParkUnreachable(CloseSplitParents(status))
  <2>1. pc = "finish" /\ present' = present /\ status' = st
    BY <1>1 DEF Finish, WriteStatuses
  <2>2. ~(NeedsHuman(st) /\ halt)
    BY <1>1 DEF Finish, Leave, Deciding
  <2> HIDE DEF st
  <2>3. \A t \in present : st[t] \notin {"pending", "running"}
    BY <2>1, <2>2, QuietFinish DEF st, NobodyWaits
  <2> QED
    BY <2>1, <2>3 DEF Queued
<1>2. CASE HoldGate \/ AddPieces
  BY <1>2 DEF HoldGate, AddPieces, Forward, Shut, ChildrenOf, PiecesOf
<1>3. CASE DecideCycle \/ Respec \/ Requeue
  <2>1. ~Queued
    BY <1>3 DEF DecideCycle, Respec, Requeue, NothingQueued, Deciding
  <2>2. present' = present /\ \A t \in Tickets : status'[t] \in {status[t], "blocked"}
    BY <1>3, <1>0 DEF DecideCycle, Respec, Requeue, Deciding, Goto, IInv, TypeOK, RowType
  <2> QED
    BY <2>1, <2>2 DEF Queued, IInv, TypeOK, RowType
<1>4. CASE Go \/ Enter \/ RefuseToStart \/ Stop \/ RunsOut \/ Dies \/ Crash \/ ToolchainEnds
           \/ TakeTicket \/ BacklogExhausted \/ BeginAttempt \/ AskExecutor \/ CountCycle
  BY <1>4, <1>0 DEF Go, Enter, RefuseToStart, Stop, RunsOut, Dies, Crash, ToolchainEnds, TakeTicket,
     BacklogExhausted, BeginAttempt, AskExecutor, CountCycle, Goto, Leave, Deciding,
     PreflightFails, BaselineCannotRun, BaselineRed, CanaryFails
<1>5. CASE UNCHANGED vars \/ Pause \/ Resume \/ WaitForWindow \/ WindowReopens \/ AskStop \/ AskPause
           \/ AskResume
  BY <1>5, <1>0 DEF vars, Pause, Resume, WaitForWindow, WindowReopens, AskStop, AskPause, AskResume,
     Ask, NothingQueued, Deciding, rowVars, Queued
<1>6. CASE RefuseRetry \/ OpenCycle \/ MeasureTicket \/ KeepWhole
  BY <1>6 DEF RefuseRetry, OpenCycle, MeasureTicket, KeepWhole, NothingQueued, Deciding, rowVars, Queued
<1>7. CASE Works
  BY <1>7, <1>0 DEF Works, Withhold, ParkAtGate, BeginTicket, GiveUp, InnerTurn, AttemptFails,
     WidenScope, AttemptBlocks, AttemptHalts, AttemptPasses, Judging, TicketEnds, Goto, Deciding
<1>8. CASE StartWorking \/ OrderRetry \/ OrderRelease \/ OrderDischarge
  BY <1>8, <1>0 DEF StartWorking, OrderRetry, OrderRelease, OrderDischarge, RetryRows, Goto, Deciding
<1>9. CASE Audited \/ LookBehind \/ StopOnGivingUp \/ CloseParents
  BY <1>9, <1>0 DEF Audited, LookBehind, StopOnGivingUp, CloseParents, Goto, Leave, Deciding
<1> QED
  BY <1>1, <1>2, <1>3, <1>4, <1>5, <1>6, <1>7, <1>8, <1>9
     DEF Next, LoopStep, OutsideStep, PersonStep, Works

\* A plan nothing is split in and nobody undoes is given back, done or for a
\* person to look at, with nothing left queued.
THEOREM NothingLeftQueued ==
    ASSUME Children = {}, OnlyForward
    PROVE  Spec => NothingQueuedOnReturn
<1>1. Init => NothingQueued
  BY DEF Init, NothingQueued, Deciding
<1>2. IInv /\ Forward /\ NothingQueued /\ [Next]_vars => NothingQueued'
  BY NothingQueuedStep
<1>3. ASSUME IInv, Forward, NothingQueued, [Next]_vars
      PROVE  [pc # "down" /\ pc' = "down" /\ outcome' \in {"done", "blocked"} => ~Queued']_vars
  BY <1>3, NothingQueuedStep
<1> QED
  BY <1>1, <1>2, <1>3, Invariance, ForwardHolds, PTL DEF Spec, NothingQueuedOnReturn

-----------------------------------------------------------------------------
(***************************************************************************)
(* What a run that says it is done leaves behind.                          *)
(***************************************************************************)
\* What is skipped goes on waiting for as long as what was given up is not
\* queued again.
LEMMA WaitsKept ==
    ASSUME Rows, NEW t \in present, Waits(t),
           \A d \in present : status[d] \in Retryable => status'[d] \in Retryable,
           \A d \in present : status[d] \in {"blocked", "failed"} => status'[d] \in {"blocked", "failed"},
           present \subseteq present'
    PROVE  Waits(t)'
BY DEF Waits, Rows

\* Giving up is final until something is requeued or split.
LEMMA GivenUpKept ==
    ASSUME IInv, Forward, [Next]_vars, NEW d \in present, status[d] \in Retryable,
           RowsKept \/ Works \/ CloseParents \/ Finish \/ AddPieces \/ DecideCycle \/ Respec
    PROVE  /\ status'[d] \in Retryable
           /\ status[d] \in {"blocked", "failed"} => status'[d] \in {"blocked", "failed"}
<1>0. d \in Tickets /\ status \in [Tickets -> TicketStatuses]
  BY DEF IInv, TypeOK, RowType
<1> USE DEF Retryable
<1>1. CASE RowsKept \/ AddPieces
  BY <1>1 DEF RowsKept, AddPieces
<1>2. CASE Works
  BY <1>0, <1>2, WorksOnQueued, WorksRows DEF Worked
<1>5. CASE CloseParents
  BY <1>0, <1>5, CloseOutcome DEF CloseParents, WriteStatuses
<1>3. CASE Finish
  <2>1. CloseSplitParents(status)[d] = status[d]
    BY <1>0, CloseOutcome
  <2>2. status'[d] = status[d]
    BY <1>0, <1>3, <2>1, ParkOutcome DEF Finish, WriteStatuses
  <2> QED
    BY <2>2
<1>4. CASE DecideCycle \/ Respec
  BY <1>0, <1>4 DEF DecideCycle, Respec
<1> QED
  BY <1>1, <1>2, <1>3, <1>4, <1>5

\* What the end of the backlog parks waits on something that was given up.
LEMMA ParkedWaits ==
    ASSUME IInv, Forward, NothingStrays, Finish, NEW t \in present,
           status[t] # "skipped", status'[t] = "skipped"
    PROVE  Waits(t)'
<1> DEFINE cl == CloseSplitParents(status)
           st == ParkUnreachable(cl)
<1>1. pc = "finish" /\ present' = present /\ status' = st
  BY DEF Finish, WriteStatuses
<1>2. present \subseteq Tickets /\ status \in [Tickets -> TicketStatuses]
  BY DEF IInv, TypeOK, RowType
<1>3. cl[t] # "skipped"
  BY <1>2, CloseOutcome
<1>4. CASE NeedsHuman(st) /\ halt
  <2>1. Children = {}
    BY <1>4 DEF NothingStrays, Forward, Exhausted
  <2>2. PICK x \in present : status[x] \in {"blocked", "failed"}
    BY <1>4 DEF Forward, Exhausted
  <2>3. st[x] = status[x]
    BY <2>2, NeedsStill
  <2> HIDE DEF st
  <2> QED
    BY <1>1, <2>1, <2>2, <2>3 DEF Waits
<1>5. CASE ~(NeedsHuman(st) /\ halt)
  <2>1. PICK d \in Needs[t] : d \in present /\ cl[d] # "done"
    <3> HIDE DEF cl
    <3> QED
      BY <1>1, <1>2, <1>3 DEF ParkUnreachable, Forward, Rows
  <2>2. st[d] \notin {"pending", "running"}
    BY <1>1, <1>5, <2>1, QuietFinish DEF NothingStrays, NobodyWaits
  <2>3. cl[d] # "split"
    <3>1. cl[d] = "split" => status[d] = "split"
      BY <1>2, <2>1, CloseOutcome
    <3>2. status[d] = "split" => ChildrenOf(d) # {}
      BY <2>1 DEF Forward, Shut
    <3>3. ChildrenOf(d) = {}
      BY <1>2, <2>1 DEF NothingStrays, NobodyWaits, ChildrenOf
    <3> QED
      BY <3>1, <3>2, <3>3
  <2>4. cl[d] \in TicketStatuses
    BY <1>2, <2>1, CloseOutcome DEF TicketStatuses
  <2> HIDE DEF cl
  <2>5. st[d] = cl[d] \/ st[d] = "skipped"
    BY <1>2, <2>1, ParkOutcome
  <2> HIDE DEF st
  <2>6. st[d] \in Retryable
    BY <2>1, <2>2, <2>3, <2>4, <2>5 DEF TicketStatuses, Retryable
  <2> QED
    BY <1>1, <2>1, <2>6 DEF Waits
<1> QED
  BY <1>4, <1>5

\* A cycle is decided on over the tickets it was opened for.
LEMMA Deciders ==
    ASSUME [Next]_vars, RowsKept, ~OpenCycle, pc' \in Deciding \ {"count"}, ~Works, ~Rest
    PROVE  pc \in Deciding \ {"count"} /\ eligible' = eligible
<1> USE DEF Deciding
<1>1. CASE Go \/ Enter \/ RefuseToStart \/ Stop \/ RunsOut \/ Dies \/ Crash \/ ToolchainEnds
           \/ TakeTicket \/ BacklogExhausted \/ BeginAttempt \/ AskExecutor \/ CountCycle
           \/ RefuseRetry
  BY <1>1 DEF Go, Enter, RefuseToStart, Stop, RunsOut, Dies, Crash, ToolchainEnds, TakeTicket,
     BacklogExhausted, BeginAttempt, AskExecutor, CountCycle, RefuseRetry, Goto, Leave, GiveBack,
     PreflightFails, BaselineCannotRun, BaselineRed, CanaryFails
<1>2. CASE UNCHANGED vars \/ Pause \/ Resume \/ WaitForWindow \/ WindowReopens \/ AskStop \/ AskPause
           \/ AskResume
  BY <1>2 DEF vars, Pause, Resume, WaitForWindow, WindowReopens, AskStop, AskPause, AskResume,
     Ask, memoryVars
<1>3. CASE MeasureTicket \/ KeepWhole
  BY <1>3 DEF MeasureTicket, KeepWhole
<1>4. CASE Audited \/ LookBehind \/ StopOnGivingUp
  BY <1>4 DEF Audited, LookBehind, StopOnGivingUp, Goto, Leave
<1> QED
  BY <1>1, <1>2, <1>3, <1>4 DEF Next, LoopStep, OutsideStep, PersonStep, Works, Rest

\* Only the end of the backlog says a run is done.
LEMMA SaysDone ==
    ASSUME [Next]_vars, pc # "down", pc' = "down", outcome # "done", outcome' = "done"
    PROVE  Finish
<1>1. ~(Go \/ Enter \/ RefuseToStart \/ Stop \/ RunsOut \/ Dies \/ Crash \/ ToolchainEnds
        \/ TakeTicket \/ BacklogExhausted \/ BeginAttempt \/ AskExecutor \/ CountCycle)
  BY DEF Go, Enter, RefuseToStart, Stop, RunsOut, Dies, Crash, ToolchainEnds, TakeTicket,
     BacklogExhausted, BeginAttempt, AskExecutor, CountCycle, Goto, Leave,
     PreflightFails, BaselineCannotRun, BaselineRed, CanaryFails
<1>2. ~(Pause \/ Resume \/ WaitForWindow \/ WindowReopens \/ PersonStep \/ UNCHANGED vars
        \/ RefuseRetry \/ OpenCycle \/ MeasureTicket \/ KeepWhole \/ AddPieces \/ HoldGate)
  BY DEF vars, Pause, Resume, WaitForWindow, WindowReopens, PersonStep, AskStop, AskPause, AskResume,
     Ask, OrderRetry, OrderRelease, OrderDischarge, RetryRows, RefuseRetry, OpenCycle, MeasureTicket,
     KeepWhole, AddPieces, HoldGate, GiveBack
<1>3. ~(StartWorking \/ DecideCycle \/ Respec \/ Requeue)
  BY DEF StartWorking, DecideCycle, Respec, Requeue, GiveBack, Goto
<1>4. ~Works
  BY DEF Works, Withhold, ParkAtGate, BeginTicket, GiveUp, InnerTurn, AttemptFails, WidenScope,
         AttemptBlocks, AttemptHalts, AttemptPasses, TicketEnds, Goto
<1>5. ~(Audited \/ LookBehind \/ StopOnGivingUp \/ CloseParents)
  BY DEF Audited, LookBehind, StopOnGivingUp, CloseParents, Goto, Leave
<1> QED
  BY <1>1, <1>2, <1>3, <1>4, <1>5 DEF Next, LoopStep, OutsideStep, Works

\* A start that reopens nothing leaves the rows.
LEMMA StartKeeps ==
    ASSUME IInv, StartWorking, Reopened(status) = {}
    PROVE  RowsKept
BY DEF IInv, TypeOK, RowType, StartWorking, RowsKept, logVars

\* A step that leaves a skipped ticket skipped leaves it waiting, and a cycle
\* that is decided on takes it along.
LEMMA LeftStep ==
    ASSUME IInv, [Next]_vars, OnlyForward, "release" \notin Orders, NothingStrays, Forward, Left
    PROVE  Left'
<1>0. /\ present \subseteq Tickets /\ status \in [Tickets -> TicketStatuses]
      /\ present \subseteq present'
  BY RunGrows DEF IInv, TypeOK, RowType
<1>1. ASSUME pc' # "down"
      PROVE  outcome' # "done"
  <2>1. CASE Go \/ Enter \/ RefuseToStart \/ StartWorking \/ Stop \/ Resume \/ WindowReopens \/ Pause
             \/ WaitForWindow \/ RunsOut \/ Dies \/ Crash \/ ToolchainEnds
    BY <1>1, <2>1 DEF Left, Go, Enter, RefuseToStart, StartWorking, Stop, Resume, WindowReopens, Pause,
       WaitForWindow, RunsOut, Dies, Crash, ToolchainEnds, Goto, Leave, PreflightFails,
       BaselineCannotRun, BaselineRed, CanaryFails
  <2>2. CASE TakeTicket \/ BacklogExhausted \/ BeginAttempt \/ AskExecutor \/ RefuseRetry \/ OpenCycle
             \/ MeasureTicket \/ KeepWhole \/ AddPieces \/ HoldGate \/ CountCycle
    BY <1>1, <2>2 DEF Left, TakeTicket, BacklogExhausted, BeginAttempt, AskExecutor, RefuseRetry,
       OpenCycle, MeasureTicket, KeepWhole, AddPieces, HoldGate, CountCycle, Goto, GiveBack, AtTop
  <2>3. CASE Finish \/ DecideCycle \/ Respec \/ Requeue
    BY <1>1, <2>3 DEF Left, Finish, DecideCycle, Respec, Requeue, Goto, Leave, GiveBack
  <2>4. CASE Works
    BY <1>1, <2>4 DEF Left, Works, Withhold, ParkAtGate, BeginTicket, GiveUp, InnerTurn, AttemptFails,
       WidenScope, AttemptBlocks, AttemptHalts, AttemptPasses, Judging, TicketEnds, Goto
  <2>5. CASE PersonStep \/ UNCHANGED vars
    BY <1>1, <2>5 DEF Left, PersonStep, AskStop, AskPause, AskResume, Ask, OrderRetry, OrderRelease,
       OrderDischarge, RetryRows, vars
  <2>6. CASE Audited \/ LookBehind \/ StopOnGivingUp \/ CloseParents
    BY <1>1, <2>6 DEF Left, Audited, LookBehind, StopOnGivingUp, CloseParents, Goto, Leave
  <2> QED
    BY <2>1, <2>2, <2>3, <2>4, <2>5, <2>6 DEF Next, LoopStep, OutsideStep, Works
<1>2. ASSUME NEW t \in present', status'[t] = "skipped", route'[t] = "delegate"
      PROVE  Waits(t)' /\ (pc' \in Deciding \ {"count"} => t \in eligible')
  <2>0. t \in present /\ t \in Tickets /\ (status[t] = "skipped" => t \in InStatus(Retryable))
    BY <1>0, <1>2, AddsPending DEF Forward, InStatus, Retryable
  <2>1. ASSUME status[t] = "skipped", route[t] = "delegate",
               \/ RowsKept \/ Works \/ CloseParents \/ Finish
               \/ AddPieces \/ DecideCycle \/ Respec
        PROVE  Waits(t)'
    <3>1. \A d \in present : status[d] \in Retryable =>
              /\ status'[d] \in Retryable
              /\ status[d] \in {"blocked", "failed"} => status'[d] \in {"blocked", "failed"}
      BY <2>1, GivenUpKept
    <3> QED
      BY <1>0, <2>0, <2>1, <3>1, WaitsKept DEF Left, Forward, Retryable
  <2>2. CASE RowsKept /\ ~Works /\ ~Rest
    <3>1. status[t] = "skipped" /\ route[t] = "delegate"
      BY <1>2, <2>2 DEF RowsKept
    <3>2. t \in Eligible
      BY <2>0, <3>1 DEF Eligible, Settled, Retryable
    <3>3. ASSUME pc' \in Deciding \ {"count"}
          PROVE  t \in eligible'
      <4>1. CASE OpenCycle
        BY <3>2, <4>1 DEF OpenCycle
      <4>2. CASE ~OpenCycle
        <5>1. pc \in Deciding \ {"count"} /\ eligible' = eligible
          BY <2>2, <3>3, <4>2, Deciders DEF Deciding
        <5> QED
          BY <2>0, <3>1, <5>1 DEF Left
      <4> QED
        BY <4>1, <4>2
    <3> QED
      BY <2>1, <2>2, <3>1, <3>3
  <2>3. CASE Works
    <3>1. status[t] = "skipped" /\ route[t] = "delegate"
      BY <1>0, <1>2, <2>0, <2>3, WorksRows DEF Worked
    <3>2. pc' \notin Deciding
      BY <2>3 DEF Works, Withhold, ParkAtGate, BeginTicket, GiveUp, InnerTurn, AttemptFails, WidenScope,
         AttemptBlocks, AttemptHalts, AttemptPasses, TicketEnds, Goto, Deciding
    <3> QED
      BY <2>1, <2>3, <3>1, <3>2
  <2>4. CASE Finish
    <3>1. route[t] = "delegate" /\ pc' \notin Deciding
      BY <1>2, <2>4 DEF Finish, Leave, Deciding
    <3> QED
      BY <1>2, <2>0, <2>1, <2>4, <3>1, ParkedWaits
  <2>5. CASE StartWorking
    <3>1. Reopened(status) = {}
      BY StartFresh DEF Forward, Landed, AllUpToDate
    <3>2. RowsKept
      BY <1>0, <2>5, <3>1, StartKeeps
    <3>3. pc' \notin Deciding
      BY <2>5 DEF StartWorking, Goto, Deciding
    <3> QED
      BY <1>2, <2>1, <3>2, <3>3 DEF RowsKept
  <2>6. CASE AddPieces
    <3>1. status[t] = "skipped" /\ route[t] = "delegate" /\ pc \in Deciding \ {"count"} /\ eligible' = eligible
      BY <1>2, <2>6 DEF AddPieces, Deciding, memoryVars
    <3> QED
      BY <2>0, <2>1, <2>6, <3>1 DEF Left
  <2>7. CASE HoldGate
    <3>1. /\ status' = [status EXCEPT ![current] = "split"] /\ present' = present
          /\ route' = route /\ eligible' = eligible /\ pc = "split" /\ current \in present
      BY <2>7 DEF HoldGate, IInv, InHand
    <3>2. status[t] = "skipped" /\ Waits(t) /\ t \in eligible
      BY <1>0, <1>2, <2>0, <3>1 DEF Left, Deciding
    <3>3. PICK c \in Children : ParentOf[c] = current
      BY <3>1 DEF Forward, Shut, ChildrenOf
    <3>4. \E d \in Needs[t] : status[d] \in Retryable /\ d # current
      BY <2>0, <3>2, <3>3 DEF Waits, NothingStrays, NobodyWaits
    <3>5. \E d \in Needs[t] : status'[d] \in Retryable
      BY <1>0, <2>0, <3>1, <3>4 DEF Forward, Rows
    <3> QED
      BY <3>1, <3>2, <3>5 DEF Waits
  <2>8. CASE DecideCycle
    <3>1. status[t] = "skipped" /\ route[t] = "delegate" /\ pc = "measure"
      BY <1>2, <2>0, <2>8 DEF DecideCycle
    <3>2. t \in eligible
      BY <2>0, <3>1 DEF Left, Deciding
    <3>3. pc' \in Deciding => t \in eligible'
      BY <1>2, <2>0, <2>8, <3>1, <3>2 DEF DecideCycle, GiveBack, Goto, Deciding
    <3> QED
      BY <2>1, <2>8, <3>1, <3>3
  <2>9. CASE Respec
    <3>1. status[t] = "skipped" /\ route[t] = "delegate" /\ pc = "respec"
      BY <1>2, <2>0, <2>9 DEF Respec
    <3>2. t \in eligible
      BY <2>0, <3>1 DEF Left, Deciding
    <3>3. pc' \in Deciding => t \in eligible'
      BY <1>2, <2>0, <2>9, <3>2 DEF Respec, GiveBack, Deciding
    <3> QED
      BY <2>1, <2>9, <3>1, <3>3
  <2>10. CASE Requeue
    <3>1. pc = "requeue" /\ UNCHANGED <<present, contract, depStamp, everSeen, route>>
      BY <2>10 DEF Requeue, logVars
    <3>2. CASE UNCHANGED status /\ pc' = "down"
      <4>1. RowsKept
        BY <3>1, <3>2 DEF RowsKept
      <4> QED
        BY <1>2, <2>1, <3>2, <4>1 DEF RowsKept, Deciding
    <3>3. CASE \E X : ResetRows(eligible \cup X)
      <4>1. status[t] = "skipped" /\ route[t] = "delegate"
        BY <1>2, <2>0, <3>1, <3>3 DEF ResetRows
      <4>2. t \in eligible
        BY <2>0, <3>1, <4>1 DEF Left, Deciding
      <4> QED
        BY <1>2, <2>0, <3>3, <4>2 DEF ResetRows
    <3> QED
      BY <2>10, <3>2, <3>3 DEF Requeue, GiveBack
  <2>11. CASE OrderRetry
    <3>1. RetryRows(InStatus(Retryable))
      BY <2>11 DEF OrderRetry, OnlyForward, Order
    <3> QED
      BY <1>2, <2>0, <3>1 DEF RetryRows, ResetRows
  <2>12. CASE OrderRelease \/ OrderDischarge
    BY <2>12 DEF OrderRelease, OrderDischarge, OnlyForward, Order
  <2>13. CASE CloseParents
    <3>1. status[t] = "skipped" /\ route[t] = "delegate" /\ pc' \notin Deciding
      BY <1>2, <2>0, <2>13, CloseOutcome DEF CloseParents, WriteStatuses, Goto, Deciding
    <3> QED
      BY <2>1, <2>13, <3>1
  <2> QED
    BY <2>2, <2>3, <2>4, <2>5, <2>6, <2>7, <2>8, <2>9, <2>10, <2>11, <2>12, <2>13, StepKinds
       DEF Rest
<1> QED
  BY <1>1, <1>2 DEF Left

\* A run just ingested has skipped nothing.
LEMMA LeftInit ==
    Init => Left
BY ShapeAssumption DEF Init, Left

\* A run that says it is done has landed every ticket, except the withheld ones
\* and those that wait on one of them.
THEOREM DoneMeansDone ==
    ASSUME OnlyForward, "release" \notin Orders, NothingStrays
    PROVE  Spec => DoneRunMeansLanded
<1>1. IInv /\ Forward /\ Left /\ [Next]_vars => Left'
  BY LeftStep
<1>2. ASSUME IInv, Forward, Left, [Next]_vars
      PROVE  [pc # "down" /\ pc' = "down" /\ outcome' = "done"
                => \A t \in present' : Accounted(t)']_vars
  <2> SUFFICES ASSUME pc # "down", pc' = "down", outcome' = "done", NEW t \in present'
               PROVE  Accounted(t)' \/ UNCHANGED vars
    OBVIOUS
  <2>1. outcome # "done"
    BY <1>2 DEF Left
  <2>2. Finish
    BY <1>2, <2>1, SaysDone
  <2> DEFINE st == ParkUnreachable(CloseSplitParents(status))
  <2>3. /\ present' = present /\ status' = st /\ pc = "finish" /\ ~NeedsHuman(st)
        /\ route' = route
    BY <2>2 DEF Finish, WriteStatuses, Leave
  <2> HIDE DEF st
  <2>4. \A u \in present : st[u] \notin {"pending", "running", "blocked", "failed", "split"}
    BY <1>2, <2>3, QuietFinish DEF st, NeedsHuman, NothingStrays, NobodyWaits
  <2>5. TypeOK' /\ Left' /\ Forward'
    BY <1>1, <1>2, TypeStep, ForwardStep
  <2>6. t \in Tickets /\ st[t] \in {"done", "withheld", "skipped"}
    BY <2>3, <2>4, <2>5 DEF TypeOK, RowType, TicketStatuses
  <2>7. CASE st[t] = "skipped" /\ route'[t] = "delegate"
    <3>1. PICK d \in Needs[t] : st[d] \in Retryable
      BY <2>3, <2>4, <2>5, <2>7 DEF Left, Waits
    <3>2. d \in present
      BY <2>3, <2>5 DEF Forward, Rows
    <3>3. st[d] \in {"skipped", "withheld"}
      BY <2>4, <3>1, <3>2 DEF Retryable
    <3> QED
      BY <2>3, <2>7, <3>3 DEF Accounted
  <2>8. CASE st[t] # "skipped" \/ route'[t] = "withheld"
    BY <2>3, <2>6, <2>8 DEF Accounted
  <2> QED
    BY <2>5, <2>6, <2>7, <2>8 DEF TypeOK, RowType
<1> QED
  BY <1>1, <1>2, LeftInit, Invariance, ForwardHolds, PTL DEF Spec, DoneRunMeansLanded
=============================================================================
