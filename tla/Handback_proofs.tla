--------------------------- MODULE Handback_proofs ---------------------------
(***************************************************************************)
(* Proofs about one ticket's row and its writers, for every set of         *)
(* criteria and commands.                                                  *)
(***************************************************************************)
EXTENDS Handback, FiniteSetTheorems, TLAPS

\* A ticket's fields have their types.
LEMMA Fields ==
    ASSUME NEW t \in Tickets
    PROVE  /\ t.status \in Statuses /\ t.route \in {"delegate", "withheld"}
           /\ t.attempts \in 0..MaxAttempts /\ t.spec \in 0..MaxSpec
           /\ t.criteria \subseteq Criteria /\ t.original \subseteq Criteria
           /\ t.ratified \subseteq Criteria
           /\ t.signed \in {Unsigned} \cup ((0..MaxSpec) \X SUBSET Criteria)
           /\ t.note \subseteq Hands
BY DEF Tickets

\* The ticket the plan was ingested with is one.
LEMMA IngestedType == Ingested \in Tickets
BY HandAssumption DEF Ingested, Tickets, Statuses, Criteria, Unsigned

\* `update_ticket` writes these columns and leaves the others.
LEMMA Updated ==
    ASSUME row \in Tickets, NEW t \in Tickets, UpdateTicket(t)
    PROVE  /\ row' \in Tickets
           /\ row'.status = t.status /\ row'.attempts = t.attempts
           /\ row'.spec = t.spec /\ row'.criteria = t.criteria
           /\ row'.route = row.route /\ row'.original = row.original
           /\ row'.ratified = row.ratified /\ row'.signed = row.signed
           /\ row'.note = row.note
BY DEF UpdateTicket, Tickets

\* `record_ratification` writes what was agreed and leaves the rest.
LEMMA Settled ==
    ASSUME row \in Tickets, NEW t \in Tickets, RecordRatification(t)
    PROVE  /\ row' \in Tickets
           /\ row'.ratified = t.ratified /\ row'.signed = t.signed
           /\ row'.status = row.status /\ row'.criteria = row.criteria
           /\ row'.route = row.route /\ row'.original = row.original
           /\ row'.note = row.note
BY DEF RecordRatification, Tickets

\* `advise` writes the notes and leaves the rest.
LEMMA Advised ==
    ASSUME row \in Tickets, NEW t \in Tickets, NEW h \in Hands, Advise(t, h)
    PROVE  /\ row' \in Tickets
           /\ row'.note = t.note \cup {h}
           /\ row'.status = row.status /\ row'.criteria = row.criteria
           /\ row'.route = row.route /\ row'.original = row.original
           /\ row'.ratified = row.ratified
BY DEF Advise, Tickets

\* `set_route` writes the route and leaves the rest.
LEMMA Routed ==
    ASSUME row \in Tickets, SetRoute("delegate")
    PROVE  /\ row' \in Tickets
           /\ row'.route = "delegate"
           /\ row'.status = row.status /\ row'.criteria = row.criteria
           /\ row'.original = row.original /\ row'.ratified = row.ratified
           /\ row'.note = row.note
BY DEF SetRoute, Tickets

\* `reset_tickets` requeues the ticket and leaves the rest.
LEMMA WasReset ==
    ASSUME row \in Tickets, ResetTicket
    PROVE  /\ row' \in Tickets
           /\ row'.status = "pending" /\ row'.criteria = row.criteria
           /\ row'.route = row.route /\ row'.original = row.original
           /\ row'.ratified = row.ratified /\ row'.note = row.note
<1> DEFINE t == [row EXCEPT !.status = "pending", !.attempts = 0]
<1>1. 0 \in 0..MaxAttempts /\ "pending" \in Statuses
  BY HandAssumption DEF Statuses
<1>2. /\ t \in Tickets /\ t.status = "pending" /\ t.criteria = row.criteria
  BY <1>1 DEF Tickets
<1>3. UpdateTicket(t)
  BY DEF ResetTicket
<1> QED
  BY <1>2, <1>3, Updated

\* The loop writes its copy, and drops it when it is through with the ticket.
LEMMA Wrote ==
    ASSUME row \in Tickets, NEW t \in Tickets, NEW p \in PCs, Write(t, p)
    PROVE  /\ row' \in Tickets /\ mine' \in Tickets /\ pc' = p
           /\ row'.status = t.status /\ row'.criteria = t.criteria
           /\ row'.route = row.route /\ row'.original = row.original
           /\ row'.ratified = row.ratified /\ row'.note = row.note
           /\ p # "idle" => mine' = t
<1>1. UpdateTicket(t) /\ pc' = p /\ mine' = IF p = "idle" THEN Ingested ELSE t
  BY DEF Write
<1> QED
  BY <1>1, Updated, IngestedType

\* What the loop's rules leave on a ticket is drawn from the criteria there are.
LEMMA CriteriaType ==
    ASSUME NEW t \in Tickets, NEW proposed \in SUBSET Criteria
    PROVE  Revised(t, proposed) \subseteq Criteria
           /\ SignedOff(t, proposed) \subseteq Criteria
<1>1. t.criteria \subseteq Criteria
  BY Fields
<1>2. Revised(t, proposed) \subseteq t.criteria \cup proposed
  BY DEF Revised, DropWholeFileClaims, MergeCriteria, Admitted
<1>3. SignedOff(t, proposed) \subseteq t.criteria \cup proposed
  BY DEF SignedOff, DropWholeFileClaims
<1> QED
  BY <1>1, <1>2, <1>3

\* What a planner may propose is drawn from them as well.
LEMMA ImaginableType ==
    ASSUME mine \in Tickets
    PROVE  Imaginable \subseteq Criteria
BY Fields DEF Imaginable, Criteria

-----------------------------------------------------------------------------
(***************************************************************************)
(* One step of the loop, as the people who share the store see it.         *)
(***************************************************************************)

\* What belongs to the people: the commands, and the columns they write.
TheirsIsKept ==
    /\ hand' = hand /\ row'.note = row.note
    /\ row'.route = row.route /\ row'.original = row.original

\* A ticket becomes done only on the criteria it was judged on.
DoneIsEarned ==
    \/ row'.status # "done"
    \/ row'.status = row.status /\ row'.criteria = row.criteria /\ judged' = judged
    \/ row'.criteria = judged'

\* Where the copy the loop goes on with comes from.
CopyIsTraced ==
    \/ pc' \in {"down", "idle"}
    \/ pc \notin {"down", "idle"} /\ pc' # "gate" /\ mine'.route = mine.route
       /\ (pc = "gate" => mine.route = "delegate")
    \/ pc' = "gate" /\ mine' = row
    \/ pc' = "respec" /\ row.route = "delegate"

\* All that, with the types and the loop's own copy.
LoopKeeps == TypeOK' /\ Held' /\ TheirsIsKept /\ DoneIsEarned /\ CopyIsTraced

\* The loop writes a version of the ticket it holds, not done, and goes on.
LEMMA WritesMine ==
    ASSUME TypeOK, Held, pc \notin {"down", "idle"},
           NEW t \in Tickets, NEW p \in PCs \ {"down", "gate"}, Write(t, p),
           t.original = mine.original, t.ratified = mine.ratified,
           t.route = mine.route, t.status # "done",
           pc = "gate" => mine.route = "delegate" \/ p = "idle",
           UNCHANGED <<cycles, hand, judged>>
    PROVE  LoopKeeps
<1> USE DEF TypeOK
<1>1. /\ row' \in Tickets /\ mine' \in Tickets /\ pc' = p
      /\ row'.status = t.status /\ row'.criteria = t.criteria
      /\ row'.route = row.route /\ row'.original = row.original
      /\ row'.ratified = row.ratified /\ row'.note = row.note
      /\ p # "idle" => mine' = t
  BY Wrote
<1>2. TypeOK'
  BY <1>1
<1>3. Held'
  BY <1>1 DEF Held
<1> QED
  BY <1>1, <1>2, <1>3 DEF LoopKeeps, TheirsIsKept, DoneIsEarned, CopyIsTraced

\* The loop moves on and writes nothing.
LEMMA WritesNothing ==
    ASSUME TypeOK, Held, UNCHANGED <<row, hand, judged>>,
           pc' \in PCs, cycles' \in 0..MaxCycles, mine' \in Tickets,
           \/ pc' \in {"down", "idle"}
           \/ /\ pc \notin {"down", "idle", "gate"} /\ pc' # "gate" /\ mine' = mine
           \/ /\ mine' = row /\ row.status # "done"
              /\ pc' = "gate" \/ (pc' = "respec" /\ row.route = "delegate")
    PROVE  LoopKeeps
<1>1. TypeOK'
  BY DEF TypeOK
<1>2. Held'
  BY DEF Held
<1> QED
  BY <1>1, <1>2 DEF LoopKeeps, TheirsIsKept, DoneIsEarned, CopyIsTraced

\* The loop writes the row it has just read, not done, and keeps no copy.
LEMMA WritesRow ==
    ASSUME TypeOK, Held, NEW t \in Tickets, UpdateTicket(t), t.status # "done",
           pc' = "idle", mine' \in Tickets, UNCHANGED <<cycles, hand, judged>>
    PROVE  LoopKeeps
<1> USE DEF TypeOK
<1>1. /\ row' \in Tickets /\ row'.status = t.status
      /\ row'.route = row.route /\ row'.original = row.original
      /\ row'.note = row.note
  BY Updated
<1>2. TypeOK'
  BY <1>1 DEF PCs
<1>3. Held'
  BY <1>1 DEF Held
<1> QED
  BY <1>1, <1>2, <1>3 DEF LoopKeeps, TheirsIsKept, DoneIsEarned, CopyIsTraced

\* Every step of the loop keeps what the people wrote, finishes a ticket only on
\* what it judged, and goes on only from a copy that was let past the gate.
LEMMA LoopStepKeeps ==
    ASSUME TypeOK, Held, LoopStep
    PROVE  LoopKeeps
<1> USE DEF PCs
<1> DEFINE Parked(s) == [mine EXCEPT !.status = s]
<1>types. /\ row \in Tickets /\ mine \in Tickets /\ pc \in PCs
          /\ cycles \in 0..MaxCycles /\ Ingested \in Tickets
          /\ \A s \in Statuses : Parked(s) \in Tickets
  BY IngestedType DEF TypeOK, Tickets
<1>park. ASSUME pc \notin {"down", "idle"}, NEW s \in Statuses \ {"done"},
                Write(Parked(s), "idle"), UNCHANGED <<cycles, hand, judged>>
         PROVE  LoopKeeps
  <2>1. Parked(s) \in Tickets /\ Parked(s).status = s
        /\ Parked(s).original = mine.original /\ Parked(s).ratified = mine.ratified
        /\ Parked(s).route = mine.route
    BY <1>types DEF Tickets
  <2> QED
    BY <1>park, <2>1, WritesMine
<1>1. CASE LoopStarts
  BY <1>1, <1>types, WritesNothing DEF LoopStarts
<1>2. CASE LoopEnds
  BY <1>2, <1>types, WritesNothing DEF LoopEnds
<1>3. CASE TakeTicket
  <2>1. /\ mine' = row /\ pc' = "gate" /\ row.status # "done"
        /\ UNCHANGED <<row, cycles, hand, judged>>
    BY <1>3 DEF TakeTicket
  <2>2. pc' \in PCs /\ cycles' \in 0..MaxCycles /\ mine' \in Tickets
    BY <1>types, <2>1
  <2>3. UNCHANGED <<row, hand, judged>>
    BY <2>1
  <2> QED
    BY <2>1, <2>2, <2>3, WritesNothing
<1>4. CASE ParkUnreachable
  <2>1. [row EXCEPT !.status = "skipped"] \in Tickets
        /\ [row EXCEPT !.status = "skipped"].status # "done"
    BY <1>types DEF Tickets, Statuses, Retryable
  <2> QED
    BY <1>4, <1>types, <2>1, WritesRow DEF ParkUnreachable
<1>reset. ASSUME ResetTicket, pc' = "idle", mine' \in Tickets,
                 UNCHANGED <<cycles, hand, judged>>
          PROVE  LoopKeeps
  <2> DEFINE t == [row EXCEPT !.status = "pending", !.attempts = 0]
  <2>1. 0 \in 0..MaxAttempts /\ "pending" \in Statuses
    BY HandAssumption DEF Statuses
  <2>2. t \in Tickets /\ t.status # "done"
    BY <1>types, <2>1 DEF Tickets
  <2>3. UpdateTicket(t)
    BY <1>reset DEF ResetTicket
  <2> QED
    BY <1>reset, <2>2, <2>3, WritesRow
<1>5. CASE ReopenStale
  BY <1>5, <1>types, <1>reset DEF ReopenStale
<1>6. CASE Withhold
  BY <1>6, <1>park DEF Withhold, Statuses, Retryable
<1>7. CASE ParkAtGate
  BY <1>7, <1>park DEF ParkAtGate, Statuses, Retryable
<1>8. CASE SignOff
  <2>1. CASE UNCHANGED <<row, mine>>
    <3>1. TypeOK'
      BY <1>8, <2>1, <1>types DEF SignOff, TypeOK
    <3>2. Held'
      BY <1>8, <2>1 DEF SignOff, Held
    <3> QED
      BY <1>8, <2>1, <3>1, <3>2
      DEF SignOff, LoopKeeps, TheirsIsKept, DoneIsEarned, CopyIsTraced
  <2>2. CASE \E proposed \in SUBSET Imaginable :
                 /\ mine.spec < MaxSpec
                 /\ mine' = [mine EXCEPT !.spec = @ + 1,
                                         !.criteria = SignedOff(mine, proposed)]
                 /\ UpdateTicket(mine')
    <3>1. PICK proposed \in SUBSET Imaginable :
                 /\ mine.spec < MaxSpec
                 /\ mine' = [mine EXCEPT !.spec = @ + 1,
                                         !.criteria = SignedOff(mine, proposed)]
                 /\ UpdateTicket(mine')
      BY <2>2
    <3> DEFINE t == [mine EXCEPT !.spec = @ + 1,
                                 !.criteria = SignedOff(mine, proposed)]
    <3>2. SignedOff(mine, proposed) \subseteq Criteria
      BY <1>types, ImaginableType, CriteriaType
    <3>3. mine.spec + 1 \in 0..MaxSpec
      BY <1>types, <3>1, Fields, HandAssumption
    <3>4. t \in Tickets
      BY <1>types, <3>2, <3>3 DEF Tickets
    <3>5. t.original = mine.original /\ t.ratified = mine.ratified
          /\ t.route = mine.route /\ t.status = mine.status
      BY <1>types DEF Tickets
    <3>6. Write(t, "settle")
      BY <1>8, <3>1 DEF SignOff, Write
    <3> QED
      BY <1>8, <3>4, <3>5, <3>6, WritesMine DEF SignOff, Held
  <2> QED
    BY <1>8, <2>1, <2>2 DEF SignOff
<1>9. CASE Settle
  <2>1. CASE UNCHANGED <<row, mine>>
    BY <1>9, <2>1, <1>types, WritesNothing DEF Settle
  <2>2. CASE /\ mine' = [mine EXCEPT !.ratified = mine.criteria,
                                     !.signed = Fingerprint(mine)]
             /\ RecordRatification(mine')
    <3>1. Fingerprint(mine) \in (0..MaxSpec) \X SUBSET Criteria
      BY <1>types, Fields DEF Fingerprint
    <3>2. mine' \in Tickets /\ mine'.original = mine.original
          /\ mine'.status = mine.status /\ mine'.route = mine.route
      BY <1>types, <2>2, <3>1 DEF Tickets
    <3>3. /\ row' \in Tickets /\ row'.ratified = mine'.ratified
          /\ row'.status = row.status /\ row'.criteria = row.criteria
          /\ row'.route = row.route /\ row'.original = row.original
          /\ row'.note = row.note
      BY <1>types, <2>2, <3>2, Settled
    <3>4. TypeOK'
      BY <1>9, <3>2, <3>3 DEF Settle, TypeOK
    <3>5. Held'
      BY <1>9, <3>2, <3>3 DEF Settle, Held
    <3> QED
      BY <1>9, <3>2, <3>3, <3>4, <3>5
      DEF Settle, LoopKeeps, TheirsIsKept, DoneIsEarned, CopyIsTraced
  <2> QED
    BY <1>9, <2>1, <2>2 DEF Settle
<1>10. CASE RefuseToSign
  BY <1>10, <1>park DEF RefuseToSign, Statuses, Retryable
<1>11. CASE BeginTicket
  <2> DEFINE t == Parked("running")
  <2>1. /\ t \in Tickets /\ t.status # "done" /\ t.original = mine.original
        /\ t.ratified = mine.ratified /\ t.route = mine.route
    BY <1>types DEF Tickets, Statuses
  <2>2. Write(t, "work")
    BY <1>11 DEF BeginTicket
  <2> QED
    BY <1>11, <2>1, <2>2, WritesMine DEF BeginTicket
<1>12. CASE BeginAttempt
  <2> DEFINE t == [mine EXCEPT !.attempts = @ + 1]
  <2>1. mine.attempts + 1 \in 0..MaxAttempts
    BY <1>12, <1>types, Fields, HandAssumption DEF BeginAttempt
  <2>2. /\ t \in Tickets /\ t.status = mine.status /\ t.original = mine.original
        /\ t.ratified = mine.ratified /\ t.route = mine.route
    BY <1>types, <2>1 DEF Tickets
  <2>3. Write(t, "judge")
    BY <1>12 DEF BeginAttempt
  <2> QED
    BY <1>12, <2>2, <2>3, WritesMine DEF BeginAttempt, Held
<1>13. CASE GiveUp
  BY <1>13, <1>park DEF GiveUp, Statuses, Retryable
<1>14. CASE AttemptFails
  BY <1>14, <1>types, WritesNothing DEF AttemptFails
<1>15. CASE AttemptBlocks
  BY <1>15, <1>park DEF AttemptBlocks, Statuses, Retryable
<1>16. CASE AttemptPasses
  <2> DEFINE t == Parked("done")
  <2>1. t \in Tickets /\ t.criteria = mine.criteria
    BY <1>types DEF Tickets, Statuses
  <2>2. Write(t, "idle") /\ judged' = mine.criteria /\ UNCHANGED <<cycles, hand>>
    BY <1>16 DEF AttemptPasses
  <2>3. /\ row' \in Tickets /\ mine' \in Tickets /\ pc' = "idle"
        /\ row'.criteria = mine.criteria /\ row'.route = row.route
        /\ row'.original = row.original /\ row'.note = row.note
    BY <1>types, <2>1, <2>2, Wrote
  <2>4. TypeOK'
    BY <1>types, <2>2, <2>3, Fields DEF TypeOK
  <2>5. Held'
    BY <2>3 DEF Held
  <2> QED
    BY <2>2, <2>3, <2>4, <2>5 DEF LoopKeeps, TheirsIsKept, DoneIsEarned, CopyIsTraced
<1>17. CASE OpenCycle
  <2>1. cycles' \in 0..MaxCycles
    BY <1>17, <1>types, HandAssumption DEF OpenCycle
  <2> QED
    BY <1>17, <2>1, <1>types, WritesNothing DEF OpenCycle, Retryable
<1>18. CASE Respec
  <2>1. PICK proposed \in SUBSET Imaginable :
           Write([mine EXCEPT !.spec = @ + 1, !.criteria = Revised(mine, proposed)],
                 "requeue")
    BY <1>18 DEF Respec
  <2> DEFINE t == [mine EXCEPT !.spec = @ + 1, !.criteria = Revised(mine, proposed)]
  <2>2. Revised(mine, proposed) \subseteq Criteria
    BY <1>types, ImaginableType, CriteriaType
  <2>3. mine.spec + 1 \in 0..MaxSpec
    BY <1>18, <1>types, Fields, HandAssumption DEF Respec
  <2>4. t \in Tickets
    BY <1>types, <2>2, <2>3 DEF Tickets
  <2>5. t.original = mine.original /\ t.ratified = mine.ratified
        /\ t.route = mine.route /\ t.status = mine.status
    BY <1>types DEF Tickets
  <2> QED
    BY <1>18, <2>1, <2>4, <2>5, WritesMine DEF Respec, Held
<1>19. CASE KeepAsWritten
  BY <1>19, <1>types, WritesNothing DEF KeepAsWritten
<1>20. CASE ParkUnsatisfiable
  BY <1>20, <1>park DEF ParkUnsatisfiable, Statuses, Retryable
<1>21. CASE Requeue
  BY <1>21, <1>types, <1>reset DEF Requeue
<1> QED
  BY <1>1, <1>2, <1>3, <1>4, <1>5, <1>6, <1>7, <1>8, <1>9, <1>10, <1>11, <1>12,
     <1>13, <1>14, <1>15, <1>16, <1>17, <1>18, <1>19, <1>20, <1>21 DEF LoopStep

-----------------------------------------------------------------------------
(***************************************************************************)
(* One step of a command.                                                  *)
(***************************************************************************)

\* What a command does not touch: the loop.
LEMMA HandLeavesLoop ==
    ASSUME NEW h \in Hands, HandStep(h)
    PROVE  UNCHANGED loopVars
BY DEF HandStep, Give, GiveAdvice, GiveCriterion, GiveRetry, GiveRelease,
       GiveDischarge, WriteAdvice, Promote, PromoteNothing, NoteRelease, OpenRoute,
       ResetByHand, Discharge, RefuseDischarge, NoteDischarge, Interrupted

\* What a step of a command does to the row.
LEMMA HandWrites ==
    ASSUME TypeOK, NEW h \in Hands, HandStep(h)
    PROVE  /\ row' \in Tickets
           /\ row'.ratified = row.ratified
           /\ row.original \subseteq row'.original
           /\ row'.original \ row.original \subseteq Stated
           /\ \/ row'.note = row.note
              \/ hand[h].at = "note" /\ row'.note = hand[h].copy.note \cup {h}
           /\ \/ row'.route = row.route
              \/ hand[h].at = "route" /\ row'.route = "delegate"
           /\ judged' \subseteq Criteria
           /\ DoneMeansJudged => DoneMeansJudged'
<1> USE DEF TypeOK
<1> DEFINE copy == hand[h].copy
<1>types. /\ row \in Tickets /\ copy \in Tickets
  OBVIOUS
<1>1. CASE UNCHANGED <<row, judged>>
  BY <1>1 DEF DoneMeansJudged
<1>2. CASE Advise(copy, h) /\ UNCHANGED judged /\ hand[h].at = "note"
  BY <1>2, <1>types, Advised DEF DoneMeansJudged
<1>3. CASE Promote(h)
  <2>1. PICK c \in Stated \ row.criteria :
          /\ row' = [row EXCEPT !.criteria = @ \cup {c}, !.original = @ \cup {c}]
          /\ judged' = judged \cup {c}
    BY <1>3 DEF Promote
  <2>2. c \in Criteria
    BY <2>1 DEF Criteria
  <2>3. /\ row' \in Tickets /\ row'.original = row.original \cup {c}
        /\ row'.criteria = row.criteria \cup {c} /\ row'.status = row.status
        /\ row'.ratified = row.ratified /\ row'.note = row.note
        /\ row'.route = row.route
    BY <1>types, <2>1, <2>2 DEF Tickets
  <2> QED
    BY <2>1, <2>2, <2>3 DEF DoneMeansJudged
<1>4. CASE OpenRoute(h)
  BY <1>4, <1>types, Routed DEF OpenRoute, At, DoneMeansJudged
<1>5. CASE ResetByHand(h)
  BY <1>5, <1>types, WasReset DEF ResetByHand, DoneMeansJudged
<1>6. CASE Discharge(h)
  <2> DEFINE t == [copy EXCEPT !.status = "done"]
  <2>1. t \in Tickets /\ t.criteria = copy.criteria /\ copy.criteria \subseteq Criteria
    BY <1>types DEF Tickets, Statuses
  <2>2. UpdateTicket(t) /\ judged' = copy.criteria
    BY <1>6 DEF Discharge
  <2>3. /\ row' \in Tickets /\ row'.criteria = copy.criteria
        /\ row'.route = row.route /\ row'.original = row.original
        /\ row'.ratified = row.ratified /\ row'.note = row.note
    BY <1>types, <2>1, <2>2, Updated
  <2> QED
    BY <2>1, <2>2, <2>3 DEF DoneMeansJudged
<1> QED
  BY <1>1, <1>2, <1>3, <1>4, <1>5, <1>6
  DEF HandStep, Give, GiveAdvice, GiveCriterion, GiveRetry, GiveRelease,
      GiveDischarge, WriteAdvice, PromoteNothing, NoteRelease,
      RefuseDischarge, NoteDischarge, Interrupted, At

\* Where a step of a command leaves the command.
LEMMA HandMoves ==
    ASSUME TypeOK, NEW h \in Hands, HandStep(h)
    PROVE  /\ hand' \in [Hands -> [kind: KindsOfHand \cup {"none"},
                            at: {"none", "note", "promote", "route", "reset",
                                 "verify", "finished"},
                            copy: Tickets]]
           /\ \A g \in Hands \ {h} : hand'[g] = hand[g]
           /\ hand'[h].at = "route" =>
                 hand[h].at = "note" /\ row'.note = hand[h].copy.note \cup {h}
<1>1. hand[h].kind \in KindsOfHand \cup {"none"} /\ hand[h].copy \in Tickets
  BY DEF TypeOK
<1>give. ASSUME NEW kind \in KindsOfHand, NEW at \in {"note", "promote", "reset", "verify"},
                Give(h, kind, at)
         PROVE  hand' = [hand EXCEPT ![h] = [kind |-> kind, at |-> at, copy |-> row]]
  BY <1>give DEF Give
<1>2. CASE \E kind \in KindsOfHand, at \in {"note", "promote", "reset", "verify"} :
              Give(h, kind, at)
  BY <1>2 DEF Give, TypeOK
<1>3. CASE Finish(h)
  BY <1>3, IngestedType DEF Finish, Finished, TypeOK
<1>4. CASE /\ Then(h, "route") /\ hand[h].at = "note"
           /\ Advise(hand[h].copy, h)
  <2>1. row'.note = hand[h].copy.note \cup {h}
    BY <1>1, <1>4, Advised DEF TypeOK
  <2> QED
    BY <1>1, <1>4, <2>1 DEF Then, TypeOK
<1>5. CASE Then(h, "reset") \/ Then(h, "note")
  BY <1>1, <1>5 DEF Then, TypeOK
<1> QED
  BY <1>2, <1>3, <1>4, <1>5
  DEF HandStep, GiveAdvice, GiveCriterion, GiveRetry, GiveRelease, GiveDischarge,
      WriteAdvice, Promote, PromoteNothing, NoteRelease, OpenRoute,
      ResetByHand, Discharge, RefuseDischarge, NoteDischarge, Interrupted, At,
      KindsOfHand

\* Where a command's copy comes from: the row as it is, or, for the note of a
\* discharge, the copy its verification began with.
LEMMA HandReads ==
    ASSUME TypeOK, NEW h \in Hands, HandStep(h)
    PROVE  /\ hand'[h].kind = "none" => hand'[h].at = "finished"
           /\ hand'[h].at = "note" =>
                 \/ row' = row /\ hand'[h].copy = row
                 \/ /\ hand[h].at = "verify" /\ hand'[h].copy = hand[h].copy
                    /\ row'.note = row.note
           /\ hand'[h].at = "verify" =>
                 /\ row' = row /\ hand'[h].copy = row /\ hand'[h].kind = "discharge"
                 /\ pc = "down" \/ "discharge" \in Beside
<1>1. hand[h].copy \in Tickets /\ hand \in [Hands -> [kind: KindsOfHand \cup {"none"},
                            at: {"none", "note", "promote", "route", "reset",
                                 "verify", "finished"},
                            copy: Tickets]]
  BY DEF TypeOK
<1>given. ASSUME NEW kind \in KindsOfHand, NEW first, Give(h, kind, first)
          PROVE  /\ hand'[h].kind = kind /\ hand'[h].at = first
                 /\ hand'[h].copy = row /\ row' = row
                 /\ pc = "down" \/ kind \in Beside
  BY <1>1, <1>given DEF Give
<1>2. CASE \/ GiveAdvice(h) \/ GiveCriterion(h) \/ GiveRetry(h) \/ GiveRelease(h)
           \/ GiveDischarge(h)
  BY <1>2, <1>given
  DEF GiveAdvice, GiveCriterion, GiveRetry, GiveRelease, GiveDischarge, KindsOfHand
<1>3. CASE Finish(h)
  BY <1>1, <1>3 DEF Finish, Finished
<1>4. CASE Discharge(h)
  <2>1. row'.note = row.note
    <3> DEFINE t == [hand[h].copy EXCEPT !.status = "done"]
    <3>1. t \in Tickets /\ row \in Tickets
      BY <1>1 DEF TypeOK, Tickets, Statuses
    <3>2. UpdateTicket(t)
      BY <1>4 DEF Discharge
    <3> QED
      BY <3>1, <3>2, Updated
  <2> QED
    BY <1>1, <1>4, <2>1 DEF Discharge, At, Then
<1>5. CASE NoteRelease(h) \/ (OpenRoute(h) /\ Then(h, "reset"))
  BY <1>1, <1>5 DEF NoteRelease, OpenRoute, At, Then
<1> QED
  BY <1>2, <1>3, <1>4, <1>5
  DEF HandStep, WriteAdvice, Promote, PromoteNothing, OpenRoute,
      ResetByHand, RefuseDischarge, NoteDischarge, Interrupted

-----------------------------------------------------------------------------
(***************************************************************************)
(* The invariant: types, the loop's copy, what a pass judged, and a        *)
(* release on record.                                                      *)
(***************************************************************************)
Kept == TypeOK /\ Held /\ DoneMeansJudged /\ Recorded

\* It holds at the start.
LEMMA KeptInit == Init => Kept
<1> SUFFICES ASSUME Init PROVE Kept
  OBVIOUS
<1>1. TypeOK
  BY IngestedType, HandAssumption DEF Init, TypeOK, PCs, NotGiven
<1>2. Held /\ DoneMeansJudged
  BY DEF Init, Held, DoneMeansJudged, Ingested
<1>3. Recorded
  BY DEF Init, Recorded, Ingested, NotGiven
<1> QED
  BY <1>1, <1>2, <1>3 DEF Kept

\* Every step keeps it.
LEMMA KeptNext == Kept /\ [Next]_vars => Kept'
<1> SUFFICES ASSUME Kept, [Next]_vars PROVE Kept'
  OBVIOUS
<1> USE DEF Kept
<1>1. CASE LoopStep
  <2>1. LoopKeeps
    BY <1>1, LoopStepKeeps
  <2>2. DoneMeansJudged'
    BY <2>1 DEF LoopKeeps, DoneIsEarned, DoneMeansJudged
  <2>3. Recorded'
    BY <2>1 DEF LoopKeeps, TheirsIsKept, CopyIsTraced, Recorded
  <2> QED
    BY <2>1, <2>2, <2>3 DEF LoopKeeps
<1>2. CASE \E h \in Hands : HandStep(h)
  <2>1. PICK h \in Hands : HandStep(h)
    BY <1>2
  <2>2. UNCHANGED loopVars
    BY <2>1, HandLeavesLoop
  <2>3. TypeOK'
    BY <2>1, <2>2, HandWrites, HandMoves DEF TypeOK, loopVars
  <2>4. Held'
    BY <2>1, <2>2, HandWrites DEF Held, loopVars
  <2>5. DoneMeansJudged'
    BY <2>1, HandWrites
  <2>6. row.note # {} => row'.note # {}
    BY <2>1, HandWrites
  <2>7. Recorded'
    BY <2>1, <2>2, <2>6, HandWrites, HandMoves DEF Recorded, loopVars, TypeOK
  <2> QED
    BY <2>3, <2>4, <2>5, <2>7
<1>3. CASE UNCHANGED vars
  BY <1>3 DEF vars, loopVars, TypeOK, Held, DoneMeansJudged, Recorded
<1> QED
  BY <1>1, <1>2, <1>3 DEF Next

\* Whatever the commands and the loop do to each other, the invariant holds.
THEOREM Invariance == Spec => []Kept
BY KeptInit, KeptNext, PTL DEF Spec

\* Every variable stays in its type, for every set of criteria and commands and
\* every bound: no writer drives the attempts past `loop.maxAttempts`.
THEOREM TypeCorrect == Spec => []TypeOK
BY Invariance, PTL DEF Kept

\* A ticket that is done carries only what it was judged on and what a person
\* stated since, with any number of commands under way beside the loop.
THEOREM Judged == Spec => []DoneMeansJudged
BY Invariance, PTL DEF Kept

\* A ticket the plan withheld is worked only over a person's note, even when a
\* release races another command or is killed half way.
THEOREM Released == Spec => []ReleasedOnRecord
<1>1. Kept => ReleasedOnRecord
  BY DEF Kept, Recorded, ReleasedOnRecord
<1> QED
  BY <1>1, Invariance, PTL

\* No process moves the plan's anchor but to add what a person stated.
THEOREM Anchored == Spec => AnchorKept
<1>1. ASSUME Kept, [Next]_vars
      PROVE  [row'.original # row.original =>
                 /\ row.original \subseteq row'.original
                 /\ row'.original \ row.original \subseteq Stated]_vars
  <2>1. CASE LoopStep
    BY <1>1, <2>1, LoopStepKeeps DEF Kept, LoopKeeps, TheirsIsKept
  <2>2. CASE \E h \in Hands : HandStep(h)
    BY <1>1, <2>2, HandWrites DEF Kept
  <2>3. CASE UNCHANGED vars
    BY <2>3
  <2> QED
    BY <1>1, <2>1, <2>2, <2>3 DEF Next
<1> QED
  BY <1>1, Invariance, PTL DEF Spec, AnchorKept

-----------------------------------------------------------------------------
(***************************************************************************)
(* One command at a time.  What follows is false without that, and the     *)
(* last theorem also with a discharge given while the loop is up: each     *)
(* writes back what it read before it waited.                              *)
(***************************************************************************)

\* A command is given only when no other is under way.
LEMMA GivenAlone ==
    ASSUME AtOnce = 1, NEW h \in Hands, NEW kind, NEW first, Give(h, kind, first)
    PROVE  Busy = {}
<1>1. IsFiniteSet(Busy)
  BY HandAssumption, FS_Subset DEF Busy
<1>2. Cardinality(Busy) \in Nat /\ Cardinality(Busy) < 1
  BY <1>1, FS_CardinalityType DEF Give
<1>3. Cardinality(Busy) = 0
  BY <1>2
<1> QED
  BY <1>1, <1>3, FS_EmptySet

\* At the start no command is under way.
LEMMA AloneInit == Init => OneAtATime
BY DEF Init, OneAtATime, NotGiven, Busy

\* A step of the only command under way.
LEMMA AloneNext ==
    ASSUME AtOnce = 1, Kept, Kept', OneAtATime, [Next]_vars
    PROVE  OneAtATime'
<1> USE DEF Kept, TypeOK
<1>1. CASE LoopStep
  <2>1. hand' = hand /\ row'.note = row.note
    BY <1>1, LoopStepKeeps DEF LoopKeeps, TheirsIsKept
  <2> QED
    BY <2>1 DEF OneAtATime, Busy
<1>2. CASE \E h \in Hands : HandStep(h)
  <2>1. PICK h \in Hands : HandStep(h)
    BY <1>2
  <2>2. \A g \in Hands \ {h} : hand'[g] = hand[g]
    BY <2>1, HandMoves
  <2>3. \A g \in Hands \ {h} : hand[g].kind = "none"
    <3>1. CASE h \in Busy
      BY <3>1 DEF OneAtATime, Busy
    <3>2. CASE Busy = {}
      BY <3>2 DEF Busy
    <3>3. h \in Busy \/ Busy = {}
      BY <2>1, GivenAlone
      DEF HandStep, GiveAdvice, GiveCriterion, GiveRetry, GiveRelease,
          GiveDischarge, WriteAdvice, Promote, PromoteNothing, NoteRelease,
          OpenRoute, ResetByHand, Discharge, RefuseDischarge, NoteDischarge,
          Interrupted, At, Busy, OneAtATime
    <3> QED
      BY <3>1, <3>2, <3>3
  <2>4. \A g, i \in Busy' : g = i
    BY <2>2, <2>3 DEF Busy
  <2>5. hand'[h].kind = "none" => hand'[h].at \in {"none", "finished"}
    BY <2>1, HandReads
  <2>6. hand'[h].at \in {"note", "verify"} => row'.note \subseteq hand'[h].copy.note
    BY <2>1, HandReads DEF OneAtATime
  <2> QED
    BY <2>2, <2>3, <2>4, <2>5, <2>6 DEF OneAtATime
<1>3. CASE UNCHANGED vars
  BY <1>3 DEF vars, OneAtATime, Busy
<1> QED
  BY <1>1, <1>2, <1>3 DEF Next

\* Given one command at a time, they stay one at a time.
LEMMA Alone == ASSUME AtOnce = 1 PROVE Spec => []OneAtATime
<1>1. Kept /\ Kept' /\ OneAtATime /\ [Next]_vars => OneAtATime'
  BY AloneNext
<1> QED
  BY <1>1, AloneInit, Invariance, PTL DEF Spec

\* With one command at a time nothing a person said about a ticket is lost, and
\* the loop beside it never loses any: `update_ticket` leaves the notes out.
THEOREM Noted == ASSUME AtOnce = 1 PROVE Spec => NotesKept
<1>1. ASSUME Kept, OneAtATime, [Next]_vars
      PROVE  [row.note \subseteq row'.note]_vars
  <2>1. CASE LoopStep
    BY <1>1, <2>1, LoopStepKeeps DEF Kept, LoopKeeps, TheirsIsKept
  <2>2. CASE \E h \in Hands : HandStep(h)
    BY <1>1, <2>2, HandWrites DEF Kept, OneAtATime
  <2> QED
    BY <1>1, <2>1, <2>2 DEF Next
<1> QED
  BY <1>1, Invariance, Alone, PTL DEF Spec, NotesKept

-----------------------------------------------------------------------------
(***************************************************************************)
(* The floor of a ticket.                                                  *)
(***************************************************************************)

\* A respec leaves every criterion of the contract that is on the ticket.
LEMMA RevisedKeeps ==
    ASSUME NEW t, NEW proposed
    PROVE  t.criteria \cap ContractCriteria(t) \subseteq Revised(t, proposed)
BY DEF Revised, DropWholeFileClaims, MergeCriteria

\* What a step of the loop does to the criteria, in the row and in its copy.
CriteriaMove ==
    \/ /\ pc = "gate" /\ pc' = "settle"
       /\ UNCHANGED <<row, mine>> \/ row'.criteria = mine'.criteria
    \/ pc = "settle" /\ pc' \in {"down", "idle"}
    \/ /\ pc = "settle" /\ pc' = "signed" /\ row'.criteria = row.criteria
       /\ row'.ratified = mine.criteria /\ mine'.criteria = mine.criteria
    \/ /\ row'.criteria = row.criteria /\ row'.ratified = row.ratified
       /\ \/ pc' \in {"down", "idle"}
          \/ pc = "idle" /\ mine' = row
          \/ pc \notin {"down", "idle", "requeue", "settle"} /\ mine' = mine
    \/ /\ row'.criteria = mine.criteria /\ row'.ratified = row.ratified
       /\ pc \notin {"down", "idle", "requeue", "settle"}
       /\ pc' = "idle" \/ mine'.criteria = mine.criteria
    \/ /\ pc = "respec" /\ pc' = "requeue" /\ row'.ratified = row.ratified
       /\ mine'.criteria = row'.criteria
       /\ \E proposed : row'.criteria = Revised(mine, proposed)

\* Every step of the loop is one of these, when each sign-off pass reaches a role.
LEMMA LoopMovesCriteria ==
    ASSUME Reachable, TypeOK, LoopStep
    PROVE  CriteriaMove
<1> USE DEF CriteriaMove
<1>types. row \in Tickets /\ mine \in Tickets
  BY DEF TypeOK
<1> DEFINE Parked(s) == [mine EXCEPT !.status = s]
<1>write. ASSUME NEW t \in Tickets, NEW p \in PCs \ {"down"}, Write(t, p)
          PROVE  /\ row'.criteria = t.criteria /\ row'.ratified = row.ratified
                 /\ pc' = p /\ (p # "idle" => mine' = t)
  BY <1>types, <1>write, Wrote
<1>park. ASSUME pc \notin {"down", "idle", "requeue"}, NEW s \in Statuses,
                Write(Parked(s), "idle")
         PROVE  CriteriaMove
  <2>1. Parked(s) \in Tickets /\ Parked(s).criteria = mine.criteria
    BY <1>types DEF Tickets
  <2>2. "idle" \in PCs \ {"down"}
    BY DEF PCs
  <2> QED
    BY <1>park, <2>1, <2>2, <1>write
<1>1. CASE LoopStarts \/ LoopEnds \/ TakeTicket \/ OpenCycle \/ AttemptFails
           \/ KeepAsWritten
  BY <1>1 DEF LoopStarts, LoopEnds, TakeTicket, OpenCycle, AttemptFails, KeepAsWritten
<1>2. CASE ParkUnreachable
  <2>1. [row EXCEPT !.status = "skipped"] \in Tickets
        /\ [row EXCEPT !.status = "skipped"].criteria = row.criteria
    BY <1>types DEF Tickets, Statuses, Retryable
  <2> QED
    BY <1>2, <1>types, <2>1, Updated DEF ParkUnreachable
<1>3. CASE ReopenStale \/ Requeue
  BY <1>3, <1>types, WasReset DEF ReopenStale, Requeue
<1>4. CASE Withhold \/ ParkAtGate \/ RefuseToSign \/ GiveUp \/ AttemptBlocks
           \/ AttemptPasses \/ ParkUnsatisfiable
  BY <1>4, <1>park
  DEF Withhold, ParkAtGate, RefuseToSign, GiveUp, AttemptBlocks, AttemptPasses,
      ParkUnsatisfiable, Statuses, Retryable
<1>5. CASE SignOff
  <2>1. ASSUME NEW proposed \in SUBSET Imaginable, mine.spec < MaxSpec,
               mine' = [mine EXCEPT !.spec = @ + 1,
                                    !.criteria = SignedOff(mine, proposed)],
               UpdateTicket(mine')
        PROVE  row'.criteria = mine'.criteria
    BY <1>types, <2>1 DEF UpdateTicket, Tickets
  <2> QED
    BY <1>5, <2>1 DEF SignOff
<1>6. CASE Settle
  <2>1. /\ mine' = [mine EXCEPT !.ratified = mine.criteria,
                                !.signed = Fingerprint(mine)]
        /\ RecordRatification(mine')
    BY <1>6 DEF Settle
  <2>2. mine'.ratified = mine.criteria /\ mine'.criteria = mine.criteria
    BY <1>types, <2>1 DEF Tickets
  <2>3. row'.ratified = mine'.ratified /\ row'.criteria = row.criteria
    BY <1>types, <2>1 DEF RecordRatification, Tickets
  <2> QED
    BY <1>6, <2>2, <2>3 DEF Settle
<1>7. CASE BeginTicket
  <2>1. Parked("running") \in Tickets /\ Parked("running").criteria = mine.criteria
    BY <1>types DEF Tickets, Statuses
  <2>2. Write(Parked("running"), "work") /\ pc \in {"gate", "signed"}
    BY <1>7 DEF BeginTicket
  <2> QED
    BY <2>1, <2>2, <1>write DEF PCs
<1>8. CASE BeginAttempt
  <2> DEFINE t == [mine EXCEPT !.attempts = @ + 1]
  <2>1. mine.attempts + 1 \in 0..MaxAttempts
    BY <1>8, <1>types, Fields, HandAssumption DEF BeginAttempt
  <2>2. t \in Tickets /\ t.criteria = mine.criteria
    BY <1>types, <2>1 DEF Tickets
  <2>3. Write(t, "judge") /\ pc = "work"
    BY <1>8 DEF BeginAttempt
  <2> QED
    BY <2>2, <2>3, <1>write DEF PCs
<1>9. CASE Respec
  <2>1. PICK proposed \in SUBSET Imaginable :
           Write([mine EXCEPT !.spec = @ + 1, !.criteria = Revised(mine, proposed)],
                 "requeue")
    BY <1>9 DEF Respec
  <2> DEFINE t == [mine EXCEPT !.spec = @ + 1, !.criteria = Revised(mine, proposed)]
  <2>2. Revised(mine, proposed) \subseteq Criteria
    BY <1>types, ImaginableType, CriteriaType
  <2>3. mine.spec + 1 \in 0..MaxSpec
    BY <1>9, <1>types, Fields, HandAssumption DEF Respec
  <2>4. t \in Tickets /\ t.criteria = Revised(mine, proposed)
    BY <1>types, <2>2, <2>3 DEF Tickets
  <2>5. /\ row'.criteria = Revised(mine, proposed) /\ row'.ratified = row.ratified
        /\ pc' = "requeue" /\ mine' = t
    <3>1. Write(t, "requeue") /\ "requeue" \in PCs \ {"down"}
      BY <2>1 DEF PCs
    <3> HIDE DEF t
    <3> QED
      BY <2>4, <3>1, <1>write
  <2>6. \E q : row'.criteria = Revised(mine, q)
    BY <2>5
  <2>7. pc = "respec" /\ mine'.criteria = row'.criteria
    BY <1>9, <2>4, <2>5 DEF Respec
  <2> QED
    BY <2>5, <2>6, <2>7
<1> QED
  BY <1>1, <1>2, <1>3, <1>4, <1>5, <1>6, <1>7, <1>8, <1>9 DEF LoopStep

\* No discharge is being verified beside the loop, and what the loop holds is
\* still on the row, whatever a person added to it since.
Carried ==
    /\ Verified
    /\ pc \notin {"down", "idle"} => mine.criteria \subseteq row.criteria

\* A step of a command, when it is the only one and no discharge is given beside
\* the loop, takes no criterion off the row.
LEMMA HandAdds ==
    ASSUME TypeOK, Verified, NEW h \in Hands, HandStep(h)
    PROVE  row.criteria \subseteq row'.criteria
<1>types. row \in Tickets /\ hand[h].copy \in Tickets
  BY DEF TypeOK
<1>1. CASE row' = row
  BY <1>1
<1>2. CASE Advise(hand[h].copy, h) \/ SetRoute("delegate") \/ ResetTicket
  BY <1>2, <1>types, Advised, Routed, WasReset
<1>3. CASE Promote(h)
  BY <1>3, <1>types DEF Promote, Tickets
<1>4. CASE Discharge(h)
  <2> DEFINE t == [hand[h].copy EXCEPT !.status = "done"]
  <2>1. t \in Tickets /\ t.criteria = hand[h].copy.criteria
    BY <1>types DEF Tickets, Statuses
  <2>2. UpdateTicket(t) /\ hand[h].at = "verify"
    BY <1>4 DEF Discharge, At
  <2> QED
    BY <1>types, <2>1, <2>2, Updated DEF Verified
<1> QED
  BY <1>1, <1>2, <1>3, <1>4
  DEF HandStep, Give, GiveAdvice, GiveCriterion, GiveRetry, GiveRelease,
      GiveDischarge, WriteAdvice, PromoteNothing, NoteRelease, OpenRoute,
      ResetByHand, RefuseDischarge, NoteDischarge, Interrupted

\* What is carried stays carried.
LEMMA CarriedNext ==
    ASSUME AtOnce = 1, "discharge" \notin Beside, Reachable,
           Kept, OneAtATime, Carried, [Next]_vars
    PROVE  Carried'
<1> USE DEF Kept
<1>1. CASE LoopStep
  <2>1. CriteriaMove
    BY <1>1, LoopMovesCriteria
  <2>2. hand' = hand
    BY <1>1, LoopStepKeeps DEF LoopKeeps, TheirsIsKept
  <2>3. ASSUME NEW h \in Hands, hand[h].at = "verify"
        PROVE  pc' = "down" /\ row' = row
    <3>1. pc = "down" /\ hand[h].kind = "discharge"
      BY <2>3 DEF Carried, Verified
    <3>2. ~LoopStarts
      BY <3>1 DEF LoopStarts, Busy
    <3>3. FALSE
      BY <1>1, <3>1, <3>2
      DEF LoopStep, LoopEnds, TakeTicket, ParkUnreachable, ReopenStale, Withhold,
          ParkAtGate, SignOff, Settle, RefuseToSign, BeginTicket, BeginAttempt,
          GiveUp, AttemptFails, AttemptBlocks, AttemptPasses, OpenCycle, Respec,
          KeepAsWritten, ParkUnsatisfiable, Requeue
    <3> QED
      BY <3>3
  <2>4. Verified'
    BY <2>2, <2>3 DEF Carried, Verified
  <2>5. pc' \notin {"down", "idle"} => mine'.criteria \subseteq row'.criteria
    BY <2>1 DEF CriteriaMove, Carried
  <2> QED
    BY <2>4, <2>5 DEF Carried
<1>2. CASE \E h \in Hands : HandStep(h)
  <2>1. PICK h \in Hands : HandStep(h)
    BY <1>2
  <2>2. UNCHANGED loopVars /\ row.criteria \subseteq row'.criteria
    BY <2>1, HandLeavesLoop, HandAdds DEF Carried
  <2>3. \A g \in Hands \ {h} : hand'[g] = hand[g] /\ hand[g].at # "verify"
    <3>1. \A g \in Hands \ {h} : hand'[g] = hand[g]
      BY <2>1, HandMoves
    <3>2. \A g \in Hands \ {h} : g \notin Busy
      <4>1. h \in Busy \/ Busy = {}
        BY <2>1, GivenAlone
        DEF HandStep, GiveAdvice, GiveCriterion, GiveRetry, GiveRelease,
            GiveDischarge, WriteAdvice, Promote, PromoteNothing, NoteRelease,
            OpenRoute, ResetByHand, Discharge, RefuseDischarge, NoteDischarge,
            Interrupted, At, Busy, OneAtATime
      <4> QED
        BY <4>1 DEF OneAtATime
    <3> QED
      BY <3>1, <3>2 DEF OneAtATime, Busy
  <2>4. Verified'
    BY <2>1, <2>2, <2>3, HandReads DEF Verified, loopVars
  <2> QED
    BY <2>2, <2>4 DEF Carried, loopVars
<1>3. CASE UNCHANGED vars
  BY <1>3 DEF vars, loopVars, Carried, Verified
<1> QED
  BY <1>1, <1>2, <1>3 DEF Next

\* A sign-off that settles gives the ticket a floor it carries, and but for another
\* sign-off no step takes any of the floor off a ticket that carries it.
THEOREM FloorStands ==
    ASSUME AtOnce = 1, "discharge" \notin Beside, Reachable
    PROVE  Spec => OnlySignOffMovesTheFloor
<1>1. Init => Carried
  BY DEF Init, Carried, Verified, NotGiven
<1>2. Kept /\ OneAtATime /\ Carried /\ [Next]_vars => Carried'
  BY CarriedNext
<1> DEFINE Mover == [/\ ~SigningOff
                     /\ \/ FloorCarried
                        \/ pc = "settle" /\ mine.criteria # {}
                     => FloorCarried']_vars
<1>3. ASSUME Kept, Carried, [Next]_vars
      PROVE  Mover
  <2> SUFFICES ASSUME Next, ~SigningOff,
                      FloorCarried \/ (pc = "settle" /\ mine.criteria # {})
               PROVE  FloorCarried'
    BY <1>3
  <2> USE DEF Kept
  <2>1. CASE LoopStep
    <3>1. CriteriaMove
      BY <1>3, <2>1, LoopMovesCriteria
    <3>2. CASE pc = "settle"
      <4>1. /\ row'.criteria = row.criteria /\ row'.ratified = mine.criteria
            /\ mine'.criteria = mine.criteria /\ pc' = "signed"
        BY <3>1, <3>2 DEF CriteriaMove, SigningOff
      <4>2. mine.criteria # {}
        BY <3>2, CriteriaAssumption DEF FloorCarried, Floor
      <4>3. Floor' = mine.criteria
        BY <4>1, <4>2 DEF Floor
      <4> QED
        BY <3>2, <4>1, <4>3, <1>3 DEF FloorCarried, Carried
    <3>3. CASE pc # "settle"
      <4>1. FloorCarried /\ row'.ratified = row.ratified /\ Floor' = Floor
        BY <3>1, <3>3 DEF CriteriaMove, SigningOff, Floor
      <4>2. CASE pc = "respec" /\ pc' = "requeue"
                 /\ \E proposed : row'.criteria = Revised(mine, proposed)
        <5>1. Floor \subseteq mine.criteria /\ Floor \subseteq ContractCriteria(mine)
          BY <1>3, <4>1, <4>2 DEF FloorCarried, Held, Floor, ContractCriteria
        <5> QED
          BY <4>1, <4>2, <5>1, RevisedKeeps DEF FloorCarried
      <4> QED
        BY <3>1, <3>3, <4>1, <4>2 DEF CriteriaMove, SigningOff, FloorCarried
    <3> QED
      BY <3>2, <3>3
  <2>2. CASE \E h \in Hands : HandStep(h)
    <3>1. PICK h \in Hands : HandStep(h)
      BY <2>2
    <3>2. /\ UNCHANGED loopVars /\ row.criteria \subseteq row'.criteria
          /\ row'.ratified = row.ratified
      BY <1>3, <3>1, HandLeavesLoop, HandAdds, HandWrites DEF Carried
    <3> QED
      BY <3>2 DEF loopVars, FloorCarried, Floor, SigningOff
  <2> QED
    BY <2>1, <2>2 DEF Next
<1> QED
  BY <1>1, <1>2, <1>3, Invariance, Alone, PTL DEF Spec, OnlySignOffMovesTheFloor
=============================================================================
