------------------------------ MODULE Handback ------------------------------
(***************************************************************************)
(* One ticket's row in the store of hybrid-forge, and everyone who writes  *)
(* it: the loop, which takes a copy, works on it for minutes and writes it *)
(* back (src/forge/loop.py), and the commands and dashboard requests that  *)
(* hand the ticket back to it (src/forge/cli.py, src/forge/ui/writes.py).  *)
(* Each is a process or a thread with a connection of its own: one UPDATE  *)
(* is atomic (src/forge/state.py), what was read before it may be stale.   *)
(*                                                                         *)
(* A read and the write that follows it with nothing in between are one    *)
(* step.  Everything that waits (a model, a verification) or that writes   *)
(* the store more than once is several.  RunLoop models the same loop over *)
(* a whole backlog; here the other tickets show only in the time that      *)
(* passes.                                                                 *)
(***************************************************************************)
EXTENDS Contract

CONSTANTS
    Hands,        \* the commands given, each a process or a request of its own
    Kinds,        \* which commands are given, a subset of KindsOfHand
    Beside,       \* of those, the ones given while the loop is up
    AtOnce,       \* bound: how many are under way at the same time
    InitRoute,    \* "delegate" or "withheld"
    MaxAttempts,  \* loop.maxAttempts
    Ratifies,     \* whether loop.ratifyPasses is set
    Reachable,    \* whether a sign-off pass always reaches some role
    MaxSpec,      \* bound: times the spec is rewritten
    MaxCycles     \* bound: retry cycles

KindsOfHand == {"advise", "criteria", "release", "discharge", "retry"}

ASSUME HandAssumption ==
    /\ Kinds \subseteq KindsOfHand /\ Beside \subseteq Kinds
    /\ IsFiniteSet(Hands)
    /\ AtOnce \in Nat /\ InitRoute \in {"delegate", "withheld"}
    /\ MaxAttempts \in Nat \ {0} /\ Ratifies \in BOOLEAN /\ Reachable \in BOOLEAN
    /\ MaxSpec \in Nat /\ MaxCycles \in Nat

VARIABLES
    row,     \* the ticket in the store
    pc,      \* the loop
    mine,    \* the copy of the ticket the loop works on
    cycles,  \* retry cycles it made
    hand,    \* where each command is, and the copy it read
    judged   \* the criteria the last recorded pass was judged on, and those a
             \* person has stated since

loopVars == <<pc, mine, cycles>>
vars == <<row, loopVars, hand, judged>>

Retryable == {"failed", "blocked", "skipped", "withheld"}
Statuses == {"pending", "running", "done"} \cup Retryable
PCs == {"down", "idle", "gate", "settle", "signed", "work", "judge", "respec",
        "requeue"}
Unsigned == <<>>

Tickets == [status: Statuses, route: {"delegate", "withheld"},
            attempts: 0..MaxAttempts, spec: 0..MaxSpec,
            criteria: SUBSET Criteria, original: SUBSET Criteria,
            ratified: SUBSET Criteria,
            signed: {Unsigned} \cup ((0..MaxSpec) \X SUBSET Criteria),
            note: SUBSET Hands]

Ingested == [status |-> "pending", route |-> InitRoute, attempts |-> 0,
             spec |-> 0, criteria |-> Planned, original |-> Planned,
             ratified |-> {}, signed |-> Unsigned, note |-> {}]

NotGiven == [kind |-> "none", at |-> "none", copy |-> Ingested]
Finished == [kind |-> "none", at |-> "finished", copy |-> Ingested]

(***************************************************************************)
(* The statements the store writes a ticket with.                          *)
(***************************************************************************)

\* (mutant) the notes are written along with the rest
UpdateTicketNote(t) ==
    row' = [row EXCEPT !.status = t.status, !.attempts = t.attempts,
                       !.spec = t.spec, !.criteria = t.criteria, !.note = t.note]

\* (mutant) the anchor is written along with the rest
UpdateTicketAnchor(t) ==
    row' = [row EXCEPT !.status = t.status, !.attempts = t.attempts,
                       !.spec = t.spec, !.criteria = t.criteria,
                       !.original = t.original]

\* (mutant) the criteria are left to promote_criteria
UpdateTicketStatus(t) ==
    row' = [row EXCEPT !.status = t.status, !.attempts = t.attempts, !.spec = t.spec]

\* `update_ticket`: not the route, the notes, the plan's anchor or the sign-off.
UpdateTicket(t) ==
    row' = [row EXCEPT !.status = t.status, !.attempts = t.attempts,
                       !.spec = t.spec, !.criteria = t.criteria]

RecordRatification(t) ==
    row' = [row EXCEPT !.ratified = t.ratified, !.signed = t.signed]

\* `advise` appends to the notes its caller read.
Advise(t, entry) == row' = [row EXCEPT !.note = t.note \cup {entry}]

SetRoute(route) == row' = [row EXCEPT !.route = route]

\* `reset_tickets` reads the row it writes.
ResetTicket == UpdateTicket([row EXCEPT !.status = "pending", !.attempts = 0])

Init ==
    /\ row = Ingested /\ mine = Ingested
    /\ pc = "down" /\ cycles = 0
    /\ hand = [h \in Hands |-> NotGiven]
    /\ judged = {}

(***************************************************************************)
(* The loop.                                                               *)
(***************************************************************************)
Busy == {h \in Hands : hand[h].kind # "none"}

LoopStarts ==
    /\ pc = "down" /\ \A h \in Busy : hand[h].kind \in Beside
    /\ pc' = "idle"
    /\ UNCHANGED <<row, mine, cycles, hand, judged>>

\* `run` returns, is stopped, or its process is killed.
LoopEnds ==
    /\ pc # "down" /\ pc' = "down" /\ mine' = Ingested
    /\ UNCHANGED <<row, cycles, hand, judged>>

\* The loop writes its copy t and goes to p.
Write(t, p) ==
    /\ UpdateTicket(t) /\ pc' = p
    /\ mine' = IF p = "idle" THEN Ingested ELSE t

TakeTicket ==
    /\ pc = "idle" /\ row.status \in {"pending", "running"}
    /\ mine' = row /\ pc' = "gate"
    /\ UNCHANGED <<row, cycles, hand, judged>>

\* What the ticket needs did not land, or moved under it after it passed.
ParkUnreachable ==
    /\ pc = "idle" /\ row.status = "pending" /\ pc' = "idle"
    /\ UpdateTicket([row EXCEPT !.status = "skipped"])
    /\ UNCHANGED <<mine, cycles, hand, judged>>

ReopenStale ==
    /\ pc = "idle" /\ row.status = "done" /\ pc' = "idle"
    /\ ResetTicket
    /\ UNCHANGED <<mine, cycles, hand, judged>>

Withhold ==
    /\ pc = "gate" /\ mine.route = "withheld"
    /\ Write([mine EXCEPT !.status = "withheld"], "idle")
    /\ UNCHANGED <<cycles, hand, judged>>

\* The kind and scope gates; the scope is asked about again after a sign-off.
ParkAtGate ==
    /\ pc \in {"gate", "signed"} /\ mine.route = "delegate"
    /\ Write([mine EXCEPT !.status = "blocked"], "idle")
    /\ UNCHANGED <<cycles, hand, judged>>

\* What a planner shown this ticket may propose.
Imaginable == mine.criteria \cup Planned \cup Proposable

AwaitsSignOff == Ratifies /\ mine.signed # Fingerprint(mine)

\* The roles vote, and between two votes the planner may reword the ticket.
SignOff ==
    /\ pc = "gate" /\ mine.route = "delegate" /\ AwaitsSignOff
    /\ pc' = "settle"
    /\ \/ UNCHANGED <<row, mine>>
       \/ \E proposed \in SUBSET Imaginable :
             /\ mine.spec < MaxSpec
             /\ mine' = [mine EXCEPT !.spec = @ + 1,
                                     !.criteria = SignedOff(mine, proposed)]
             /\ UpdateTicket(mine')
    /\ UNCHANGED <<cycles, hand, judged>>

\* What was agreed becomes the contract.  A pass that reached nobody writes no
\* anchor, and the ticket goes on.
Settle ==
    /\ pc = "settle" /\ pc' = "signed"
    /\ \/ /\ mine' = [mine EXCEPT !.ratified = mine.criteria,
                                   !.signed = Fingerprint(mine)]
          /\ RecordRatification(mine')
       \/ ~Reachable /\ UNCHANGED <<row, mine>>
    /\ UNCHANGED <<cycles, hand, judged>>

RefuseToSign ==
    /\ pc = "settle" /\ Write([mine EXCEPT !.status = "blocked"], "idle")
    /\ UNCHANGED <<cycles, hand, judged>>

BeginTicket ==
    /\ \/ pc = "gate" /\ mine.route = "delegate" /\ ~AwaitsSignOff
       \/ pc = "signed"
    /\ Write([mine EXCEPT !.status = "running"], "work")
    /\ UNCHANGED <<cycles, hand, judged>>

\* (mutant) one attempt more than there are
BeginAttemptOnceMore ==
    /\ pc = "work" /\ mine.attempts <= MaxAttempts
    /\ Write([mine EXCEPT !.attempts = @ + 1], "judge")
    /\ UNCHANGED <<cycles, hand, judged>>

BeginAttempt ==
    /\ pc = "work" /\ mine.attempts < MaxAttempts
    /\ Write([mine EXCEPT !.attempts = @ + 1], "judge")
    /\ UNCHANGED <<cycles, hand, judged>>

GiveUp ==
    /\ pc = "work" /\ mine.attempts = MaxAttempts
    /\ Write([mine EXCEPT !.status = "failed"], "idle")
    /\ UNCHANGED <<cycles, hand, judged>>

AttemptFails ==
    /\ pc = "judge" /\ pc' = "work"
    /\ UNCHANGED <<row, mine, cycles, hand, judged>>

AttemptBlocks ==
    /\ pc = "judge" /\ Write([mine EXCEPT !.status = "blocked"], "idle")
    /\ UNCHANGED <<cycles, hand, judged>>

AttemptPasses ==
    /\ pc = "judge" /\ Write([mine EXCEPT !.status = "done"], "idle")
    /\ judged' = mine.criteria
    /\ UNCHANGED <<cycles, hand>>

\* The backlog is exhausted and this ticket is one to retry: every ticket is
\* read before the planner is asked about the first of them.
OpenCycle ==
    /\ pc = "idle" /\ cycles < MaxCycles /\ cycles' = cycles + 1
    /\ row.status \in Retryable /\ row.route = "delegate"
    /\ mine' = row /\ pc' = "respec"
    /\ UNCHANGED <<row, hand, judged>>

Respec ==
    /\ pc = "respec" /\ mine.attempts > 0 /\ mine.spec < MaxSpec
    /\ \E proposed \in SUBSET Imaginable :
          Write([mine EXCEPT !.spec = @ + 1, !.criteria = Revised(mine, proposed)],
                "requeue")
    /\ UNCHANGED <<cycles, hand, judged>>

\* Nothing ran, or the planner left the ticket as it was.
KeepAsWritten ==
    /\ pc = "respec" /\ pc' = "requeue"
    /\ UNCHANGED <<row, mine, cycles, hand, judged>>

\* The planner says the ticket cannot be met.
ParkUnsatisfiable ==
    /\ pc = "respec" /\ mine.attempts > 0
    /\ Write([mine EXCEPT !.status = "blocked"], "idle")
    /\ UNCHANGED <<cycles, hand, judged>>

Requeue ==
    /\ pc = "requeue" /\ pc' = "idle" /\ mine' = Ingested
    /\ ResetTicket
    /\ UNCHANGED <<cycles, hand, judged>>

(***************************************************************************)
(* The commands.  Each reads the ticket when it starts.                    *)
(***************************************************************************)
Give(h, kind, first) ==
    /\ kind \in Kinds /\ hand[h] = NotGiven
    /\ Cardinality(Busy) < AtOnce
    /\ pc = "down" \/ kind \in Beside
    /\ hand' = [hand EXCEPT ![h] = [kind |-> kind, at |-> first, copy |-> row]]
    /\ UNCHANGED <<row, loopVars, judged>>

GiveAdvice(h)    == Give(h, "advise", "note")
GiveCriterion(h) == Give(h, "criteria", "promote")
GiveRetry(h)     == Give(h, "retry", "reset")

\* (mutant) the route is opened before anything is recorded
GiveReleaseUnrecorded(h) == row.route = "withheld" /\ Give(h, "release", "route")

GiveRelease(h)   == row.route = "withheld" /\ Give(h, "release", "note")
GiveDischarge(h) == row.status # "done" /\ Give(h, "discharge", "verify")

At(h, kind, step) == hand[h].kind = kind /\ hand[h].at = step
Then(h, step) == hand' = [hand EXCEPT ![h].at = step]
Finish(h) == hand' = [hand EXCEPT ![h] = Finished]

WriteAdvice(h) ==
    /\ At(h, "advise", "note") /\ Advise(hand[h].copy, h) /\ Finish(h)
    /\ UNCHANGED <<loopVars, judged>>

\* `promote_criteria` reads the row it writes; a criterion stated on a ticket
\* that already passed is not one it was judged on, and the command says so.
Promote(h) ==
    /\ At(h, "criteria", "promote") /\ Finish(h)
    /\ \E c \in Stated \ row.criteria :
          /\ row' = [row EXCEPT !.criteria = @ \cup {c}, !.original = @ \cup {c}]
          /\ judged' = judged \cup {c}
    /\ UNCHANGED loopVars

PromoteNothing(h) ==
    /\ At(h, "criteria", "promote") /\ Stated \cap row.criteria # {} /\ Finish(h)
    /\ UNCHANGED <<row, loopVars, judged>>

\* The reason that was overruled goes on the record first.
NoteRelease(h) ==
    /\ At(h, "release", "note") /\ Advise(hand[h].copy, h) /\ Then(h, "route")
    /\ UNCHANGED <<loopVars, judged>>

OpenRoute(h) ==
    /\ At(h, "release", "route") /\ SetRoute("delegate")
    /\ IF hand[h].copy.status = "withheld" THEN Then(h, "reset") ELSE Finish(h)
    /\ UNCHANGED <<loopVars, judged>>

ResetByHand(h) ==
    /\ hand[h].at = "reset" /\ ResetTicket /\ Finish(h)
    /\ UNCHANGED <<loopVars, judged>>

\* The tree verified, or nobody asked: the copy read before is recorded done.
Discharge(h) ==
    /\ At(h, "discharge", "verify")
    /\ UpdateTicket([hand[h].copy EXCEPT !.status = "done"])
    /\ judged' = hand[h].copy.criteria
    /\ Then(h, "note")
    /\ UNCHANGED loopVars

RefuseDischarge(h) ==
    /\ At(h, "discharge", "verify") /\ Finish(h)
    /\ UNCHANGED <<row, loopVars, judged>>

NoteDischarge(h) ==
    /\ At(h, "discharge", "note") /\ Advise(hand[h].copy, h) /\ Finish(h)
    /\ UNCHANGED <<loopVars, judged>>

\* A command killed between two of its steps.
Interrupted(h) ==
    /\ h \in Busy /\ Finish(h)
    /\ UNCHANGED <<row, loopVars, judged>>

LoopStep ==
    \/ LoopStarts \/ LoopEnds \/ TakeTicket
    \/ ParkUnreachable \/ ReopenStale \/ Withhold \/ ParkAtGate
    \/ SignOff \/ Settle \/ RefuseToSign
    \/ BeginTicket \/ BeginAttempt \/ GiveUp
    \/ AttemptFails \/ AttemptBlocks \/ AttemptPasses
    \/ OpenCycle \/ Respec \/ KeepAsWritten \/ ParkUnsatisfiable \/ Requeue

HandStep(h) ==
    \/ GiveAdvice(h) \/ GiveCriterion(h) \/ GiveRetry(h) \/ GiveRelease(h)
    \/ GiveDischarge(h)
    \/ WriteAdvice(h) \/ Promote(h) \/ PromoteNothing(h)
    \/ NoteRelease(h) \/ OpenRoute(h) \/ ResetByHand(h)
    \/ Discharge(h) \/ RefuseDischarge(h) \/ NoteDischarge(h) \/ Interrupted(h)

Next == LoopStep \/ \E h \in Hands : HandStep(h)

Spec == Init /\ [][Next]_vars
-----------------------------------------------------------------------------
(***************************************************************************)
(* What the store promises the people and the loop that share it.          *)
(***************************************************************************)

\* Every variable stays in its type, and the attempts within their budget
\* however many writers charge and reset them.
TypeOK ==
    /\ row \in Tickets /\ mine \in Tickets
    /\ pc \in PCs /\ cycles \in 0..MaxCycles
    /\ hand \in [Hands -> [kind: KindsOfHand \cup {"none"},
                            at: {"none", "note", "promote", "route", "reset",
                                 "verify", "finished"},
                            copy: Tickets]]
    /\ judged \subseteq Criteria

\* What a person said about a ticket is never taken back, whoever writes the
\* row: the notes are append-only (`advise`, `update_ticket`).
NotesKept == [][row.note \subseteq row'.note]_vars

\* The plan's anchor only grows, and only by a criterion a person stated: the
\* loop never moves it (`promote_criteria`, `update_ticket`).
AnchorKept ==
    [][row'.original # row.original =>
          /\ row.original \subseteq row'.original
          /\ row'.original \ row.original \subseteq Stated]_vars

\* A ticket that is done carries no criterion it was not judged on, but those a
\* person stated after it passed, whoever wrote the row in between
\* (`update_ticket`, `cmd_discharge`, `promote_criteria`).
DoneMeansJudged == row.status = "done" => row.criteria \subseteq judged

\* A ticket the plan withheld is never worked before a person's reason for
\* releasing it is on the record (the triage gate, `cmd_release`).
ReleasedOnRecord ==
    pc \in {"settle", "signed", "work", "judge", "respec"}
        /\ InitRoute = "withheld" => row.note # {}

\* What the bar of a ticket rests on: what was signed, or else the plan.
Floor == IF row.ratified # {} THEN row.ratified ELSE Planned

\* The row carries it, and so does the copy the loop will write over the row.
FloorCarried ==
    /\ Floor \subseteq row.criteria
    /\ pc \notin {"down", "idle", "requeue"} => Floor \subseteq mine.criteria

\* A sign-off pass that began or broke off without an agreement.
SigningOff == \/ pc' = "settle"
              \/ pc = "settle" /\ pc' # "signed"

\* Once a ticket carries its floor, and a sign-off that settles makes it so, only
\* another sign-off takes any of it away: no revision, no command and no stale
\* copy does (`_merge_criteria`, `contract_criteria`).  Stated for sign-offs that
\* reach some role and lists that are not empty.
OnlySignOffMovesTheFloor ==
    [][/\ ~SigningOff
       /\ \/ FloorCarried
          \/ pc = "settle" /\ mine.criteria # {}
       => FloorCarried']_vars

\* Ratification cannot return a shorter list than the plan's
\* (`contract_criteria`, `dropped_criteria`).
RatifiedNotShorter ==
    row.ratified # {} => Cardinality(row.ratified) >= Cardinality(Planned)

\* A respec keeps every criterion on the ticket that the plan, or a person since,
\* wrote (`promote_criteria`, `_adopt`).
PlanAuthoredStays ==
    [][pc = "respec" => mine.original \cap mine.criteria \subseteq row'.criteria
                        \/ row' = row]_vars

-----------------------------------------------------------------------------
(***************************************************************************)
(* What the properties rest on.                                            *)
(***************************************************************************)

\* The route is open, or the loop past the gate, or a release about to open the
\* route, only over a note.
Recorded ==
    InitRoute = "withheld" =>
        /\ row.route = "delegate" => row.note # {}
        /\ pc \notin {"down", "idle", "gate"} => row.note # {}
        /\ pc = "gate" /\ mine.route = "delegate" => row.note # {}
        /\ \A h \in Hands : hand[h].at = "route" => row.note # {}

\* The copy the loop holds is of a ticket that is not done, with the plan in its
\* anchor and the agreement the row has.
Held ==
    /\ Planned \subseteq row.original
    /\ pc \notin {"down", "idle"} => /\ mine.status # "done"
                                    /\ Planned \subseteq mine.original
                                    /\ mine.ratified = row.ratified

\* One command at a time, each with the notes as they are, and a verification
\* with no loop beside it.
OneAtATime ==
    /\ \A h \in Hands : hand[h].kind = "none" => hand[h].at \in {"none", "finished"}
    /\ \A g, h \in Busy : g = h
    /\ \A h \in Hands :
          hand[h].at \in {"note", "verify"} => row.note \subseteq hand[h].copy.note

Verified ==
    \A h \in Hands : hand[h].at = "verify" =>
        /\ hand[h].kind = "discharge" /\ pc = "down"
        /\ row.criteria \subseteq hand[h].copy.criteria
=============================================================================
