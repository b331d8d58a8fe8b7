--------------------------------- MODULE Bar ---------------------------------
(***************************************************************************)
(* The text of a backlog from its plan to what is built: each ticket is    *)
(* put to the roles, revised from their objections and agreed (`ratify`),  *)
(* rewritten after it failed (`_respec`), diagnosed anew when its cause is *)
(* disproved (`_rediagnose`) or decomposed (`_consider_split`), and every  *)
(* rewrite reorders the backlog (`derive_needs`).                          *)
(*                                                                         *)
(* One process runs all of it; what people write beside it is in Handback, *)
(* and when cycles start and end in RunLoop.  A retry cycle works on the   *)
(* rows it read at its head: what others' rewrites added to a ticket's     *)
(* needs since is not in its copy.                                         *)
(***************************************************************************)
EXTENDS Ordering

CONSTANTS
    Roles,               \* loop.ratifyOrder
    Passes,              \* loop.ratifyPasses
    MajorityRepeats, ReviseBetweenPasses,  \* loop.*
    DeclaredNeeds, PlanSpec, PlanCriteria, PlanScope, PlanContext,
    Bugs,                \* the tickets of a bug report
    Guarded, Disputed,   \* per ticket: its reproduction; tests the report contradicts
    Replies,             \* how a role may answer
    Rewrites,            \* per ticket: what planners make of it
    Splits, Diagnoses,   \* how they decompose one, and explain a bug anew
    MaxSplitDepth,       \* loop.maxSplitDepth
    MaxCycles, MaxCauses, MaxCrashes

VARIABLES
    row,      \* the tickets on record
    pc, current, pass, verdict,  \* the sign-off under way
    heard,    \* what the last pass voted on
    backed,   \* (history) the text the last sign-off carried
    held,     \* the needs a retry cycle read at its head
    todo, asked, tried, rewritten,  \* the tickets of the cycle
    cycles, crashes

passVars == <<pass, verdict, heard>>
cycleVars == <<held, todo, asked, tried, rewritten>>
boundVars == <<cycles, crashes>>
vars == <<row, pc, current, passVars, backed, cycleVars, boundVars>>

ASSUME BarAssumption ==
    /\ Passes \in Nat /\ MajorityRepeats \in BOOLEAN /\ ReviseBetweenPasses \in BOOLEAN
    /\ \A pieces \in Splits : DOMAIN pieces \subseteq Children
    /\ Bugs \subseteq Plan
    \* a plan whose needs run in a circle is refused (`graph_problems`)
    /\ DeclaredNeeds \in [Plan -> SUBSET Plan] /\ Acyclic(DeclaredNeeds)
    /\ MaxSplitDepth \in Nat /\ MaxCycles \in Nat /\ MaxCauses \in Nat /\ MaxCrashes \in Nat

Present == DOMAIN row
Agreements == {"unanimous", "majority", "split"}
Retryable == {"failed", "blocked", "skipped"}

Words(t) == <<t.spec, t.criteria, t.scope>>

\* (mutant) a widened scope is not a new text
TextAlone(t) == <<t.spec, t.criteria, {}>>

\* What is agreed to, and what a verdict is about (`Ticket.fingerprint`).
Text(t) == Words(t)

-----------------------------------------------------------------------------
FromPlan(t) ==
    [status |-> "pending", ran |-> FALSE, failedOnce |-> FALSE, depth |-> 0,
     needs |-> DeclaredNeeds[t],
     spec |-> PlanSpec[t], criteria |-> PlanCriteria[t], scope |-> PlanScope[t],
     context |-> PlanContext[t], originalSpec |-> PlanSpec[t],
     original |-> PlanCriteria[t], originalContext |-> PlanContext[t],
     ratifiedSpec |-> {}, ratified |-> {}, signoff |-> "none", agreed |-> Absent,
     impossible |-> Absent, dead |-> {}]

Init ==
    /\ row = Ordered([t \in Plan |-> FromPlan(t)])
    /\ pc = "idle" /\ current = Absent
    /\ pass = 0 /\ verdict = "none" /\ heard = Absent
    /\ backed = [t \in Tickets |-> Absent]
    /\ held = [t \in Tickets |-> {}] /\ todo = <<>> /\ asked = {}
    /\ tried = FALSE /\ rewritten = {}
    /\ cycles = 0 /\ crashes = 0

\* A respec is read only if it states the spec (`parse_respec`); a revision for
\* a sign-off may name any field (`parse_ratify_revision`).
RespecReplies(t) == {rev \in Rewrites[t] : rev.spec # Absent}
RevisionReplies(t) == Rewrites[t]

PiecesOf(p) == {c \in Present \cap Children : ParentOf[c] = p}

\* `_close_split_parents`: a gate opens over pieces that all landed, and is
\* blocked once all of them ended otherwise.
Closed(rows) ==
    [t \in DOMAIN rows |->
        LET ends == {rows[c].status : c \in PiecesOf(t)}
        IN  IF rows[t].status # "split" \/ ends = {} THEN rows[t]
            ELSE IF ends = {"done"} THEN [rows[t] EXCEPT !.status = "done"]
            ELSE IF ends \subseteq Retryable \cup {"done"}
              THEN [rows[t] EXCEPT !.status = "blocked"]
            ELSE rows[t]]

-----------------------------------------------------------------------------
(***************************************************************************)
(* The sign-off (`_ratify`, `ratify`).                                     *)
(***************************************************************************)
Done == {t \in Present : row[t].status = "done"}
Ready == {t \in Present : row[t].status = "pending" /\ row[t].needs \subseteq Done}

\* `next_ticket`; one that was agreed as it stands is not asked about again.
Take ==
    /\ pc = "idle"
    /\ \E t \in Ready :
          /\ \A u \in Ready : Position[t] <= Position[u]
          /\ current' = t
          /\ IF Passes = 0 \/ (row[t].signoff # "none" /\ row[t].agreed = Text(row[t]))
               THEN pc' = "build" /\ UNCHANGED passVars
               ELSE pc' = "vote" /\ pass' = 1 /\ UNCHANGED <<verdict, heard>>
    /\ UNCHANGED <<row, backed, cycleVars, boundVars>>

\* What one role's answers come to: a refusal that names nothing is asked about
\* once more, and stands unless the answer says more; one whose reasoning ran
\* out is not counted (`_vote`, `_ask_again`, `parse_ratify`).
Refusals == {"object", "unreadable", "cut"}
Bare == {"bare", "husk"}
VoteOf(first, second) ==
    CASE first = "sign" -> "yes"
      [] first \in Refusals -> "no"
      [] first = "error" -> "uncounted"
      [] first \in Bare /\ second = "sign" -> "yes"
      [] first \in Bare /\ second \in Refusals -> "no"
      [] OTHER -> IF first = "husk" THEN "uncounted" ELSE "no"

Votes == {VoteOf(first, second) : first, second \in Replies}

\* `resolve`: who could not be reached is left out of the count.
Resolve(votes) ==
    LET counted == {r \in Roles : votes[r] # "uncounted"}
        signed == {r \in Roles : votes[r] = "yes"}
    IN  CASE counted = {} -> "unavailable"
          [] counted # {} /\ signed = counted -> "unanimous"
          [] signed # counted /\ Cardinality(signed) * 2 > Cardinality(counted) -> "majority"
          [] OTHER -> IF "planner" \in signed /\ Cardinality(signed) >= 2
                        THEN "split" ELSE "blocked"

Vote ==
    /\ pc = "vote"
    /\ \E votes \in [Roles -> Votes] : verdict' = Resolve(votes)
    /\ heard' = Words(row[current])
    /\ pc' = "tally"
    /\ UNCHANGED <<row, current, pass, backed, cycleVars, boundVars>>

\* (mutant) the number of the pass is compared once it was taken
EndsLate == verdict \in {"unanimous", "unavailable"} \/ pass > Passes

SignOffEnds ==
    \/ verdict \in {"unanimous", "unavailable"}
    \/ verdict = "majority" /\ ~MajorityRepeats
    \/ pass >= Passes

\* Between two passes the planner rewrites the ticket, or fails to.
Revise ==
    /\ pc = "tally" /\ ~SignOffEnds
    /\ \/ UNCHANGED row
       \/ /\ ReviseBetweenPasses
          /\ \E rev \in RevisionReplies(current) :
                row' = Ordered([row EXCEPT ![current] = SignOffApplies(@, rev)])
    /\ pass' = pass + 1 /\ pc' = "vote" /\ verdict' = "none" /\ heard' = Absent
    /\ UNCHANGED <<current, backed, cycleVars, boundVars>>

\* `_settle`, and `_park` for what was not agreed.
Settle ==
    /\ pc = "tally" /\ SignOffEnds
    /\ LET t == [row[current] EXCEPT !.signoff = verdict]
       IN  \/ /\ verdict \in Agreements
              /\ row' = [row EXCEPT ![current] =
                    [t EXCEPT !.agreed = Text(t), !.ratifiedSpec = t.spec,
                              !.ratified = t.criteria]]
              /\ backed' = [backed EXCEPT ![current] = heard]
              /\ pc' = "build" /\ UNCHANGED current
           \/ /\ verdict = "unavailable"
              /\ row' = [row EXCEPT ![current] = t]
              /\ pc' = "build" /\ UNCHANGED <<backed, current>>
           \/ /\ verdict = "blocked"
              /\ row' = Closed([row EXCEPT ![current] = [t EXCEPT !.status = "blocked"]])
              /\ pc' = "idle" /\ current' = Absent /\ UNCHANGED backed
    /\ pass' = 0 /\ verdict' = "none" /\ heard' = Absent
    /\ UNCHANGED <<cycleVars, boundVars>>

-----------------------------------------------------------------------------
(***************************************************************************)
(* The work, as far as it decides what is rewritten.                       *)
(***************************************************************************)
Build ==
    /\ pc = "build"
    /\ LET t == row[current]
       IN  \E end \in {"done", "failed"} :
             row' = Closed([row EXCEPT ![current] = [t EXCEPT
                       !.status = end, !.ran = TRUE,
                       !.failedOnce = t.failedOnce \/ end = "failed"]])
    /\ pc' = "idle" /\ current' = Absent
    /\ UNCHANGED <<passVars, backed, cycleVars, boundVars>>

\* `_rediagnose`: the cause was disproved, so another takes its place and no
\* rule is asked.
Rediagnose ==
    /\ pc = "build" /\ current \in Bugs
    /\ Cardinality(row[current].dead) < MaxCauses
    /\ LET t == row[current]
       IN  \E d \in Diagnoses :
             row' = [row EXCEPT ![current] =
                       [t EXCEPT !.dead = t.dead \cup {t.spec}, !.spec = d.spec,
                                 !.scope = d.scope, !.context = d.context]]
    /\ UNCHANGED <<pc, current, passVars, backed, cycleVars, boundVars>>

\* `_finish`: what waits on a ticket that did not land is parked.
Parked(rows) ==
    [t \in DOMAIN rows |->
        IF /\ rows[t].status = "pending"
           /\ ~(rows[t].needs \subseteq {u \in DOMAIN rows : rows[u].status = "done"})
          THEN [rows[t] EXCEPT !.status = "skipped"] ELSE rows[t]]

NeedsHuman(rows) ==
    \E t \in DOMAIN rows : rows[t].status \in {"blocked", "failed", "split"}

Finish ==
    /\ pc = "idle" /\ Ready = {}
    /\ LET rows == Parked(Closed(row))
       IN  row' = rows /\ pc' = (IF NeedsHuman(rows) THEN "cycle" ELSE "over")
    /\ UNCHANGED <<current, passVars, backed, cycleVars, boundVars>>

-----------------------------------------------------------------------------
(***************************************************************************)
(* The retry cycle (`_retry_cycle`), from the rows read at its head.       *)
(***************************************************************************)
Settled(t) == row[t].status = "blocked" /\ row[t].impossible = Text(row[t])

Eligible == {t \in Present : row[t].status \in Retryable /\ ~Settled(t)}

OpenCycle ==
    /\ pc = "cycle" /\ cycles < MaxCycles /\ Eligible # {}
    /\ held' = [t \in Tickets |-> IF t \in Present THEN row[t].needs ELSE {}]
    /\ todo' = InPlace(Eligible) /\ asked' = Eligible
    /\ tried' = FALSE /\ rewritten' = {} /\ pc' = "split"
    /\ UNCHANGED <<row, current, passVars, backed, boundVars>>

GiveUp ==
    /\ pc = "cycle" /\ (cycles = MaxCycles \/ Eligible = {})
    /\ pc' = "over"
    /\ UNCHANGED <<row, current, passVars, backed, cycleVars, boundVars>>

Now == Head(todo)

CycleOver ==
    /\ held' = [t \in Tickets |-> {}] /\ todo' = <<>> /\ asked' = {}
    /\ tried' = FALSE /\ rewritten' = {}

KeepWhole ==
    /\ pc = "split" /\ todo # <<>> /\ todo' = Tail(todo)
    /\ UNCHANGED <<row, pc, current, passVars, backed, held, asked, tried,
                   rewritten, boundVars>>

\* `_consider_split`, `splittable`: a ticket that failed, is no bug and is not too
\* deep, in pieces that are not there yet; one whose pieces failed, or a piece, too.
Decompose ==
    /\ pc = "split" /\ todo # <<>>
    /\ LET parent == Now
       IN  /\ parent \notin Bugs /\ row[parent].depth < MaxSplitDepth /\ row[parent].failedOnce
           /\ \E pieces \in Splits :
                 /\ \A c \in DOMAIN pieces : ParentOf[c] = parent /\ c \notin Present
                 /\ Sound(row[parent], pieces)
                 /\ row' = [t \in Present \cup DOMAIN pieces |->
                       IF t \in DOMAIN pieces THEN PieceOf(row[parent], pieces[t])
                       ELSE IF t = parent
                         THEN [row[parent] EXCEPT !.status = "split", !.needs = held[parent]]
                       ELSE row[t]]
           /\ asked' = asked \ {parent}
    /\ todo' = Tail(todo)
    /\ UNCHANGED <<pc, current, passVars, backed, held, tried, rewritten, boundVars>>

\* Only what was attempted in this cycle is rewritten.
AskPlanner ==
    /\ pc = "split" /\ todo = <<>> /\ asked # {}
    /\ LET attempted == {t \in asked : row[t].ran}
       IN  todo' = InPlace(attempted) /\ tried' = (attempted # {})
    /\ pc' = "respec"
    /\ UNCHANGED <<row, current, passVars, backed, held, asked, rewritten, boundVars>>

\* A cycle that decomposed all there was is counted and goes on.
DecomposedAll ==
    /\ pc = "split" /\ todo = <<>> /\ asked = {}
    /\ pc' = "idle" /\ cycles' = cycles + 1 /\ CycleOver
    /\ UNCHANGED <<row, current, passVars, backed, crashes>>

\* The ticket as the cycle holds it.
Copy(t) == [row[t] EXCEPT !.needs = held[t]]

\* The reviewer let it have a disputed test (`_grant_contradicted_scope`).
WithGrant(t, granted) == [t EXCEPT !.scope = @ \cup granted]

Respec ==
    /\ pc = "respec" /\ todo # <<>>
    /\ LET t == Now
       IN  \E rev \in RespecReplies(t),
             granted \in SUBSET Disputed[t] :
              LET new == RespecApplies(Copy(t), rev, Guarded[t], Disputed[t])
                  rows == IF new = Copy(t) THEN row ELSE Ordered([row EXCEPT ![t] = new])
              IN  /\ granted \subseteq PendingScope(rev.scope, Guarded[t], Disputed[t])
                  /\ row' = IF granted = {} THEN rows
                            ELSE [rows EXCEPT ![t] = WithGrant(
                                    IF new = Copy(t) THEN Copy(t) ELSE @, granted)]
                  /\ rewritten' = IF new # Copy(t) \/ granted # {}
                                    THEN rewritten \cup {t} ELSE rewritten
    /\ todo' = Tail(todo)
    /\ UNCHANGED <<pc, current, passVars, backed, held, asked, tried, boundVars>>

\* The planner fails, answers nothing, or keeps the ticket.
KeepAsWritten ==
    /\ pc = "respec" /\ todo # <<>> /\ todo' = Tail(todo)
    /\ UNCHANGED <<row, pc, current, passVars, backed, held, asked, tried,
                   rewritten, boundVars>>

\* The planner says it cannot be satisfied: parked until its text changes.
Impossible ==
    /\ pc = "respec" /\ todo # <<>>
    /\ LET t == Now
       IN  /\ row' = [row EXCEPT ![t] = [Copy(t) EXCEPT
                        !.status = "blocked", !.impossible = Text(Copy(t))]]
           /\ asked' = asked \ {t}
    /\ todo' = Tail(todo)
    /\ UNCHANGED <<pc, current, passVars, backed, held, tried, rewritten, boundVars>>

\* `reset_tickets`, unless the planner was asked and nothing changed.
Requeue ==
    /\ pc = "respec" /\ todo = <<>>
    /\ IF asked = {} \/ (tried /\ rewritten = {})
         THEN pc' = "over" /\ UNCHANGED <<row, cycles>>
         ELSE /\ row' = [t \in Present |->
                           IF t \in asked
                             THEN [row[t] EXCEPT !.status = "pending", !.ran = FALSE]
                             ELSE row[t]]
              /\ pc' = "idle" /\ cycles' = cycles + 1
    /\ CycleOver
    /\ UNCHANGED <<current, passVars, backed, crashes>>

\* The process is killed; what was written stays.  Between two tickets nothing
\* else is held.
Crash ==
    /\ pc \in {"vote", "tally", "build", "split", "respec"} /\ crashes < MaxCrashes
    /\ crashes' = crashes + 1
    /\ pc' = "idle" /\ current' = Absent
    /\ pass' = 0 /\ verdict' = "none" /\ heard' = Absent
    /\ CycleOver
    /\ UNCHANGED <<row, backed, cycles>>

Next ==
    \/ Take \/ Vote \/ Revise \/ Settle \/ Build \/ Rediagnose \/ Finish
    \/ OpenCycle \/ GiveUp \/ KeepWhole \/ Decompose \/ AskPlanner \/ DecomposedAll
    \/ Respec \/ KeepAsWritten \/ Impossible \/ Requeue \/ Crash

Spec == Init /\ [][Next]_vars

-----------------------------------------------------------------------------
(***************************************************************************)
(* What the text of a backlog keeps.                                       *)
(***************************************************************************)
Texts == (SUBSET Sentences) \X (SUBSET Criteria) \X (SUBSET Files)

TypeOK ==
    /\ Present \subseteq Tickets /\ Plan \subseteq Present
    /\ \A t \in Present :
          /\ row[t].status \in {"pending", "done", "split"} \cup Retryable
          /\ row[t].ran \in BOOLEAN /\ row[t].failedOnce \in BOOLEAN
          /\ row[t].needs \subseteq Tickets /\ row[t].depth \in 0..MaxSplitDepth
          /\ Words(row[t]) \in Texts /\ row[t].context \subseteq Sentences \cup {PartOf}
          /\ row[t].signoff \in Agreements \cup {"none", "unavailable", "blocked"}
          /\ row[t].agreed \in Texts \cup {Absent} /\ row[t].impossible \in Texts \cup {Absent}
          /\ Cardinality(row[t].dead) <= MaxCauses
    /\ pc \in {"idle", "vote", "tally", "build", "cycle", "split", "respec", "over"}
    /\ current \in Present \cup {Absent} /\ (current = Absent <=> pc \notin {"vote", "tally", "build"})
    /\ pass \in 0..Passes /\ (pc \in {"vote", "tally"} => pass >= 1)
    /\ verdict \in Agreements \cup {"none", "unavailable", "blocked"}
    /\ cycles \in 0..MaxCycles /\ crashes \in 0..MaxCrashes

\* What is built was voted on word for word, in a pass that carried it, however
\* often the ticket was rewritten, requeued or interrupted since; or nobody
\* could be reached, or its cause was disproved (`_ratify`).
BuiltAsAgreed ==
    pc = "build" /\ Passes > 0 =>
        \/ Words(row[current]) = backed[current]
        \/ row[current].signoff = "unavailable" \/ row[current].dead # {}

\* The plan's and the ratified numbers, the plan's context and its silence on
\* formats and excuses outlive every chain of revisions (`_apply`, `revise`).
PlanStands ==
    \A t \in Present : row[t].dead = {} =>
        /\ (row[t].originalSpec \cup row[t].ratifiedSpec) \cap Figures \subseteq row[t].spec
        /\ row[t].spec \cap Taboos \subseteq row[t].originalSpec
        /\ row[t].context \cap Taboos \subseteq row[t].originalContext
        /\ t \in Plan => row[t].originalContext \subseteq row[t].context

\* While a ticket is a gate, every value its contract pins is pinned by one of its
\* pieces: the check of the decomposition, the ratchet that a respec of a piece is
\* under and the rule that a sign-off's rewording pins what it replaces have to
\* agree, over cycles and kills (`check`, `children_of`, `_merge_criteria`,
\* `_softened_values`).  README names the two rewordings by which a value is lost.
PiecesCoverParent ==
    \A p \in Present : row[p].status = "split" =>
        Pinned(ContractCriteria(row[p])) \subseteq
            UNION {Pinned(row[c].criteria) : c \in PiecesOf(p)}

\* No ticket comes to need itself, whatever is derived, rewritten, decomposed or
\* written back from a copy that is older (`derive_needs`).
NeedsAcyclic == Acyclic([t \in Tickets |-> IF t \in Present THEN row[t].needs ELSE {}])

\* When nothing can be handed out, something that was worked did not land
\* (`_park_unreachable`).
StopsOnFailure ==
    pc = "idle" /\ Ready = {} /\ (\E t \in Present : row[t].status = "pending") =>
        \E t \in Present : row[t].status \in Retryable
=============================================================================
