------------------------------ MODULE Revising ------------------------------
(***************************************************************************)
(* The rules a planner's rewrite of a ticket goes through before it is     *)
(* kept: those of a sign-off pass (src/forge/ratify.py, `_apply`) and      *)
(* those of a respec (src/forge/respec.py, `revise`), on the rules about   *)
(* criteria of Contract.                                                   *)
(*                                                                         *)
(* A spec and a context are sets of sentences: what the rules look for in  *)
(* a text is whether it says a thing.  A rewrite gives a field a value or  *)
(* leaves it Absent.  Reading scopes are left out.                         *)
(***************************************************************************)
EXTENDS Contract

CONSTANTS
    Absent,     \* what a rewrite does not name
    Sentences,  \* what specs and contexts can say
    Figures,    \* of those, the ones that state a number
    Marked,     \* the ones marked as decisions
    Plain,      \* the same decision without its mark
    Taboos,     \* how to format a reply, and excuses for a failing check
    Excuses,    \* of those, the excuses
    Inlined,    \* the ones that paste whole files in
    Pins,       \* the values each criterion pins
    Files, TestFiles, Outside,  \* paths; tests; paths that leave the repository
    BuildOf     \* the workspace of a file, or Absent

ASSUME RevisingAssumption ==
    /\ Figures \cup Marked \cup Taboos \cup Inlined \subseteq Sentences
    /\ Plain \in [Marked -> Sentences \ Marked] /\ Excuses \subseteq Taboos
    /\ TestFiles \cup Outside \subseteq Files /\ BuildOf \in [Files -> Files \cup {Absent}]

Pinned(criteria) == UNION {Pins[c] : c \in criteria}

\* The spec a rewrite is judged against: what was ratified, else what the plan
\* says; the live one where a respec knows of causes that were ruled out.
Anchor(t, dead) == IF dead # {} THEN t.spec
                   ELSE IF t.ratifiedSpec # {} THEN t.ratifiedSpec ELSE t.originalSpec

ContextAnchor(t, dead) ==
    IF dead # {} \/ t.originalContext = {} THEN t.context ELSE t.originalContext

\* What a text says of the reply's format or excuses that its anchor did not.
Introduced(text, anchor) == (text \cap Taboos) \ anchor

\* (mutant) numbers are compared only as long as nothing was ratified
MovedFromThePlan(t, text, dead) ==
    IF t.ratifiedSpec # {} THEN {} ELSE (Anchor(t, dead) \cap Figures) \ text

MovedNumbers(t, text, dead) == (Anchor(t, dead) \cap Figures) \ text

\* A decision is dropped when its sentence is gone; the mark is not looked at.
DroppedDecisions(t, text, dead) ==
    {d \in Anchor(t, dead) \cap Marked : d \notin text /\ Plain[d] \notin text}

\* The plan's paragraphs are put back in front of a context that left them out.
PreservePlanContext(t, text) ==
    IF t.originalContext \subseteq text THEN text ELSE text \cup t.originalContext

KeepTestPaths(scope, proposed) ==
    IF proposed \cap TestFiles = {} THEN proposed \cup (scope \cap TestFiles) ELSE proposed

SpecHolds(t, text, dead) ==
    /\ Introduced(text, Anchor(t, dead)) = {}
    /\ MovedNumbers(t, text, dead) = {} /\ DroppedDecisions(t, text, dead) = {}

ContextHolds(t, text, dead) == Introduced(text, ContextAnchor(t, dead)) = {}

-----------------------------------------------------------------------------
\* A spec that pastes in what the plan's does not has run away from it.
Runaway(t, text) == text \cap Inlined # {} /\ t.originalSpec \cap Inlined = {}

SignedSpec(t, text) ==
    IF text = Absent \/ Runaway(t, text) \/ ~SpecHolds(t, text, {}) THEN t.spec ELSE text

SignedContext(t, text) ==
    IF text = Absent \/ ~ContextHolds(t, text, {})
      THEN t.context ELSE PreservePlanContext(t, text)

\* A rewording of as many criteria keeps every value they pin.
SoftenedValues(t, criteria) ==
    IF Cardinality(criteria) = Cardinality(t.criteria)
      THEN Pinned(t.criteria) \ Pinned(criteria) ELSE {}

SignedCriteria(t, criteria) ==
    IF criteria = Absent \/ SoftenedValues(t, criteria) # {}
      THEN t.criteria ELSE SignedOff(t, criteria)

SignedScope(t, scope) ==
    IF scope = Absent \/ scope \subseteq Outside
      THEN t.scope ELSE KeepTestPaths(t.scope, scope \ Outside)

\* The ticket after a sign-off's revision (`_apply`); causes that were ruled out
\* are not asked for.
SignOffApplies(t, rev) ==
    [t EXCEPT !.spec = SignedSpec(t, rev.spec), !.criteria = SignedCriteria(t, rev.criteria),
              !.context = SignedContext(t, rev.context), !.scope = SignedScope(t, rev.scope)]

-----------------------------------------------------------------------------
\* Files of a second build are refused to a ticket that has one.
Strayed(t, scope) ==
    LET home == {BuildOf[f] : f \in t.scope} \ {Absent}
    IN  IF Cardinality(home) = 1
          THEN {f \in scope : BuildOf[f] \notin home \cup {Absent}} ELSE {}

\* guarded: the reproduction; disputed: tests the report contradicts.
RespecScope(t, scope, guarded, disputed) ==
    LET open == scope \ (guarded \cup disputed)
        near == open \ Strayed(t, open)
    IN  IF scope = Absent \/ (near = {} /\ open # {})
          THEN t.scope ELSE KeepTestPaths(t.scope, near)

PendingScope(scope, guarded, disputed) ==
    IF scope = Absent THEN {} ELSE (scope \ guarded) \cap disputed

RevivesRuledOut(t, text) == \E cause \in t.dead : cause \subseteq text

RespecSpec(t, text) ==
    IF text = Absent \/ ~SpecHolds(t, text, t.dead) THEN t.spec ELSE text

\* A carried context that excuses what the plan's does not is reset to it.
DisarmedContext(t) ==
    IF t.dead = {} /\ Introduced(t.context, t.originalContext) \cap Excuses # {}
      THEN t.originalContext ELSE t.context

RespecContext(t, text) ==
    IF text = Absent \/ ~ContextHolds(t, text, t.dead)
      THEN DisarmedContext(t) ELSE PreservePlanContext(t, text)

RespecCriteria(t, criteria) ==
    IF criteria = Absent THEN t.criteria ELSE Revised(t, criteria)

\* The ticket after a respec's revision (`revise`): one that returns to a cause
\* already ruled out keeps nothing but its criteria.
RespecApplies(t, rev, guarded, disputed) ==
    LET back == rev.spec # Absent /\ RevivesRuledOut(t, rev.spec)
        Kept(text) == IF back THEN Absent ELSE text
    IN  [t EXCEPT !.spec = RespecSpec(t, Kept(rev.spec)),
                  !.context = RespecContext(t, Kept(rev.context)),
                  !.criteria = RespecCriteria(t, rev.criteria),
                  !.scope = RespecScope(t, Kept(rev.scope), guarded, disputed)]
=============================================================================
