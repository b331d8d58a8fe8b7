------------------------------ MODULE Contract ------------------------------
(***************************************************************************)
(* What a ticket is held to, and who may move it: the acceptance criteria  *)
(* of a ticket of hybrid-forge, the plan's anchor and the ratified one     *)
(* (src/forge/state.py), the provenance rule a respec is under             *)
(* (src/forge/respec.py) and the rules a sign-off pass is under            *)
(* (src/forge/ratify.py).                                                  *)
(*                                                                         *)
(* A criterion is a value; two spellings of one (`_key`) are one value and *)
(* a rewording is another.  The text of the spec is a version number.      *)
(* `loop.respecCriteria` is off, as it is by default.                      *)
(***************************************************************************)
EXTENDS Integers, FiniteSets

CONSTANTS
    Planned,    \* the criteria the plan states
    Stated,     \* criteria a person may state or adopt
    Proposable, \* criteria a planner may come up with, rewordings included
    Entailed,   \* of those, the ones that only restate the spec
    Pinning     \* of those, the ones that pin a file another ticket writes

Criteria == Planned \cup Stated \cup Proposable

ASSUME CriteriaAssumption ==
    /\ IsFiniteSet(Criteria)
    /\ Planned # {}
    /\ Planned \cap Stated = {} /\ Proposable \cap (Planned \cup Stated) = {}
    /\ Entailed \subseteq Proposable /\ Pinning \subseteq Proposable

\* What a revision may not walk back: the ratified criteria where a sign-off
\* settled them, the plan's otherwise.
ContractCriteria(t) == IF t.ratified # {} THEN t.ratified ELSE t.original

Fingerprint(t) == <<t.spec, t.criteria>>

\* (mutant) only what the planner asks for is kept
KeepWhatIsWanted(t, proposed) == t.criteria \cap proposed

\* The criteria after a respec that proposed these: what the contract protects
\* and what the planner still asks for; what it adds is refused.
MergeCriteria(t, proposed) ==
    (t.criteria \cap ContractCriteria(t)) \cup (t.criteria \cap proposed)

\* What was added is admitted all the same when the spec already entails it.
Admitted(t, proposed) == (proposed \ t.criteria) \cap Entailed

\* A criterion pinning a file that is not this ticket's alone is dropped, unless
\* the contract states it.
DropWholeFileClaims(t, proposed) == proposed \ (Pinning \ ContractCriteria(t))

\* The criteria a respec leaves on the ticket.
Revised(t, proposed) ==
    DropWholeFileClaims(t, MergeCriteria(t, proposed) \cup Admitted(t, proposed))

\* The criteria a sign-off pass leaves on the ticket: a longer list is refused,
\* and so is one shorter than the plan's; counting is the whole test.
SignedOff(t, proposed) ==
    IF \/ Cardinality(proposed) > Cardinality(t.criteria)
       \/ Cardinality(proposed) < Cardinality(t.original)
      THEN t.criteria ELSE DropWholeFileClaims(t, proposed)
=============================================================================
