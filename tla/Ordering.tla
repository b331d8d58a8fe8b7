------------------------------ MODULE Ordering ------------------------------
(***************************************************************************)
(* Who waits for whom in a backlog: the needs that are derived from shared *)
(* files (src/forge/ingest.py, `derive_needs`) and the pieces a ticket may *)
(* be decomposed into (src/forge/split.py).                                *)
(***************************************************************************)
EXTENDS Revising, SequencesExt

CONSTANTS
    Plan, Children,  \* the tickets of the plan, and the pieces they may be split in
    ParentOf,        \* of a piece
    Position,        \* a piece stands at a hundred times its parent's place, and
                     \* behind what was added there before it
    FileOrder,       \* the files as they sort
    MaxChildren,
    PartOf           \* what a piece's context says of the ticket it is part of

Tickets == Plan \cup Children

ASSUME OrderingAssumption ==
    /\ IsFiniteSet(Tickets) /\ Plan \cap Children = {} /\ ParentOf \in [Children -> Tickets]
    /\ Position \in [Tickets -> Nat]
    /\ \A t, u \in Tickets : t # u => Position[t] # Position[u]
    /\ FileOrder \in Seq(Files) /\ MaxChildren \in Nat

\* goal is found from start by following needs: every set that holds start and
\* is closed under needs holds it.
Reaches(needs, start, goal) ==
    \A S \in SUBSET DOMAIN needs :
        start \in S /\ (\A t \in S : needs[t] \subseteq S) => goal \in S

Acyclic(needs) == \A t \in DOMAIN needs : \A d \in needs[t] : ~Reaches(needs, d, t)

\* The tickets that write f; a split ticket writes nothing.
Writers(row, f) == {t \in DOMAIN row : row[t].status # "split" /\ f \in row[t].scope}

\* Tickets in the order of the plan.
InPlace(S) ==
    CHOOSE o \in [1..Cardinality(S) -> S] :
        \A i, j \in 1..Cardinality(S) : i < j => Position[o[i]] < Position[o[j]]

\* (mutant) a pair that is ordered the other way round is ordered again
MayWait(needs, later, earlier) == ~Reaches(needs, later, earlier)

MayOrder(needs, later, earlier) ==
    ~Reaches(needs, later, earlier) /\ ~Reaches(needs, earlier, later)

Behind(needs, later, earlier) ==
    IF MayOrder(needs, later, earlier) THEN [needs EXCEPT ![later] = @ \cup {earlier}] ELSE needs

\* Each of some tickets behind the one before it.
Chained(needs, S) ==
    LET along[k \in 0..Cardinality(S)] ==
          IF k <= 1 THEN needs ELSE Behind(along[k - 1], InPlace(S)[k], InPlace(S)[k - 1])
    IN  along[Cardinality(S)]

\* File by file, who writes it.
DerivedNeeds(row) ==
    LET after[i \in 0..Len(FileOrder)] ==
          IF i = 0 THEN [t \in DOMAIN row |-> row[t].needs]
          ELSE Chained(after[i - 1], Writers(row, FileOrder[i]))
    IN  after[Len(FileOrder)]

\* The backlog after a ticket's scope was rewritten (`_order_shared_scope`).
Ordered(row) ==
    LET needs == DerivedNeeds(row)
    IN  [t \in DOMAIN row |-> [row[t] EXCEPT !.needs = needs[t]]]

-----------------------------------------------------------------------------
\* What a decomposition of p must be to be taken (`check`, `_refuse_cycles`).
Sound(p, pieces) ==
    LET contract == ContractCriteria(p)
        names == DOMAIN pieces
    IN  /\ contract # {} /\ Cardinality(names) \in 2..MaxChildren
        /\ \A c \in names :
              /\ pieces[c].covers # {} /\ pieces[c].covers \subseteq contract
              /\ pieces[c].needs \subseteq names \ {c}
              /\ pieces[c].scope # {} /\ pieces[c].scope \subseteq p.scope
        /\ UNION {pieces[c].covers : c \in names} = contract
        /\ Acyclic([t \in Tickets |-> IF t \in names THEN pieces[t].needs ELSE {}])

\* A piece is held to the criteria it covers, and to its own.
PieceCriteria(piece) == piece.covers \cup piece.criteria

\* The row of a piece (`children_of`, `add_tickets`).
PieceOf(p, piece) ==
    [status |-> "pending", ran |-> FALSE, failedOnce |-> FALSE, depth |-> p.depth + 1,
     needs |-> piece.needs,
     spec |-> piece.spec, criteria |-> PieceCriteria(piece), scope |-> piece.scope,
     context |-> p.context,
     originalSpec |-> piece.spec, original |-> PieceCriteria(piece),
     originalContext |-> p.context \cup {PartOf},
     ratifiedSpec |-> {}, ratified |-> {}, signoff |-> "none", agreed |-> Absent,
     impossible |-> Absent, dead |-> {}]
=============================================================================
