----------------------------- MODULE Bar_proofs -----------------------------
(***************************************************************************)
(* Theorems about Bar, for every plan, reply, rewrite, split and bound.    *)
(***************************************************************************)
EXTENDS Bar, TLAPS, FiniteSetTheorems, WellFoundedInduction

-----------------------------------------------------------------------------
(***************************************************************************)
(* The inductive invariant.                                                *)
(***************************************************************************)
Fields == {"status", "ran", "failedOnce", "depth", "needs", "spec", "criteria", "scope", "context",
           "originalSpec", "original", "originalContext", "ratifiedSpec", "ratified", "signoff",
           "agreed", "impossible", "dead"}
Shape(t) == t = [f \in Fields |-> t[f]]

\* What a ticket's text keeps; what was ratified kept it when it was.
Stands(name, t) ==
    /\ t.originalSpec \cap Figures \subseteq t.spec /\ t.ratifiedSpec \cap Figures \subseteq t.spec
    /\ t.ratifiedSpec # {} => t.originalSpec \cap Figures \subseteq t.ratifiedSpec
    /\ t.spec \cap Taboos \subseteq t.originalSpec
    /\ t.ratifiedSpec \cap Taboos \subseteq t.originalSpec
    /\ t.context \cap Taboos \subseteq t.originalContext
    /\ name \in Plan => t.originalContext \subseteq t.context

\* A ticket that agrees with what was backed.
Kept(name, t, text) == Shape(t) /\ t.agreed = text /\ (t.dead = {} => Stands(name, t))

Fit(r, b) ==
    /\ DOMAIN r \subseteq Tickets /\ Plan \subseteq DOMAIN r /\ DOMAIN b = Tickets
    /\ \A t \in DOMAIN r : Kept(t, r[t], b[t])
    /\ \A t \in Tickets \ DOMAIN r : b[t] = Absent

Asking == {"vote", "tally", "build"}
InHand ==
    /\ pc \in Asking => current \in Present
    /\ pc = "tally" => heard = Words(row[current])

Inv == Fit(row, backed) /\ InHand /\ BuiltAsAgreed

-----------------------------------------------------------------------------
(***************************************************************************)
(* What a rewrite keeps.                                                   *)
(***************************************************************************)

\* What the rules about texts look at, and the agreement, are the same.
Alike(t, u) ==
    /\ Shape(u) /\ u.spec = t.spec /\ u.context = t.context
    /\ u.originalSpec = t.originalSpec /\ u.originalContext = t.originalContext
    /\ u.ratifiedSpec = t.ratifiedSpec /\ u.agreed = t.agreed /\ u.dead = t.dead

LEMMA AlikeKept ==
    ASSUME NEW name, NEW t, NEW u, NEW text, Kept(name, t, text), Alike(t, u)
    PROVE  Kept(name, u, text)
BY DEF Kept, Alike, Stands

\* A spec that holds against its anchor stands.
LEMMA SpecHoldsStands ==
    ASSUME NEW name, NEW t, t.dead = {}, Stands(name, t), NEW text, SpecHolds(t, text, {})
    PROVE  /\ t.originalSpec \cap Figures \subseteq text /\ t.ratifiedSpec \cap Figures \subseteq text
           /\ text \cap Taboos \subseteq t.originalSpec
BY DEF Stands, SpecHolds, Introduced, MovedNumbers, Anchor

LEMMA ContextHoldsStands ==
    ASSUME NEW name, NEW t, Stands(name, t), NEW text, ContextHolds(t, text, {})
    PROVE  /\ PreservePlanContext(t, text) \cap Taboos \subseteq t.originalContext
           /\ t.originalContext \subseteq PreservePlanContext(t, text)
BY DEF Stands, ContextHolds, ContextAnchor, Introduced, PreservePlanContext

\* A sign-off's revision.
LEMMA SignedKept ==
    ASSUME NEW name, NEW t, NEW text, Kept(name, t, text), NEW rev
    PROVE  Kept(name, SignOffApplies(t, rev), text)
<1> DEFINE u == SignOffApplies(t, rev)
<1>1. /\ Shape(u) /\ u.agreed = t.agreed /\ u.dead = t.dead
      /\ u.originalSpec = t.originalSpec /\ u.originalContext = t.originalContext
      /\ u.ratifiedSpec = t.ratifiedSpec
      /\ u.spec = SignedSpec(t, rev.spec) /\ u.context = SignedContext(t, rev.context)
  BY DEF Kept, Shape, Fields, SignOffApplies
<1> HIDE DEF u
<1>2. ASSUME t.dead = {} PROVE Stands(name, u)
  <2>1. Stands(name, t)
    BY <1>2 DEF Kept
  <2>2. /\ t.originalSpec \cap Figures \subseteq u.spec /\ t.ratifiedSpec \cap Figures \subseteq u.spec
        /\ u.spec \cap Taboos \subseteq t.originalSpec
    BY <1>1, <1>2, <2>1, SpecHoldsStands DEF SignedSpec, Stands
  <2>3. /\ u.context \cap Taboos \subseteq t.originalContext
        /\ name \in Plan => t.originalContext \subseteq u.context
    BY <1>1, <2>1, ContextHoldsStands DEF SignedContext, Stands
  <2> QED
    BY <1>1, <2>1, <2>2, <2>3 DEF Stands
<1>3. Kept(name, u, text)
  BY <1>1, <1>2 DEF Kept
<1> QED
  BY <1>3 DEF u

\* A respec's revision, of the row or of a copy with other needs.
LEMMA RespecKept ==
    ASSUME NEW name, NEW t, NEW text, Kept(name, t, text), NEW rev, NEW guarded, NEW disputed
    PROVE  Kept(name, RespecApplies(t, rev, guarded, disputed), text)
<1> DEFINE u == RespecApplies(t, rev, guarded, disputed)
           back == rev.spec # Absent /\ RevivesRuledOut(t, rev.spec)
           s == IF back THEN Absent ELSE rev.spec
           c == IF back THEN Absent ELSE rev.context
<1>1. /\ Shape(u) /\ u.agreed = t.agreed /\ u.dead = t.dead
      /\ u.originalSpec = t.originalSpec /\ u.originalContext = t.originalContext
      /\ u.ratifiedSpec = t.ratifiedSpec
      /\ u.spec = RespecSpec(t, s) /\ u.context = RespecContext(t, c)
  BY DEF Kept, Shape, Fields, RespecApplies
<1> HIDE DEF u, s, c
<1>2. ASSUME t.dead = {} PROVE Stands(name, u)
  <2>1. Stands(name, t)
    BY <1>2 DEF Kept
  <2>2. /\ t.originalSpec \cap Figures \subseteq u.spec /\ t.ratifiedSpec \cap Figures \subseteq u.spec
        /\ u.spec \cap Taboos \subseteq t.originalSpec
    BY <1>1, <1>2, <2>1, SpecHoldsStands DEF RespecSpec, Stands
  <2>3. /\ u.context \cap Taboos \subseteq t.originalContext
        /\ name \in Plan => t.originalContext \subseteq u.context
    BY <1>1, <1>2, <2>1, ContextHoldsStands DEF RespecContext, DisarmedContext, Stands
  <2> QED
    BY <1>1, <2>1, <2>2, <2>3 DEF Stands
<1>3. Kept(name, u, text)
  BY <1>1, <1>2 DEF Kept
<1> QED
  BY <1>3 DEF u

-----------------------------------------------------------------------------
(***************************************************************************)
(* What is done to the rows.                                               *)
(***************************************************************************)
LEMMA FitAlike ==
    ASSUME NEW r, NEW b, Fit(r, b), NEW q, DOMAIN q = DOMAIN r,
           \A t \in DOMAIN r : Alike(r[t], q[t])
    PROVE  Fit(q, b)
BY AlikeKept DEF Fit

\* One row is rewritten; of a ticket that is not there, none.
LEMMA FitRow ==
    ASSUME NEW r, NEW b, Fit(r, b), NEW t, NEW u, t \in DOMAIN r => Kept(t, u, b[t])
    PROVE  Fit([r EXCEPT ![t] = u], b)
BY DEF Fit

LEMMA ShapeAlike == ASSUME NEW t, Shape(t) PROVE Alike(t, t)
BY DEF Alike

LEMMA OrderedFits == ASSUME NEW r, NEW b, Fit(r, b) PROVE Fit(Ordered(r), b)
<1>1. /\ DOMAIN Ordered(r) = DOMAIN r
      /\ \A t \in DOMAIN r : Ordered(r)[t] = [r[t] EXCEPT !.needs = DerivedNeeds(r)[t]]
  BY DEF Ordered
<1>2. \A t \in DOMAIN r : Alike(r[t], Ordered(r)[t])
  BY <1>1 DEF Fit, Kept, Alike, Shape, Fields
<1> QED
  BY <1>1, <1>2, FitAlike

LEMMA ClosedFits == ASSUME NEW r, NEW b, Fit(r, b) PROVE Fit(Closed(r), b)
<1>1. /\ DOMAIN Closed(r) = DOMAIN r
      /\ \A t \in DOMAIN r : Closed(r)[t] = r[t] \/ \E s : Closed(r)[t] = [r[t] EXCEPT !.status = s]
  BY DEF Closed
<1>2. \A t \in DOMAIN r : Alike(r[t], Closed(r)[t])
  BY <1>1 DEF Fit, Kept, Alike, Shape, Fields
<1> QED
  BY <1>1, <1>2, FitAlike

LEMMA ParkedFits == ASSUME NEW r, NEW b, Fit(r, b) PROVE Fit(Parked(r), b)
<1>1. /\ DOMAIN Parked(r) = DOMAIN r
      /\ \A t \in DOMAIN r : Parked(r)[t] = r[t] \/ Parked(r)[t] = [r[t] EXCEPT !.status = "skipped"]
  BY DEF Parked
<1>2. \A t \in DOMAIN r : Alike(r[t], Parked(r)[t])
  BY <1>1 DEF Fit, Kept, Alike, Shape, Fields
<1> QED
  BY <1>1, <1>2, FitAlike

\* A copy that is older than the row differs in its needs.
LEMMA CopyKept ==
    ASSUME NEW t, NEW text, Kept(t, row[t], text)
    PROVE  Kept(t, Copy(t), text)
<1>1. Alike(row[t], Copy(t))
  BY DEF Copy, Alike, Kept, Shape, Fields
<1> QED
  BY <1>1, AlikeKept

LEMMA GrantKept ==
    ASSUME NEW name, NEW t, NEW text, Kept(name, t, text), NEW granted
    PROVE  Kept(name, WithGrant(t, granted), text)
<1>1. Alike(t, WithGrant(t, granted))
  BY DEF WithGrant, Alike, Kept, Shape, Fields
<1> QED
  BY <1>1, AlikeKept

-----------------------------------------------------------------------------
(***************************************************************************)
(* Every step keeps the invariant.                                         *)
(***************************************************************************)
USE DEF Present

LEMMA InvInit == Init => Inv
<1> SUFFICES ASSUME Init PROVE Inv
  OBVIOUS
<1> DEFINE r == [t \in Plan |-> FromPlan(t)]
<1>1. Plan \subseteq Tickets /\ row = Ordered(r) /\ backed = [t \in Tickets |-> Absent] /\ pc = "idle"
  BY DEF Init, Tickets
<1>2. ASSUME NEW t \in Plan PROVE Kept(t, r[t], Absent)
  BY DEF Kept, Shape, Fields, Stands, FromPlan
<1>3. Fit(r, backed)
  BY <1>1, <1>2 DEF Fit
<1>4. Fit(row, backed)
  BY <1>1, <1>3, OrderedFits
<1> QED
  BY <1>1, <1>4 DEF Inv, InHand, Asking, BuiltAsAgreed

\* Steps after which no ticket is voted on or built.
LEMMA LetsGo ==
    ASSUME Fit(row', backed'), pc' \notin Asking
    PROVE  Inv'
BY DEF Inv, InHand, BuiltAsAgreed, Asking

LEMMA TakeKeeps == ASSUME Inv, Take PROVE Inv'
<1>1. PICK t \in Ready :
         /\ current' = t
         /\ \/ /\ Passes = 0 \/ (row[t].signoff # "none" /\ row[t].agreed = Text(row[t]))
               /\ pc' = "build"
            \/ pc' = "vote"
  BY DEF Take
<1>2. UNCHANGED <<row, backed>> /\ t \in Present
  BY <1>1 DEF Take, Ready
<1>3. row[t].agreed = backed[t]
  BY <1>2 DEF Inv, Fit, Kept
<1>4. BuiltAsAgreed'
  BY <1>1, <1>2, <1>3, BarAssumption DEF BuiltAsAgreed, Text
<1> QED
  BY <1>1, <1>2, <1>4 DEF Inv, InHand, Asking, Fit

LEMMA VoteKeeps == ASSUME Inv, Vote PROVE Inv'
BY DEF Vote, Inv, InHand, Asking, Fit, BuiltAsAgreed

LEMMA ReviseKeeps == ASSUME Inv, Revise PROVE Inv'
<1>1. UNCHANGED <<current, backed>> /\ current \in Present /\ pc' = "vote"
  BY DEF Revise, Inv, InHand, Asking
<1>2. CASE UNCHANGED row
  BY <1>1, <1>2 DEF Inv, InHand, Asking, Fit, BuiltAsAgreed
<1>3. ASSUME NEW rev \in RevisionReplies(current),
             row' = Ordered([row EXCEPT ![current] = SignOffApplies(@, rev)])
      PROVE  Inv'
  <2> DEFINE r == [row EXCEPT ![current] = SignOffApplies(row[current], rev)]
  <2>1. Fit(r, backed)
    BY <1>1, SignedKept, FitRow DEF Inv, Fit
  <2>2. Fit(row', backed) /\ DOMAIN row' = Present
    BY <1>3, <2>1, OrderedFits DEF Ordered
  <2> QED
    BY <1>1, <2>2 DEF Inv, InHand, Asking, BuiltAsAgreed
<1> QED
  BY <1>2, <1>3 DEF Revise

LEMMA SettleKeeps == ASSUME Inv, Settle PROVE Inv'
<1> DEFINE t == [row[current] EXCEPT !.signoff = verdict]
<1>1. current \in Present /\ heard = Words(row[current]) /\ Fit(row, backed)
  BY DEF Settle, Inv, InHand, Asking
<1>2. Kept(current, row[current], backed[current]) /\ current \in Tickets
  BY <1>1 DEF Fit
<1>3. Alike(row[current], t)
  BY <1>2 DEF Kept, Alike, Shape, Fields
<1>4. ASSUME verdict \in Agreements,
             row' = [row EXCEPT ![current] = [t EXCEPT !.agreed = Text(t), !.ratifiedSpec = t.spec,
                                                       !.ratified = t.criteria]],
             backed' = [backed EXCEPT ![current] = heard], pc' = "build", UNCHANGED current
      PROVE  Inv'
  <2> DEFINE u == [t EXCEPT !.agreed = Text(t), !.ratifiedSpec = t.spec, !.ratified = t.criteria]
  <2>1. /\ Shape(u) /\ u.agreed = Text(t) /\ u.ratifiedSpec = t.spec /\ u.spec = t.spec
        /\ u.context = t.context /\ u.originalSpec = t.originalSpec
        /\ u.originalContext = t.originalContext /\ u.dead = t.dead
        /\ u.criteria = t.criteria /\ u.scope = t.scope
    BY <1>3 DEF Alike, Shape, Fields
  <2>2. Words(t) = heard /\ Words(u) = heard
    BY <1>1, <1>2, <2>1 DEF Words, Kept, Shape, Fields
  <2> HIDE DEF u
  <2>3. Kept(current, u, heard)
    BY <1>2, <1>3, <2>1, <2>2 DEF Kept, Alike, Stands, Text
  <2>4. row' = [row EXCEPT ![current] = u]
    BY <1>4 DEF u
  <2>5. Fit(row', backed')
    BY <1>1, <1>2, <1>4, <2>3, <2>4 DEF Fit
  <2>6. row'[current'] = u /\ backed'[current'] = heard /\ current' \in DOMAIN row'
    BY <1>1, <1>2, <1>4, <2>4 DEF Fit
  <2> QED
    BY <1>4, <2>2, <2>5, <2>6 DEF Inv, InHand, Asking, BuiltAsAgreed
<1>5. ASSUME verdict = "unavailable", row' = [row EXCEPT ![current] = t], pc' = "build",
             UNCHANGED <<backed, current>>
      PROVE  Inv'
  <2>1. Fit(row', backed')
    BY <1>1, <1>2, <1>3, <1>5, AlikeKept, FitRow
  <2>2. row'[current'] = t /\ t.signoff = "unavailable" /\ current' \in DOMAIN row'
    BY <1>1, <1>2, <1>5 DEF Kept, Shape, Fields
  <2> QED
    BY <1>5, <2>1, <2>2 DEF Inv, InHand, Asking, BuiltAsAgreed
<1>6. ASSUME row' = Closed([row EXCEPT ![current] = [t EXCEPT !.status = "blocked"]]),
             pc' = "idle", UNCHANGED backed
      PROVE  Inv'
  <2>1. Alike(t, [t EXCEPT !.status = "blocked"])
    BY <1>3 DEF Alike, Shape, Fields
  <2>2. Fit([row EXCEPT ![current] = [t EXCEPT !.status = "blocked"]], backed)
    BY <1>1, <1>2, <1>3, <2>1, AlikeKept, FitRow
  <2> QED
    BY <1>6, <2>2, ClosedFits, LetsGo DEF Asking
<1> QED
  BY <1>4, <1>5, <1>6 DEF Settle

LEMMA BuildKeeps == ASSUME Inv, Build PROVE Inv'
<1>1. PICK end \in {"done", "failed"} :
         row' = Closed([row EXCEPT ![current] = [row[current] EXCEPT
                  !.status = end, !.ran = TRUE, !.failedOnce = row[current].failedOnce \/ end = "failed"]])
  BY DEF Build
<1> DEFINE u == [row[current] EXCEPT
                  !.status = end, !.ran = TRUE, !.failedOnce = row[current].failedOnce \/ end = "failed"]
<1>2. current \in Present /\ Kept(current, row[current], backed[current]) /\ Fit(row, backed)
  BY DEF Build, Inv, InHand, Asking, Fit
<1>3. Alike(row[current], u)
  BY <1>2 DEF Kept, Alike, Shape, Fields
<1>4. Fit([row EXCEPT ![current] = u], backed)
  BY <1>2, <1>3, AlikeKept, FitRow
<1>5. pc' = "idle" /\ UNCHANGED backed
  BY DEF Build
<1> QED
  BY <1>1, <1>4, <1>5, ClosedFits, LetsGo DEF Asking

LEMMA RediagnoseKeeps == ASSUME Inv, Rediagnose PROVE Inv'
<1>1. PICK d \in Diagnoses :
         row' = [row EXCEPT ![current] =
                   [row[current] EXCEPT !.dead = row[current].dead \cup {row[current].spec}, !.spec = d.spec,
                                        !.scope = d.scope, !.context = d.context]]
  BY DEF Rediagnose
<1> DEFINE u == [row[current] EXCEPT !.dead = row[current].dead \cup {row[current].spec}, !.spec = d.spec,
                                     !.scope = d.scope, !.context = d.context]
<1>2. /\ current \in Present /\ Kept(current, row[current], backed[current]) /\ Fit(row, backed)
      /\ UNCHANGED <<pc, current, backed>> /\ pc = "build"
  BY DEF Rediagnose, Inv, InHand, Asking, Fit
<1>3. Shape(u) /\ u.agreed = row[current].agreed /\ u.dead # {}
  BY <1>2 DEF Kept, Shape, Fields
<1> HIDE DEF u
<1>4. row' = [row EXCEPT ![current] = u]
  BY <1>1 DEF u
<1>5. Fit(row', backed')
  <2>1. Kept(current, u, backed[current])
    BY <1>2, <1>3 DEF Kept
  <2> QED
    BY <1>2, <1>4, <2>1, FitRow
<1>6. row'[current'].dead # {} /\ current' \in DOMAIN row'
  BY <1>2, <1>3, <1>4
<1> QED
  BY <1>2, <1>5, <1>6 DEF Inv, InHand, Asking, BuiltAsAgreed

LEMMA DecomposeKeeps == ASSUME Inv, Decompose PROVE Inv'
<1> DEFINE parent == Now
<1>1. Fit(row, backed) /\ UNCHANGED <<pc, backed>> /\ pc = "split"
  BY DEF Decompose, Inv
<1>2. PICK pieces \in Splits :
         /\ \A c \in DOMAIN pieces : ParentOf[c] = parent /\ c \notin Present
         /\ row' = [t \in Present \cup DOMAIN pieces |->
                IF t \in DOMAIN pieces THEN PieceOf(row[parent], pieces[t])
                ELSE IF t = parent
                  THEN [row[parent] EXCEPT !.status = "split", !.needs = held[parent]]
                ELSE row[t]]
  BY DEF Decompose
<1> HIDE DEF parent
<1>3. DOMAIN pieces \subseteq Children /\ DOMAIN pieces \cap Present = {}
  BY <1>2, BarAssumption
<1>4. parent \in Present => Kept(parent, row[parent], backed[parent])
  BY <1>1 DEF Fit
<1>5. ASSUME NEW c \in DOMAIN pieces PROVE Kept(c, row'[c], backed[c])
  <2>1. backed[c] = Absent /\ c \notin Plan
    BY <1>1, <1>3, <1>5, OrderingAssumption DEF Fit, Tickets
  <2>2. row'[c] = PieceOf(row[parent], pieces[c])
    BY <1>2, <1>5
  <2>3. Kept(c, PieceOf(row[parent], pieces[c]), Absent)
    BY <2>1 DEF Kept, Shape, Fields, Stands, PieceOf
  <2> QED
    BY <2>1, <2>2, <2>3
<1>6. ASSUME NEW t \in Present PROVE Kept(t, row'[t], backed[t])
  <2>1. CASE t = parent
    <3>1. Alike(row[parent], [row[parent] EXCEPT !.status = "split", !.needs = held[parent]])
      BY <1>4, <1>6, <2>1 DEF Kept, Alike, Shape, Fields
    <3> QED
      BY <1>2, <1>3, <1>4, <1>6, <2>1, <3>1, AlikeKept
  <2>2. CASE t # parent
    BY <1>1, <1>2, <1>3, <2>2 DEF Fit
  <2> QED
    BY <2>1, <2>2
<1>7. DOMAIN row' = Present \cup DOMAIN pieces
  BY <1>2
<1>8. Fit(row', backed')
  BY <1>1, <1>3, <1>5, <1>6, <1>7 DEF Fit, Tickets
<1> QED
  BY <1>1, <1>8, LetsGo DEF Asking

LEMMA RespecKeeps == ASSUME Inv, Respec PROVE Inv'
<1> DEFINE t == Now
<1>1. Fit(row, backed) /\ UNCHANGED <<pc, backed>> /\ pc = "respec"
  BY DEF Respec, Inv
<1>2. PICK rev \in RespecReplies(t), granted \in SUBSET Disputed[t] :
         LET new == RespecApplies(Copy(t), rev, Guarded[t], Disputed[t])
             rows == IF new = Copy(t) THEN row ELSE Ordered([row EXCEPT ![t] = new])
         IN  row' = IF granted = {} THEN rows
                    ELSE [rows EXCEPT ![t] = WithGrant(IF new = Copy(t) THEN Copy(t) ELSE rows[t], granted)]
  BY DEF Respec
<1> DEFINE new == RespecApplies(Copy(t), rev, Guarded[t], Disputed[t])
           rows == IF new = Copy(t) THEN row ELSE Ordered([row EXCEPT ![t] = new])
<1> HIDE DEF t
<1>3. t \in Present => Kept(t, Copy(t), backed[t]) /\ Kept(t, new, backed[t])
  BY <1>1, CopyKept, RespecKept DEF Fit
<1>4. row' = IF granted = {} THEN rows
             ELSE [rows EXCEPT ![t] = WithGrant(IF new = Copy(t) THEN Copy(t) ELSE rows[t], granted)]
  BY <1>2
<1> HIDE DEF new
<1>5. Fit(rows, backed) /\ DOMAIN rows = Present
  <2>1. Fit([row EXCEPT ![t] = new], backed)
    BY <1>1, <1>3, FitRow
  <2> QED
    BY <1>1, <2>1, OrderedFits DEF Ordered
<1> HIDE DEF rows
<1>6. CASE granted = {}
  BY <1>1, <1>4, <1>5, <1>6, LetsGo DEF Asking
<1>7. CASE granted # {}
  <2> DEFINE base == IF new = Copy(t) THEN Copy(t) ELSE rows[t]
  <2>1. t \in DOMAIN rows => Kept(t, base, backed[t])
    BY <1>3, <1>5 DEF Fit
  <2>2. t \in DOMAIN rows => Kept(t, WithGrant(base, granted), backed[t])
    BY <2>1, GrantKept
  <2>3. Fit([rows EXCEPT ![t] = WithGrant(base, granted)], backed)
    BY <1>5, <2>2, FitRow
  <2> QED
    BY <1>1, <1>4, <1>7, <2>3, LetsGo DEF Asking
<1> QED
  BY <1>6, <1>7

LEMMA ImpossibleKeeps == ASSUME Inv, Impossible PROVE Inv'
<1> DEFINE t == Now
           u == [Copy(t) EXCEPT !.status = "blocked", !.impossible = Text(Copy(t))]
<1>1. Fit(row, backed) /\ UNCHANGED <<pc, backed>> /\ pc = "respec" /\ row' = [row EXCEPT ![t] = u]
  BY DEF Impossible, Inv
<1> HIDE DEF t
<1>2. ASSUME t \in Present PROVE Kept(t, u, backed[t])
  <2>1. Kept(t, Copy(t), backed[t])
    BY <1>1, <1>2, CopyKept DEF Fit
  <2>2. Alike(Copy(t), u)
    BY <2>1 DEF Kept, Alike, Shape, Fields
  <2> QED
    BY <2>1, <2>2, AlikeKept
<1> HIDE DEF u
<1>3. Fit(row', backed')
  BY <1>1, <1>2, FitRow
<1> QED
  BY <1>1, <1>3, LetsGo DEF Asking

LEMMA RequeueKeeps == ASSUME Inv, Requeue PROVE Inv'
<1>1. Fit(row, backed) /\ UNCHANGED backed /\ pc' \in {"idle", "over"}
  BY DEF Requeue, Inv
<1>2. DOMAIN row' = Present /\ \A t \in Present :
         row'[t] = row[t] \/ row'[t] = [row[t] EXCEPT !.status = "pending", !.ran = FALSE]
  BY DEF Requeue
<1>3. ASSUME NEW t \in Present PROVE Alike(row[t], row'[t])
  <2>1. Shape(row[t])
    BY <1>1 DEF Fit, Kept
  <2>2. Alike(row[t], row[t]) /\ Alike(row[t], [row[t] EXCEPT !.status = "pending", !.ran = FALSE])
    BY <2>1 DEF Alike, Shape, Fields
  <2> QED
    BY <1>2, <2>2
<1>4. Fit(row', backed')
  BY <1>1, <1>2, <1>3, FitAlike
<1> QED
  BY <1>1, <1>4, LetsGo DEF Asking

LEMMA InvStep == Inv /\ [Next]_vars => Inv'
<1> SUFFICES ASSUME Inv, [Next]_vars PROVE Inv'
  OBVIOUS
<1>1. CASE Finish
  <2>1. Fit(row', backed')
    BY <1>1, ClosedFits, ParkedFits DEF Finish, Inv
  <2> QED
    BY <1>1, <2>1, LetsGo DEF Finish, Asking
<1>2. CASE OpenCycle \/ GiveUp \/ KeepWhole \/ AskPlanner \/ DecomposedAll \/ KeepAsWritten \/ Crash
  <2>1. UNCHANGED <<row, backed>> /\ pc' \notin Asking
    BY <1>2 DEF OpenCycle, GiveUp, KeepWhole, AskPlanner, DecomposedAll, KeepAsWritten, Crash, Asking
  <2> QED
    BY <2>1, LetsGo DEF Inv, Fit
<1>3. CASE UNCHANGED vars
  BY <1>3 DEF vars, passVars, Inv, Fit, InHand, BuiltAsAgreed
<1> QED
  BY <1>1, <1>2, <1>3, TakeKeeps, VoteKeeps, ReviseKeeps, SettleKeeps, BuildKeeps, RediagnoseKeeps,
     DecomposeKeeps, RespecKeeps, ImpossibleKeeps, RequeueKeeps DEF Next

THEOREM Invariance == Spec => []Inv
BY InvInit, InvStep, PTL DEF Spec

\* What is built was voted on word for word in a pass that carried it, however often
\* it was rewritten, requeued or interrupted since (`_ratify`).
THEOREM Backed == Spec => []BuiltAsAgreed
<1>1. Inv => BuiltAsAgreed
  BY DEF Inv
<1> QED
  BY <1>1, Invariance, PTL

\* The plan's numbers and its silence on formats and excuses outlive every chain
\* of revisions of every text (`_apply`, `revise`).
THEOREM PlanKept == Spec => []PlanStands
<1>1. Inv => PlanStands
  BY DEF Inv, Fit, Kept, Stands, PlanStands
<1> QED
  BY <1>1, Invariance, PTL

-----------------------------------------------------------------------------
(***************************************************************************)
(* Who waits for whom.                                                     *)
(***************************************************************************)
Graphs(D) == {needs \in [D -> SUBSET D] : Acyclic(needs)}

\* Graphs that keep the needs there were.
Over(base) == {needs \in Graphs(DOMAIN base) : \A t \in DOMAIN base : base[t] \subseteq needs[t]}

\* What shows that goal is not reached from start.
Apart(needs, S, start, goal) ==
    /\ S \in SUBSET DOMAIN needs /\ start \in S /\ goal \notin S
    /\ \A t \in S : needs[t] \subseteq S

LEMMA ApartMeans ==
    ASSUME NEW needs, NEW start, NEW goal
    PROVE  ~Reaches(needs, start, goal) <=> \E S : Apart(needs, S, start, goal)
BY DEF Reaches, Apart

\* A ticket that waits for fewer reaches fewer.
LEMMA FewerAcyclic ==
    ASSUME NEW D, NEW needs \in Graphs(D), NEW fewer, DOMAIN fewer = D,
           \A t \in D : fewer[t] \subseteq needs[t]
    PROVE  Acyclic(fewer)
<1> SUFFICES ASSUME NEW t \in D, NEW d \in fewer[t] PROVE ~Reaches(fewer, d, t)
  BY DEF Acyclic
<1>1. DOMAIN needs = D /\ d \in needs[t] /\ Acyclic(needs)
  BY DEF Graphs
<1>2. PICK S : Apart(needs, S, d, t)
  BY <1>1, ApartMeans DEF Acyclic
<1>3. Apart(fewer, S, d, t)
  BY <1>1, <1>2 DEF Apart
<1> QED
  BY <1>3, ApartMeans

\* A need that leads nowhere near the one who gets it closes no circle.
LEMMA OneMoreNeed ==
    ASSUME NEW D, NEW needs \in Graphs(D), NEW later \in D, NEW earlier \in D,
           ~Reaches(needs, earlier, later)
    PROVE  [needs EXCEPT ![later] = @ \cup {earlier}] \in Graphs(D)
<1> DEFINE more == [needs EXCEPT ![later] = @ \cup {earlier}]
<1>1. /\ DOMAIN needs = D /\ \A t \in D : needs[t] \subseteq D /\ Acyclic(needs)
      /\ more \in [D -> SUBSET D] /\ more[later] = needs[later] \cup {earlier}
      /\ \A t \in D \ {later} : more[t] = needs[t]
  BY DEF Graphs
<1>2. PICK far : Apart(needs, far, earlier, later)
  BY ApartMeans
<1> HIDE DEF more
<1>3. ASSUME NEW t \in D, NEW d \in more[t] PROVE \E S : Apart(more, S, d, t)
  <2>1. CASE d \in needs[t]
    <3>1. PICK S : Apart(needs, S, d, t)
      BY <1>1, <2>1, ApartMeans DEF Acyclic
    <3>2. CASE later \notin S
      BY <1>1, <3>1, <3>2 DEF Apart
    <3>3. CASE later \in S /\ t \notin far
      <4>1. Apart(more, S \cup far, d, t)
        BY <1>1, <1>2, <3>1, <3>3 DEF Apart
      <4> QED
        BY <4>1
    <3>4. CASE t \in far
      <4>1. Apart(more, S \cap far, d, t)
        BY <1>1, <1>2, <2>1, <3>1, <3>4 DEF Apart
      <4> QED
        BY <4>1
    <3> QED
      BY <3>2, <3>3, <3>4
  <2>2. CASE d \notin needs[t]
    <3>1. t = later /\ d = earlier
      BY <1>1, <2>2
    <3>2. Apart(more, far, d, t)
      BY <1>1, <1>2, <3>1 DEF Apart
    <3> QED
      BY <3>2
  <2> QED
    BY <2>1, <2>2
<1>4. Acyclic(more)
  BY <1>1, <1>3, ApartMeans DEF Acyclic
<1> QED
  BY <1>1, <1>4 DEF Graphs, more

LEMMA BehindStays ==
    ASSUME NEW base, NEW needs \in Over(base), NEW later, NEW earlier
    PROVE  Behind(needs, later, earlier) \in Over(base)
<1>1. needs \in Graphs(DOMAIN base) /\ DOMAIN needs = DOMAIN base
  BY DEF Over, Graphs
<1>2. CASE MayOrder(needs, later, earlier)
  <2>1. /\ ~Reaches(needs, later, earlier) /\ ~Reaches(needs, earlier, later)
        /\ later \in DOMAIN base /\ earlier \in DOMAIN base
    BY <1>1, <1>2 DEF MayOrder, Reaches
  <2>2. [needs EXCEPT ![later] = @ \cup {earlier}] \in Graphs(DOMAIN base)
    BY <1>1, <2>1, OneMoreNeed
  <2>3. \A t \in DOMAIN base : needs[t] \subseteq [needs EXCEPT ![later] = @ \cup {earlier}][t]
    BY <1>1
  <2> QED
    BY <1>2, <2>2, <2>3 DEF Behind, Over
<1>3. CASE ~MayOrder(needs, later, earlier)
  BY <1>3 DEF Behind
<1> QED
  BY <1>2, <1>3

\* What holds of 0 and, with a number, of the next one holds of every number.
LEMMA SetInduction ==
    ASSUME NEW I, 0 \in I, \A n \in Nat : n \in I => n + 1 \in I
    PROVE  \A n \in Nat : n \in I
<1> DEFINE T == {n \in Nat : n \notin I}
<1>1. SUFFICES ASSUME T # {} PROVE FALSE
  OBVIOUS
<1>2. PICK x \in T : \A y \in T : ~ (<<y, x>> \in OpToRel(<, Nat))
  BY <1>1, NatLessThanWellFounded, WFMin
<1>3. \A y \in Nat : y < x => y \in I
  BY <1>2 DEF OpToRel
<1>4. x \in Nat /\ x # 0 /\ x \notin I
  OBVIOUS
<1>5. x - 1 \in Nat /\ x - 1 < x /\ (x - 1) + 1 = x
  BY <1>4
<1> QED
  BY <1>3, <1>4, <1>5

\* type of its steps.
Folds(V, n, start, F, g) ==
    g \in [0..n -> V] /\ g[0] = start /\ \A i \in 1..n : g[i] = F[i][g[i - 1]]

LEMMA FoldExists ==
    ASSUME NEW V, NEW n \in Nat, NEW start \in V, NEW F \in [1..n -> [V -> V]]
    PROVE  \E g : Folds(V, n, start, F, g)
<1> DEFINE Upto(k, g) == g \in [0..k -> V] /\ g[0] = start
                          /\ \A i \in 1..k : i <= n => g[i] = F[i][g[i - 1]]
           I == {k \in Nat : \E g : Upto(k, g)}
<1>1. 0 \in I
  <2>1. Upto(0, [i \in 0..0 |-> start])
    OBVIOUS
  <2> QED
    BY <2>1
<1>2. ASSUME NEW k \in Nat, k \in I PROVE k + 1 \in I
  <2>1. PICK g : Upto(k, g)
    BY <1>2
  <2> DEFINE h == [i \in 0..(k + 1) |-> IF i <= k THEN g[i]
                                        ELSE IF k + 1 <= n THEN F[k + 1][g[k]] ELSE start]
  <2>2. k + 1 <= n => F[k + 1] \in [V -> V] /\ g[k] \in V
    BY <2>1
  <2>3. h \in [0..(k + 1) -> V]
    BY <2>1, <2>2
  <2>4. h[0] = start
    BY <2>1
  <2>5. \A i \in 0..k : h[i] = g[i]
    OBVIOUS
  <2>6. ASSUME NEW i \in 1..(k + 1), i <= n PROVE h[i] = F[i][h[i - 1]]
    <3>1. i - 1 \in 0..k /\ h[i - 1] = g[i - 1]
      BY <2>5
    <3>2. CASE i \in 1..k
      BY <2>1, <2>5, <2>6, <3>1, <3>2
    <3>3. CASE i = k + 1
      <4>1. h[i] = F[k + 1][g[k]] /\ h[i - 1] = g[k]
        BY <2>6, <3>1, <3>3
      <4> QED
        BY <3>3, <4>1
    <3> QED
      BY <3>2, <3>3
  <2> HIDE DEF h
  <2>7. Upto(k + 1, h)
    BY <2>3, <2>4, <2>6
  <2> QED
    BY <2>7
<1>3. n \in I
  <2> HIDE DEF I
  <2> QED
    BY <1>1, <1>2, SetInduction
<1> QED
  BY <1>3 DEF Folds

\* The backlog's needs after each pair of writers of a file.
LEMMA ChainedStays ==
    ASSUME NEW base, NEW needs \in Over(base), NEW S, IsFiniteSet(S)
    PROVE  Chained(needs, S) \in Over(base)
<1> DEFINE n == Cardinality(S)
           V == Over(base)
           Step(v, k) == IF k <= 1 THEN needs ELSE Behind(v, InPlace(S)[k], InPlace(S)[k - 1])
           F == [k \in 1..n |-> [v \in V |-> Step(v, k)]]
           Is(f) == f = [k \in 0..n |-> IF k <= 1 THEN needs
                                       ELSE Behind(f[k - 1], InPlace(S)[k], InPlace(S)[k - 1])]
<1>1. n \in Nat
  BY FS_CardinalityType
<1>2. \A k \in 1..n, v \in V : Step(v, k) \in V
  BY BehindStays
<1>3. F \in [1..n -> [V -> V]] /\ needs \in V
  BY <1>2
<1>4. \A k \in 1..n, v \in V : F[k][v] = Step(v, k)
  OBVIOUS
<1> HIDE DEF n, V, F
<1>5. PICK g : Folds(V, n, needs, F, g)
  BY <1>1, <1>3, FoldExists
<1>6. /\ g \in [0..n -> V] /\ g[0] = needs
      /\ \A k \in 1..n : g[k] = Step(g[k - 1], k)
  BY <1>1, <1>4, <1>5 DEF Folds
<1>7. Is(g)
  <2>1. \A k \in 0..n : g[k] = IF k <= 1 THEN needs
                               ELSE Behind(g[k - 1], InPlace(S)[k], InPlace(S)[k - 1])
    BY <1>1, <1>6
  <2> QED
    BY <1>6, <2>1
<1> DEFINE along == CHOOSE f : Is(f)
<1>8. Chained(needs, S) = along[n]
  BY DEF Chained, n
<1>9. Is(along)
  BY <1>7
<1> HIDE DEF along
<1> DEFINE I == {k \in Nat : k <= n => along[k] \in V}
<1>10. 0 \in I
  BY <1>1, <1>3, <1>9
<1>11. ASSUME NEW k \in Nat, k \in I PROVE k + 1 \in I
  <2> SUFFICES ASSUME k + 1 <= n PROVE along[k + 1] \in V
    OBVIOUS
  <2>1. along[k] \in V /\ k + 1 \in 0..n /\ (k + 1) - 1 = k
    BY <1>1, <1>11
  <2>2. along[k + 1] = IF k + 1 <= 1 THEN needs
                       ELSE Behind(along[k], InPlace(S)[k + 1], InPlace(S)[k])
    BY <1>9, <2>1
  <2> QED
    BY <1>3, <2>1, <2>2, BehindStays DEF V
<1>12. n \in I
  <2> HIDE DEF I
  <2> QED
    BY <1>1, <1>10, <1>11, SetInduction
<1> QED
  BY <1>1, <1>8, <1>12 DEF V

NeedsOf(rows) == [t \in DOMAIN rows |-> rows[t].needs]

\* What is derived keeps the needs there were, and closes no circle.
LEMMA DerivedStays ==
    ASSUME NEW rows, IsFiniteSet(DOMAIN rows), NeedsOf(rows) \in Graphs(DOMAIN rows)
    PROVE  DerivedNeeds(rows) \in Over(NeedsOf(rows))
<1> DEFINE n == Len(FileOrder)
           base == NeedsOf(rows)
           V == Over(base)
           Step(v, k) == Chained(v, Writers(rows, FileOrder[k]))
           F == [k \in 1..n |-> [v \in V |-> Step(v, k)]]
           Is(f) == f = [k \in 0..n |-> IF k = 0 THEN [t \in DOMAIN rows |-> rows[t].needs]
                                       ELSE Chained(f[k - 1], Writers(rows, FileOrder[k]))]
<1>0. [t \in DOMAIN rows |-> rows[t].needs] = base
  BY DEF NeedsOf
<1>1. n \in Nat
  BY OrderingAssumption
<1>2. \A k \in 1..n, v \in V : Step(v, k) \in V
  <2> SUFFICES ASSUME NEW k \in 1..n, NEW v \in V PROVE Step(v, k) \in V
    OBVIOUS
  <2>1. Writers(rows, FileOrder[k]) \in SUBSET DOMAIN rows
    BY DEF Writers
  <2>2. IsFiniteSet(Writers(rows, FileOrder[k]))
    BY <2>1, FS_Subset
  <2> QED
    BY <2>2, ChainedStays
<1>3. F \in [1..n -> [V -> V]]
  BY <1>2
<1>4. base \in V
  BY DEF Over, Graphs, NeedsOf
<1>5. \A k \in 1..n, v \in V : F[k][v] = Step(v, k)
  OBVIOUS
<1> HIDE DEF n, V, F, base
<1>6. PICK g : Folds(V, n, base, F, g)
  BY <1>1, <1>3, <1>4, FoldExists
<1>7. /\ g \in [0..n -> V] /\ g[0] = base
      /\ \A k \in 1..n : g[k] = Step(g[k - 1], k)
  BY <1>1, <1>5, <1>6 DEF Folds
<1>8. Is(g)
  <2>1. \A k \in 0..n : g[k] = IF k = 0 THEN [t \in DOMAIN rows |-> rows[t].needs]
                               ELSE Chained(g[k - 1], Writers(rows, FileOrder[k]))
    BY <1>0, <1>1, <1>7
  <2> QED
    BY <1>7, <2>1
<1> DEFINE after == CHOOSE f : Is(f)
<1>9. DerivedNeeds(rows) = after[n]
  BY DEF DerivedNeeds, n
<1>10. Is(after)
  BY <1>8
<1> HIDE DEF after
<1> DEFINE I == {k \in Nat : k <= n => after[k] \in V}
<1>11. 0 \in I
  BY <1>0, <1>1, <1>4, <1>10
<1>12. ASSUME NEW k \in Nat, k \in I PROVE k + 1 \in I
  <2> SUFFICES ASSUME k + 1 <= n PROVE after[k + 1] \in V
    OBVIOUS
  <2>1. after[k] \in V /\ k + 1 \in 0..n /\ (k + 1) - 1 = k /\ k + 1 \in 1..n
    BY <1>1, <1>12
  <2>2. after[k + 1] = Step(after[k], k + 1)
    <3>1. after[k + 1] = IF k + 1 = 0 THEN [t \in DOMAIN rows |-> rows[t].needs]
                         ELSE Chained(after[(k + 1) - 1], Writers(rows, FileOrder[k + 1]))
      BY <1>10, <2>1
    <3> QED
      BY <2>1, <3>1
  <2> HIDE DEF Step
  <2>3. Step(after[k], k + 1) \in V
    BY <1>2, <2>1
  <2> QED
    BY <2>2, <2>3
<1>13. n \in I
  <2> HIDE DEF I
  <2> QED
    BY <1>1, <1>11, <1>12, SetInduction
<1> QED
  BY <1>1, <1>9, <1>13 DEF V, base

-----------------------------------------------------------------------------
(***************************************************************************)
(* No step of the backlog closes a circle.                                 *)
(***************************************************************************)
Noted(rows) == NeedsOf(rows) \in Graphs(DOMAIN rows)

\* A cycle's copies wait for no more than their tickets do.
HeldOver ==
    /\ \A t \in Present : held[t] \subseteq row[t].needs
    /\ \A t \in Tickets \ Present : held[t] = {}

GraphInv == Inv /\ Noted(row) /\ HeldOver

LEMMA BacklogFinite == ASSUME NEW rows, DOMAIN rows \subseteq Tickets PROVE IsFiniteSet(DOMAIN rows)
BY OrderingAssumption, FS_Subset

\* Rows that wait for no more than they did.
LEMMA FewerNoted ==
    ASSUME NEW rows, Noted(rows), NEW less, DOMAIN less = DOMAIN rows,
           \A t \in DOMAIN rows : less[t].needs \subseteq rows[t].needs
    PROVE  Noted(less)
<1>1. /\ NeedsOf(rows) \in Graphs(DOMAIN rows) /\ DOMAIN NeedsOf(less) = DOMAIN rows
      /\ \A t \in DOMAIN rows : /\ NeedsOf(less)[t] \subseteq NeedsOf(rows)[t]
                                /\ NeedsOf(less)[t] \subseteq DOMAIN rows
  BY DEF Noted, NeedsOf, Graphs
<1>2. Acyclic(NeedsOf(less))
  BY <1>1, FewerAcyclic
<1>3. NeedsOf(less) \in [DOMAIN less -> SUBSET DOMAIN less]
  BY <1>1 DEF NeedsOf
<1> QED
  BY <1>2, <1>3 DEF Noted, Graphs

\* A backlog that was reordered waits for what it waited for, and for more.
LEMMA OrderedNoted ==
    ASSUME NEW rows, Noted(rows), DOMAIN rows \subseteq Tickets, \A t \in DOMAIN rows : Shape(rows[t])
    PROVE  /\ Noted(Ordered(rows)) /\ DOMAIN Ordered(rows) = DOMAIN rows
           /\ \A t \in DOMAIN rows : rows[t].needs \subseteq Ordered(rows)[t].needs
<1> DEFINE more == DerivedNeeds(rows)
<1>1. more \in Over(NeedsOf(rows))
  BY BacklogFinite, DerivedStays DEF Noted
<1>2. /\ DOMAIN Ordered(rows) = DOMAIN rows
      /\ \A t \in DOMAIN rows : Ordered(rows)[t] = [rows[t] EXCEPT !.needs = more[t]]
  BY DEF Ordered
<1> HIDE DEF more
<1>3. \A t \in DOMAIN rows : Ordered(rows)[t].needs = more[t]
  BY <1>2 DEF Shape, Fields
<1>4. more \in Graphs(DOMAIN rows) /\ \A t \in DOMAIN rows : rows[t].needs \subseteq more[t]
  BY <1>1 DEF Over, NeedsOf
<1>5. NeedsOf(Ordered(rows)) = more
  BY <1>2, <1>3, <1>4 DEF NeedsOf, Graphs
<1> QED
  BY <1>2, <1>3, <1>4, <1>5 DEF Noted

\* The shape of the rows.
LEMMA Shapely == ASSUME Inv PROVE /\ DOMAIN row \subseteq Tickets /\ Plan \subseteq Present
                                  /\ \A t \in Present : Shape(row[t])
BY DEF Inv, Fit, Kept

LEMMA ClosedNoted ==
    ASSUME NEW rows, Noted(rows), \A t \in DOMAIN rows : Shape(rows[t])
    PROVE  /\ Noted(Closed(rows)) /\ DOMAIN Closed(rows) = DOMAIN rows
           /\ \A t \in DOMAIN rows : Shape(Closed(rows)[t]) /\ Closed(rows)[t].needs = rows[t].needs
<1>1. /\ DOMAIN Closed(rows) = DOMAIN rows
      /\ \A t \in DOMAIN rows :
            Closed(rows)[t] = rows[t] \/ \E s : Closed(rows)[t] = [rows[t] EXCEPT !.status = s]
  BY DEF Closed
<1>2. \A t \in DOMAIN rows : Shape(Closed(rows)[t]) /\ Closed(rows)[t].needs = rows[t].needs
  BY <1>1 DEF Shape, Fields
<1> QED
  BY <1>1, <1>2, FewerNoted

\* What rewrites nothing of who waits for whom.
LEMMA SameNeeds ==
    ASSUME GraphInv, Inv', DOMAIN row' = DOMAIN row, UNCHANGED held,
           \A t \in Present : row'[t].needs = row[t].needs
    PROVE  GraphInv'
<1>1. Noted(row')
  BY FewerNoted DEF GraphInv
<1> QED
  BY <1>1 DEF GraphInv, HeldOver

\* What a rewrite adds is added behind.
LEMMA MoreNeeds ==
    ASSUME GraphInv, Inv', DOMAIN row' = DOMAIN row, UNCHANGED held, Noted(row'),
           \A t \in Present : held[t] \subseteq row'[t].needs
    PROVE  GraphInv'
BY DEF GraphInv, HeldOver

\* How a piece is held to the pieces it needs.
LEMMA DecomposedNoted ==
    ASSUME NEW rows, Noted(rows), DOMAIN rows \subseteq Tickets,
           NEW pieces, DOMAIN pieces \subseteq Tickets, DOMAIN pieces \cap DOMAIN rows = {},
           \A c \in DOMAIN pieces : pieces[c].needs \subseteq DOMAIN pieces,
           Acyclic([t \in Tickets |-> IF t \in DOMAIN pieces THEN pieces[t].needs ELSE {}]),
           NEW new, DOMAIN new = DOMAIN rows \cup DOMAIN pieces,
           \A c \in DOMAIN pieces : new[c].needs = pieces[c].needs,
           \A t \in DOMAIN rows : new[t].needs \subseteq rows[t].needs
    PROVE  Noted(new)
<1> DEFINE P == DOMAIN pieces
           D == DOMAIN rows
           own == [t \in Tickets |-> IF t \in P THEN pieces[t].needs ELSE {}]
           needs == NeedsOf(new)
           before == NeedsOf(rows)
<1>1. /\ DOMAIN needs = D \cup P /\ P \cap D = {} /\ P \subseteq Tickets
      /\ \A c \in P : needs[c] = pieces[c].needs /\ needs[c] \subseteq P /\ own[c] = pieces[c].needs
      /\ DOMAIN before = D /\ \A t \in D : needs[t] \subseteq before[t] /\ before[t] \subseteq D
      /\ Acyclic(before) /\ Acyclic(own) /\ DOMAIN own = Tickets
  BY DEF NeedsOf, Noted, Graphs
<1>2. needs \in [D \cup P -> SUBSET (D \cup P)]
  BY <1>1 DEF NeedsOf
<1> HIDE DEF P, D, own, needs, before
<1>3. ASSUME NEW t \in D, NEW d \in needs[t] PROVE \E S : Apart(needs, S, d, t)
  <2>1. d \in before[t]
    BY <1>1, <1>3
  <2>2. PICK S : Apart(before, S, d, t)
    BY <1>1, <1>3, <2>1, ApartMeans DEF Acyclic
  <2>3. Apart(needs, S, d, t)
    BY <1>1, <2>2 DEF Apart
  <2> QED
    BY <2>3
<1>4. ASSUME NEW t \in P, NEW d \in needs[t] PROVE \E S : Apart(needs, S, d, t)
  <2>1. d \in own[t] /\ d \in P /\ t \in DOMAIN own
    BY <1>1, <1>4
  <2>2. PICK S : Apart(own, S, d, t)
    BY <1>1, <2>1, ApartMeans DEF Acyclic
  <2>3. Apart(needs, S \cap P, d, t)
    BY <1>1, <2>1, <2>2 DEF Apart
  <2> QED
    BY <2>3
<1>5. Acyclic(needs)
  BY <1>1, <1>3, <1>4, ApartMeans DEF Acyclic
<1> QED
  BY <1>2, <1>5 DEF Noted, Graphs, needs, D, P

LEMMA GraphInit == Init => GraphInv
<1> SUFFICES ASSUME Init PROVE GraphInv
  OBVIOUS
<1> DEFINE r == [t \in Plan |-> FromPlan(t)]
<1>1. /\ row = Ordered(r) /\ held = [t \in Tickets |-> {}] /\ Plan \subseteq Tickets /\ Inv
  BY InvInit DEF Init, Tickets
<1>2. \A t \in Plan : Shape(r[t]) /\ r[t].needs = DeclaredNeeds[t]
  BY DEF Shape, Fields, FromPlan
<1>3. NeedsOf(r) = DeclaredNeeds
  BY <1>2, BarAssumption DEF NeedsOf
<1>4. Noted(r)
  BY <1>3, BarAssumption DEF Noted, Graphs
<1>5. Noted(row) /\ DOMAIN row = Plan
  BY <1>1, <1>2, <1>4, OrderedNoted
<1> QED
  BY <1>1, <1>5 DEF GraphInv, HeldOver

LEMMA GraphRespec == ASSUME GraphInv, Inv', Respec PROVE GraphInv'
<1> DEFINE t == Now
           copy == Copy(t)
<1>1. PICK rev \in RespecReplies(t), given \in SUBSET Disputed[t] :
         LET new == RespecApplies(Copy(t), rev, Guarded[t], Disputed[t])
             rows == IF new = Copy(t) THEN row ELSE Ordered([row EXCEPT ![t] = new])
         IN  row' = IF given = {} THEN rows
                    ELSE [rows EXCEPT ![t] = WithGrant(IF new = Copy(t) THEN Copy(t) ELSE rows[t], given)]
  BY DEF Respec
<1> DEFINE new == RespecApplies(copy, rev, Guarded[t], Disputed[t])
           rows == IF new = copy THEN row ELSE Ordered([row EXCEPT ![t] = new])
           base == IF new = copy THEN copy ELSE rows[t]
<1>2. row' = IF given = {} THEN rows ELSE [rows EXCEPT ![t] = WithGrant(base, given)]
  BY <1>1
<1>3. /\ UNCHANGED held /\ Noted(row) /\ HeldOver /\ DOMAIN row \subseteq Tickets
      /\ \A u \in Present : Shape(row[u])
  BY Shapely DEF Respec, GraphInv
<1> HIDE DEF t
<1>4. ASSUME t \in Present
      PROVE  Shape(copy) /\ copy.needs = held[t] /\ Shape(new) /\ new.needs = held[t]
  <2>1. Shape(copy) /\ copy.needs = held[t]
    BY <1>3, <1>4 DEF Copy, Shape, Fields
  <2> HIDE DEF copy
  <2> QED
    BY <2>1 DEF RespecApplies, Shape, Fields
<1> HIDE DEF copy, new
<1>5. /\ Noted(rows) /\ DOMAIN rows = Present
      /\ \A u \in Present : Shape(rows[u]) /\ held[u] \subseteq rows[u].needs
  <2>1. CASE new = copy
    BY <1>3, <2>1 DEF HeldOver
  <2>2. CASE new # copy
    <3> DEFINE r == [row EXCEPT ![t] = new]
    <3>1. /\ DOMAIN r = Present /\ \A u \in Present \ {t} : r[u] = row[u]
          /\ t \in Present => r[t] = new
      OBVIOUS
    <3> HIDE DEF r
    <3>2. /\ \A u \in Present : Shape(r[u]) /\ held[u] \subseteq r[u].needs
                                /\ r[u].needs \subseteq row[u].needs
      BY <1>3, <1>4, <3>1 DEF HeldOver
    <3>3. Noted(r)
      BY <1>3, <3>1, <3>2, FewerNoted
    <3>4. /\ Noted(Ordered(r)) /\ DOMAIN Ordered(r) = Present
          /\ \A u \in Present : r[u].needs \subseteq Ordered(r)[u].needs
      BY <1>3, <3>1, <3>2, <3>3, OrderedNoted
    <3>5. \A u \in Present : Shape(Ordered(r)[u])
      BY <3>1, <3>2 DEF Ordered, Shape, Fields
    <3>6. rows = Ordered(r)
      BY <2>2 DEF r
    <3> QED
      BY <3>2, <3>4, <3>5, <3>6
  <2> QED
    BY <2>1, <2>2
<1>6. t \in Present => Shape(base) /\ held[t] \subseteq base.needs /\ base.needs \subseteq rows[t].needs
  <2>1. CASE new = copy
    BY <1>3, <1>4, <2>1 DEF HeldOver
  <2>2. CASE new # copy
    BY <1>5, <2>2
  <2> QED
    BY <2>1, <2>2
<1> HIDE DEF base, rows
<1>7. CASE given = {}
  BY <1>2, <1>3, <1>5, <1>7, MoreNeeds
<1>8. CASE given # {}
  <2> DEFINE u == WithGrant(base, given)
  <2>1. t \in Present => u.needs = base.needs
    BY <1>6 DEF WithGrant, Shape, Fields
  <2>2. row' = [rows EXCEPT ![t] = u]
    BY <1>2, <1>8
  <2> HIDE DEF u
  <2>3. /\ DOMAIN row' = Present
        /\ \A v \in Present : held[v] \subseteq row'[v].needs /\ row'[v].needs \subseteq rows[v].needs
    BY <1>5, <1>6, <2>1, <2>2
  <2>4. Noted(row')
    BY <1>5, <2>3, FewerNoted
  <2> QED
    BY <1>3, <2>3, <2>4, MoreNeeds
<1> QED
  BY <1>7, <1>8

LEMMA GraphDecompose == ASSUME GraphInv, Inv', Decompose PROVE GraphInv'
<1> DEFINE parent == Now
<1>1. /\ UNCHANGED held /\ Noted(row) /\ HeldOver /\ DOMAIN row \subseteq Tickets
      /\ \A t \in Present : Shape(row[t])
  BY Shapely DEF Decompose, GraphInv
<1>2. PICK pieces \in Splits :
         /\ \A c \in DOMAIN pieces : ParentOf[c] = parent /\ c \notin Present
         /\ Sound(row[parent], pieces)
         /\ row' = [t \in Present \cup DOMAIN pieces |->
                IF t \in DOMAIN pieces THEN PieceOf(row[parent], pieces[t])
                ELSE IF t = parent
                  THEN [row[parent] EXCEPT !.status = "split", !.needs = held[parent]]
                ELSE row[t]]
  BY DEF Decompose
<1> HIDE DEF parent
<1>3. DOMAIN pieces \subseteq Children /\ DOMAIN pieces \cap Present = {} /\ DOMAIN pieces \subseteq Tickets
  BY <1>2, BarAssumption DEF Tickets
<1>4. /\ DOMAIN row' = Present \cup DOMAIN pieces
      /\ \A c \in DOMAIN pieces : row'[c].needs = pieces[c].needs
      /\ \A t \in Present : row'[t].needs \subseteq row[t].needs /\ held[t] \subseteq row'[t].needs
  <2>1. \A c \in DOMAIN pieces : row'[c].needs = pieces[c].needs
    BY <1>2 DEF PieceOf
  <2>2. parent \in Present => row'[parent].needs = held[parent]
    <3>1. parent \in Present => row'[parent] = [row[parent] EXCEPT !.status = "split", !.needs = held[parent]]
      BY <1>2, <1>3
    <3> QED
      BY <1>1, <3>1 DEF Shape, Fields
  <2>3. \A t \in Present \ {parent} : row'[t] = row[t]
    BY <1>2, <1>3
  <2> QED
    BY <1>1, <1>2, <2>1, <2>2, <2>3 DEF HeldOver
<1>5. /\ \A c \in DOMAIN pieces : pieces[c].needs \subseteq DOMAIN pieces
      /\ Acyclic([t \in Tickets |-> IF t \in DOMAIN pieces THEN pieces[t].needs ELSE {}])
  BY <1>2 DEF Sound
<1>6. Noted(row')
  BY <1>1, <1>3, <1>4, <1>5, DecomposedNoted
<1>7. \A c \in DOMAIN pieces : held[c] = {}
  BY <1>1, <1>3 DEF HeldOver
<1> QED
  BY <1>1, <1>4, <1>6, <1>7 DEF GraphInv, HeldOver

LEMMA GraphRevise == ASSUME GraphInv, Inv', Revise PROVE GraphInv'
<1>1. /\ UNCHANGED held /\ Noted(row) /\ HeldOver /\ DOMAIN row \subseteq Tickets
      /\ \A t \in Present : Shape(row[t])
  BY Shapely DEF Revise, GraphInv, cycleVars
<1>2. CASE UNCHANGED row
  BY <1>1, <1>2, SameNeeds
<1>3. ASSUME NEW rev \in RevisionReplies(current),
             row' = Ordered([row EXCEPT ![current] = SignOffApplies(@, rev)])
      PROVE  GraphInv'
  <2> DEFINE u == SignOffApplies(row[current], rev)
             r == [row EXCEPT ![current] = u]
  <2>1. current \in Present => Shape(u) /\ u.needs = row[current].needs
    BY <1>1 DEF SignOffApplies, Shape, Fields
  <2>2. row' = Ordered(r)
    BY <1>3
  <2> HIDE DEF u
  <2>3. DOMAIN r = Present /\ \A t \in Present : Shape(r[t]) /\ r[t].needs = row[t].needs
    BY <1>1, <2>1
  <2> HIDE DEF r
  <2>4. Noted(r)
    BY <1>1, <2>3, FewerNoted
  <2>5. /\ Noted(Ordered(r)) /\ DOMAIN Ordered(r) = Present
        /\ \A t \in Present : row[t].needs \subseteq Ordered(r)[t].needs
    BY <1>1, <2>3, <2>4, OrderedNoted
  <2> QED
    BY <1>1, <2>2, <2>5, MoreNeeds DEF HeldOver
<1> QED
  BY <1>2, <1>3 DEF Revise

\* Rows of which one was written, the gates closed or not, wait as they did.
LEMMA OneRow ==
    ASSUME GraphInv, Inv', UNCHANGED held, NEW t, NEW u,
           t \in Present => Shape(u) /\ u.needs = row[t].needs,
           row' = [row EXCEPT ![t] = u] \/ row' = Closed([row EXCEPT ![t] = u])
    PROVE  GraphInv'
<1> DEFINE r == [row EXCEPT ![t] = u]
<1>1. /\ Noted(row) /\ \A v \in Present : Shape(row[v])
  BY Shapely DEF GraphInv
<1>2. DOMAIN r = Present /\ \A v \in Present : Shape(r[v]) /\ r[v].needs = row[v].needs
  BY <1>1
<1>3. row' = r \/ row' = Closed(r)
  OBVIOUS
<1> HIDE DEF r
<1>4. Noted(r)
  BY <1>1, <1>2, FewerNoted
<1>5. DOMAIN row' = Present /\ \A v \in Present : row'[v].needs = row[v].needs
  BY <1>2, <1>3, <1>4, ClosedNoted
<1> QED
  BY <1>5, SameNeeds

LEMMA GraphSettle == ASSUME GraphInv, Inv', Settle PROVE GraphInv'
<1> DEFINE t == [row[current] EXCEPT !.signoff = verdict]
           agreed == [t EXCEPT !.agreed = Text(t), !.ratifiedSpec = t.spec, !.ratified = t.criteria]
           parked == [t EXCEPT !.status = "blocked"]
<1>1. UNCHANGED held /\ current \in Present /\ Shape(row[current])
  BY Shapely DEF Settle, GraphInv, cycleVars, Inv, InHand, Asking
<1>2. Shape(t) /\ t.needs = row[current].needs
  BY <1>1 DEF Shape, Fields
<1>3. /\ row' \in {[row EXCEPT ![current] = agreed], [row EXCEPT ![current] = t],
                   Closed([row EXCEPT ![current] = parked])}
  BY DEF Settle
<1> HIDE DEF t
<1>4. Shape(agreed) /\ agreed.needs = t.needs /\ Shape(parked) /\ parked.needs = t.needs
  BY <1>2 DEF Shape, Fields
<1> HIDE DEF agreed, parked
<1> QED
  BY <1>1, <1>2, <1>3, <1>4, OneRow

LEMMA GraphBuild == ASSUME GraphInv, Inv', Build PROVE GraphInv'
<1>1. UNCHANGED held /\ current \in Present /\ Shape(row[current])
  BY Shapely DEF Build, GraphInv, cycleVars, Inv, InHand, Asking
<1>2. PICK end \in {"done", "failed"} :
         row' = Closed([row EXCEPT ![current] = [row[current] EXCEPT
                  !.status = end, !.ran = TRUE, !.failedOnce = row[current].failedOnce \/ end = "failed"]])
  BY DEF Build
<1> DEFINE u == [row[current] EXCEPT
                  !.status = end, !.ran = TRUE, !.failedOnce = row[current].failedOnce \/ end = "failed"]
<1>3. Shape(u) /\ u.needs = row[current].needs
  BY <1>1 DEF Shape, Fields
<1> QED
  BY <1>1, <1>2, <1>3, OneRow

LEMMA GraphRediagnose == ASSUME GraphInv, Inv', Rediagnose PROVE GraphInv'
<1>1. UNCHANGED held /\ current \in Present /\ Shape(row[current])
  BY Shapely DEF Rediagnose, GraphInv, cycleVars, Inv, InHand, Asking
<1>2. PICK d \in Diagnoses :
         row' = [row EXCEPT ![current] =
                   [row[current] EXCEPT !.dead = row[current].dead \cup {row[current].spec}, !.spec = d.spec,
                                        !.scope = d.scope, !.context = d.context]]
  BY DEF Rediagnose
<1> DEFINE u == [row[current] EXCEPT !.dead = row[current].dead \cup {row[current].spec}, !.spec = d.spec,
                                     !.scope = d.scope, !.context = d.context]
<1>3. Shape(u) /\ u.needs = row[current].needs
  BY <1>1 DEF Shape, Fields
<1> QED
  BY <1>1, <1>2, <1>3, OneRow

LEMMA GraphFinish == ASSUME GraphInv, Inv', Finish PROVE GraphInv'
<1>1. UNCHANGED held /\ Noted(row) /\ \A t \in Present : Shape(row[t])
  BY Shapely DEF Finish, GraphInv, cycleVars
<1>2. /\ DOMAIN Closed(row) = Present
      /\ \A t \in Present : Shape(Closed(row)[t]) /\ Closed(row)[t].needs = row[t].needs
  BY <1>1, ClosedNoted
<1>3. /\ DOMAIN row' = Present
      /\ \A t \in Present : row'[t] \in {Closed(row)[t], [Closed(row)[t] EXCEPT !.status = "skipped"]}
  BY <1>2 DEF Finish, Parked
<1>4. \A t \in Present : row'[t].needs = row[t].needs
  BY <1>2, <1>3 DEF Shape, Fields
<1> QED
  BY <1>1, <1>3, <1>4, SameNeeds

LEMMA GraphImpossible == ASSUME GraphInv, Inv', Impossible PROVE GraphInv'
<1> DEFINE t == Now
           u == [Copy(t) EXCEPT !.status = "blocked", !.impossible = Text(Copy(t))]
<1>1. /\ UNCHANGED held /\ row' = [row EXCEPT ![t] = u]
      /\ Noted(row) /\ HeldOver /\ \A v \in Present : Shape(row[v])
  BY Shapely DEF Impossible, GraphInv
<1> HIDE DEF t
<1>2. t \in Present => u.needs = held[t]
  BY <1>1 DEF Copy, Shape, Fields
<1> HIDE DEF u
<1>3. /\ DOMAIN row' = Present
      /\ \A v \in Present : row'[v].needs \subseteq row[v].needs /\ held[v] \subseteq row'[v].needs
  BY <1>1, <1>2 DEF HeldOver
<1>4. Noted(row')
  BY <1>1, <1>3, FewerNoted
<1> QED
  BY <1>1, <1>3, <1>4, MoreNeeds

\* A cycle that ends holds nothing.
LEMMA LetGo ==
    ASSUME GraphInv, Inv', held' = [t \in Tickets |-> {}], DOMAIN row' = DOMAIN row,
           \A t \in Present : row'[t].needs = row[t].needs
    PROVE  GraphInv'
<1>1. Noted(row')
  BY FewerNoted DEF GraphInv
<1>2. DOMAIN row \subseteq Tickets
  BY Shapely DEF GraphInv
<1> QED
  BY <1>1, <1>2 DEF GraphInv, HeldOver

LEMMA GraphRequeue == ASSUME GraphInv, Inv', Requeue PROVE GraphInv'
<1>1. \A t \in Present : Shape(row[t])
  BY Shapely DEF GraphInv
<1>2. DOMAIN row' = Present /\ \A t \in Present :
         row'[t] \in {row[t], [row[t] EXCEPT !.status = "pending", !.ran = FALSE]}
  BY DEF Requeue
<1>3. \A t \in Present : row'[t].needs = row[t].needs
  BY <1>1, <1>2 DEF Shape, Fields
<1> QED
  BY <1>2, <1>3, LetGo DEF Requeue, CycleOver

LEMMA GraphOpen == ASSUME GraphInv, Inv', OpenCycle PROVE GraphInv'
<1>1. /\ UNCHANGED row /\ DOMAIN row \subseteq Tickets
      /\ held' = [t \in Tickets |-> IF t \in Present THEN row[t].needs ELSE {}]
  BY Shapely DEF OpenCycle, GraphInv
<1> QED
  BY <1>1 DEF GraphInv, HeldOver, Noted

LEMMA GraphStep == GraphInv /\ [Next]_vars => GraphInv'
<1> SUFFICES ASSUME GraphInv, [Next]_vars PROVE GraphInv'
  OBVIOUS
<1>1. Inv'
  BY InvStep DEF GraphInv
<1>2. CASE Take \/ Vote \/ GiveUp \/ KeepWhole \/ AskPlanner \/ KeepAsWritten \/ UNCHANGED vars
  <2>1. UNCHANGED <<row, held>>
    BY <1>2 DEF Take, Vote, GiveUp, KeepWhole, AskPlanner, KeepAsWritten, vars, cycleVars
  <2> QED
    BY <1>1, <2>1, SameNeeds
<1>3. CASE DecomposedAll \/ Crash
  <2>1. UNCHANGED row /\ held' = [t \in Tickets |-> {}]
    BY <1>3 DEF DecomposedAll, Crash, CycleOver
  <2> QED
    BY <1>1, <2>1, LetGo
<1> QED
  BY <1>1, <1>2, <1>3, GraphRevise, GraphSettle, GraphBuild, GraphRediagnose, GraphFinish, GraphOpen,
     GraphDecompose, GraphRespec, GraphImpossible, GraphRequeue DEF Next

\* No ticket comes to need itself, directly or by way of others, whatever is derived from
\* shared files, rewritten, decomposed or written back from an older copy (`derive_needs`).
THEOREM NoCircles == Spec => []NeedsAcyclic
<1>1. Spec => []GraphInv
  BY GraphInit, GraphStep, PTL DEF Spec
<1>2. GraphInv => NeedsAcyclic
  <2> SUFFICES ASSUME GraphInv PROVE NeedsAcyclic
    OBVIOUS
  <2> DEFINE all == [t \in Tickets |-> IF t \in Present THEN row[t].needs ELSE {}]
             needs == NeedsOf(row)
  <2>1. /\ DOMAIN row \subseteq Tickets /\ Acyclic(needs) /\ DOMAIN needs = Present
        /\ \A t \in Present : all[t] = needs[t]
        /\ \A t \in Tickets \ Present : all[t] = {}
        /\ DOMAIN all = Tickets
    BY Shapely DEF GraphInv, Noted, Graphs, NeedsOf
  <2> HIDE DEF all, needs
  <2>2. ASSUME NEW t \in Tickets, NEW d \in all[t] PROVE ~Reaches(all, d, t)
    <3>1. t \in Present /\ d \in needs[t]
      BY <2>1, <2>2
    <3>2. PICK S : Apart(needs, S, d, t)
      BY <2>1, <3>1, ApartMeans DEF Acyclic
    <3>3. Apart(all, S, d, t)
      BY <2>1, <3>2 DEF Apart
    <3> QED
      BY <3>3, ApartMeans
  <2>3. Acyclic(all)
    BY <2>1, <2>2 DEF Acyclic
  <2> QED
    BY <2>3 DEF NeedsAcyclic, all
<1> QED
  BY <1>1, <1>2, PTL

-----------------------------------------------------------------------------
(***************************************************************************)
(* The order tickets are worked in.                                        *)
(***************************************************************************)
LastOf(S, m) == m \in S /\ \A t \in S : t # m => Position[t] < Position[m]

LEMMA TicketsCount ==
    ASSUME NEW S \in SUBSET Tickets
    PROVE  IsFiniteSet(S) /\ Cardinality(S) \in Nat /\ \A t \in S : Position[t] \in Nat
BY OrderingAssumption, FS_Subset, FS_CardinalityType

\* Some tickets, if any, have a last one.
LEMMA LastExists ==
    ASSUME NEW S \in SUBSET Tickets, S # {}
    PROVE  \E m : LastOf(S, m)
<1> DEFINE I == {k \in Nat : \A R \in SUBSET Tickets :
                               Cardinality(R) = k + 1 => \E m : LastOf(R, m)}
<1>1. 0 \in I
  <2> SUFFICES ASSUME NEW R \in SUBSET Tickets, Cardinality(R) = 1 PROVE \E m : LastOf(R, m)
    OBVIOUS
  <2>1. PICK m : R = {m}
    BY TicketsCount, FS_Singleton
  <2> QED
    BY <2>1 DEF LastOf
<1>2. ASSUME NEW k \in Nat, k \in I PROVE k + 1 \in I
  <2> SUFFICES ASSUME NEW R \in SUBSET Tickets, Cardinality(R) = (k + 1) + 1
               PROVE  \E m : LastOf(R, m)
    OBVIOUS
  <2>1. R # {}
    BY FS_EmptySet
  <2>2. PICK t \in R : TRUE
    BY <2>1
  <2>3. R \ {t} \in SUBSET Tickets /\ Cardinality(R \ {t}) = k + 1
    BY TicketsCount, FS_RemoveElement
  <2>4. PICK m : LastOf(R \ {t}, m)
    BY <1>2, <2>3
  <2>5. m \in R /\ m # t /\ Position[m] # Position[t] /\ Position[m] \in Nat /\ Position[t] \in Nat
    BY <2>4, TicketsCount, OrderingAssumption DEF LastOf
  <2>6. CASE Position[t] < Position[m]
    <3>1. LastOf(R, m)
      BY <2>4, <2>5, <2>6 DEF LastOf
    <3> QED
      BY <3>1
  <2>7. CASE Position[m] < Position[t]
    <3>1. \A u \in R : u # t => Position[u] \in Nat /\ (u = m \/ Position[u] < Position[m])
      BY <2>4, TicketsCount DEF LastOf
    <3>2. LastOf(R, t)
      BY <2>2, <2>5, <2>7, <3>1 DEF LastOf
    <3> QED
      BY <3>2
  <2> QED
    BY <2>5, <2>6, <2>7
<1>3. \A k \in Nat : k \in I
  <2> HIDE DEF I
  <2> QED
    BY <1>1, <1>2, SetInduction
<1>4. IsFiniteSet(S) /\ Cardinality(S) \in Nat /\ Cardinality(S) # 0
  BY TicketsCount, FS_EmptySet
<1>5. Cardinality(S) - 1 \in Nat /\ Cardinality(S) = (Cardinality(S) - 1) + 1
  BY <1>4
<1> QED
  BY <1>3, <1>5

InOrder(S, o) ==
    /\ o \in [1..Cardinality(S) -> S]
    /\ \A i, j \in 1..Cardinality(S) : i < j => Position[o[i]] < Position[o[j]]

LEMMA OrderExists ==
    ASSUME NEW S \in SUBSET Tickets
    PROVE  \E o : InOrder(S, o)
<1> DEFINE I == {k \in Nat : \A R \in SUBSET Tickets : Cardinality(R) = k => \E o : InOrder(R, o)}
<1>1. 0 \in I
  <2> SUFFICES ASSUME NEW R \in SUBSET Tickets, Cardinality(R) = 0 PROVE \E o : InOrder(R, o)
    OBVIOUS
  <2>1. R = {}
    BY TicketsCount, FS_EmptySet
  <2>2. InOrder(R, [i \in 1..0 |-> 0])
    BY <2>1 DEF InOrder
  <2> QED
    BY <2>2
<1>2. ASSUME NEW k \in Nat, k \in I PROVE k + 1 \in I
  <2> SUFFICES ASSUME NEW R \in SUBSET Tickets, Cardinality(R) = k + 1 PROVE \E o : InOrder(R, o)
    OBVIOUS
  <2>1. R # {}
    BY FS_EmptySet
  <2>2. PICK m : LastOf(R, m)
    BY <2>1, LastExists
  <2>3. R \ {m} \in SUBSET Tickets /\ Cardinality(R \ {m}) = k
    BY <2>2, TicketsCount, FS_RemoveElement DEF LastOf
  <2>4. PICK o : InOrder(R \ {m}, o)
    BY <1>2, <2>3
  <2> DEFINE p == [i \in 1..(k + 1) |-> IF i = k + 1 THEN m ELSE o[i]]
  <2>5. \A i \in 1..k : o[i] \in R /\ Position[o[i]] < Position[m]
    BY <2>2, <2>3, <2>4 DEF InOrder, LastOf
  <2>6. p \in [1..(k + 1) -> R]
    BY <2>2, <2>5 DEF LastOf
  <2>7. ASSUME NEW i \in 1..(k + 1), NEW j \in 1..(k + 1), i < j
        PROVE  Position[p[i]] < Position[p[j]]
    <3>1. i \in 1..k /\ p[i] = o[i]
      BY <2>7
    <3>2. CASE j = k + 1
      BY <2>5, <3>1, <3>2
    <3>3. CASE j \in 1..k
      <4>1. p[j] = o[j]
        BY <3>3
      <4>2. \A a, b \in 1..k : a < b => Position[o[a]] < Position[o[b]]
        BY <2>3, <2>4 DEF InOrder
      <4> QED
        BY <2>7, <3>1, <3>3, <4>1, <4>2
    <3> QED
      BY <3>2, <3>3
  <2> HIDE DEF p
  <2>8. InOrder(R, p)
    BY <2>6, <2>7 DEF InOrder
  <2> QED
    BY <2>8
<1>3. \A k \in Nat : k \in I
  <2> HIDE DEF I
  <2> QED
    BY <1>1, <1>2, SetInduction
<1> QED
  BY <1>3, TicketsCount

LEMMA InPlaceLists ==
    ASSUME NEW S \in SUBSET Tickets
    PROVE  InPlace(S) \in Seq(S)
<1>1. PICK o : InOrder(S, o)
  BY OrderExists
<1>2. InOrder(S, InPlace(S))
  BY <1>1 DEF InOrder, InPlace
<1> QED
  BY <1>2, TicketsCount DEF InOrder

-----------------------------------------------------------------------------
(***************************************************************************)
(* What the pieces of a ticket are held to covers what it was held to.     *)
(***************************************************************************)

\* No sign-off rewords what a piece is held to: a second pass is what rewords.
PiecesAreNotReworded ==
    \/ Passes <= 1 \/ ~ReviseBetweenPasses
    \/ \A c \in Children : \A rev \in Rewrites[c] : rev.criteria = Absent

\* What a piece started with is among its criteria, and among the ratified ones.
Held(t) ==
    /\ t.original \subseteq t.criteria
    /\ t.ratified # {} => t.original \subseteq t.ratified /\ t.ratified \subseteq t.criteria

\* Nothing but a decomposition makes a ticket a gate, and its contract stays.
Wrote(name, t, u) ==
    /\ u.original = t.original
    /\ name \in Children => (Held(t) => Held(u))
    /\ u.status = "split" => t.status = "split" /\ u.ratified = t.ratified

Covered ==
    /\ \A c \in Present \cap Children : Held(row[c])
    /\ \A p \in Present : row[p].status = "split" =>
          ContractCriteria(row[p]) \subseteq UNION {row[c].original : c \in PiecesOf(p)}

NoGate(t) == t \in Present /\ row[t].status # "split"
NoGates == {t \in Present : NoGate(t)}

\* A gate is not worked on.
OnlyWork ==
    /\ pc \in Asking => NoGate(current)
    /\ pc \in {"vote", "tally"} => pass \in Nat /\ pass >= 1
    /\ asked \subseteq NoGates
    /\ pc = "respec" => todo \in Seq(NoGates)

CoverInv == Inv /\ Covered /\ OnlyWork

LEMMA CoveredStep ==
    ASSUME Covered, DOMAIN row' = DOMAIN row, \A t \in Present : Wrote(t, row[t], row'[t])
    PROVE  Covered' /\ NoGates \subseteq NoGates'
<1>1. \A p : PiecesOf(p)' = PiecesOf(p)
  BY DEF PiecesOf
<1>2. \A c \in Present' \cap Children : Held(row'[c])
  BY DEF Covered, Wrote
<1>3. ASSUME NEW p \in Present', row'[p].status = "split"
      PROVE  ContractCriteria(row'[p]) \subseteq UNION {row'[c].original : c \in PiecesOf(p)'}
  <2>1. /\ row[p].status = "split" /\ ContractCriteria(row'[p]) = ContractCriteria(row[p])
        /\ ContractCriteria(row[p]) \subseteq UNION {row[c].original : c \in PiecesOf(p)}
    BY <1>3 DEF Covered, Wrote, ContractCriteria
  <2>2. \A c \in PiecesOf(p) : row'[c].original = row[c].original
    BY DEF PiecesOf, Wrote
  <2> QED
    BY <1>1, <2>1, <2>2
<1>4. Covered'
  BY <1>2, <1>3 DEF Covered
<1>5. NoGates \subseteq NoGates'
  BY DEF NoGates, NoGate, Wrote
<1> QED
  BY <1>4, <1>5

LEMMA SameWrote == ASSUME NEW name, NEW t PROVE Wrote(name, t, t)
BY DEF Wrote

LEMMA WroteTwice ==
    ASSUME NEW name, NEW t, NEW u, NEW v, Wrote(name, t, u), Wrote(name, u, v)
    PROVE  Wrote(name, t, v)
BY DEF Wrote

LEMMA OrderedWrote ==
    ASSUME NEW rows, \A t \in DOMAIN rows : Shape(rows[t])
    PROVE  /\ DOMAIN Ordered(rows) = DOMAIN rows
           /\ \A t \in DOMAIN rows : Wrote(t, rows[t], Ordered(rows)[t])
<1>1. /\ DOMAIN Ordered(rows) = DOMAIN rows
      /\ \A t \in DOMAIN rows : Ordered(rows)[t] = [rows[t] EXCEPT !.needs = DerivedNeeds(rows)[t]]
  BY DEF Ordered
<1> QED
  BY <1>1 DEF Wrote, Held, Shape, Fields

LEMMA ClosedWrote ==
    ASSUME NEW rows, \A t \in DOMAIN rows : Shape(rows[t])
    PROVE  /\ DOMAIN Closed(rows) = DOMAIN rows
           /\ \A t \in DOMAIN rows : Wrote(t, rows[t], Closed(rows)[t]) /\ Shape(Closed(rows)[t])
<1>1. /\ DOMAIN Closed(rows) = DOMAIN rows
      /\ \A t \in DOMAIN rows : Closed(rows)[t] \in
            {rows[t], [rows[t] EXCEPT !.status = "done"], [rows[t] EXCEPT !.status = "blocked"]}
  BY DEF Closed
<1> QED
  BY <1>1 DEF Wrote, Held, Shape, Fields

\* What a respec leaves keeps the contract that was among the criteria.
LEMMA RevisedHeld ==
    ASSUME NEW t, Shape(t), t.status # "split", NEW rev, NEW guarded, NEW disputed, NEW name
    PROVE  /\ Wrote(name, t, RespecApplies(t, rev, guarded, disputed))
           /\ Shape(RespecApplies(t, rev, guarded, disputed))
           /\ RespecApplies(t, rev, guarded, disputed).status # "split"
<1> DEFINE u == RespecApplies(t, rev, guarded, disputed)
<1>1. /\ Shape(u) /\ u.status = t.status /\ u.original = t.original /\ u.ratified = t.ratified
      /\ u.criteria = RespecCriteria(t, rev.criteria)
  BY DEF RespecApplies, Shape, Fields
<1> HIDE DEF u
<1>2. t.criteria \cap ContractCriteria(t) \subseteq u.criteria
  BY <1>1 DEF RespecCriteria, Revised, DropWholeFileClaims, MergeCriteria
<1>3. Held(t) => Held(u)
  BY <1>1, <1>2 DEF Held, ContractCriteria
<1> QED
  BY <1>1, <1>3 DEF Wrote, u

\* Between two passes the criteria of a piece are not reworded.
LEMMA SignedHeld ==
    ASSUME PiecesAreNotReworded, CoverInv, pc = "tally", ~SignOffEnds, ReviseBetweenPasses,
           NEW rev \in RevisionReplies(current)
    PROVE  /\ Wrote(current, row[current], SignOffApplies(row[current], rev))
           /\ Shape(SignOffApplies(row[current], rev))
           /\ SignOffApplies(row[current], rev).status = row[current].status
<1> DEFINE t == row[current]
           u == SignOffApplies(t, rev)
<1>1. /\ Shape(t) /\ t.status # "split" /\ pass \in Nat /\ pass >= 1
  BY Shapely DEF CoverInv, OnlyWork, NoGate, Asking
<1>2. ~(Passes <= 1)
  BY <1>1, BarAssumption DEF SignOffEnds
<1>3. current \in Children => rev.criteria = Absent
  BY <1>2 DEF PiecesAreNotReworded, RevisionReplies
<1>4. /\ Shape(u) /\ u.status = t.status /\ u.original = t.original /\ u.ratified = t.ratified
      /\ u.criteria = SignedCriteria(t, rev.criteria)
  BY <1>1 DEF SignOffApplies, Shape, Fields
<1> HIDE DEF u, t
<1>5. current \in Children => u.criteria = t.criteria
  BY <1>3, <1>4 DEF SignedCriteria
<1>6. Wrote(current, t, u)
  BY <1>1, <1>4, <1>5 DEF Wrote, Held
<1> QED
  BY <1>4, <1>6 DEF t, u

LEMMA CoverInit == Init => CoverInv
<1> SUFFICES ASSUME Init PROVE CoverInv
  OBVIOUS
<1> DEFINE r == [t \in Plan |-> FromPlan(t)]
<1>1. Inv /\ row = Ordered(r) /\ pc = "idle" /\ asked = {}
  BY InvInit DEF Init
<1>2. \A t \in Plan : Shape(r[t]) /\ r[t].status = "pending" /\ Held(r[t])
  BY DEF Shape, Fields, FromPlan, Held
<1>3. DOMAIN row = Plan /\ \A t \in Plan : Wrote(t, r[t], row[t])
  BY <1>1, <1>2, OrderedWrote
<1>4. Plan \cap Children = {}
  BY OrderingAssumption
<1>5. \A t \in Plan : row[t].status # "split"
  BY <1>2, <1>3 DEF Wrote
<1> QED
  BY <1>1, <1>3, <1>4, <1>5 DEF CoverInv, Covered, OnlyWork, Asking

\* Steps after which no ticket is in hand and none is to be rewritten.
LEMMA CoverLetsGo ==
    ASSUME CoverInv, Inv', DOMAIN row' = DOMAIN row, \A t \in Present : Wrote(t, row[t], row'[t]),
           asked' \subseteq asked, pc' \notin Asking, pc' # "respec"
    PROVE  CoverInv'
BY CoveredStep DEF CoverInv, OnlyWork, Asking

\* Steps that stay with the ticket in hand.
LEMMA CoverStays ==
    ASSUME CoverInv, Inv', DOMAIN row' = DOMAIN row, \A t \in Present : Wrote(t, row[t], row'[t]),
           UNCHANGED asked, pc \in Asking, pc' \in Asking, UNCHANGED current,
           pc' \in {"vote", "tally"} => pass' \in Nat /\ pass' >= 1
    PROVE  CoverInv'
<1>1. Covered' /\ NoGates \subseteq NoGates' /\ current \in NoGates /\ asked \subseteq NoGates
  BY CoveredStep DEF CoverInv, OnlyWork, NoGates, NoGate
<1>2. pc' # "respec" /\ current' \in NoGates'
  BY <1>1 DEF Asking
<1>3. NoGate(current)'
  BY <1>2 DEF NoGates
<1>4. OnlyWork'
  BY <1>1, <1>2, <1>3 DEF OnlyWork
<1> QED
  BY <1>1, <1>4 DEF CoverInv

LEMMA CoverTake == ASSUME CoverInv, Inv', Take PROVE CoverInv'
<1>1. PICK t \in Ready : current' = t
  BY DEF Take
<1>2. UNCHANGED <<row, asked>> /\ row[t].status = "pending" /\ t \in Present
  BY <1>1 DEF Take, Ready, cycleVars
<1>3. pc' = "build" \/ (pc' = "vote" /\ pass' = 1)
  BY DEF Take
<1>4. Covered' /\ NoGates' = NoGates /\ NoGate(current)'
  BY <1>1, <1>2 DEF CoverInv, Covered, NoGates, NoGate, PiecesOf
<1> QED
  BY <1>2, <1>3, <1>4 DEF CoverInv, OnlyWork

LEMMA CoverVote == ASSUME CoverInv, Inv', Vote PROVE CoverInv'
<1>1. UNCHANGED <<row, asked, current, pass>> /\ pc = "vote" /\ pc' = "tally"
  BY DEF Vote, cycleVars
<1> QED
  BY <1>1, SameWrote, CoverStays DEF Asking, CoverInv, OnlyWork

LEMMA CoverRevise == ASSUME PiecesAreNotReworded, CoverInv, Inv', Revise PROVE CoverInv'
<1>1. /\ UNCHANGED <<asked, current>> /\ pc = "tally" /\ pc' = "vote" /\ pass' = pass + 1
      /\ pass \in Nat /\ pass >= 1 /\ ~SignOffEnds
  BY DEF Revise, cycleVars, CoverInv, OnlyWork
<1>2. \A t \in Present : Shape(row[t])
  BY Shapely DEF CoverInv
<1>3. CASE UNCHANGED row
  BY <1>1, <1>3, SameWrote, CoverStays DEF Asking
<1>4. ASSUME ReviseBetweenPasses, NEW rev \in RevisionReplies(current),
             row' = Ordered([row EXCEPT ![current] = SignOffApplies(@, rev)])
      PROVE  CoverInv'
  <2> DEFINE u == SignOffApplies(row[current], rev)
             r == [row EXCEPT ![current] = u]
  <2>1. Wrote(current, row[current], u) /\ Shape(u)
    BY <1>1, <1>4, SignedHeld
  <2>2. row' = Ordered(r)
    BY <1>4
  <2> HIDE DEF u
  <2>3. DOMAIN r = Present /\ \A t \in Present : Shape(r[t]) /\ Wrote(t, row[t], r[t])
    BY <1>2, <2>1, SameWrote
  <2> HIDE DEF r
  <2>4. DOMAIN row' = Present /\ \A t \in Present : Wrote(t, r[t], row'[t])
    BY <2>2, <2>3, OrderedWrote
  <2>5. \A t \in Present : Wrote(t, row[t], row'[t])
    BY <2>3, <2>4, WroteTwice
  <2> QED
    BY <1>1, <2>4, <2>5, CoverStays DEF Asking
<1> QED
  BY <1>3, <1>4 DEF Revise

\* One row is written, and the gates closed or not.
LEMMA OneWritten ==
    ASSUME Inv, NEW t, NEW u, t \in Present => Shape(u) /\ Wrote(t, row[t], u),
           row' = [row EXCEPT ![t] = u] \/ row' = Closed([row EXCEPT ![t] = u])
    PROVE  DOMAIN row' = DOMAIN row /\ \A v \in Present : Wrote(v, row[v], row'[v])
<1> DEFINE r == [row EXCEPT ![t] = u]
<1>1. DOMAIN r = Present /\ \A v \in Present : Shape(r[v]) /\ Wrote(v, row[v], r[v])
  BY Shapely, SameWrote
<1>2. row' = r \/ row' = Closed(r)
  OBVIOUS
<1> HIDE DEF r
<1>3. DOMAIN row' = Present /\ \A v \in Present : Wrote(v, r[v], row'[v])
  BY <1>1, <1>2, ClosedWrote, SameWrote
<1> QED
  BY <1>1, <1>3, WroteTwice

LEMMA CoverSettle == ASSUME CoverInv, Inv', Settle PROVE CoverInv'
<1> DEFINE t == [row[current] EXCEPT !.signoff = verdict]
           agreed == [t EXCEPT !.agreed = Text(t), !.ratifiedSpec = t.spec, !.ratified = t.criteria]
           parked == [t EXCEPT !.status = "blocked"]
<1>1. /\ UNCHANGED asked /\ current \in Present /\ Shape(row[current]) /\ Inv /\ pc = "tally"
      /\ row[current].status # "split"
  BY Shapely DEF Settle, CoverInv, OnlyWork, NoGate, cycleVars, Asking
<1>2. Shape(t) /\ Wrote(current, row[current], t) /\ t.status # "split"
  BY <1>1 DEF Shape, Fields, Wrote, Held
<1>3. \/ /\ row' \in {[row EXCEPT ![current] = agreed], [row EXCEPT ![current] = t]}
         /\ pc' = "build" /\ UNCHANGED current
      \/ row' = Closed([row EXCEPT ![current] = parked]) /\ pc' = "idle"
  BY DEF Settle
<1> HIDE DEF t
<1>4. Shape(agreed) /\ Wrote(current, t, agreed) /\ Shape(parked) /\ Wrote(current, t, parked)
  BY <1>2 DEF Shape, Fields, Wrote, Held
<1> HIDE DEF agreed, parked
<1>5. Wrote(current, row[current], agreed) /\ Wrote(current, row[current], parked)
  BY <1>2, <1>4, WroteTwice
<1>6. DOMAIN row' = DOMAIN row /\ \A v \in Present : Wrote(v, row[v], row'[v])
  BY <1>1, <1>2, <1>3, <1>4, <1>5, OneWritten
<1>7. CASE pc' = "build" /\ UNCHANGED current
  BY <1>1, <1>6, <1>7, CoverStays DEF Asking
<1>8. CASE pc' = "idle"
  BY <1>1, <1>6, <1>8, CoverLetsGo DEF Asking
<1> QED
  BY <1>3, <1>7, <1>8

LEMMA CoverBuild == ASSUME CoverInv, Inv', Build PROVE CoverInv'
<1>1. UNCHANGED asked /\ pc' = "idle" /\ current \in Present /\ Shape(row[current]) /\ Inv
  BY Shapely DEF Build, CoverInv, OnlyWork, NoGate, cycleVars, Asking
<1>2. PICK end \in {"done", "failed"} :
         row' = Closed([row EXCEPT ![current] = [row[current] EXCEPT
                  !.status = end, !.ran = TRUE, !.failedOnce = row[current].failedOnce \/ end = "failed"]])
  BY DEF Build
<1> DEFINE u == [row[current] EXCEPT
                  !.status = end, !.ran = TRUE, !.failedOnce = row[current].failedOnce \/ end = "failed"]
<1>3. Shape(u) /\ Wrote(current, row[current], u)
  BY <1>1 DEF Shape, Fields, Wrote, Held
<1> HIDE DEF u
<1>4. DOMAIN row' = DOMAIN row /\ \A v \in Present : Wrote(v, row[v], row'[v])
  BY <1>1, <1>2, <1>3, OneWritten DEF u
<1> QED
  BY <1>1, <1>4, CoverLetsGo DEF Asking

LEMMA CoverRediagnose == ASSUME CoverInv, Inv', Rediagnose PROVE CoverInv'
<1>1. /\ UNCHANGED <<asked, pc, current>> /\ pc = "build"
      /\ current \in Present /\ Shape(row[current]) /\ Inv
  BY Shapely DEF Rediagnose, CoverInv, OnlyWork, NoGate, cycleVars, Asking
<1>2. PICK d \in Diagnoses :
         row' = [row EXCEPT ![current] =
                   [row[current] EXCEPT !.dead = row[current].dead \cup {row[current].spec}, !.spec = d.spec,
                                        !.scope = d.scope, !.context = d.context]]
  BY DEF Rediagnose
<1> DEFINE u == [row[current] EXCEPT !.dead = row[current].dead \cup {row[current].spec}, !.spec = d.spec,
                                     !.scope = d.scope, !.context = d.context]
<1>3. Shape(u) /\ Wrote(current, row[current], u)
  BY <1>1 DEF Shape, Fields, Wrote, Held
<1> HIDE DEF u
<1>4. DOMAIN row' = DOMAIN row /\ \A v \in Present : Wrote(v, row[v], row'[v])
  BY <1>1, <1>2, <1>3, OneWritten DEF u
<1> QED
  BY <1>1, <1>4, CoverStays DEF Asking

LEMMA CoverFinish == ASSUME CoverInv, Inv', Finish PROVE CoverInv'
<1>1. UNCHANGED asked /\ pc' \in {"cycle", "over"} /\ \A t \in Present : Shape(row[t])
  BY Shapely DEF Finish, CoverInv, cycleVars
<1>2. /\ DOMAIN Closed(row) = Present
      /\ \A t \in Present : Wrote(t, row[t], Closed(row)[t]) /\ Shape(Closed(row)[t])
  BY <1>1, ClosedWrote
<1>3. /\ DOMAIN row' = Present
      /\ \A t \in Present : row'[t] \in {Closed(row)[t], [Closed(row)[t] EXCEPT !.status = "skipped"]}
  BY <1>2 DEF Finish, Parked
<1>4. \A t \in Present : Wrote(t, Closed(row)[t], row'[t])
  BY <1>2, <1>3 DEF Wrote, Held, Shape, Fields
<1>5. \A t \in Present : Wrote(t, row[t], row'[t])
  BY <1>2, <1>4, WroteTwice
<1> QED
  BY <1>1, <1>3, <1>5, CoverLetsGo DEF Asking

LEMMA CoverOpen == ASSUME CoverInv, Inv', OpenCycle PROVE CoverInv'
<1>1. UNCHANGED row /\ asked' = Eligible /\ pc' = "split"
  BY DEF OpenCycle
<1>2. Eligible \subseteq NoGates
  BY DEF Eligible, Retryable, NoGates, NoGate
<1>3. Covered' /\ NoGates' = NoGates
  BY <1>1 DEF CoverInv, Covered, NoGates, NoGate, PiecesOf
<1> QED
  BY <1>1, <1>2, <1>3 DEF CoverInv, OnlyWork, Asking

LEMMA CoverAsk == ASSUME CoverInv, Inv', AskPlanner PROVE CoverInv'
<1> DEFINE attempted == {t \in asked : row[t].ran}
<1>1. UNCHANGED <<row, asked>> /\ pc' = "respec" /\ todo' = InPlace(attempted)
  BY DEF AskPlanner
<1>2. attempted \subseteq NoGates /\ attempted \in SUBSET Tickets
  BY Shapely DEF CoverInv, OnlyWork, NoGates, NoGate
<1> HIDE DEF attempted
<1>3. todo' \in Seq(NoGates)
  BY <1>1, <1>2, InPlaceLists
<1>4. Covered' /\ NoGates' = NoGates
  BY <1>1 DEF CoverInv, Covered, NoGates, NoGate, PiecesOf
<1> QED
  BY <1>1, <1>3, <1>4 DEF CoverInv, OnlyWork, Asking

\* Steps of a cycle in which the planner is asked.
LEMMA CoverRespecs ==
    ASSUME CoverInv, Inv', DOMAIN row' = DOMAIN row, \A t \in Present : Wrote(t, row[t], row'[t]),
           pc = "respec", UNCHANGED pc, todo # <<>>, todo' = Tail(todo), asked' \subseteq asked
    PROVE  CoverInv'
<1>1. Covered' /\ NoGates \subseteq NoGates'
  BY CoveredStep DEF CoverInv
<1>2. todo \in Seq(NoGates) /\ asked \subseteq NoGates
  BY DEF CoverInv, OnlyWork
<1>3. Tail(todo) \in Seq(NoGates)
  BY <1>2
<1>4. todo' \in Seq(NoGates')
  BY <1>1, <1>3
<1> QED
  BY <1>1, <1>2, <1>4 DEF CoverInv, OnlyWork, Asking

\* The ticket the planner is asked about, and the cycle's copy of it.
LEMMA NowIsWork ==
    ASSUME CoverInv, pc = "respec", todo # <<>>
    PROVE  /\ Now \in Present /\ row[Now].status # "split" /\ Shape(row[Now])
           /\ Shape(Copy(Now)) /\ Wrote(Now, row[Now], Copy(Now)) /\ Copy(Now).status # "split"
<1>1. todo \in Seq(NoGates)
  BY DEF CoverInv, OnlyWork
<1>2. Now \in NoGates
  BY <1>1 DEF Now
<1>3. Now \in Present /\ row[Now].status # "split" /\ Shape(row[Now])
  BY <1>2, Shapely DEF NoGates, NoGate, CoverInv
<1> HIDE DEF Now
<1>4. Shape(Copy(Now)) /\ Wrote(Now, row[Now], Copy(Now)) /\ Copy(Now).status # "split"
  BY <1>3 DEF Copy, Wrote, Held, Shape, Fields
<1> QED
  BY <1>3, <1>4

LEMMA CoverImpossible == ASSUME CoverInv, Inv', Impossible PROVE CoverInv'
<1> DEFINE t == Now
           c == Copy(t)
           u == [c EXCEPT !.status = "blocked", !.impossible = Text(c)]
<1>1. /\ pc = "respec" /\ UNCHANGED pc /\ todo # <<>> /\ todo' = Tail(todo)
      /\ asked' \subseteq asked /\ row' = [row EXCEPT ![t] = u] /\ Inv
  BY DEF Impossible, CoverInv
<1>2. Shape(c) /\ Wrote(t, row[t], c)
  BY <1>1, NowIsWork
<1> HIDE DEF c, t
<1>3. Shape(u) /\ Wrote(t, c, u)
  BY <1>2 DEF Wrote, Held, Shape, Fields
<1> HIDE DEF u
<1>4. Wrote(t, row[t], u)
  BY <1>2, <1>3, WroteTwice
<1>5. DOMAIN row' = DOMAIN row /\ \A v \in Present : Wrote(v, row[v], row'[v])
  BY <1>1, <1>3, <1>4, OneWritten
<1> QED
  BY <1>1, <1>5, CoverRespecs

LEMMA CoverRespec == ASSUME CoverInv, Inv', Respec PROVE CoverInv'
<1> DEFINE t == Now
           copy == Copy(t)
<1>1. PICK rev \in RespecReplies(t), given \in SUBSET Disputed[t] :
         LET new == RespecApplies(Copy(t), rev, Guarded[t], Disputed[t])
             rows == IF new = Copy(t) THEN row ELSE Ordered([row EXCEPT ![t] = new])
         IN  row' = IF given = {} THEN rows
                    ELSE [rows EXCEPT ![t] = WithGrant(IF new = Copy(t) THEN Copy(t) ELSE rows[t], given)]
  BY DEF Respec
<1> DEFINE new == RespecApplies(copy, rev, Guarded[t], Disputed[t])
           rows == IF new = copy THEN row ELSE Ordered([row EXCEPT ![t] = new])
           base == IF new = copy THEN copy ELSE rows[t]
<1>2. row' = IF given = {} THEN rows ELSE [rows EXCEPT ![t] = WithGrant(base, given)]
  BY <1>1
<1>3. /\ pc = "respec" /\ UNCHANGED <<pc, asked>> /\ todo # <<>> /\ todo' = Tail(todo)
      /\ \A v \in Present : Shape(row[v])
  BY Shapely DEF Respec, CoverInv
<1>4. /\ t \in Present /\ Shape(copy) /\ Wrote(t, row[t], copy) /\ copy.status # "split"
  BY <1>3, NowIsWork
<1> HIDE DEF t, copy
<1>5. Shape(new) /\ Wrote(t, copy, new)
  BY <1>4, RevisedHeld
<1>6. Wrote(t, row[t], new)
  BY <1>4, <1>5, WroteTwice
<1> HIDE DEF new
<1>7. DOMAIN rows = Present /\ \A v \in Present : Shape(rows[v]) /\ Wrote(v, row[v], rows[v])
  <2>1. CASE new = copy
    BY <1>3, <2>1, SameWrote
  <2>2. CASE new # copy
    <3> DEFINE r == [row EXCEPT ![t] = new]
    <3>1. DOMAIN r = Present /\ \A v \in Present : Shape(r[v]) /\ Wrote(v, row[v], r[v])
      BY <1>3, <1>5, <1>6, SameWrote
    <3>2. rows = Ordered(r)
      BY <2>2
    <3> HIDE DEF r, rows
    <3>3. DOMAIN rows = Present /\ \A v \in Present : Wrote(v, r[v], rows[v])
      BY <3>1, <3>2, OrderedWrote
    <3>4. \A v \in Present : Shape(rows[v])
      BY <3>1, <3>2 DEF Ordered, Shape, Fields
    <3> QED
      BY <3>1, <3>3, <3>4, WroteTwice
  <2> QED
    BY <2>1, <2>2
<1>8. Shape(base) /\ Wrote(t, row[t], base)
  BY <1>4, <1>7
<1> HIDE DEF base, rows
<1>9. DOMAIN row' = DOMAIN row /\ \A v \in Present : Wrote(v, row[v], row'[v])
  <2>1. CASE given = {}
    BY <1>2, <1>7, <2>1
  <2>2. CASE given # {}
    <3> DEFINE u == WithGrant(base, given)
    <3>1. Wrote(t, base, u)
      BY <1>8 DEF WithGrant, Wrote, Held, Shape, Fields
    <3>2. row' = [rows EXCEPT ![t] = u]
      BY <1>2, <2>2
    <3> HIDE DEF u
    <3>3. Wrote(t, row[t], u)
      BY <1>8, <3>1, WroteTwice
    <3> QED
      BY <1>7, <3>2, <3>3
  <2> QED
    BY <2>1, <2>2
<1> QED
  BY <1>3, <1>9, CoverRespecs

LEMMA CoverRequeue == ASSUME CoverInv, Inv', Requeue PROVE CoverInv'
<1>1. \A t \in Present : Shape(row[t])
  BY Shapely DEF CoverInv
<1>2. DOMAIN row' = Present /\ \A t \in Present :
         row'[t] \in {row[t], [row[t] EXCEPT !.status = "pending", !.ran = FALSE]}
  BY DEF Requeue
<1>3. \A t \in Present : Wrote(t, row[t], row'[t])
  BY <1>1, <1>2 DEF Wrote, Held, Shape, Fields
<1>4. asked' = {} /\ pc' \in {"idle", "over"}
  BY DEF Requeue, CycleOver
<1> QED
  BY <1>2, <1>3, <1>4, CoverLetsGo DEF Asking

LEMMA CoverDecompose == ASSUME CoverInv, Inv', Decompose PROVE CoverInv'
<1> DEFINE parent == Now
<1>1. /\ asked' = asked \ {parent} /\ pc = "split" /\ UNCHANGED pc
      /\ \A t \in Present : Shape(row[t])
  BY Shapely DEF Decompose, CoverInv
<1>2. PICK pieces \in Splits :
         /\ \A c \in DOMAIN pieces : ParentOf[c] = parent /\ c \notin Present
         /\ Sound(row[parent], pieces)
         /\ row' = [t \in Present \cup DOMAIN pieces |->
                IF t \in DOMAIN pieces THEN PieceOf(row[parent], pieces[t])
                ELSE IF t = parent
                  THEN [row[parent] EXCEPT !.status = "split", !.needs = held[parent]]
                ELSE row[t]]
  BY DEF Decompose
<1> HIDE DEF parent
<1>3. /\ DOMAIN pieces \subseteq Children /\ DOMAIN pieces \cap Present = {}
      /\ DOMAIN row' = Present \cup DOMAIN pieces
  BY <1>2, BarAssumption
<1>4. \A c \in DOMAIN pieces : /\ row'[c].original = PieceCriteria(pieces[c])
                               /\ row'[c].status = "pending" /\ Held(row'[c])
  <2> SUFFICES ASSUME NEW c \in DOMAIN pieces
               PROVE  /\ row'[c].original = PieceCriteria(pieces[c])
                      /\ row'[c].status = "pending" /\ Held(row'[c])
    OBVIOUS
  <2>1. row'[c] = PieceOf(row[parent], pieces[c])
    BY <1>2
  <2> QED
    BY <2>1 DEF PieceOf, Held
<1>5. parent \in Present => /\ row'[parent].original = row[parent].original
                           /\ row'[parent].ratified = row[parent].ratified
                           /\ row'[parent].criteria = row[parent].criteria
  <2>1. parent \in Present =>
          row'[parent] = [row[parent] EXCEPT !.status = "split", !.needs = held[parent]]
    BY <1>2, <1>3
  <2> QED
    BY <1>1, <2>1 DEF Shape, Fields
<1>6. \A t \in Present \ {parent} : row'[t] = row[t]
  BY <1>2, <1>3
<1>7. \A c \in Present' \cap Children : Held(row'[c])
  <2>1. \A c \in Present \cap Children : Held(row[c])
    BY DEF CoverInv, Covered
  <2>2. parent \in Present \cap Children => Held(row'[parent])
    BY <1>5, <2>1 DEF Held
  <2> QED
    BY <1>3, <1>4, <1>6, <2>1, <2>2
<1>8. ASSUME NEW p \in Present', row'[p].status = "split"
      PROVE  ContractCriteria(row'[p]) \subseteq UNION {row'[c].original : c \in PiecesOf(p)'}
  <2>1. CASE p = parent /\ p \in Present
    <3>1. ContractCriteria(row'[p]) = UNION {pieces[c].covers : c \in DOMAIN pieces}
      BY <1>2, <1>5, <2>1 DEF Sound, ContractCriteria
    <3>2. \A c \in DOMAIN pieces : c \in PiecesOf(p)' /\ pieces[c].covers \subseteq row'[c].original
      BY <1>2, <1>3, <1>4, <2>1 DEF PiecesOf, PieceCriteria
    <3> QED
      BY <3>1, <3>2
  <2>2. CASE p \in Present \ {parent}
    <3>1. /\ row'[p] = row[p]
          /\ ContractCriteria(row[p]) \subseteq UNION {row[c].original : c \in PiecesOf(p)}
      BY <1>6, <1>8, <2>2 DEF CoverInv, Covered
    <3>2. \A c \in PiecesOf(p) : c \in PiecesOf(p)' /\ row'[c].original = row[c].original
      <4>1. \A c \in Present : row'[c].original = row[c].original
        BY <1>5, <1>6
      <4> QED
        BY <1>3, <4>1 DEF PiecesOf
    <3> QED
      BY <3>1, <3>2
  <2>3. p \notin DOMAIN pieces
    BY <1>4, <1>8
  <2> QED
    BY <1>3, <2>1, <2>2, <2>3
<1>9. Covered'
  BY <1>7, <1>8 DEF Covered
<1>10. asked' \subseteq NoGates'
  BY <1>1, <1>3, <1>6 DEF CoverInv, OnlyWork, NoGates, NoGate
<1> QED
  BY <1>1, <1>9, <1>10 DEF CoverInv, OnlyWork, Asking

LEMMA CoverStep == PiecesAreNotReworded /\ CoverInv /\ [Next]_vars => CoverInv'
<1> SUFFICES ASSUME PiecesAreNotReworded, CoverInv, [Next]_vars PROVE CoverInv'
  OBVIOUS
<1>1. Inv'
  BY InvStep DEF CoverInv
<1>2. CASE GiveUp \/ KeepWhole \/ DecomposedAll \/ Crash
  <2>1. UNCHANGED row /\ asked' \subseteq asked /\ pc' \notin Asking /\ pc' # "respec"
    BY <1>2 DEF GiveUp, KeepWhole, DecomposedAll, Crash, CycleOver, cycleVars, Asking
  <2> QED
    BY <1>1, <2>1, SameWrote, CoverLetsGo
<1>3. CASE KeepAsWritten
  BY <1>1, <1>3, SameWrote, CoverRespecs DEF KeepAsWritten
<1>4. CASE UNCHANGED vars
  <2>1. UNCHANGED <<row, pc, current, pass, asked, todo>>
    BY <1>4 DEF vars, passVars, cycleVars
  <2> QED
    BY <1>1, <2>1 DEF CoverInv, Covered, OnlyWork, NoGates, NoGate, PiecesOf
<1> QED
  BY <1>1, <1>2, <1>3, <1>4, CoverTake, CoverVote, CoverRevise, CoverSettle, CoverBuild,
     CoverRediagnose, CoverFinish, CoverOpen, CoverAsk, CoverDecompose, CoverRespec,
     CoverImpossible, CoverRequeue DEF Next

\* As long as no sign-off rewords a piece, every value the contract of a decomposed ticket
\* pins is pinned by one of its pieces, whatever is rewritten, requeued or interrupted
\* (`check`, `children_of`, `revise`).
THEOREM ContractCarried ==
    ASSUME PiecesAreNotReworded
    PROVE  Spec => []PiecesCoverParent
<1>1. Spec => []CoverInv
  <2>1. CoverInv /\ [Next]_vars => CoverInv'
    BY CoverStep
  <2> QED
    BY <2>1, CoverInit, PTL DEF Spec
<1>2. CoverInv => PiecesCoverParent
  <2> SUFFICES ASSUME CoverInv, NEW p \in Present, row[p].status = "split"
               PROVE  Pinned(ContractCriteria(row[p])) \subseteq
                        UNION {Pinned(row[c].criteria) : c \in PiecesOf(p)}
    BY DEF PiecesCoverParent
  <2>1. ContractCriteria(row[p]) \subseteq UNION {row[c].original : c \in PiecesOf(p)}
    BY DEF CoverInv, Covered
  <2>2. \A c \in PiecesOf(p) : row[c].original \subseteq row[c].criteria
    BY DEF CoverInv, Covered, Held, PiecesOf
  <2> QED
    BY <2>1, <2>2 DEF Pinned
<1> QED
  BY <1>1, <1>2, PTL
=============================================================================
