--------------------------- MODULE Picture_proofs ---------------------------
(***************************************************************************)
(* Theorems about Picture, for every repository, reply, setting and bound. *)
(***************************************************************************)
EXTENDS Picture, TLAPS, FiniteSetTheorems, WellFoundedInduction

-----------------------------------------------------------------------------
(***************************************************************************)
(* Who holds the graphics card.                                            *)
(***************************************************************************)

\* Whoever is on the card under a lease is the one at work, and alone there.
Holds(user, at) ==
    user \in setting.leases /\ user \in card => pc = at /\ "llama" \notin card

Held == ~refused => Holds("image", "drawing") /\ Holds("capture", "capture")

\* A ticket that is no image ticket never has the card.
Painting == {"painter", "lease", "drawing", "capture"}
Apart == kind # "image" => card = {} /\ pc \notin Painting

LeaseInv == Held /\ Apart

leaseVars == <<card, refused, kind, setting>>

\* A step that begins where nobody draws or captures, and leaves the card alone.
LEMMA CardUntouched ==
    ASSUME LeaseInv, UNCHANGED leaseVars, pc \notin {"drawing", "capture"},
           kind = "image" \/ pc' \notin Painting
    PROVE  LeaseInv'
BY DEF LeaseInv, leaseVars, Held, Holds, Apart

\* A role is asked where nobody draws or captures.
LEMMA RoleAsked ==
    ASSUME LeaseInv, Asked, UNCHANGED <<kind, setting>>,
           pc \notin {"drawing", "capture"}, kind = "image"
    PROVE  LeaseInv'
BY DEF LeaseInv, Asked, Held, Holds, Apart

\* Steps of a ticket that draws nothing do not draw.
LEMMA NextDrawsNothing ==
    ASSUME Next, pc \notin Painting
    PROVE  pc' \notin Painting
<1> USE DEF Painting, Fails, Blocks, Over
<1>1. CASE BeginAttempt
  BY <1>1 DEF BeginAttempt
<1>2. CASE ExecutorUnavailable
  BY <1>2 DEF ExecutorUnavailable
<1>3. ASSUME NEW r \in ExecutorReplies, ExecutorAnswers(r) PROVE pc' \notin Painting
  BY <1>3 DEF ExecutorAnswers
<1>4. CASE LandsNothing \/ LandsNowhere \/ ApplyRefused
  BY <1>4 DEF LandsNothing, LandsNowhere, ApplyRefused
<1>5. CASE Lands
  BY <1>5 DEF Lands
<1>6. CASE SkipTests \/ KeepTests \/ AskTester \/ TesterUnavailable
  BY <1>6 DEF SkipTests, KeepTests, AskTester, TesterUnavailable, Unchecked
<1>7. ASSUME NEW r \in TesterReplies, TesterAnswers(r) PROVE pc' \notin Painting
  BY <1>7 DEF TesterAnswers, Unchecked
<1>8. CASE (\E names \in SUBSET {test} : VerifyFails(names)) \/ NotCollected \/ Verified
  BY <1>8 DEF VerifyFails, NotCollected, Verified
<1>9. CASE ReviewFails \/ Approved \/ GiveUp
  BY <1>9 DEF ReviewFails, Approved, GiveUp
<1> QED
  BY <1>1, <1>2, <1>3, <1>4, <1>5, <1>6, <1>7, <1>8, <1>9 DEF Next

LEMMA LeaseStep == LeaseInv /\ [PictureNext]_allVars => LeaseInv'
<1> SUFFICES ASSUME LeaseInv, [PictureNext]_allVars PROVE LeaseInv'
  OBVIOUS
<1> USE DEF record, pictureVars
<1>1. CASE kind = "feature" /\ Next /\ UNCHANGED pictureVars
  BY <1>1, NextDrawsNothing DEF LeaseInv, Held, Holds, Apart
<1>2. CASE Parked
  BY <1>2, CardUntouched DEF Parked, leaseVars, Painting
<1>3. CASE BeginPicture
  <2>1. CASE pc' = "painter" /\ Asked
    BY <1>3, <2>1, RoleAsked DEF BeginPicture
  <2>2. CASE UNCHANGED <<card, refused>>
    BY <1>3, <2>2, CardUntouched DEF BeginPicture, leaseVars
  <2> QED
    BY <1>3, <2>1, <2>2 DEF BeginPicture
<1>4. CASE PainterUnavailable \/ \E fields \in SUBSET {"PROMPT", "EDIT", "BLOCKED"} : PainterAnswers(fields)
  <2>1. UNCHANGED pictureVars /\ pc = "painter"
    BY <1>4 DEF PainterUnavailable, PainterAnswers
  <2> QED
    BY <2>1, CardUntouched DEF leaseVars, LeaseInv, Apart, Painting
<1>5. CASE kind = "image" /\ Tested /\ UNCHANGED <<record, rejections, captured>>
  <2>1. pc \in {"tests", "tester"}
    BY <1>5 DEF Tested, AskTester, SkipTests, KeepTests, TesterUnavailable, TesterAnswers
  <2>2. CASE AskTester /\ Asked
    BY <1>5, <2>1, <2>2, RoleAsked
  <2>3. CASE UNCHANGED <<card, refused>>
    BY <1>5, <2>1, <2>3, CardUntouched DEF leaseVars
  <2> QED
    BY <1>5, <2>2, <2>3 DEF Tested
<1>6. CASE kind = "image" /\ Judged /\ UNCHANGED pictureVars
  <2>1. pc \in {"verify", "review", "idle"}
    BY <1>6 DEF Judged, VerifyFails, NotCollected, Verified, GiveUp
  <2> QED
    BY <1>6, <2>1, CardUntouched DEF leaseVars
<1>7. CASE kind = "image" /\ TakeLease
  BY <1>7 DEF TakeLease, Takes, LeaseInv, Held, Holds, Apart
<1>8. CASE kind = "image" /\ (DrawingFails \/ Drawn)
  <2>1. Freed(setting.ours) \/ UNCHANGED <<card, refused>>
    BY <1>8 DEF DrawingFails, Drawn, Gives
  <2>2. UNCHANGED <<kind, setting>> /\ pc = "drawing"
    BY <1>8 DEF DrawingFails, Drawn
  <2>3. "image" \in setting.leases => Freed(setting.ours)
    BY <1>8 DEF DrawingFails, Drawn, Gives
  <2> QED
    BY <1>8, <2>1, <2>2, <2>3 DEF Freed, LeaseInv, Held, Holds, Apart
<1>9. CASE kind = "image" /\ BeginCapture
  BY <1>9 DEF BeginCapture, Takes, LeaseInv, Held, Holds, Apart
<1>10. CASE kind = "image" /\ EndCapture
  BY <1>10 DEF EndCapture, LeaseInv, Held, Holds, Apart
<1>11. CASE kind = "image" /\ \E found \in Issues : PictureRejected(found) \/ NoVerdict(found)
  BY <1>11, RoleAsked DEF PictureRejected, NoVerdict, Reviewing
<1>12. CASE kind = "image" /\ PictureApproved
  BY <1>12, RoleAsked DEF PictureApproved, Reviewing
<1>13. CASE Exhausted
  BY <1>13, CardUntouched DEF Exhausted, leaseVars
<1>14. CASE Retry
  BY <1>14, CardUntouched DEF Retry, leaseVars
<1>15. CASE KilledAndStarted
  BY <1>15 DEF KilledAndStarted, LeaseInv, Held, Holds, Apart
<1>16. CASE UNCHANGED allVars
  BY <1>16 DEF allVars, vars, LeaseInv, Held, Holds, Apart
<1> QED
  BY <1>1, <1>2, <1>3, <1>4, <1>5, <1>6, <1>7, <1>8, <1>9, <1>10, <1>11, <1>12, <1>13, <1>14,
     <1>15, <1>16 DEF PictureNext

\* Neither the image model nor the capture command shares the card with a role's
\* checkpoint where the project leases it, whatever fails, is killed or does not
\* answer in between (`_gpu_lease`), as long as everybody asked gives it back.
THEOREM Leased == PictureSpec => []CardIsLeased
<1>1. PictureInit => LeaseInv
  BY DEF PictureInit, Init, LeaseInv, Held, Apart, Holds, Painting
<1>2. LeaseInv => CardIsLeased
  BY DEF LeaseInv, Held, Holds, CardIsLeased
<1> QED
  BY <1>1, <1>2, LeaseStep, PTL DEF PictureSpec

-----------------------------------------------------------------------------
(***************************************************************************)
(* Which picture an executor is offered.                                   *)
(***************************************************************************)

\* The pictures among the artifacts are numbered in the order they were drawn,
\* up to the attempt in hand, and below it until that has drawn.
Numbered ==
    /\ attempts \in Nat /\ base \in Nat /\ renders \in Seq(Nat)
    /\ \A i \in 1..Len(renders) : renders[i] <= AttemptNumber
    /\ \A i, j \in 1..Len(renders) : i < j => renders[i] < renders[j]
    /\ pc \in {"painter", "lease", "drawing"} =>
          \A i \in 1..Len(renders) : renders[i] < AttemptNumber

\* A step that draws nothing.
LEMMA NumbersUntouched ==
    ASSUME Numbered, UNCHANGED <<base, renders>>,
           attempts' \in {attempts, attempts + 1},
           attempts' = attempts + 1 \/ pc' \notin {"painter", "lease", "drawing"}
             \/ pc \in {"painter", "lease", "drawing"}
    PROVE  Numbered'
BY DEF Numbered, AttemptNumber

\* Of the steps an image ticket shares with the others, one counts an attempt.
LEMMA NextCounts == Next /\ attempts \in Nat => attempts' \in {attempts, attempts + 1}
<1> SUFFICES ASSUME Next, attempts \in Nat PROVE attempts' \in {attempts, attempts + 1}
  OBVIOUS
<1>1. CASE BeginAttempt
  BY <1>1 DEF BeginAttempt
<1>2. CASE ~BeginAttempt
  <2>1. UNCHANGED attempts
    BY <1>2 DEF Next, ticket, ExecutorUnavailable, ExecutorAnswers, LandsNothing, LandsNowhere,
         ApplyRefused, Lands, SkipTests, KeepTests, AskTester, TesterUnavailable, TesterAnswers,
         VerifyFails, NotCollected, Verified, ReviewFails, Approved, GiveUp
  <2> QED
    BY <2>1
<1> QED
  BY <1>1, <1>2

LEMMA NumberedStep == Numbered /\ Apart /\ [PictureNext]_allVars => Numbered'
<1> SUFFICES ASSUME Numbered, Apart, [PictureNext]_allVars PROVE Numbered'
  OBVIOUS
<1> USE DEF record, pictureVars, ticket
<1>1. CASE kind = "feature" /\ Next /\ UNCHANGED pictureVars
  <2>1. attempts' \in {attempts, attempts + 1} /\ pc' \notin Painting
    BY <1>1, NextCounts, NextDrawsNothing DEF Numbered, Apart
  <2> QED
    BY <1>1, <2>1, NumbersUntouched DEF Painting
<1>2. CASE Parked \/ Exhausted
  BY <1>2, NumbersUntouched DEF Parked, Exhausted
<1>3. CASE BeginPicture
  BY <1>3, NumbersUntouched DEF BeginPicture
<1>4. CASE PainterUnavailable \/ \E fields \in SUBSET {"PROMPT", "EDIT", "BLOCKED"} : PainterAnswers(fields)
  BY <1>4, NumbersUntouched DEF PainterUnavailable, PainterAnswers
<1>5. CASE kind = "image" /\ Tested /\ UNCHANGED <<record, rejections, captured>>
  <2>1. UNCHANGED attempts /\ pc \in {"tests", "tester"} /\ pc' \notin Painting
    BY <1>5 DEF Tested, AskTester, SkipTests, KeepTests, TesterUnavailable, TesterAnswers,
         Unchecked, Painting, Fails, Blocks, Over
  <2> QED
    BY <1>5, <2>1, NumbersUntouched DEF Painting
<1>6. CASE kind = "image" /\ Judged /\ UNCHANGED pictureVars
  <2>1. UNCHANGED attempts /\ pc' \notin Painting
    BY <1>6 DEF Judged, VerifyFails, NotCollected, Verified, GiveUp, Painting, Fails, Over
  <2> QED
    BY <1>6, <2>1, NumbersUntouched DEF Painting
<1>7. CASE TakeLease \/ DrawingFails
  BY <1>7, NumbersUntouched DEF TakeLease, DrawingFails
<1>8. CASE Drawn
  <2> USE DEF AttemptNumber
  <2>1. UNCHANGED <<attempts, base>> /\ pc = "drawing" /\ pc' = "tests"
    BY <1>8 DEF Drawn
  <2>2. AttemptNumber \in Nat
    BY DEF Numbered
  <2>3. CASE renders' = Append(renders, AttemptNumber)
    <3>1. /\ renders' \in Seq(Nat) /\ Len(renders') = Len(renders) + 1
          /\ \A i \in 1..Len(renders) : renders'[i] = renders[i]
          /\ renders'[Len(renders) + 1] = AttemptNumber
      BY <2>2, <2>3 DEF Numbered
    <3>2. \A i \in 1..Len(renders) : renders[i] \in Nat /\ renders[i] < AttemptNumber
      BY <2>1 DEF Numbered
    <3>3. \A i \in 1..Len(renders') : i \in 1..Len(renders) \/ i = Len(renders) + 1
      BY <3>1 DEF Numbered
    <3>4. \A i \in 1..Len(renders') : renders'[i] <= AttemptNumber
      BY <2>2, <3>1, <3>2, <3>3
    <3>5. ASSUME NEW i \in 1..Len(renders'), NEW j \in 1..Len(renders'), i < j
          PROVE  renders'[i] < renders'[j]
      <4>1. i \in 1..Len(renders) /\ Len(renders) \in Nat
        BY <3>1, <3>5 DEF Numbered
      <4>2. CASE j \in 1..Len(renders)
        BY <3>1, <3>5, <4>1, <4>2 DEF Numbered
      <4>3. CASE j = Len(renders) + 1
        BY <3>1, <3>2, <4>1, <4>3
      <4> QED
        BY <3>3, <4>2, <4>3
    <3> QED
      BY <2>1, <3>1, <3>4, <3>5 DEF Numbered
  <2>4. CASE renders' = renders
    BY <2>1, <2>4, NumbersUntouched DEF Numbered
  <2> QED
    BY <1>8, <2>3, <2>4 DEF Drawn
<1>9. CASE BeginCapture \/ EndCapture
  BY <1>9, NumbersUntouched DEF BeginCapture, EndCapture, Fails, Over
<1>10. CASE (\E found \in Issues : PictureRejected(found) \/ NoVerdict(found)) \/ PictureApproved
  BY <1>10, NumbersUntouched DEF PictureRejected, NoVerdict, PictureApproved, ReviewFails, Approved,
       Fails, Over
<1>11. CASE Retry
  <2>1. base' = base + attempts /\ attempts' = 0 /\ renders' = renders /\ pc' = "idle"
    BY <1>11 DEF Retry, Over
  <2> QED
    BY <2>1 DEF Numbered, AttemptNumber
<1>12. CASE KilledAndStarted
  BY <1>12, NumbersUntouched DEF KilledAndStarted, Over
<1>13. CASE UNCHANGED allVars
  BY <1>13, NumbersUntouched DEF allVars, vars, Numbered
<1> QED
  BY <1>1, <1>2, <1>3, <1>4, <1>5, <1>6, <1>7, <1>8, <1>9, <1>10, <1>11, <1>12, <1>13
     DEF PictureNext

\* The picture an executor is offered to edit is the newest there is, however many
\* cycles, failed drawings and restarts there were (`_previous_render`).
THEOREM Newest == PictureSpec => []OfferedIsNewest
<1>1. PictureInit => Numbered /\ LeaseInv
  BY DEF PictureInit, Init, Numbered, LeaseInv, Held, Apart, Holds, Painting
<1>2. Numbered /\ LeaseInv /\ [PictureNext]_allVars => (Numbered /\ LeaseInv)'
  BY NumberedStep, LeaseStep DEF LeaseInv
<1>3. Numbered => OfferedIsNewest
  <2> SUFFICES ASSUME Numbered, pc = "painter", renders # <<>> PROVE Previous = Last(renders)
    BY DEF OfferedIsNewest
  <2> DEFINE earlier == {n \in Range(renders) : n < AttemptNumber}
  <2>1. Len(renders) \in 1..Len(renders) /\ DOMAIN renders = 1..Len(renders)
    BY DEF Numbered
  <2>2. earlier = {renders[i] : i \in 1..Len(renders)}
    BY <2>1 DEF Range, Numbered
  <2>3. Last(renders) \in earlier /\ \A k \in earlier : k <= Last(renders)
    BY <2>1, <2>2 DEF Last, Numbered
  <2>4. \A n \in earlier : (\A k \in earlier : k <= n) => n = Last(renders)
    <3> SUFFICES ASSUME NEW n \in earlier, \A k \in earlier : k <= n PROVE n = Last(renders)
      OBVIOUS
    <3>1. n \in Nat /\ Last(renders) \in Nat
      BY <2>2, <2>3 DEF Numbered
    <3> QED
      BY <2>3, <3>1
  <2>5. Previous = CHOOSE n \in earlier : \A k \in earlier : k <= n
    BY <2>3 DEF Previous
  <2> HIDE DEF earlier
  <2> QED
    BY <2>3, <2>4, <2>5
<1> QED
  BY <1>1, <1>2, <1>3, PTL DEF PictureSpec

-----------------------------------------------------------------------------
(***************************************************************************)
(* Sequences read step by step.                                            *)
(***************************************************************************)

\* What holds of 0 and, with a number, of the next one holds of every number.
LEMMA SetInduction ==
    ASSUME NEW I, 0 \in I, \A n \in Nat : n \in I => n + 1 \in I
    PROVE  \A n \in Nat : n \in I
<1> DEFINE T == {n \in Nat : n \notin I}
<1>1. SUFFICES ASSUME T # {} PROVE FALSE
  OBVIOUS
<1>2. PICK x \in T : \A y \in T : ~ (<<y, x>> \in OpToRel(<, Nat))
  BY <1>1, NatLessThanWellFounded, WFMin
<1>3. \A y \in Nat : y < x => y \in I
  BY <1>2 DEF OpToRel
<1>4. x \in Nat /\ x # 0 /\ x \notin I
  OBVIOUS
<1>5. x - 1 \in Nat /\ x - 1 < x /\ (x - 1) + 1 = x
  BY <1>4
<1> QED
  BY <1>3, <1>4, <1>5

\* A finite set of numbers has a largest one.
LEMMA Largest ==
    ASSUME NEW S \in SUBSET Nat, NEW n \in Nat, S # {}, \A i \in S : i <= n
    PROVE  \E m \in S : \A i \in S : i <= m
<1> DEFINE I == {k \in Nat : (\E m \in S : \A i \in S : i <= m) \/ \A i \in S : i + k <= n}
<1>1. 0 \in I
  OBVIOUS
<1>2. ASSUME NEW k \in Nat, k \in I PROVE k + 1 \in I
  <2>1. CASE \E m \in S : \A i \in S : i <= m
    BY <2>1
  <2>2. CASE \A i \in S : i + k <= n
    <3>1. CASE \E i \in S : i + k = n
      BY <2>2, <3>1
    <3>2. CASE \A i \in S : i + k # n
      <4>1. \A i \in S : i + (k + 1) <= n
        BY <2>2, <3>2
      <4> QED
        BY <4>1
    <3> QED
      BY <3>1, <3>2
  <2> QED
    BY <1>2, <2>1, <2>2
<1>3. n + 1 \in I
  <2> HIDE DEF I
  <2> QED
    BY <1>1, <1>2, SetInduction
<1>4. PICK i \in S : TRUE
  OBVIOUS
<1>5. i \in Nat /\ ~(i + (n + 1) <= n)
  OBVIOUS
<1> QED
  BY <1>3, <1>4, <1>5

\* Places in a sequence are finitely many.
LEMMA FiniteBelow ==
    ASSUME NEW n \in Nat, NEW R \in SUBSET (1..n)
    PROVE  IsFiniteSet(R) /\ Cardinality(R) \in Nat
<1>1. IsFiniteSet(1..n)
  BY FS_Interval
<1>2. IsFiniteSet(R)
  BY <1>1, FS_Subset
<1> QED
  BY <1>2, FS_CardinalityType

\* The places picked can be put in order.
Orders(S, o) ==
    /\ o \in [1..Cardinality(S) -> S]
    /\ \A i, j \in 1..Cardinality(S) : i < j => o[i] < o[j]

LEMMA OrderExists ==
    ASSUME NEW n \in Nat, NEW S \in SUBSET (1..n)
    PROVE  \E o : Orders(S, o)
<1> DEFINE I == {k \in Nat : \A R \in SUBSET (1..n) : Cardinality(R) = k => \E o : Orders(R, o)}
<1>0. \A R \in SUBSET (1..n) : IsFiniteSet(R) /\ Cardinality(R) \in Nat
  BY FiniteBelow
<1>1. 0 \in I
  <2> SUFFICES ASSUME NEW R \in SUBSET (1..n), Cardinality(R) = 0 PROVE \E o : Orders(R, o)
    OBVIOUS
  <2>1. R = {}
    BY <1>0, FS_EmptySet
  <2>2. Orders(R, [i \in 1..0 |-> 0])
    BY <2>1 DEF Orders
  <2> QED
    BY <2>2
<1>2. ASSUME NEW k \in Nat, k \in I PROVE k + 1 \in I
  <2> SUFFICES ASSUME NEW R \in SUBSET (1..n), Cardinality(R) = k + 1 PROVE \E o : Orders(R, o)
    OBVIOUS
  <2>1. R # {}
    BY FS_EmptySet
  <2>2. PICK m \in R : \A i \in R : i <= m
    <3>1. R \in SUBSET Nat /\ \A i \in R : i <= n
      OBVIOUS
    <3> QED
      BY <2>1, <3>1, Largest
  <2>3. Cardinality(R \ {m}) = k
    BY <1>0, FS_RemoveElement
  <2>4. PICK o : Orders(R \ {m}, o)
    BY <1>2, <2>3
  <2> DEFINE p == [i \in 1..(k + 1) |-> IF i = k + 1 THEN m ELSE o[i]]
  <2>5. \A i \in 1..k : o[i] \in R /\ o[i] < m
    <3> SUFFICES ASSUME NEW i \in 1..k PROVE o[i] \in R /\ o[i] < m
      OBVIOUS
    <3>1. o[i] \in R \ {m}
      BY <2>3, <2>4 DEF Orders
    <3>2. o[i] \in R /\ o[i] # m
      BY <3>1
    <3>3. o[i] \in 1..n /\ m \in 1..n /\ o[i] <= m
      BY <2>2, <3>2
    <3> QED
      BY <3>2, <3>3
  <2>6. p \in [1..(k + 1) -> R]
    BY <2>5
  <2>7. ASSUME NEW i \in 1..(k + 1), NEW j \in 1..(k + 1), i < j PROVE p[i] < p[j]
    <3>1. i \in 1..k /\ p[i] = o[i]
      BY <2>7
    <3>2. CASE j = k + 1
      BY <2>5, <3>1, <3>2
    <3>3. CASE j \in 1..k
      <4>1. p[j] = o[j]
        BY <3>3
      <4>2. \A a, b \in 1..k : a < b => o[a] < o[b]
        BY <2>3, <2>4 DEF Orders
      <4> QED
        BY <2>7, <3>1, <3>3, <4>1, <4>2
    <3> QED
      BY <3>2, <3>3
  <2> HIDE DEF p
  <2>8. Orders(R, p)
    BY <2>6, <2>7 DEF Orders
  <2> QED
    BY <2>8
<1>3. \A k \in Nat : k \in I
  <2> HIDE DEF I
  <2> QED
    BY <1>1, <1>2, SetInduction
<1> QED
  BY <1>0, <1>3

\* What is picked from a sequence: what stood at those places, all of it, in order.
LEMMA Picked ==
    ASSUME NEW T, NEW seq \in Seq(T), NEW S \in SUBSET (DOMAIN seq)
    PROVE  /\ Pick(seq, S) \in Seq(T) /\ Len(Pick(seq, S)) = Cardinality(S)
           /\ \E o \in [1..Cardinality(S) -> S] :
                 /\ \A i, j \in 1..Cardinality(S) : i < j => o[i] < o[j]
                 /\ \A j \in S : \E i \in 1..Cardinality(S) : o[i] = j
                 /\ \A i \in 1..Cardinality(S) : Pick(seq, S)[i] = seq[o[i]]
<1> DEFINE o == CHOOSE q \in [1..Cardinality(S) -> S] :
                   \A i, j \in 1..Cardinality(S) : i < j => q[i] < q[j]
<1>0. DOMAIN seq = 1..Len(seq) /\ Len(seq) \in Nat
  OBVIOUS
<1>1. IsFiniteSet(S) /\ Cardinality(S) \in Nat
  BY <1>0, FiniteBelow
<1>2. \E q \in [1..Cardinality(S) -> S] : \A i, j \in 1..Cardinality(S) : i < j => q[i] < q[j]
  BY <1>0, OrderExists DEF Orders
<1>3. o \in [1..Cardinality(S) -> S] /\ \A i, j \in 1..Cardinality(S) : i < j => o[i] < o[j]
  <2> HIDE <1>0, <1>1
  <2> QED
    BY <1>2
<1>4. Pick(seq, S) = [i \in 1..Cardinality(S) |-> seq[o[i]]]
  BY DEF Pick
<1> HIDE DEF o
<1>5. \A i \in 1..Cardinality(S) : seq[o[i]] \in T
  BY <1>0, <1>3
<1>6. Pick(seq, S) \in Seq(T) /\ Len(Pick(seq, S)) = Cardinality(S)
  BY <1>1, <1>4, <1>5
<1>7. \A j \in S : \E i \in 1..Cardinality(S) : o[i] = j
  <2>1. o \in Injection(1..Cardinality(S), S)
    <3> SUFFICES ASSUME NEW i \in 1..Cardinality(S), NEW j \in 1..Cardinality(S), o[i] = o[j]
                 PROVE  i = j
      BY <1>3 DEF Injection, IsInjective
    <3>1. o[i] \in Nat /\ o[j] \in Nat /\ i \in Nat /\ j \in Nat
      BY <1>0, <1>3
    <3> QED
      BY <1>3, <3>1
  <2>2. Cardinality(1..Cardinality(S)) = Cardinality(S)
    BY <1>1, FS_Interval
  <2>3. o \in Surjection(1..Cardinality(S), S)
    BY <1>1, <2>1, <2>2, FS_Injection
  <2> QED
    BY <2>3 DEF Surjection
<1> QED
  BY <1>3, <1>4, <1>6, <1>7

\* What is computed from a sequence one element at a time exists, and has the
\* type of its steps.
Folds(V, n, start, F, g) ==
    g \in [0..n -> V] /\ g[0] = start /\ \A i \in 1..n : g[i] = F[i][g[i - 1]]

LEMMA FoldExists ==
    ASSUME NEW V, NEW n \in Nat, NEW start \in V, NEW F \in [1..n -> [V -> V]]
    PROVE  \E g : Folds(V, n, start, F, g)
<1> DEFINE Upto(k, g) == g \in [0..k -> V] /\ g[0] = start
                          /\ \A i \in 1..k : i <= n => g[i] = F[i][g[i - 1]]
           I == {k \in Nat : \E g : Upto(k, g)}
<1>1. 0 \in I
  <2>1. Upto(0, [i \in 0..0 |-> start])
    OBVIOUS
  <2> QED
    BY <2>1
<1>2. ASSUME NEW k \in Nat, k \in I PROVE k + 1 \in I
  <2>1. PICK g : Upto(k, g)
    BY <1>2
  <2> DEFINE h == [i \in 0..(k + 1) |-> IF i <= k THEN g[i]
                                        ELSE IF k + 1 <= n THEN F[k + 1][g[k]] ELSE start]
  <2>2. k + 1 <= n => F[k + 1] \in [V -> V] /\ g[k] \in V
    BY <2>1
  <2>3. h \in [0..(k + 1) -> V]
    BY <2>1, <2>2
  <2>4. h[0] = start
    BY <2>1
  <2>5. \A i \in 0..k : h[i] = g[i]
    OBVIOUS
  <2>6. ASSUME NEW i \in 1..(k + 1), i <= n PROVE h[i] = F[i][h[i - 1]]
    <3>1. i - 1 \in 0..k /\ h[i - 1] = g[i - 1]
      BY <2>5
    <3>2. CASE i \in 1..k
      BY <2>1, <2>5, <2>6, <3>1, <3>2
    <3>3. CASE i = k + 1
      <4>1. h[i] = F[k + 1][g[k]] /\ h[i - 1] = g[k]
        BY <2>6, <3>1, <3>3
      <4> QED
        BY <3>3, <4>1
    <3> QED
      BY <3>2, <3>3
  <2> HIDE DEF h
  <2>7. Upto(k + 1, h)
    BY <2>3, <2>4, <2>6
  <2> QED
    BY <2>7
<1>3. n \in I
  <2> HIDE DEF I
  <2> QED
    BY <1>1, <1>2, SetInduction
<1> QED
  BY <1>3 DEF Folds

-----------------------------------------------------------------------------
(***************************************************************************)
(* What becomes of a reply.                                                *)
(***************************************************************************)
\* The file as it is after each of its searches.
LEMMA ReplacedSteps ==
    ASSUME NEW content \in Content \cup {Absent}, NEW hunks \in Seq(HunkRecord)
    PROVE  \E body \in [0..Len(hunks) -> Content \cup {Refused}] :
              /\ body[0] = IF content = Absent THEN Refused ELSE content
              /\ \A i \in 1..Len(hunks) : body[i] = Replace(body[i - 1], hunks[i])
              /\ Replaced(content, hunks) = body[Len(hunks)]
<1>0. Len(hunks) \in Nat /\ \A i \in 1..Len(hunks) : hunks[i] \in HunkRecord
  OBVIOUS
<1> DEFINE n == Len(hunks)
           V == Content \cup {Refused}
           first == IF content = Absent THEN Refused ELSE content
           F == [i \in 1..n |-> [b \in V |-> Replace(b, hunks[i])]]
           Is(g) == g = [i \in 0..n |-> IF i = 0 THEN first ELSE Replace(g[i - 1], hunks[i])]
<1>1. n \in Nat /\ first \in V
  BY <1>0
<1>2. ASSUME NEW i \in 1..n, NEW b \in V PROVE Replace(b, hunks[i]) \in V
  BY <1>0 DEF Replace, Content, HunkRecord
<1>3. F \in [1..n -> [V -> V]]
  BY <1>2
<1>4. \A i \in 1..n, b \in V : F[i][b] = Replace(b, hunks[i])
  OBVIOUS
<1> HIDE DEF n, V, first, F
<1>5. PICK g : Folds(V, n, first, F, g)
  BY <1>1, <1>3, FoldExists
<1>6. /\ g \in [0..n -> V] /\ g[0] = first
      /\ \A i \in 1..n : g[i] = Replace(g[i - 1], hunks[i])
  BY <1>1, <1>4, <1>5 DEF Folds
<1>7. Is(g)
  <2>1. \A i \in 0..n : g[i] = IF i = 0 THEN first ELSE Replace(g[i - 1], hunks[i])
    BY <1>1, <1>6
  <2> QED
    BY <1>6, <2>1
<1> DEFINE body == CHOOSE f : Is(f)
<1>8. Replaced(content, hunks) = body[n]
  BY DEF Replaced, n, first
<1>9. Is(body)
  BY <1>7
<1> HIDE DEF body
<1>10. body[0] = first /\ \A i \in 1..n : body[i] = Replace(body[i - 1], hunks[i])
  BY <1>1, <1>9
<1> DEFINE I == {k \in Nat : k <= n => body[k] \in V}
<1>11. 0 \in I
  BY <1>1, <1>10
<1>12. ASSUME NEW k \in Nat, k \in I PROVE k + 1 \in I
  BY <1>1, <1>2, <1>10, <1>12
<1>13. \A k \in Nat : k \in I
  <2> HIDE DEF I
  <2> QED
    BY <1>11, <1>12, SetInduction
<1>14. \A k \in 0..n : body[k] \in V
  BY <1>1, <1>13
<1>15. body \in [0..n -> V]
  BY <1>9, <1>14
<1> QED
  BY <1>8, <1>10, <1>15 DEF n, V, first

\* The lines a reply sends are lines.
LEMMA BodyTyped ==
    ASSUME NEW d \in [Files -> Content \cup {Absent}], NEW e \in EditRecord
    PROVE  Body(d, e) \in Content \cup {Refused}
<1>1. e.content \in Content /\ e.hunks \in Seq(HunkRecord) /\ d[e.path] \in Content \cup {Absent}
  BY DEF EditRecord
<1>2. Replaced(d[e.path], e.hunks) \in Content \cup {Refused}
  <2>1. PICK body \in [0..Len(e.hunks) -> Content \cup {Refused}] :
           Replaced(d[e.path], e.hunks) = body[Len(e.hunks)]
    BY <1>1, ReplacedSteps
  <2> QED
    BY <1>1, <2>1
<1> QED
  BY <1>1, <1>2 DEF Body

\* How far an apply has come.
Stages == [disk : [Files -> Content \cup {Absent}], written : SUBSET Files, torn : BOOLEAN]
Untouched(d) == [disk |-> d, written |-> {}, torn |-> FALSE]

LEMMA ApplyTyped ==
    ASSUME NEW done \in Stages, NEW e \in EditRecord
    PROVE  /\ Apply(done, e) \in Stages
           /\ Apply(done, e).written \in {done.written, done.written \cup {e.path}}
           /\ \A f \in Files \ {e.path} : Apply(done, e).disk[f] = done.disk[f]
           /\ e.path \notin Apply(done, e).written =>
                 Apply(done, e).disk[e.path] = done.disk[e.path]
           /\ Apply(done, e).written # done.written => Apply(done, e).disk[e.path] \in Content
           /\ ~Apply(done, e).torn => /\ ~done.torn /\ Body(done.disk, e) # Refused
                                      /\ e.path \in Apply(done, e).written
                                      /\ Apply(done, e).disk[e.path] = Body(done.disk, e)
           /\ done.disk[e.path] \in Content => Apply(done, e).disk[e.path] \in Content
<1>1. /\ done.disk \in [Files -> Content \cup {Absent}] /\ done.written \in SUBSET Files
      /\ done.torn \in BOOLEAN /\ e.path \in Files
  BY DEF Stages, EditRecord
<1>2. Body(done.disk, e) \in Content \cup {Refused}
  BY <1>1, BodyTyped
<1>3. CASE done.torn \/ Body(done.disk, e) = Refused
  <2>1. Apply(done, e) = [done EXCEPT !.torn = TRUE]
    BY <1>3 DEF Apply
  <2>2. /\ Apply(done, e) \in Stages /\ Apply(done, e).written = done.written
        /\ Apply(done, e).disk = done.disk /\ Apply(done, e).torn
    BY <1>1, <2>1 DEF Stages
  <2> QED
    BY <1>1, <2>2
<1>4. CASE ~done.torn /\ Body(done.disk, e) # Refused
  <2>1. Apply(done, e) = [done EXCEPT !.disk[e.path] = Body(done.disk, e), !.written = @ \cup {e.path}]
    BY <1>4 DEF Apply
  <2>2. /\ Apply(done, e).written = done.written \cup {e.path}
        /\ Apply(done, e).disk = [done.disk EXCEPT ![e.path] = Body(done.disk, e)]
        /\ Apply(done, e).torn = done.torn
    BY <1>1, <2>1 DEF Stages
  <2>3. Apply(done, e) \in Stages
    BY <1>1, <1>2, <1>4, <2>1 DEF Stages
  <2> QED
    BY <1>1, <1>2, <1>4, <2>2, <2>3
<1> QED
  BY <1>3, <1>4

\* The tree as it is after each file of a reply.
LEMMA ApplySteps ==
    ASSUME NEW d \in [Files -> Content \cup {Absent}], NEW edits \in Seq(EditRecord)
    PROVE  \E done \in [0..Len(edits) -> Stages] :
              /\ done[0] = Untouched(d)
              /\ \A i \in 1..Len(edits) : done[i] = Apply(done[i - 1], edits[i])
              /\ ApplyEdits(d, edits) = done[Len(edits)]
<1>0. Len(edits) \in Nat /\ \A i \in 1..Len(edits) : edits[i] \in EditRecord
  OBVIOUS
<1> DEFINE n == Len(edits)
           first == Untouched(d)
           F == [i \in 1..n |-> [b \in Stages |-> Apply(b, edits[i])]]
           Is(g) == g = [i \in 0..n |-> IF i = 0 THEN first ELSE Apply(g[i - 1], edits[i])]
<1>1. n \in Nat /\ first \in Stages
  BY <1>0 DEF Stages, Untouched
<1>2. ASSUME NEW i \in 1..n, NEW b \in Stages PROVE Apply(b, edits[i]) \in Stages
  BY <1>0, ApplyTyped
<1>3. F \in [1..n -> [Stages -> Stages]]
  BY <1>2
<1>4. \A i \in 1..n, b \in Stages : F[i][b] = Apply(b, edits[i])
  OBVIOUS
<1> HIDE DEF n, first, F
<1>5. PICK g : Folds(Stages, n, first, F, g)
  BY <1>1, <1>3, FoldExists
<1>6. /\ g \in [0..n -> Stages] /\ g[0] = first
      /\ \A i \in 1..n : g[i] = Apply(g[i - 1], edits[i])
  BY <1>1, <1>4, <1>5 DEF Folds
<1>7. Is(g)
  <2>1. \A i \in 0..n : g[i] = IF i = 0 THEN first ELSE Apply(g[i - 1], edits[i])
    BY <1>1, <1>6
  <2> QED
    BY <1>6, <2>1
<1> DEFINE done == CHOOSE f : Is(f)
<1>8. ApplyEdits(d, edits) = done[n]
  BY DEF ApplyEdits, n, first, Untouched
<1>9. Is(done)
  BY <1>7
<1> HIDE DEF done
<1>10. done[0] = first /\ \A i \in 1..n : done[i] = Apply(done[i - 1], edits[i])
  BY <1>1, <1>9
<1> DEFINE I == {k \in Nat : k <= n => done[k] \in Stages}
<1>11. 0 \in I
  BY <1>1, <1>10
<1>12. ASSUME NEW k \in Nat, k \in I PROVE k + 1 \in I
  BY <1>1, <1>2, <1>10, <1>12
<1>13. \A k \in Nat : k \in I
  <2> HIDE DEF I
  <2> QED
    BY <1>11, <1>12, SetInduction
<1>14. \A k \in 0..n : done[k] \in Stages
  BY <1>1, <1>13
<1>15. done \in [0..n -> Stages]
  BY <1>9, <1>14
<1> QED
  BY <1>8, <1>10, <1>15 DEF n, first

\* What an apply leaves: it changes the files it says it wrote, all of them files
\* of the reply, and leaves something in each.
LEMMA Applied ==
    ASSUME NEW d \in [Files -> Content \cup {Absent}], NEW edits \in Seq(EditRecord)
    PROVE  /\ ApplyEdits(d, edits) \in Stages
           /\ ApplyEdits(d, edits).written \subseteq {edits[i].path : i \in 1..Len(edits)}
           /\ \A f \in Files \ ApplyEdits(d, edits).written : ApplyEdits(d, edits).disk[f] = d[f]
           /\ \A f \in ApplyEdits(d, edits).written : ApplyEdits(d, edits).disk[f] \in Content
<1> DEFINE n == Len(edits)
           paths == {edits[i].path : i \in 1..n}
           Fits(a) == /\ a \in Stages /\ a.written \subseteq paths
                      /\ \A f \in Files \ a.written : a.disk[f] = d[f]
                      /\ \A f \in a.written : a.disk[f] \in Content
<1>1. n \in Nat /\ \A i \in 1..n : edits[i] \in EditRecord /\ edits[i].path \in paths
  OBVIOUS
<1>2. PICK done \in [0..n -> Stages] :
         /\ done[0] = Untouched(d)
         /\ \A i \in 1..n : done[i] = Apply(done[i - 1], edits[i])
         /\ ApplyEdits(d, edits) = done[n]
  BY ApplySteps
<1> HIDE DEF n, paths
<1> DEFINE I == {k \in Nat : k <= n => Fits(done[k])}
<1>3. 0 \in I
  BY <1>1, <1>2 DEF Untouched
<1>4. ASSUME NEW k \in Nat, k \in I PROVE k + 1 \in I
  <2> SUFFICES ASSUME k + 1 <= n PROVE Fits(done[k + 1])
    OBVIOUS
  <2>1. Fits(done[k]) /\ done[k + 1] = Apply(done[k], edits[k + 1])
    BY <1>1, <1>2, <1>4
  <2> DEFINE b == done[k]
             e == edits[k + 1]
  <2>2. e \in EditRecord /\ e.path \in paths /\ e.path \in Files /\ b \in Stages
    BY <1>1, <2>1 DEF EditRecord
  <2> HIDE DEF b, e
  <2>3. Fits(b) /\ done[k + 1] = Apply(b, e)
    BY <2>1 DEF b, e
  <2>4. Fits(Apply(b, e))
    <3> DEFINE c == Apply(b, e)
    <3>1. /\ c \in Stages /\ c.written \in {b.written, b.written \cup {e.path}}
          /\ \A f \in Files \ {e.path} : c.disk[f] = b.disk[f]
          /\ e.path \notin c.written => c.disk[e.path] = b.disk[e.path]
          /\ c.written # b.written => c.disk[e.path] \in Content
          /\ b.disk[e.path] \in Content => c.disk[e.path] \in Content
      BY <2>2, ApplyTyped
    <3> HIDE DEF c
    <3>2. c.written \subseteq paths /\ c.written \subseteq b.written \cup {e.path} /\ b.written \subseteq c.written
      BY <2>2, <2>3, <3>1
    <3>3. \A f \in Files \ c.written : c.disk[f] = d[f]
      BY <2>2, <2>3, <3>1, <3>2
    <3>4. \A f \in c.written : c.disk[f] \in Content
      <4> SUFFICES ASSUME NEW f \in c.written PROVE c.disk[f] \in Content
        OBVIOUS
      <4>1. f \in Files /\ b.written \subseteq Files
        BY <2>3, <3>1 DEF Stages
      <4>2. CASE f # e.path
        BY <2>3, <3>1, <3>2, <4>1, <4>2
      <4>3. CASE f = e.path
        BY <2>3, <3>1, <3>2, <4>1, <4>3
      <4> QED
        BY <4>2, <4>3
    <3> QED
      BY <3>1, <3>2, <3>3, <3>4 DEF c
  <2> QED
    BY <2>3, <2>4
<1>5. n \in I
  <2> HIDE DEF I
  <2> QED
    BY <1>1, <1>3, <1>4, SetInduction
<1>6. Fits(ApplyEdits(d, edits))
  BY <1>1, <1>2, <1>5
<1> QED
  BY <1>6 DEF paths, n

\* What is in scope of a reply is of the reply, and in scope.
LEMMA InScopeTyped ==
    ASSUME NEW p, p.edits \in Seq(EditRecord), NEW files, NEW never
    PROVE  /\ InScope(p, files, never) \in Seq(EditRecord)
           /\ \A i \in 1..Len(InScope(p, files, never)) :
                 InScope(p, files, never)[i].path \in files \ never
<1> DEFINE S == {i \in DOMAIN p.edits : p.edits[i].path \in files \ never}
<1>1. InScope(p, files, never) = Pick(p.edits, S)
  BY DEF InScope
<1>2. S \in SUBSET (DOMAIN p.edits) /\ \A j \in S : p.edits[j].path \in files \ never
  OBVIOUS
<1> HIDE DEF S
<1>3. /\ Pick(p.edits, S) \in Seq(EditRecord) /\ Len(Pick(p.edits, S)) = Cardinality(S)
      /\ \E o \in [1..Cardinality(S) -> S] :
            \A i \in 1..Cardinality(S) : Pick(p.edits, S)[i] = p.edits[o[i]]
  BY <1>2, Picked
<1> QED
  BY <1>1, <1>2, <1>3

LEMMA LiteralTyped ==
    ASSUME NEW b \in BlockRecord
    PROVE  Literal(b) \in Content
<1>1. b.content \in Content /\ b.hunks \in Seq(HunkRecord)
  BY DEF BlockRecord
<1>2. \A i \in DOMAIN b.hunks : b.hunks[i].search \in Lines /\ b.hunks[i].replace \in Content
  <2>1. \A i \in DOMAIN b.hunks : b.hunks[i] \in HunkRecord
    BY <1>1
  <2> QED
    BY <2>1 DEF HunkRecord
<1>3. {Marker} \cup UNION {{b.hunks[i].search} \cup b.hunks[i].replace : i \in DOMAIN b.hunks}
        \in Content
  BY <1>2, ReplyAssumption DEF Content
<1> QED
  BY <1>1, <1>3 DEF Literal

LEMMA DropRepeatsTyped ==
    ASSUME NEW edits \in Seq(EditRecord)
    PROVE  \E S \in SUBSET (DOMAIN edits) : DropRepeats(edits) = Pick(edits, S)
BY DEF DropRepeats

\* What is parsed of a reply are edits.
LEMMA ParseTyped ==
    ASSUME NEW r, r.blocks \in Seq(BlockRecord)
    PROVE  Parse(r).edits \in Seq(EditRecord)
<1>1. Above(r) \in Seq(BlockRecord) /\ Inside(r) \in Seq(BlockRecord)
  BY Picked DEF Above, Inside, Standing
<1>2. Whole(Above(r)) \in Seq(BlockRecord) /\ Whole(Inside(r)) \in Seq(BlockRecord)
  BY <1>1, Picked DEF Whole
<1>3. \A b \in BlockRecord : Edit(b) \in EditRecord /\ Verbatim(b) \in EditRecord
  <2> SUFFICES ASSUME NEW b \in BlockRecord PROVE Edit(b) \in EditRecord /\ Verbatim(b) \in EditRecord
    OBVIOUS
  <2>1. /\ b.path \in Files /\ b.content \in Content /\ b.hunks \in Seq(HunkRecord)
        /\ Literal(b) \in Content /\ <<>> \in Seq(HunkRecord)
    BY LiteralTyped DEF BlockRecord
  <2> QED
    BY <2>1 DEF Edit, Verbatim, EditRecord
<1>4. ASSUME NEW w \in Seq(BlockRecord)
      PROVE  /\ [i \in DOMAIN w |-> Edit(w[i])] \in Seq(EditRecord)
             /\ [i \in DOMAIN w |-> Verbatim(w[i])] \in Seq(EditRecord)
  <2>1. DOMAIN w = 1..Len(w) /\ Len(w) \in Nat /\ \A i \in 1..Len(w) : w[i] \in BlockRecord
    OBVIOUS
  <2> QED
    BY <1>3, <2>1
<1>5. \A edits \in Seq(EditRecord) : DropRepeats(edits) \in Seq(EditRecord)
  BY DropRepeatsTyped, Picked
<1>6. Sending(r).edits \in Seq(EditRecord)
  BY <1>2, <1>4, <1>5 DEF Sending, Parsed
<1>7. <<>> \in Seq(EditRecord)
  OBVIOUS
<1> QED
  BY <1>6, <1>7 DEF Parse, Parsed

\* A block of a reply as all there is of a file.
As(block, file) == <<[path |-> file, content |-> Literal(block), hunks |-> <<>>]>>

\* What is recovered of a reply is a block of it, as the one file of its ticket.
LEMMA RecoveredOne ==
    ASSUME NEW r, NEW files, NEW d, RecoverUnlabelled(r, files, d) # Refused
    PROVE  /\ Cardinality(files) = 1
           /\ \E f \in files, i \in DOMAIN r.blocks :
                 RecoverUnlabelled(r, files, d).edits = As(r.blocks[i], f)
<1> DEFINE path == CHOOSE f \in files : TRUE
           body == Inferred(r, d[path])
<1>1. Cardinality(files) = 1 /\ body # Refused
  BY DEF RecoverUnlabelled
<1>2. path \in files
  <2>1. files # {}
    BY <1>1, FS_EmptySet
  <2> QED
    BY <2>1
<1>3. PICK i \in DOMAIN r.blocks : body = Literal(r.blocks[i])
  <2> DEFINE size(b) == Cardinality(Literal(b))
             longest == {i \in DOMAIN r.blocks :
                      \A j \in DOMAIN r.blocks :
                        size(r.blocks[j]) < size(r.blocks[i])
                          \/ (size(r.blocks[j]) = size(r.blocks[i]) /\ i <= j)}
  <2>1. longest # {} /\ body = Literal(r.blocks[CHOOSE i \in longest : TRUE])
    BY <1>1 DEF Inferred
  <2>2. (CHOOSE i \in longest : TRUE) \in DOMAIN r.blocks
    BY <2>1
  <2> QED
    BY <2>1, <2>2
<1>4. RecoverUnlabelled(r, files, d).edits = <<[path |-> path, content |-> body, hunks |-> <<>>]>>
  BY <1>1 DEF RecoverUnlabelled, Parsed
<1> HIDE DEF path, body
<1> QED
  BY <1>1, <1>2, <1>3, <1>4 DEF As

\* So it is edits too.
LEMMA RecoveredTyped ==
    ASSUME NEW r, r.blocks \in Seq(BlockRecord), NEW files \in SUBSET Files, NEW d,
           RecoverUnlabelled(r, files, d) # Refused
    PROVE  RecoverUnlabelled(r, files, d).edits \in Seq(EditRecord)
<1>1. PICK f \in files, i \in DOMAIN r.blocks :
         RecoverUnlabelled(r, files, d).edits = As(r.blocks[i], f)
  BY RecoveredOne
<1>2. f \in Files /\ Literal(r.blocks[i]) \in Content
  <2>1. r.blocks[i] \in BlockRecord
    OBVIOUS
  <2> QED
    BY <2>1, LiteralTyped
<1> DEFINE e == [path |-> f, content |-> Literal(r.blocks[i]), hunks |-> <<>>]
<1>3. e \in EditRecord
  BY <1>2 DEF EditRecord
<1> HIDE DEF e
<1>4. As(r.blocks[i], f) = <<e>>
  BY DEF As, e
<1> QED
  BY <1>1, <1>3, <1>4

-----------------------------------------------------------------------------
(***************************************************************************)
(* What a ticket's variables hold.                                         *)
(***************************************************************************)
Flags == /\ impossible \in BOOLEAN /\ fresh \in BOOLEAN /\ empty \in BOOLEAN
         /\ scopeNote \in BOOLEAN /\ unchecked \in BOOLEAN

Data ==
    /\ disk \in [Files -> Content \cup {Absent}]
    /\ scope \in Scopes /\ status \in {"working", "done", "failed", "blocked"}
    /\ attempts \in 0..MaxAttempts /\ stamped \in TestFiles \cup {Absent}
    /\ round \in 0..2
    /\ pc \in {"idle", "executor", "land", "tests", "tester", "verify", "review", "over"}
              \cup {"painter", "lease", "drawing", "capture"}
    /\ written \subseteq scope /\ touched \subseteq scope /\ written \subseteq touched \cup Images
    /\ test \in TestFiles \cup {Absent} /\ authored \subseteq TestFiles
    /\ (status = "done" => pc = "over")

\* Where its tests go, what was parsed, and what an image ticket never does.
Places ==
    /\ parsed.edits \in Seq(EditRecord)
    /\ {test} \cup authored \subseteq (scope \cap TestFiles) \cup {OwnTest, Absent}
    /\ pc = "tester" => test # Absent
    /\ kind # "feature" => touched = {} /\ pc \notin {"executor", "land"}

NotRun == ~KindGate => /\ disk = Found /\ pc \in {"idle", "over"}
                       /\ status \in {"working", "blocked"} /\ (pc = "idle" => status = "working")

OfACase == \E c \in Cases : kind = c.kind /\ scope = c.scope

Counted == kills \in 0..MaxKills

Busy == pc \in {"idle", "over"} \/ status = "working"

LEMMA ShapeParts ==
    Shape <=> Flags /\ Data /\ Places /\ NotRun /\ OfACase /\ Counted /\ Busy
BY DEF Shape, TypeOK, Flags, Data, Places, NotRun, OfACase, Counted, Busy

\* What no step of an attempt changes.
fixedVars == <<scope, kind, setting>>
dataVars == <<disk, scope, status, attempts, stamped, round, pc, written, touched, test, authored>>

LEMMA NothingTyped == Nothing.edits \in Seq(EditRecord) /\ Silence.blocks \in Seq(BlockRecord)
BY DEF Nothing, Silence, Parsed, ReplyOf

\* A step that leaves the tree and the tests alone, and an attempt behind it.
LEMMA AttemptEnds ==
    ASSUME Data, Places, UNCHANGED <<disk, stamped, touched, authored>>, UNCHANGED fixedVars,
           attempts' \in 0..MaxAttempts, Over, status' \in {"working", "failed", "blocked"}
    PROVE  Data' /\ Places'
<1>1. Data'
  BY DEF Data, Over, fixedVars
<1>2. parsed'.edits \in Seq(EditRecord)
  BY NothingTyped DEF Over
<1>3. {test'} \cup authored' \subseteq (scope' \cap TestFiles) \cup {OwnTest, Absent}
  BY DEF Places, Over, fixedVars
<1> QED
  BY <1>1, <1>2, <1>3 DEF Places, Over, fixedVars

\* A step within an attempt that leaves all of it alone but where it stands.
LEMMA MovesOn ==
    ASSUME Data, Places, UNCHANGED <<disk, stamped, touched, authored, attempts, written, test, parsed>>,
           UNCHANGED fixedVars,
           round' \in 0..2, pc' \in {"executor", "tests", "tester", "verify", "review", "over"}
                                      \cup {"painter", "lease", "drawing", "capture"} \cup {pc},
           status' \in {"working", "done", "failed", "blocked"},
           status' = "done" => pc' = "over",
           pc' = "executor" => pc = "executor" \/ kind = "feature",
           pc' = "tester" => pc = "tester"
    PROVE  Data' /\ Places'
<1>1. Data'
  BY DEF Data, fixedVars
<1> QED
  BY <1>1 DEF Places, fixedVars

LEMMA BeginAttemptShape ==
    ASSUME Data, Places, BeginAttempt, UNCHANGED fixedVars, kind = "feature"
    PROVE  Data' /\ Places'
<1>1. attempts' \in 0..MaxAttempts
  BY TurnAssumption DEF BeginAttempt, Data
<1>2. CASE Blocks
  BY <1>1, <1>2, AttemptEnds DEF BeginAttempt, Blocks, kept
<1>3. CASE pc' = "executor" /\ round' = 1
            /\ UNCHANGED <<status, stamped, context, impossible, reply, parsed, work>>
  <2>1. /\ UNCHANGED <<disk, scope, stamped, written, touched, test, authored, parsed>>
        /\ status = "working" /\ status' = "working"
    BY <1>3 DEF BeginAttempt, work, kept
  <2>2. Data'
    BY <1>1, <1>3, <2>1 DEF Data
  <2> QED
    BY <1>3, <2>1, <2>2 DEF Places, fixedVars
<1> QED
  BY <1>2, <1>3 DEF BeginAttempt

LEMMA ExecutorShape ==
    ASSUME Data, Places, UNCHANGED fixedVars,
           ExecutorUnavailable \/ \E r \in ExecutorReplies : ExecutorAnswers(r)
    PROVE  Data' /\ Places'
<1>1. CASE ExecutorUnavailable
  <2>1. /\ UNCHANGED <<disk, stamped, touched, authored, attempts>> /\ Over
        /\ status' \in {"working", "failed", "blocked"}
    BY <1>1 DEF ExecutorUnavailable, Fails, Blocks, kept
  <2> QED
    BY <2>1, AttemptEnds DEF Data
<1>2. ASSUME NEW r \in ExecutorReplies, ExecutorAnswers(r) PROVE Data' /\ Places'
  <2> DEFINE answer == Parse(r)
             recovered == RecoverUnlabelled(r, scope, disk)
  <2>1. UNCHANGED <<disk, scope, stamped, touched, authored, attempts>>
    BY <1>2 DEF ExecutorAnswers, kept
  <2>2. CASE Over /\ status' \in {"working", "failed", "blocked"}
    BY <2>1, <2>2, AttemptEnds DEF Data
  <2>3. CASE round' = 2 /\ UNCHANGED <<status, pc, parsed, written, test>>
    BY <2>1, <2>3, MovesOn DEF Data
  <2>4. CASE /\ pc' = "land" /\ pc = "executor" /\ UNCHANGED <<status, round, written, test>>
             /\ \/ parsed' = answer
                \/ recovered # Refused /\ parsed' = recovered
    <3>1. r.blocks \in Seq(BlockRecord) /\ scope \in SUBSET Files
      BY TurnAssumption DEF Data
    <3>2. parsed'.edits \in Seq(EditRecord)
      BY <2>4, <3>1, ParseTyped, RecoveredTyped
    <3> HIDE DEF answer, recovered
    <3>3. Data'
      BY <2>1, <2>4 DEF Data
    <3> QED
      BY <2>1, <2>4, <3>2, <3>3 DEF Places, fixedVars
  <2>5. \/ Over /\ status' \in {"working", "failed", "blocked"}
        \/ round' = 2 /\ UNCHANGED <<status, pc, parsed, written, test>>
        \/ /\ pc' = "land" /\ pc = "executor" /\ UNCHANGED <<status, round, written, test>>
           /\ \/ parsed' = answer
              \/ recovered # Refused /\ parsed' = recovered
    BY <1>2 DEF ExecutorAnswers, Fails, Blocks, work
  <2> QED
    BY <2>2, <2>3, <2>4, <2>5
<1> QED
  BY <1>1, <1>2

\* The edits in scope of a ticket's parsed reply.
LEMMA LandingTyped ==
    ASSUME Data, Places
    PROVE  /\ Landing \in Stages /\ Landing.written \subseteq scope
           /\ \A f \in Files \ Landing.written : Landing.disk[f] = disk[f]
           /\ \A f \in Landing.written : Landing.disk[f] \in Content
<1>1. /\ Edits \in Seq(EditRecord)
      /\ \A i \in 1..Len(Edits) : Edits[i].path \in scope \ NeverDelegate
  BY InScopeTyped DEF Edits, Places
<1>2. disk \in [Files -> Content \cup {Absent}]
  BY DEF Data
<1> QED
  BY <1>1, <1>2, Applied DEF Landing

LEMMA LandShape ==
    ASSUME Data, Places, UNCHANGED fixedVars, kind = "feature",
           LandsNothing \/ LandsNowhere \/ ApplyRefused \/ Lands
    PROVE  Data' /\ Places'
<1>1. CASE LandsNothing
  <2>1. /\ UNCHANGED <<disk, stamped, touched, authored, attempts, written, test, parsed, round, status>>
        /\ pc' = "tests" /\ pc = "land"
    BY <1>1 DEF LandsNothing, ticket, kept
  <2> QED
    BY <2>1, MovesOn DEF Data
<1>2. CASE LandsNowhere
  <2>1. /\ UNCHANGED <<disk, stamped, touched, authored, attempts>> /\ Over
        /\ status' \in {"working", "failed"}
    BY <1>2 DEF LandsNowhere, Fails, kept
  <2> QED
    BY <2>1, AttemptEnds DEF Data
<1>3. CASE ApplyRefused
  <2>1. /\ UNCHANGED <<stamped, touched, authored, attempts>> /\ Over /\ status' = "blocked"
        /\ disk' = Landing.disk
    BY <1>3 DEF ApplyRefused, Blocks, kept
  <2>2. disk' \in [Files -> Content \cup {Absent}]
    BY <2>1, LandingTyped DEF Stages
  <2>3. Data'
    BY <2>1, <2>2 DEF Data, Over, fixedVars
  <2>4. parsed'.edits \in Seq(EditRecord)
    BY <2>1, NothingTyped DEF Over
  <2> QED
    BY <2>1, <2>3, <2>4 DEF Places, Over, fixedVars
<1>4. CASE Lands
  <2>1. /\ UNCHANGED <<stamped, authored, attempts, scope>> /\ disk' = Landing.disk
        /\ touched' = touched \cup Landing.written
        /\ \/ Over /\ status' \in {"working", "failed"}
           \/ /\ pc' = "tests" /\ written' = Landing.written
              /\ UNCHANGED <<status, round, parsed, test>> /\ pc = "land"
    BY <1>4 DEF Lands, Fails
  <2>2. /\ disk' \in [Files -> Content \cup {Absent}]
        /\ Landing.written \subseteq scope
    BY <2>1, LandingTyped DEF Stages
  <2>3. Data'
    BY <2>1, <2>2 DEF Data, Over, fixedVars
  <2>4. parsed'.edits \in Seq(EditRecord)
    BY <2>1, NothingTyped DEF Over, Places
  <2>5. pc' # "tester" /\ test' \in {test, Absent}
    BY <2>1 DEF Over
  <2> QED
    BY <2>1, <2>3, <2>4, <2>5 DEF Places, fixedVars
<1> QED
  BY <1>1, <1>2, <1>3, <1>4

\* Tests go to a test file the ticket may write, or to one of its own.
LEMMA TargetTyped ==
    ASSUME NEW files
    PROVE  TestTarget(scope, files, OwnTest) \in (scope \cap TestFiles) \cup {OwnTest, Absent}
BY DEF TestTarget

\* The edits of a tester's reply, which may only write its test.
Tester(r) == InScope(Parse(r), {test}, NeverDelegate)
TesterApplied(r) == ApplyEdits(disk, Tester(r))

LEMMA TesterTyped ==
    ASSUME Data, NEW r \in TesterReplies
    PROVE  /\ TesterApplied(r) \in Stages /\ TesterApplied(r).written \subseteq {test}
           /\ \A f \in Files \ TesterApplied(r).written : TesterApplied(r).disk[f] = disk[f]
           /\ Tester(r) = <<>> => TesterApplied(r).written = {}
<1>1. r.blocks \in Seq(BlockRecord)
  BY TurnAssumption
<1>2. /\ Tester(r) \in Seq(EditRecord)
      /\ \A i \in 1..Len(Tester(r)) : Tester(r)[i].path \in {test} \ NeverDelegate
  BY <1>1, ParseTyped, InScopeTyped DEF Tester
<1>3. disk \in [Files -> Content \cup {Absent}]
  BY DEF Data
<1>4. /\ TesterApplied(r) \in Stages
      /\ TesterApplied(r).written \subseteq {Tester(r)[i].path : i \in 1..Len(Tester(r))}
      /\ \A f \in Files \ TesterApplied(r).written : TesterApplied(r).disk[f] = disk[f]
  BY <1>2, <1>3, Applied DEF TesterApplied
<1> QED
  BY <1>2, <1>4

LEMMA TestsShape ==
    ASSUME Data, Places, UNCHANGED fixedVars,
           SkipTests \/ KeepTests \/ AskTester \/ TesterUnavailable
    PROVE  Data' /\ Places'
<1>1. CASE SkipTests \/ TesterUnavailable
  <2>1. /\ UNCHANGED <<disk, stamped, touched, authored, attempts, written, test, parsed, round, status>>
        /\ pc' = "verify" /\ pc \in {"tests", "tester"}
    BY <1>1 DEF SkipTests, TesterUnavailable, Unchecked, ticket, kept
  <2>2. round' \in 0..2 /\ status' \in {"working", "failed", "blocked"}
    BY <2>1 DEF Data
  <2> QED
    BY <2>1, <2>2, MovesOn
<1>2. CASE KeepTests \/ AskTester
  <2> DEFINE path == TestTarget(scope, written, OwnTest)
  <2>1. /\ UNCHANGED <<disk, stamped, touched, authored, attempts, written, parsed, status>>
        /\ pc' \in {"verify", "tester"} /\ round' \in {round, 1} /\ test' = path /\ path # Absent
        /\ pc = "tests"
    BY <1>2 DEF KeepTests, AskTester, ticket, kept
  <2>2. path \in (scope \cap TestFiles) \cup {OwnTest, Absent}
    BY TargetTyped
  <2>3. Data'
    BY <2>1, <2>2, TurnAssumption DEF Data, fixedVars
  <2> QED
    BY <2>1, <2>2, <2>3 DEF Places, fixedVars
<1> QED
  BY <1>1, <1>2

LEMMA TesterShape ==
    ASSUME Data, Places, UNCHANGED fixedVars, NEW r \in TesterReplies, TesterAnswers(r)
    PROVE  Data' /\ Places'
<1>1. UNCHANGED <<scope, attempts, touched, written, test, parsed>> \/ Over
  BY DEF TesterAnswers, Unchecked, Blocks, work
<1>2. UNCHANGED <<scope, attempts, touched>> /\ pc = "tester"
  BY DEF TesterAnswers
<1>3. CASE /\ Over /\ status' = "blocked" /\ UNCHANGED <<disk, stamped, authored>>
  BY <1>2, <1>3, AttemptEnds DEF Data
<1>4. CASE /\ UNCHANGED <<disk, stamped, authored, written, test, parsed, status>>
           /\ pc' \in {pc, "verify"} /\ round' \in {2, round}
  BY <1>2, <1>4, MovesOn DEF Data
<1>5. CASE /\ UNCHANGED <<written, test, parsed, status, round>> /\ pc' = "verify"
           /\ disk' = TesterApplied(r).disk /\ stamped' \in {stamped, test}
           /\ authored' \in {authored, authored \cup {test}}
  <2>1. disk' \in [Files -> Content \cup {Absent}]
    BY <1>5, TesterTyped DEF Stages
  <2>2. test # Absent
    BY <1>2 DEF Places
  <2>3. authored' \subseteq TestFiles /\ stamped' \in TestFiles \cup {Absent}
    BY <1>5, <2>2 DEF Data
  <2>4. Data'
    BY <1>2, <1>5, <2>1, <2>3 DEF Data
  <2> QED
    BY <1>2, <1>5, <2>4 DEF Places, fixedVars
<1>6. \/ Over /\ status' = "blocked" /\ UNCHANGED <<disk, stamped, authored>>
      \/ /\ UNCHANGED <<disk, stamped, authored, written, test, parsed, status>>
         /\ pc' \in {pc, "verify"} /\ round' \in {2, round}
      \/ /\ UNCHANGED <<written, test, parsed, status, round>> /\ pc' = "verify"
         /\ disk' = TesterApplied(r).disk /\ stamped' \in {stamped, test}
         /\ authored' \in {authored, authored \cup {test}}
  BY DEF TesterAnswers, Unchecked, Blocks, work, TesterApplied, Tester
<1> QED
  BY <1>3, <1>4, <1>5, <1>6

LEMMA JudgesShape ==
    ASSUME Data, Places, UNCHANGED fixedVars,
           \/ \E names \in SUBSET {test} : VerifyFails(names)
           \/ NotCollected \/ Verified \/ ReviewFails \/ Approved
    PROVE  Data' /\ Places'
<1>1. CASE (\E names \in SUBSET {test} : VerifyFails(names)) \/ NotCollected \/ ReviewFails
  <2>1. /\ UNCHANGED <<disk, stamped, touched, authored, attempts>> /\ Over
        /\ status' \in {"working", "failed"}
    BY <1>1 DEF VerifyFails, NotCollected, ReviewFails, Fails, kept
  <2> QED
    BY <2>1, AttemptEnds DEF Data
<1>2. CASE Verified
  <2>1. /\ UNCHANGED <<disk, stamped, touched, authored, attempts, written, test, parsed, round, status>>
        /\ pc' = "review" /\ pc = "verify"
    BY <1>2 DEF Verified, ticket, work, kept
  <2>2. round' \in 0..2 /\ status' \in {"working", "failed", "blocked"}
    BY <2>1 DEF Data
  <2> QED
    BY <2>1, <2>2, MovesOn
<1>3. CASE Approved
  <2>1. /\ UNCHANGED <<disk, stamped, touched, authored, attempts, written, test, parsed, round>>
        /\ pc' = "over" /\ status' = "done"
    BY <1>3 DEF Approved, work, kept
  <2>2. round' \in 0..2
    BY <2>1 DEF Data
  <2> QED
    BY <2>1, <2>2, MovesOn
<1> QED
  BY <1>1, <1>2, <1>3

\* A tree with some files as they were found and some gone is a tree.
LEMMA GiveUpShape ==
    ASSUME Data, Places, UNCHANGED fixedVars, GiveUp
    PROVE  Data' /\ Places'
<1>1. /\ UNCHANGED <<scope, stamped, touched, authored, attempts, written, test, parsed, round, status>>
      /\ pc' = "over"
  BY DEF GiveUp, ticket, work, kept
<1>2. disk' \in [Files -> Content \cup {Absent}]
  BY TurnAssumption DEF GiveUp, Data
<1>3. Data'
  BY <1>1, <1>2 DEF Data
<1> QED
  BY <1>1, <1>3 DEF Places, fixedVars

-----------------------------------------------------------------------------
\* The picture an image ticket draws is a file it may write.
LEMMA TargetIsPicture ==
    ASSUME kind = "image", KindGate
    PROVE  Target \in scope \cap Images
<1>1. Cardinality(ImageTargets) = 1
  BY DEF KindGate
<1>2. ImageTargets # {}
  BY <1>1, FS_EmptySet
<1> QED
  BY <1>2 DEF Target, ImageTargets

LEMMA BeforePictureShape ==
    ASSUME Data, Places, UNCHANGED fixedVars, Parked \/ BeginPicture \/ Exhausted
    PROVE  Data' /\ Places'
<1>1. CASE Parked
  <2>1. /\ UNCHANGED <<disk, stamped, touched, authored, attempts, written, test, parsed, round>>
        /\ pc' = "over" /\ status' = "blocked"
    BY <1>1 DEF Parked, work, kept
  <2>2. round' \in 0..2
    BY <2>1 DEF Data
  <2> QED
    BY <2>1, <2>2, MovesOn
<1>2. CASE BeginPicture
  <2>1. /\ UNCHANGED <<disk, stamped, touched, authored>> /\ attempts' \in 0..MaxAttempts
        /\ kind = "image"
    BY <1>2, PictureAssumption, TurnAssumption DEF BeginPicture, Data, kept
  <2>2. CASE Blocks
    BY <2>1, <2>2, AttemptEnds DEF Blocks
  <2>3. CASE pc' = "painter" /\ UNCHANGED <<status, round, parsed, work>> /\ status = "working"
    <3>1. UNCHANGED <<written, test, parsed, round>> /\ status' = "working"
      BY <2>3 DEF work
    <3>2. Data'
      BY <2>1, <2>3, <3>1 DEF Data, fixedVars
    <3> QED
      BY <2>1, <2>3, <3>1, <3>2 DEF Places, fixedVars
  <2> QED
    BY <1>2, <2>2, <2>3 DEF BeginPicture
<1>3. CASE Exhausted
  <2>1. /\ UNCHANGED <<disk, stamped, touched, authored, attempts, written, test, parsed, round, pc>>
        /\ status' = "failed"
    BY <1>3 DEF Exhausted, work, kept
  <2>2. round' \in 0..2
    BY <2>1 DEF Data
  <2>3. pc' \in {pc}
    BY <2>1
  <2> QED
    BY <2>1, <2>2, <2>3, MovesOn
<1> QED
  BY <1>1, <1>2, <1>3

LEMMA PaintingShape ==
    ASSUME Data, Places, UNCHANGED fixedVars,
           \/ PainterUnavailable \/ TakeLease \/ DrawingFails
           \/ \E fields \in SUBSET {"PROMPT", "EDIT", "BLOCKED"} : PainterAnswers(fields)
           \/ BeginCapture \/ EndCapture
    PROVE  Data' /\ Places'
<1>1. \/ /\ UNCHANGED <<disk, stamped, touched, authored, attempts>> /\ Over
         /\ status' \in {"working", "failed", "blocked"}
      \/ /\ UNCHANGED <<disk, stamped, touched, authored, attempts, written, test, parsed, round, status>>
         /\ pc' \in {"lease", "drawing", "capture", "review"} /\ pc # "over"
  BY DEF PainterUnavailable, TakeLease, DrawingFails, PainterAnswers, BeginCapture, EndCapture,
         Fails, Blocks, work, kept, ticket
<1>2. CASE /\ UNCHANGED <<disk, stamped, touched, authored, attempts>> /\ Over
           /\ status' \in {"working", "failed", "blocked"}
  BY <1>2, AttemptEnds DEF Data
<1>3. CASE /\ UNCHANGED <<disk, stamped, touched, authored, attempts, written, test, parsed, round, status>>
           /\ pc' \in {"lease", "drawing", "capture", "review"} /\ pc # "over"
  <2>1. round' \in 0..2 /\ status' \in {"working", "failed", "blocked"}
    BY <1>3 DEF Data
  <2> QED
    BY <1>3, <2>1, MovesOn
<1> QED
  BY <1>1, <1>2, <1>3

LEMMA DrawnShape ==
    ASSUME Data, Places, NotRun, UNCHANGED fixedVars, kind = "image", Drawn
    PROVE  Data' /\ Places'
<1>1. pc = "drawing" /\ Target \in scope \cap Images
  BY TargetIsPicture DEF Drawn, NotRun
<1>2. disk' \in [Files -> Content \cup {Absent}]
  BY PictureAssumption DEF Drawn, Data, Content
<1>3. /\ UNCHANGED <<stamped, touched, authored, attempts, test, parsed, round, status>>
      /\ written' = {Target} /\ pc' = "tests"
  BY DEF Drawn, kept, ticket
<1>4. status' # "done"
  BY <1>1, <1>3 DEF Data
<1>5. Data'
  BY <1>1, <1>2, <1>3, <1>4 DEF Data, fixedVars
<1> QED
  BY <1>3, <1>5 DEF Places, fixedVars

LEMMA AnewShape ==
    ASSUME Data, Places, UNCHANGED fixedVars, Retry \/ KilledAndStarted
    PROVE  Data' /\ Places'
<1>1. /\ UNCHANGED <<disk, stamped>> /\ Over /\ status' = "working" /\ touched' = {}
      /\ authored' = {} /\ attempts' \in {0, attempts}
  BY DEF Retry, KilledAndStarted
<1>2. attempts' \in 0..MaxAttempts
  BY <1>1, TurnAssumption DEF Data
<1>3. Data'
  BY <1>1, <1>2 DEF Data, Over, fixedVars
<1>4. parsed'.edits \in Seq(EditRecord)
  BY <1>1, NothingTyped DEF Over
<1> QED
  BY <1>1, <1>3, <1>4 DEF Places, Over, fixedVars

\* A ticket that is not run is blocked at once, and starts over as it was.
LEMMA NotRunStep ==
    ASSUME NotRun, PictureNext, UNCHANGED fixedVars
    PROVE  NotRun'
<1>1. KindGate' = KindGate
  BY DEF KindGate, ImageTargets, fixedVars
<1> SUFFICES ASSUME ~KindGate
             PROVE  /\ disk' = Found /\ pc' \in {"idle", "over"}
                    /\ status' \in {"working", "blocked"} /\ (pc' = "idle" => status' = "working")
  BY <1>1 DEF NotRun
<1>2. /\ kind # "feature" /\ disk = Found /\ pc \in {"idle", "over"}
      /\ status \in {"working", "blocked"} /\ (pc = "idle" => status = "working")
  BY DEF NotRun, KindGate
<1>3. CASE Parked \/ Retry \/ KilledAndStarted
  BY <1>2, <1>3 DEF Parked, Retry, KilledAndStarted, Over
<1>4. ~(\/ BeginPicture \/ PainterUnavailable \/ Exhausted
        \/ \E fields \in SUBSET {"PROMPT", "EDIT", "BLOCKED"} : PainterAnswers(fields))
  BY <1>2 DEF BeginPicture, PainterUnavailable, Exhausted, PainterAnswers
<1>5. ~Tested
  BY <1>2 DEF Tested, AskTester, SkipTests, KeepTests, TesterUnavailable, TesterAnswers
<1>6. ~Judged
  BY <1>2 DEF Judged, VerifyFails, NotCollected, Verified, GiveUp
<1>7. ~(TakeLease \/ DrawingFails \/ Drawn \/ BeginCapture \/ EndCapture \/ PictureApproved)
  BY <1>2 DEF TakeLease, DrawingFails, Drawn, BeginCapture, EndCapture, PictureApproved, Approved
<1>8. ~\E found \in Issues : PictureRejected(found) \/ NoVerdict(found)
  BY <1>2 DEF PictureRejected, NoVerdict, ReviewFails
<1> QED
  BY <1>2, <1>3, <1>4, <1>5, <1>6, <1>7, <1>8 DEF PictureNext

\* No step changes what a ticket may write, its kind or its settings.
LEMMA FixedStep ==
    ASSUME PictureNext
    PROVE  UNCHANGED fixedVars
<1>1. CASE Next /\ UNCHANGED pictureVars
  BY <1>1 DEF Next, pictureVars, record, fixedVars,
     BeginAttempt, ExecutorUnavailable, ExecutorAnswers, LandsNothing, LandsNowhere, ApplyRefused,
     Lands, SkipTests, KeepTests, AskTester, TesterUnavailable, TesterAnswers, VerifyFails,
     NotCollected, Verified, ReviewFails, Approved, GiveUp
<1>2. CASE Parked \/ BeginPicture \/ PainterUnavailable \/ Exhausted \/ Retry \/ KilledAndStarted
  BY <1>2 DEF Parked, BeginPicture, PainterUnavailable, Exhausted, Retry, KilledAndStarted,
     pictureVars, record, fixedVars
<1>3. CASE \E fields \in SUBSET {"PROMPT", "EDIT", "BLOCKED"} : PainterAnswers(fields)
  BY <1>3 DEF PainterAnswers, pictureVars, record, fixedVars
<1>4. CASE Tested /\ UNCHANGED <<record, rejections, captured>>
  BY <1>4 DEF Tested, record, fixedVars, SkipTests, KeepTests, AskTester, TesterUnavailable,
     TesterAnswers
<1>5. CASE Judged /\ UNCHANGED pictureVars
  BY <1>5 DEF Judged, pictureVars, record, fixedVars, VerifyFails, NotCollected, Verified, GiveUp
<1>6. CASE TakeLease \/ DrawingFails \/ Drawn \/ BeginCapture \/ EndCapture \/ PictureApproved
  BY <1>6 DEF TakeLease, DrawingFails, Drawn, BeginCapture, EndCapture, PictureApproved, Approved,
     record, fixedVars
<1>7. CASE \E found \in Issues : PictureRejected(found) \/ NoVerdict(found)
  BY <1>7 DEF PictureRejected, NoVerdict, ReviewFails, fixedVars
<1> QED
  BY <1>1, <1>2, <1>3, <1>4, <1>5, <1>6, <1>7 DEF PictureNext

LEMMA PlacesStep ==
    ASSUME Data, Places, NotRun, PictureNext
    PROVE  Data' /\ Places'
<1>0. UNCHANGED fixedVars
  BY FixedStep
<1>1. CASE kind = "feature" /\ Next
  BY <1>0, <1>1, BeginAttemptShape, ExecutorShape, LandShape, TestsShape, TesterShape, JudgesShape,
     GiveUpShape DEF Next
<1>2. CASE Parked \/ BeginPicture \/ Exhausted
  BY <1>0, <1>2, BeforePictureShape
<1>3. CASE \/ PainterUnavailable \/ TakeLease \/ DrawingFails
           \/ \E fields \in SUBSET {"PROMPT", "EDIT", "BLOCKED"} : PainterAnswers(fields)
           \/ BeginCapture \/ EndCapture
  BY <1>0, <1>3, PaintingShape
<1>4. CASE Tested
  BY <1>0, <1>4, TestsShape, TesterShape DEF Tested
<1>5. CASE Judged
  BY <1>0, <1>5, JudgesShape, GiveUpShape DEF Judged
<1>6. CASE kind = "image" /\ Drawn
  BY <1>0, <1>6, DrawnShape
<1>7. CASE PictureApproved \/ \E found \in Issues : PictureRejected(found) \/ NoVerdict(found)
  BY <1>0, <1>7, JudgesShape DEF PictureApproved, PictureRejected, NoVerdict
<1>8. CASE Retry \/ KilledAndStarted
  BY <1>0, <1>8, AnewShape
<1> QED
  BY <1>1, <1>2, <1>3, <1>4, <1>5, <1>6, <1>7, <1>8 DEF PictureNext

-----------------------------------------------------------------------------
\* Where an attempt's flags are touched.
LEMMA FlagsMove ==
    ASSUME PictureNext
    PROVE  /\ UNCHANGED impossible \/ \E r \in ExecutorReplies : impossible' = (impossible \/ Parse(r).impossible)
           /\ \/ Over \/ UNCHANGED <<empty, scopeNote, fresh, unchecked>>
              \/ LandsNothing \/ Lands \/ SkipTests \/ AskTester \/ Unchecked
<1>1. CASE Next /\ UNCHANGED pictureVars
  BY <1>1 DEF Next, ticket, work,
     BeginAttempt, ExecutorUnavailable, ExecutorAnswers, LandsNothing, LandsNowhere, ApplyRefused,
     Lands, SkipTests, KeepTests, AskTester, TesterUnavailable, TesterAnswers, VerifyFails,
     NotCollected, Verified, ReviewFails, Approved, GiveUp, Fails, Blocks, Unchecked
<1>2. CASE Parked \/ BeginPicture \/ PainterUnavailable \/ Exhausted \/ Retry \/ KilledAndStarted
  BY <1>2 DEF Parked, BeginPicture, PainterUnavailable, Exhausted, Retry, KilledAndStarted,
     Fails, Blocks, work
<1>3. CASE \E fields \in SUBSET {"PROMPT", "EDIT", "BLOCKED"} : PainterAnswers(fields)
  BY <1>3 DEF PainterAnswers, Fails, Blocks, work
<1>4. CASE Tested
  BY <1>4 DEF Tested, SkipTests, KeepTests, AskTester, TesterUnavailable,
     TesterAnswers, Fails, Blocks, work, ticket, Unchecked
<1>5. CASE Judged
  BY <1>5 DEF Judged, VerifyFails, NotCollected, Verified, GiveUp, Fails, work, ticket
<1>6. CASE TakeLease \/ DrawingFails \/ Drawn \/ BeginCapture \/ EndCapture \/ PictureApproved
  BY <1>6 DEF TakeLease, DrawingFails, Drawn, BeginCapture, EndCapture, PictureApproved, Approved,
     Fails, Blocks, work, ticket
<1>7. CASE \E found \in Issues : PictureRejected(found) \/ NoVerdict(found)
  BY <1>7 DEF PictureRejected, NoVerdict, ReviewFails, Fails
<1> QED
  BY <1>1, <1>2, <1>3, <1>4, <1>5, <1>6, <1>7 DEF PictureNext

LEMMA FlagsStep ==
    ASSUME Flags, PictureNext
    PROVE  Flags'
<1>1. impossible' \in BOOLEAN
  <2>1. CASE UNCHANGED impossible
    BY <2>1 DEF Flags
  <2>2. ASSUME NEW r, impossible' = (impossible \/ Parse(r).impossible)
        PROVE  impossible' \in BOOLEAN
    <3>1. (impossible \/ Parse(r).impossible) \in BOOLEAN
      OBVIOUS
    <3> QED
      BY ONLY <2>2, <3>1
  <2> QED
    BY <2>1, <2>2, FlagsMove
<1>2. empty' \in BOOLEAN /\ scopeNote' \in BOOLEAN /\ fresh' \in BOOLEAN /\ unchecked' \in BOOLEAN
  <2>1. CASE Over \/ UNCHANGED <<empty, scopeNote, fresh, unchecked>>
    BY <2>1 DEF Flags, Over
  <2>2. CASE LandsNothing \/ Unchecked
    BY <2>2 DEF LandsNothing, Unchecked, Flags
  <2>3. CASE Lands
    <3>1. \/ Over
          \/ scopeNote' = (Len(Edits) < Len(parsed.edits)) /\ UNCHANGED <<empty, fresh, unchecked>>
      BY <2>3 DEF Lands, Fails
    <3>2. (Len(Edits) < Len(parsed.edits)) \in BOOLEAN
      OBVIOUS
    <3> DEFINE fewer == Len(Edits) < Len(parsed.edits)
    <3> HIDE DEF fewer
    <3>3. CASE Over
      BY <3>3 DEF Over
    <3>4. CASE scopeNote' = fewer /\ UNCHANGED <<empty, fresh, unchecked>>
      <4>1. fewer \in BOOLEAN
        BY ONLY <3>2 DEF fewer
      <4> QED
        BY <3>4, <4>1 DEF Flags
    <3> QED
      BY <3>1, <3>3, <3>4 DEF fewer
  <2>4. CASE SkipTests
    BY <2>4 DEF SkipTests, Flags
  <2>5. CASE AskTester
    BY <2>5 DEF AskTester, Flags
  <2> QED
    BY <2>1, <2>2, <2>3, <2>4, <2>5, FlagsMove
<1> QED
  BY <1>1, <1>2 DEF Flags

LEMMA CountedStep ==
    ASSUME Counted, PictureNext
    PROVE  Counted'
<1>1. CASE UNCHANGED kills
  BY <1>1 DEF Counted
<1>2. CASE kills < MaxKills /\ kills' = kills + 1
  BY <1>2, PictureAssumption DEF Counted
<1>3. UNCHANGED kills \/ (kills < MaxKills /\ kills' = kills + 1)
  BY DEF PictureNext, Parked, BeginPicture, PainterUnavailable, PainterAnswers, TakeLease, DrawingFails,
     Drawn, BeginCapture, EndCapture, PictureRejected, NoVerdict, PictureApproved, Exhausted, Retry,
     KilledAndStarted, pictureVars, record
<1> QED
  BY <1>1, <1>2, <1>3

\* Within an attempt the ticket is being worked on.
LEMMA BusyStep ==
    ASSUME Busy, PictureNext
    PROVE  Busy'
<1>1. CASE Next /\ UNCHANGED pictureVars
  BY <1>1 DEF Next, ticket, Busy, Over,
     BeginAttempt, ExecutorUnavailable, ExecutorAnswers, LandsNothing, LandsNowhere, ApplyRefused,
     Lands, SkipTests, KeepTests, AskTester, TesterUnavailable, TesterAnswers, VerifyFails,
     NotCollected, Verified, ReviewFails, Approved, GiveUp, Fails, Blocks, Unchecked
<1>2. CASE Parked \/ BeginPicture \/ PainterUnavailable \/ Exhausted \/ Retry \/ KilledAndStarted
  BY <1>2 DEF Parked, BeginPicture, PainterUnavailable, Exhausted, Retry, KilledAndStarted,
     Fails, Blocks, Busy, Over
<1>3. CASE \E fields \in SUBSET {"PROMPT", "EDIT", "BLOCKED"} : PainterAnswers(fields)
  BY <1>3 DEF PainterAnswers, Fails, Blocks, Busy, Over
<1>4. CASE Tested
  BY <1>4 DEF Tested, SkipTests, KeepTests, AskTester, TesterUnavailable,
     TesterAnswers, Fails, Blocks, Busy, Over, ticket, Unchecked
<1>5. CASE Judged
  BY <1>5 DEF Judged, VerifyFails, NotCollected, Verified, GiveUp, Fails, Busy, Over, ticket
<1>6. CASE TakeLease \/ DrawingFails \/ Drawn \/ BeginCapture \/ EndCapture \/ PictureApproved
  BY <1>6 DEF TakeLease, DrawingFails, Drawn, BeginCapture, EndCapture, PictureApproved, Approved,
     Fails, Blocks, Busy, Over, ticket
<1>7. CASE \E found \in Issues : PictureRejected(found) \/ NoVerdict(found)
  BY <1>7 DEF PictureRejected, NoVerdict, ReviewFails, Fails, Busy, Over
<1> QED
  BY <1>1, <1>2, <1>3, <1>4, <1>5, <1>6, <1>7 DEF PictureNext

LEMMA ShapeStep ==
    ASSUME Shape, [PictureNext]_allVars
    PROVE  Shape'
<1> USE DEF Shape
<1>1. CASE UNCHANGED allVars
  BY <1>1 DEF TypeOK, KindGate, ImageTargets, allVars, vars, ticket, work, kept, pictureVars, record
<1>2. CASE PictureNext
  <2>1. Flags /\ Data /\ Places /\ NotRun /\ OfACase /\ Counted /\ Busy
    BY ShapeParts
  <2>2. Flags' /\ Data' /\ Places' /\ NotRun' /\ OfACase' /\ Counted' /\ Busy'
    BY <1>2, <2>1, FlagsStep, PlacesStep, NotRunStep, FixedStep, CountedStep, BusyStep DEF OfACase, fixedVars
  <2> QED
    BY <2>2, ShapeParts, PTL
<1> QED
  BY <1>1, <1>2

-----------------------------------------------------------------------------
\* Of one file: it is as it was found, or a test that was there, or known to be
\* the ticket's, which has not been taken back yet.
KnownOf(f) ==
    \/ disk[f] = Found[f]
    \/ f \in scope \cap TestFiles /\ Found[f] # Absent
    \/ f \in touched \cup Discarded /\ (pc # "over" \/ status = "done")

Known == \A f \in Files \ Images : KnownOf(f)

\* A step that writes nothing and forgets nothing.
LEMMA KnownStays ==
    ASSUME Known, UNCHANGED <<disk, scope>>, touched \subseteq touched', authored \subseteq authored',
           pc' # "over" \/ status' = "done" \/ (pc = "over" /\ status # "done")
    PROVE  Known'
BY DEF Known, KnownOf, Discarded

\* A step that writes files it owns up to.
LEMMA KnownWrites ==
    ASSUME Known, UNCHANGED scope, touched \subseteq touched', authored \subseteq authored',
           pc' # "over",
           \A f \in Files \ Images : \/ disk'[f] = disk[f]
                                     \/ f \in touched' \cup Discarded'
                                     \/ f \in scope \cap TestFiles /\ Found[f] # Absent
    PROVE  Known'
BY DEF Known, KnownOf, Discarded

LEMMA LandsKnown ==
    ASSUME Data, Places, Known, QuarantineFailed, ~torn, ~torn', UNCHANGED fixedVars, kind = "feature",
           LandsNothing \/ LandsNowhere \/ ApplyRefused \/ Lands
    PROVE  Known'
<1>1. CASE LandsNothing \/ LandsNowhere
  <2>1. UNCHANGED <<disk, touched, authored>> /\ pc' # "over"
    BY <1>1 DEF LandsNothing, LandsNowhere, Fails, Over, kept
  <2> QED
    BY <2>1, KnownStays DEF fixedVars
<1>2. CASE ApplyRefused
  <2>1. /\ UNCHANGED <<touched, authored>> /\ pc' # "over"
        /\ disk' = Landing.disk /\ Landing.written = {}
    BY <1>2 DEF ApplyRefused, Blocks, Over, kept
  <2>2. \A f \in Files : disk'[f] = disk[f]
    BY <2>1, LandingTyped
  <2> QED
    BY <2>1, <2>2, KnownWrites DEF fixedVars
<1>3. CASE Lands
  <2>1. /\ UNCHANGED authored /\ pc' # "over" /\ disk' = Landing.disk
        /\ touched' = touched \cup Landing.written
    BY <1>3 DEF Lands, Fails, Over
  <2>2. \A f \in Files \ Landing.written : disk'[f] = disk[f]
    BY <2>1, LandingTyped
  <2> QED
    BY <2>1, <2>2, KnownWrites DEF fixedVars
<1> QED
  BY <1>1, <1>2, <1>3

LEMMA TesterKnown ==
    ASSUME Data, Places, Known, QuarantineFailed, ~torn, ~torn', UNCHANGED fixedVars,
           NEW r \in TesterReplies, TesterAnswers(r)
    PROVE  Known'
<1>1. UNCHANGED touched /\ authored \subseteq authored' /\ pc' # "over" /\ pc = "tester"
  BY DEF TesterAnswers, Unchecked, Blocks, Over
<1> DEFINE Recorded == authored' = IF Tester(r) # <<>> /\ disk[test] = Absent THEN authored \cup {test}
                                   ELSE authored
<1>2. \/ UNCHANGED disk
      \/ disk' = TesterApplied(r).disk /\ TesterApplied(r).written = {}
      \/ disk' = TesterApplied(r).disk /\ Recorded
  BY DEF TesterAnswers, TesterApplied, Tester
<1>3. CASE \/ UNCHANGED disk
           \/ disk' = TesterApplied(r).disk /\ TesterApplied(r).written = {}
  <2>1. \A f \in Files : disk'[f] = disk[f]
    BY <1>3, TesterTyped
  <2> QED
    BY <1>1, <2>1, KnownWrites DEF fixedVars
<1>4. CASE disk' = TesterApplied(r).disk /\ Recorded
  <2>1. CASE Tester(r) = <<>>
    <3>1. \A f \in Files : disk'[f] = disk[f]
      BY <1>4, <2>1, TesterTyped
    <3> QED
      BY <1>1, <3>1, KnownWrites DEF fixedVars
  <2>2. CASE Tester(r) # <<>>
    <3>1. \A f \in Files \ {test} : disk'[f] = disk[f]
      BY <1>4, TesterTyped
    <3>2. test \in (scope \cap TestFiles) \cup {OwnTest}
      BY <1>1 DEF Places
    <3>3. test \in Files \ Images =>
             \/ test \in touched' \cup Discarded'
             \/ test \in scope \cap TestFiles /\ Found[test] # Absent
      <4>1. CASE test = OwnTest \/ disk[test] = Absent
        BY <1>4, <2>2, <4>1 DEF Discarded
      <4>2. CASE test \in scope \cap TestFiles /\ disk[test] # Absent /\ Found[test] = Absent
        BY <1>1, <4>2 DEF Known, KnownOf, Discarded
      <4> QED
        BY <3>2, <4>1, <4>2
    <3>4. \A f \in Files \ Images : \/ disk'[f] = disk[f]
                                    \/ f \in touched' \cup Discarded'
                                    \/ f \in scope \cap TestFiles /\ Found[f] # Absent
      BY <3>1, <3>3
    <3> QED
      BY <1>1, <3>4, KnownWrites DEF fixedVars
  <2> QED
    BY <2>1, <2>2
<1> HIDE DEF Recorded
<1> QED
  BY <1>2, <1>3, <1>4

LEMMA GiveUpKnown ==
    ASSUME Data, Places, Known, QuarantineFailed, UNCHANGED fixedVars, GiveUp
    PROVE  Known'
<1> SUFFICES ASSUME NEW f \in Files \ Images
             PROVE  \/ disk'[f] = Found[f]
                    \/ f \in scope \cap TestFiles /\ Found[f] # Absent
  BY DEF Known, KnownOf, fixedVars
<1>1. /\ pc = "idle" /\ UNCHANGED <<scope, touched, authored>>
      /\ disk'[f] = IF f \in touched THEN Found[f] ELSE IF f \in Discarded THEN Absent ELSE disk[f]
  BY DEF GiveUp, Quarantined, kept
<1>2. Found[OwnTest] = Absent
  BY TurnAssumption
<1>3. authored \subseteq (scope \cap TestFiles) \cup {OwnTest, Absent} /\ f # Absent
  BY TurnAssumption DEF Places
<1>4. KnownOf(f)
  BY DEF Known
<1> QED
  BY <1>1, <1>2, <1>3, <1>4 DEF KnownOf, Discarded

LEMMA AnewKnown ==
    ASSUME Data, Places, OfACase, Counted, Known, KillsForgetNothing, UNCHANGED fixedVars, Retry \/ KilledAndStarted
    PROVE  Known'
<1>1. /\ UNCHANGED <<disk, scope>> /\ kind = "image" /\ pc' = "idle"
  BY DEF Retry, KilledAndStarted, Over
<1>2. CASE Retry
  <2>1. pc = "over" /\ status # "done"
    BY <1>2 DEF Retry
  <2> QED
    BY <1>1, <2>1 DEF Known, KnownOf
<1>3. CASE KilledAndStarted /\ kills < MaxKills
  <2>1. CASE MaxKills # 0
    <3>1. \A f \in scope \cap TestFiles : Found[f] # Absent
      BY <1>1, <2>1 DEF KillsForgetNothing, OfACase
    <3>2. touched = {} /\ authored \subseteq (scope \cap TestFiles) \cup {OwnTest, Absent}
      BY <1>1 DEF Places
    <3>3. \A f \in Files : f # Absent
      BY TurnAssumption
    <3> QED
      BY <1>1, <3>1, <3>2, <3>3 DEF Known, KnownOf, Discarded
  <2>2. MaxKills # 0
    BY <1>3, PictureAssumption DEF Counted
  <2> QED
    BY <2>1, <2>2
<1> QED
  BY <1>2, <1>3 DEF KilledAndStarted

-----------------------------------------------------------------------------
\* The steps that write nothing.
Still ==
    \/ kind = "feature" /\ (BeginAttempt \/ ExecutorUnavailable \/ \E r \in ExecutorReplies : ExecutorAnswers(r))
    \/ SkipTests \/ KeepTests \/ AskTester \/ TesterUnavailable
    \/ \E names \in SUBSET {test} : VerifyFails(names)
    \/ NotCollected \/ Verified \/ ReviewFails \/ Approved
    \/ BeginPicture \/ PainterUnavailable \/ Exhausted
    \/ \E fields \in SUBSET {"PROMPT", "EDIT", "BLOCKED"} : PainterAnswers(fields)
    \/ TakeLease \/ DrawingFails \/ BeginCapture \/ EndCapture

Loud ==
    \/ kind = "feature" /\ (LandsNothing \/ LandsNowhere \/ ApplyRefused \/ Lands)
    \/ \E r \in TesterReplies : TesterAnswers(r)
    \/ GiveUp
    \/ kind = "image" /\ Drawn
    \/ Parked \/ Retry \/ KilledAndStarted

LEMMA StillOrLoud ==
    ASSUME PictureNext
    PROVE  Still \/ Loud
<1>1. CASE kind = "feature" /\ Next
  BY <1>1 DEF Next, Still, Loud
<1>2. CASE Tested
  BY <1>2 DEF Tested, Still, Loud
<1>3. CASE Judged
  BY <1>3 DEF Judged, Still, Loud
<1>4. CASE \/ TakeLease \/ DrawingFails \/ (kind = "image" /\ Drawn) \/ BeginCapture \/ EndCapture
  BY <1>4 DEF Still, Loud
<1>5. CASE PictureApproved \/ \E found \in Issues : PictureRejected(found) \/ NoVerdict(found)
  BY <1>5 DEF PictureApproved, PictureRejected, NoVerdict, Still
<1> QED
  BY <1>1, <1>2, <1>3, <1>4, <1>5 DEF PictureNext, Still, Loud

LEMMA StillKeeps ==
    ASSUME Still
    PROVE  /\ UNCHANGED <<disk, touched, authored, torn, named, unread>>
           /\ pc' # "over" \/ status' = "done"
           /\ status' = status \/ status' \in {"working", "failed", "blocked", "done"}
<1>1. CASE BeginAttempt \/ ExecutorUnavailable \/ \E r \in ExecutorReplies : ExecutorAnswers(r)
  BY <1>1 DEF BeginAttempt, ExecutorUnavailable, ExecutorAnswers, Fails, Blocks, Over, kept, history
<1>2. CASE SkipTests \/ KeepTests \/ AskTester \/ TesterUnavailable
  BY <1>2 DEF SkipTests, KeepTests, AskTester, TesterUnavailable, Unchecked, kept, history, ticket
<1>3. CASE \/ \E names \in SUBSET {test} : VerifyFails(names)
           \/ NotCollected \/ Verified \/ ReviewFails \/ Approved
  BY <1>3 DEF VerifyFails, NotCollected, Verified, ReviewFails, Approved, Fails, Over, kept, history, ticket
<1>4. CASE \/ BeginPicture \/ PainterUnavailable \/ Exhausted
           \/ \E fields \in SUBSET {"PROMPT", "EDIT", "BLOCKED"} : PainterAnswers(fields)
           \/ TakeLease \/ DrawingFails \/ BeginCapture \/ EndCapture
  BY <1>4 DEF BeginPicture, PainterUnavailable, Exhausted, PainterAnswers, TakeLease, DrawingFails,
     BeginCapture, EndCapture, Fails, Blocks, Over, kept, history, ticket
<1> QED
  BY <1>1, <1>2, <1>3, <1>4 DEF Still

\* An apply that was refused part-way stays on record.
LEMMA TornStays ==
    ASSUME PictureNext, torn
    PROVE  torn'
<1>1. CASE Still
  BY <1>1, StillKeeps
<1>2. CASE Loud
  <2>1. \/ UNCHANGED torn
        \/ torn' = (torn \/ Landing.written # {})
        \/ \E r : torn' = (torn \/ TesterApplied(r).written # {})
    BY <1>2 DEF Loud, LandsNothing, LandsNowhere, ApplyRefused, Lands, TesterAnswers, GiveUp, Drawn, Parked,
       Retry, KilledAndStarted, history, TesterApplied, Tester
  <2>2. CASE torn' = (torn \/ Landing.written # {})
    BY <2>2
  <2>3. ASSUME NEW r, torn' = (torn \/ TesterApplied(r).written # {}) PROVE torn'
    BY <2>3
  <2>4. CASE UNCHANGED torn
    BY <2>4
  <2> QED
    BY <2>1, <2>2, <2>3, <2>4
<1> QED
  BY <1>1, <1>2, StillOrLoud

LEMMA WorkParts == WorkIsKnown <=> (QuarantineFailed /\ ~torn => Known)
BY DEF WorkIsKnown, Known, KnownOf

LEMMA KnownStep ==
    ASSUME Shape, WorkIsKnown, KillsForgetNothing, [PictureNext]_allVars
    PROVE  WorkIsKnown'
<1>1. CASE UNCHANGED allVars
  BY <1>1 DEF WorkIsKnown, Discarded, allVars, vars, ticket, kept, history
<1>2. CASE PictureNext
  <2> SUFFICES ASSUME QuarantineFailed, ~torn' PROVE Known'
    BY DEF WorkIsKnown, Known, KnownOf
  <2>1. ~torn /\ Known
    BY <1>2, TornStays, WorkParts
  <2>2. Data /\ Places /\ NotRun /\ OfACase /\ Counted /\ Busy
    BY ShapeParts
  <2>3. UNCHANGED fixedVars /\ UNCHANGED scope
    BY <1>2, FixedStep DEF fixedVars
  <2>4. CASE Still
    BY <2>1, <2>3, <2>4, StillKeeps, KnownStays
  <2>5. CASE kind = "feature" /\ (LandsNothing \/ LandsNowhere \/ ApplyRefused \/ Lands)
    BY <2>1, <2>2, <2>3, <2>5, LandsKnown
  <2>6. CASE \E r \in TesterReplies : TesterAnswers(r)
    BY <2>1, <2>2, <2>3, <2>6, TesterKnown
  <2>7. CASE GiveUp
    BY <2>1, <2>2, <2>3, <2>7, GiveUpKnown
  <2>8. CASE kind = "image" /\ Drawn
    <3>1. Target \in Images /\ pc' # "over" /\ UNCHANGED <<touched, authored>>
      BY <2>2, <2>8, TargetIsPicture DEF Drawn, NotRun, kept
    <3>2. \A f \in Files \ Images : disk'[f] = disk[f]
      BY <2>2, <2>8, <3>1 DEF Drawn, Data
    <3> QED
      BY <2>1, <2>3, <3>1, <3>2, KnownWrites
  <2>9. CASE Parked
    <3>1. disk' = Found
      BY <2>2, <2>9 DEF Parked, NotRun
    <3> QED
      BY <3>1 DEF Known, KnownOf
  <2>10. CASE Retry \/ KilledAndStarted
    BY <2>1, <2>2, <2>3, <2>10, AnewKnown
  <2> QED
    BY <1>2, <2>4, <2>5, <2>6, <2>7, <2>8, <2>9, <2>10, StillOrLoud DEF Loud
<1> QED
  BY <1>1, <1>2

-----------------------------------------------------------------------------
\* Of one manifest, that nothing was lost of it that was not named.
KeptOf(f) == /\ Declared(Found[f]) # Absent => Declared(disk[f]) # Absent
             /\ Dropped(Found[f], disk[f]) \subseteq named

LEMMA LossParts ==
    LossesKnown <=> /\ kind # "feature" => \A f \in Manifests : disk[f] = Found[f]
                    /\ status \in {"working", "done"} => \A f \in Manifests \ unread : KeptOf(f)
BY DEF LossesKnown, KeptOf

\* Nothing is lost of a manifest that is as it was found.
LEMMA FoundKept ==
    ASSUME NEW f, disk[f] = Found[f]
    PROVE  KeptOf(f)
BY DEF KeptOf, Dropped

\* A step that does not touch the manifests.
LEMMA LossesStay ==
    ASSUME LossesKnown, UNCHANGED <<kind, named, unread>>, \A f \in Manifests : disk'[f] = disk[f],
           kind = "feature" /\ status' \in {"working", "done"} => status \in {"working", "done"}
    PROVE  LossesKnown'
<1>1. (kind # "feature" => \A f \in Manifests : disk[f] = Found[f])
  BY LossParts
<1>2. CASE kind # "feature"
  <2>1. \A f \in Manifests : disk'[f] = Found[f]
    BY <1>1, <1>2
  <2> QED
    BY <1>2, <2>1 DEF LossesKnown, Dropped
<1>3. CASE kind = "feature"
  BY <1>3 DEF LossesKnown
<1> QED
  BY <1>2, <1>3

\* A loss is between what was found and what is there, or between that and what lands.
LEMMA DroppedInSteps ==
    ASSUME NEW a, NEW b, NEW c, Declared(a) # Absent => Declared(b) # Absent, Declared(c) # Absent
    PROVE  Dropped(a, c) \subseteq Dropped(a, b) \cup Dropped(b, c)
BY DEF Dropped

LEMMA LandsLosses ==
    ASSUME Data, Places, Busy, LossesKnown, UNCHANGED fixedVars, kind = "feature", Lands
    PROVE  LossesKnown'
<1>1. /\ disk' = Landing.disk /\ pc = "land"
      /\ unread' = unread \cup {f \in Manifests : disk'[f] # Absent /\ Declared(disk'[f]) = Absent}
      /\ named' = named \cup Losses(disk, disk', Landing.written)
  BY DEF Lands
<1>2. \A f \in Manifests \ unread : KeptOf(f)
  BY <1>1, LossParts DEF Busy
<1> SUFFICES ASSUME NEW f \in Manifests, f \notin unread'
             PROVE  /\ Declared(Found[f]) # Absent => Declared(disk'[f]) # Absent
                    /\ Dropped(Found[f], disk'[f]) \subseteq named'
  BY DEF LossesKnown, fixedVars
<1>3. f \in Files /\ KeptOf(f)
  BY <1>1, <1>2, TurnAssumption
<1>4. CASE f \notin Landing.written
  <2>1. disk'[f] = disk[f]
    BY <1>1, <1>3, <1>4, LandingTyped
  <2> QED
    BY <1>1, <1>3, <2>1 DEF KeptOf
<1>5. CASE f \in Landing.written
  <2>1. disk'[f] # Absent
    BY <1>1, <1>5, LandingTyped, ReplyAssumption
  <2>2. Declared(disk'[f]) # Absent
    BY <1>1, <2>1
  <2>3. Dropped(disk[f], disk'[f]) \subseteq named'
    BY <1>1, <1>5 DEF Losses
  <2>4. Dropped(Found[f], disk'[f]) \subseteq Dropped(Found[f], disk[f]) \cup Dropped(disk[f], disk'[f])
    BY <1>3, <2>2, DroppedInSteps DEF KeptOf
  <2> QED
    BY <1>1, <1>3, <2>2, <2>3, <2>4 DEF KeptOf
<1> QED
  BY <1>4, <1>5

LEMMA LossStep ==
    ASSUME Shape, LossesKnown, ManifestsApart, [PictureNext]_allVars
    PROVE  LossesKnown'
<1>0. Data /\ Places /\ NotRun /\ Busy
  BY ShapeParts
<1>1. CASE UNCHANGED allVars
  BY <1>1 DEF LossesKnown, allVars, vars, ticket, pictureVars, record, history
<1>2. CASE PictureNext
  <2>1. UNCHANGED fixedVars /\ UNCHANGED kind
    BY <1>2, FixedStep DEF fixedVars
  <2>2. CASE Still
    <3>1. kind = "feature" /\ status' \in {"working", "done"} => status \in {"working", "done"}
      BY <1>0, <2>2 DEF Busy, Still, BeginAttempt, ExecutorUnavailable, ExecutorAnswers, SkipTests,
         KeepTests, AskTester, TesterUnavailable, VerifyFails, NotCollected, Verified, ReviewFails,
         Approved, BeginPicture, PainterUnavailable, Exhausted, PainterAnswers, TakeLease,
         DrawingFails, BeginCapture, EndCapture
    <3> QED
      BY <2>1, <2>2, <3>1, StillKeeps, LossesStay
  <2>3. CASE kind = "feature" /\ Lands
    BY <1>0, <2>1, <2>3, LandsLosses
  <2>4. CASE LandsNothing \/ LandsNowhere
    <3>1. UNCHANGED <<disk, named, unread>> /\ status = "working"
      BY <1>0, <2>4 DEF LandsNothing, LandsNowhere, history, Busy
    <3> QED
      BY <2>1, <3>1, LossesStay
  <2>5. CASE kind = "feature" /\ ApplyRefused
    BY <2>1, <2>5 DEF ApplyRefused, Blocks, LossesKnown
  <2>6. ASSUME NEW r \in TesterReplies, TesterAnswers(r) PROVE LossesKnown'
    <3>1. /\ UNCHANGED <<named, unread>> /\ pc = "tester"
          /\ UNCHANGED disk \/ disk' = TesterApplied(r).disk
      BY <2>6 DEF TesterAnswers, TesterApplied, Tester
    <3>2. test \in TestFiles /\ status = "working"
      BY <1>0, <3>1 DEF Data, Places, Busy
    <3>3. \A f \in Files \ {test} : disk'[f] = disk[f]
      BY <1>0, <2>6, <3>1, TesterTyped
    <3>4. \A f \in Manifests : disk'[f] = disk[f]
      BY <3>2, <3>3, TurnAssumption DEF ManifestsApart
    <3> QED
      BY <2>1, <3>1, <3>2, <3>4, LossesStay
  <2>7. CASE GiveUp
    <3>1. UNCHANGED <<named, unread, status>> /\ status \in {"failed", "blocked"}
      BY <2>7 DEF GiveUp, ticket, history
    <3>2. CASE kind = "feature"
      BY <2>1, <3>1, <3>2 DEF LossesKnown
    <3>3. CASE kind # "feature"
      <4>1. touched = {} /\ authored \cup {OwnTest} \subseteq TestFiles
        BY <1>0, <3>3, TurnAssumption DEF Places, Data
      <4>2. \A f \in Manifests : disk'[f] = disk[f]
        BY <2>7, <4>1, TurnAssumption DEF GiveUp, Quarantined, Discarded, ManifestsApart
      <4> QED
        BY <2>1, <3>1, <4>2, LossesStay
    <3> QED
      BY <3>2, <3>3
  <2>8. CASE kind = "image" /\ Drawn
    <3>1. Target \in Images /\ UNCHANGED <<named, unread>>
      BY <1>0, <2>8, TargetIsPicture DEF Drawn, NotRun, history
    <3>2. \A f \in Manifests : disk'[f] = disk[f]
      BY <1>0, <2>8, <3>1, TurnAssumption DEF Drawn, Data, ManifestsApart
    <3> QED
      BY <2>1, <2>8, <3>1, <3>2, LossesStay
  <2>9. CASE Parked
    <3>1. UNCHANGED <<disk, named, unread>> /\ status' = "blocked"
      BY <2>9 DEF Parked, history
    <3> QED
      BY <2>1, <3>1, LossesStay
  <2>10. CASE Retry \/ KilledAndStarted
    <3>1. UNCHANGED <<disk, named, unread>> /\ kind = "image"
      BY <2>10 DEF Retry, KilledAndStarted, history
    <3> QED
      BY <2>1, <3>1, LossesStay
  <2> QED
    BY <1>2, <2>2, <2>3, <2>4, <2>5, <2>6, <2>7, <2>8, <2>9, <2>10, StillOrLoud DEF Loud
<1> QED
  BY <1>1, <1>2

-----------------------------------------------------------------------------
LEMMA InitShape ==
    ASSUME PictureInit
    PROVE  Shape /\ WorkIsKnown /\ LossesKnown
<1>1. Shape
  <2>1. Flags
    <3>1. impossible \in BOOLEAN /\ fresh \in BOOLEAN
      BY DEF PictureInit, Init
    <3>2. empty \in BOOLEAN /\ scopeNote \in BOOLEAN /\ unchecked \in BOOLEAN
      BY DEF PictureInit, Init
    <3> QED
      BY <3>1, <3>2 DEF Flags
  <2>2. Data
    BY TurnAssumption DEF PictureInit, Init, Data
  <2>3. Places
    BY NothingTyped DEF PictureInit, Init, Places
  <2>4. NotRun /\ OfACase /\ Counted /\ Busy
    BY PictureAssumption DEF PictureInit, Init, NotRun, OfACase, Counted, Busy
  <2> QED
    BY <2>1, <2>2, <2>3, <2>4, ShapeParts
<1>2. WorkIsKnown
  BY DEF PictureInit, Init, WorkIsKnown
<1>3. LossesKnown
  BY DEF PictureInit, Init, LossesKnown, Dropped
<1> QED
  BY <1>1, <1>2, <1>3

\* Whatever a ticket's kind, its replies and its luck, each variable holds what it
\* is read as: an attempt writes only what its ticket may, and a ticket that is
\* done is over (`_attempt`, `_render_attempt`).
THEOREM TypeCorrect == PictureSpec => []TypeOK
<1>1. PictureInit => Shape
  BY InitShape
<1>2. Shape /\ [PictureNext]_allVars => Shape'
  BY ShapeStep
<1>3. Shape => TypeOK
  BY DEF Shape
<1> QED
  BY <1>1, <1>2, <1>3, PTL DEF PictureSpec

\* A ticket that gives up leaves the tree as it found it (`_discard_tests`,
\* `_quarantine`), however often it was retried, when no kill made forge forget
\* which tests it had brought into existence.
THEOREM TreeLeft == ASSUME KillsForgetNothing PROVE PictureSpec => []TreeIsLeft
<1>1. PictureInit => Shape /\ WorkIsKnown
  BY InitShape
<1>2. Shape /\ WorkIsKnown /\ [PictureNext]_allVars => (Shape /\ WorkIsKnown)'
  BY ShapeStep, KnownStep
<1>3. WorkIsKnown => TreeIsLeft
  BY DEF WorkIsKnown, TreeIsLeft
<1> QED
  BY <1>1, <1>2, <1>3, PTL DEF PictureSpec

\* Whatever a done ticket lost of a manifest's declarations was named to its
\* executor (`_gutted_manifests`), for manifests that are neither tests nor pictures.
THEOREM LossesNamed == ASSUME ManifestsApart PROVE PictureSpec => []LossesAreNamed
<1>1. PictureInit => Shape /\ LossesKnown
  BY InitShape
<1>2. Shape /\ LossesKnown /\ [PictureNext]_allVars => (Shape /\ LossesKnown)'
  BY ShapeStep, LossStep
<1>3. LossesKnown => LossesAreNamed
  BY DEF LossesKnown, LossesAreNamed
<1> QED
  BY <1>1, <1>2, <1>3, PTL DEF PictureSpec

-----------------------------------------------------------------------------
(***************************************************************************)
(* What is verified is what was sent.                                      *)
(***************************************************************************)

\* What is at one of the places is picked, after what is picked of earlier ones.
LEMMA PickedAll ==
    ASSUME NEW T, NEW seq \in Seq(T), NEW S \in SUBSET (DOMAIN seq)
    PROVE  /\ Pick(seq, S) \in Seq(T)
           /\ \A i \in S : \E k \in DOMAIN Pick(seq, S) :
                 /\ Pick(seq, S)[k] = seq[i]
                 /\ \A l \in DOMAIN Pick(seq, S) : l < k =>
                       \E j \in S : j < i /\ Pick(seq, S)[l] = seq[j]
           /\ \A k \in DOMAIN Pick(seq, S) : \E i \in S : Pick(seq, S)[k] = seq[i]
           /\ \A k, l \in DOMAIN Pick(seq, S) : k # l =>
                 \E i, j \in S : i # j /\ Pick(seq, S)[k] = seq[i] /\ Pick(seq, S)[l] = seq[j]
<1>1. DOMAIN seq = 1..Len(seq) /\ Len(seq) \in Nat
  OBVIOUS
<1>2. Pick(seq, S) \in Seq(T) /\ Cardinality(S) \in Nat
  BY <1>1, FiniteBelow, Picked
<1>3. PICK n \in Nat : n = Cardinality(S)
  BY <1>2
<1>4. PICK o \in [1..n -> S] : /\ \A i, j \in 1..n : i < j => o[i] < o[j]
                               /\ \A j \in S : \E i \in 1..n : o[i] = j
                               /\ \A i \in 1..n : Pick(seq, S)[i] = seq[o[i]]
  BY <1>3, Picked
<1>5. DOMAIN Pick(seq, S) = 1..n
  BY <1>2, <1>3, Picked
<1>6. \A k \in 1..n : o[k] \in S /\ o[k] \in Nat /\ k \in Nat
  BY <1>1
<1>7. ASSUME NEW i \in S
      PROVE  \E k \in DOMAIN Pick(seq, S) :
                /\ Pick(seq, S)[k] = seq[i]
                /\ \A l \in DOMAIN Pick(seq, S) : l < k =>
                      \E j \in S : j < i /\ Pick(seq, S)[l] = seq[j]
  <2>1. PICK k \in 1..n : o[k] = i
    BY <1>4
  <2>2. \A l \in 1..n : l < k => o[l] \in S /\ o[l] < i /\ Pick(seq, S)[l] = seq[o[l]]
    BY <1>4, <1>6, <2>1
  <2> QED
    BY <1>4, <1>5, <2>1, <2>2
<1>8. ASSUME NEW k \in DOMAIN Pick(seq, S)
      PROVE  \E i \in S : Pick(seq, S)[k] = seq[i]
  BY <1>4, <1>5, <1>6
<1>9. ASSUME NEW k \in DOMAIN Pick(seq, S), NEW l \in DOMAIN Pick(seq, S), k # l
      PROVE  \E i, j \in S : i # j /\ Pick(seq, S)[k] = seq[i] /\ Pick(seq, S)[l] = seq[j]
  <2>1. k < l \/ l < k
    BY <1>5, <1>6, <1>9
  <2>2. o[k] < o[l] \/ o[l] < o[k]
    BY <1>4, <1>5, <2>1
  <2>3. o[k] # o[l]
    BY <1>5, <1>6, <2>2
  <2> QED
    BY <1>4, <1>5, <1>6, <2>3
<1> QED
  BY <1>2, <1>7, <1>8, <1>9

\* An edit is kept, or the one before it on its path says the same.
LEMMA KeptOrRepeated ==
    ASSUME NEW edits \in Seq(EditRecord), NEW i \in DOMAIN edits
    PROVE  \/ \E k \in DOMAIN DropRepeats(edits) : DropRepeats(edits)[k] = edits[i]
           \/ \E j \in DOMAIN edits : /\ j < i /\ edits[j].path = edits[i].path
                                      /\ Sent(edits[j]) = Sent(edits[i])
<1> DEFINE before(m) == {j \in DOMAIN edits : j < m /\ edits[j].path = edits[m].path}
           last(m) == CHOOSE j \in before(m) : \A k \in before(m) : k <= j
           S == {m \in DOMAIN edits : before(m) = {} \/ Sent(edits[last(m)]) # Sent(edits[m])}
<1>1. DropRepeats(edits) = Pick(edits, S)
  BY DEF DropRepeats
<1>2. CASE i \in S
  <2>1. S \in SUBSET (DOMAIN edits)
    OBVIOUS
  <2> HIDE DEF S
  <2> QED
    BY <1>1, <1>2, <2>1, PickedAll
<1>3. CASE i \notin S
  <2>1. before(i) # {} /\ Sent(edits[last(i)]) = Sent(edits[i])
    BY <1>3
  <2>2. /\ before(i) \in SUBSET Nat /\ i \in Nat
        /\ \A j \in before(i) : j <= i
    <3>1. DOMAIN edits = 1..Len(edits) /\ Len(edits) \in Nat
      OBVIOUS
    <3> QED
      BY <3>1
  <2>3. last(i) \in before(i)
    <3> DEFINE B == before(i)
    <3>1. \E m \in B : \A k \in B : k <= m
      <4>1. B \in SUBSET Nat /\ i \in Nat /\ B # {} /\ \A j \in B : j <= i
        BY <2>1, <2>2
      <4> HIDE DEF B
      <4> QED
        BY <4>1, Largest
    <3> HIDE DEF B
    <3>2. (CHOOSE j \in B : \A k \in B : k <= j) \in B
      BY <3>1
    <3> QED
      BY <3>2 DEF B
  <2> QED
    BY <2>1, <2>3
<1> QED
  BY <1>2, <1>3

\* Something is kept of edits there are.
LEMMA SomethingKept ==
    ASSUME NEW edits \in Seq(EditRecord), edits # <<>>
    PROVE  DropRepeats(edits) # <<>>
<1> DEFINE before(m) == {j \in DOMAIN edits : j < m /\ edits[j].path = edits[m].path}
           last(m) == CHOOSE j \in before(m) : \A k \in before(m) : k <= j
           S == {m \in DOMAIN edits : before(m) = {} \/ Sent(edits[last(m)]) # Sent(edits[m])}
<1>1. DropRepeats(edits) = Pick(edits, S)
  BY DEF DropRepeats
<1>2. DOMAIN edits = 1..Len(edits) /\ Len(edits) \in Nat
  OBVIOUS
<1>3. 1 \in DOMAIN edits
  BY <1>2
<1>4. before(1) = {}
  BY <1>2
<1>5. 1 \in S
  BY <1>3, <1>4
<1>6. S \in SUBSET (DOMAIN edits)
  OBVIOUS
<1> HIDE DEF S
<1>7. DOMAIN Pick(edits, S) # {}
  BY <1>5, <1>6, PickedAll
<1> QED
  BY <1>1, <1>7

\* What is left of a patch that was not refused: its replacements, as far as no
\* later search took them out, and no search that none of them brought back.
Patched(hunks, n, content) ==
    \A i \in 1..n :
        /\ \A line \in hunks[i].replace \ content :
              \E j \in 1..n : i < j /\ hunks[j].search = line
        /\ hunks[i].search \in content =>
              \E j \in 1..n : i <= j /\ hunks[i].search \in hunks[j].replace

LEMMA ReplacedLeaves ==
    ASSUME NEW content \in Content \cup {Absent}, NEW hunks \in Seq(HunkRecord),
           Replaced(content, hunks) # Refused
    PROVE  Patched(hunks, Len(hunks), Replaced(content, hunks))
<1>0. Len(hunks) \in Nat /\ \A i \in 1..Len(hunks) : hunks[i] \in HunkRecord
  OBVIOUS
<1>1. PICK body \in [0..Len(hunks) -> Content \cup {Refused}] :
         /\ \A i \in 1..Len(hunks) : body[i] = Replace(body[i - 1], hunks[i])
         /\ Replaced(content, hunks) = body[Len(hunks)]
  BY ReplacedSteps
<1> DEFINE I == {m \in Nat : m <= Len(hunks) /\ body[m] # Refused => Patched(hunks, m, body[m])}
<1>2. 0 \in I
  BY DEF Patched
<1>3. ASSUME NEW m \in Nat, m \in I
      PROVE  m + 1 \in I
  <2> SUFFICES ASSUME m + 1 <= Len(hunks), body[m + 1] # Refused
               PROVE  Patched(hunks, m + 1, body[m + 1])
    OBVIOUS
  <2>1. m \in 0..Len(hunks) /\ m + 1 \in 1..Len(hunks) /\ (m + 1) - 1 = m
    BY <1>0
  <2>2. body[m + 1] = Replace(body[m], hunks[m + 1])
    BY <1>1, <2>1
  <2>3. /\ body[m] # Refused
        /\ body[m + 1] = (body[m] \ {hunks[m + 1].search}) \cup hunks[m + 1].replace
    BY <2>2 DEF Replace
  <2>4. Patched(hunks, m, body[m])
    BY <1>3, <2>1, <2>3
  <2> SUFFICES ASSUME NEW i \in 1..(m + 1)
               PROVE  /\ \A line \in hunks[i].replace \ body[m + 1] :
                            \E j \in 1..(m + 1) : i < j /\ hunks[j].search = line
                      /\ hunks[i].search \in body[m + 1] =>
                            \E j \in 1..(m + 1) : i <= j /\ hunks[i].search \in hunks[j].replace
    BY DEF Patched
  <2>5. CASE i = m + 1
    BY <2>3, <2>5
  <2>6. CASE i \in 1..m
    <3>1. m + 1 \in 1..(m + 1) /\ i < m + 1 /\ i <= m + 1 /\ \A j \in 1..m : j \in 1..(m + 1)
      BY <2>6
    <3>2. ASSUME NEW line \in hunks[i].replace \ body[m + 1]
          PROVE  \E j \in 1..(m + 1) : i < j /\ hunks[j].search = line
      <4>1. CASE line \in body[m]
        BY <2>3, <3>1, <4>1
      <4>2. CASE line \notin body[m]
        BY <2>4, <2>6, <3>1, <4>2 DEF Patched
      <4> QED
        BY <4>1, <4>2
    <3>3. ASSUME hunks[i].search \in body[m + 1]
          PROVE  \E j \in 1..(m + 1) : i <= j /\ hunks[i].search \in hunks[j].replace
      <4>1. CASE hunks[i].search \in hunks[m + 1].replace
        BY <3>1, <4>1
      <4>2. CASE hunks[i].search \in body[m]
        BY <2>4, <2>6, <3>1, <4>2 DEF Patched
      <4> QED
        BY <2>3, <3>3, <4>1, <4>2
    <3> QED
      BY <3>2, <3>3
  <2> QED
    BY <2>5, <2>6
<1>4. \A m \in Nat : m \in I
  <2> HIDE DEF I
  <2> QED
    BY <1>2, <1>3, SetInduction
<1> QED
  BY <1>0, <1>1, <1>4

\* Of an apply that was not refused, every file sent once holds what was sent.
OneEach(edits) == \A i, j \in DOMAIN edits : i # j => edits[i].path # edits[j].path

LEMMA AppliedWhole ==
    ASSUME NEW d \in [Files -> Content \cup {Absent}], NEW edits \in Seq(EditRecord),
           OneEach(edits), ~ApplyEdits(d, edits).torn
    PROVE  \A i \in DOMAIN edits :
              /\ Body(d, edits[i]) # Refused
              /\ ApplyEdits(d, edits).disk[edits[i].path] = Body(d, edits[i])
<1> DEFINE n == Len(edits)
           Fits(k, a) == /\ a \in Stages
                         /\ ~a.torn =>
                              /\ \A i \in 1..k : /\ Body(d, edits[i]) # Refused
                                                 /\ a.disk[edits[i].path] = Body(d, edits[i])
                              /\ \A i \in (k + 1)..n : a.disk[edits[i].path] = d[edits[i].path]
<1>0. n \in Nat /\ DOMAIN edits = 1..n /\ \A i \in 1..n : edits[i] \in EditRecord
  OBVIOUS
<1>1. /\ n \in Nat /\ DOMAIN edits = 1..n
      /\ \A i \in 1..n : edits[i] \in EditRecord /\ edits[i].path \in Files
  <2> HIDE DEF n
  <2> QED
    BY <1>0 DEF EditRecord
<1>2. PICK done \in [0..n -> Stages] :
         /\ done[0] = Untouched(d)
         /\ \A i \in 1..n : done[i] = Apply(done[i - 1], edits[i])
         /\ ApplyEdits(d, edits) = done[n]
  BY ApplySteps
<1> HIDE DEF n
<1> DEFINE I == {k \in Nat : k <= n => Fits(k, done[k])}
<1>3. 0 \in I
  BY <1>1, <1>2 DEF Untouched
<1>4. ASSUME NEW k \in Nat, k \in I PROVE k + 1 \in I
  <2> SUFFICES ASSUME k + 1 <= n PROVE Fits(k + 1, done[k + 1])
    OBVIOUS
  <2>1. /\ Fits(k, done[k]) /\ done[k + 1] = Apply(done[k], edits[k + 1])
        /\ k + 1 \in 1..n /\ k \in 1..n \cup {0} /\ (k + 1) \in (k + 1)..n
    BY <1>1, <1>2, <1>4
  <2> DEFINE b == done[k]
             e == edits[k + 1]
             c == Apply(b, e)
  <2>2. e \in EditRecord /\ e.path \in Files /\ b \in Stages
    BY <1>1, <2>1
  <2>3. \A i \in 1..n : i # k + 1 => edits[i].path \in Files \ {e.path}
    BY <1>1, <2>1 DEF OneEach
  <2>4. /\ c \in Stages /\ \A f \in Files \ {e.path} : c.disk[f] = b.disk[f]
        /\ ~c.torn => ~b.torn /\ Body(b.disk, e) # Refused /\ c.disk[e.path] = Body(b.disk, e)
    <3> HIDE DEF b, e
    <3> QED
      BY <2>2, ApplyTyped
  <2> SUFFICES ASSUME ~c.torn
               PROVE  /\ \A i \in 1..(k + 1) : /\ Body(d, edits[i]) # Refused
                                               /\ c.disk[edits[i].path] = Body(d, edits[i])
                      /\ \A i \in (k + 2)..n : c.disk[edits[i].path] = d[edits[i].path]
    BY <2>1, <2>4
  <2>5. b.disk[e.path] = d[e.path]
    BY <2>1, <2>4
  <2>6. Body(b.disk, e) = Body(d, e)
    BY <2>5 DEF Body
  <2>7. \A i \in 1..k : i \in 1..n /\ i # k + 1
    BY <1>1, <2>1
  <2>8. \A i \in (k + 2)..n : i \in 1..n /\ i # k + 1 /\ i \in (k + 1)..n
    BY <1>1, <2>1
  <2>9. \A i \in 1..k : Body(d, edits[i]) # Refused /\ b.disk[edits[i].path] = Body(d, edits[i])
    BY <2>1, <2>4
  <2>10. \A i \in 1..k : c.disk[edits[i].path] = b.disk[edits[i].path]
    BY <2>3, <2>4, <2>7
  <2>11. \A i \in (k + 2)..n : c.disk[edits[i].path] = d[edits[i].path]
    BY <2>1, <2>3, <2>4, <2>8
  <2>12. \A i \in 1..(k + 1) : i \in 1..k \/ i = k + 1
    OBVIOUS
  <2> HIDE DEF b, c
  <2> QED
    BY <2>4, <2>6, <2>9, <2>10, <2>11, <2>12
<1>5. n \in I
  <2> HIDE DEF I
  <2> QED
    BY <1>1, <1>3, <1>4, SetInduction
<1>6. Fits(n, ApplyEdits(d, edits))
  BY <1>1, <1>2, <1>5
<1> QED
  BY <1>1, <1>6

\* A file holds what an edit sends.
SentIn(content, e) ==
    IF e.hunks = <<>> THEN content = e.content ELSE Patched(e.hunks, Len(e.hunks), content)

LEMMA BodyHolds ==
    ASSUME NEW d \in [Files -> Content \cup {Absent}], NEW e \in EditRecord, Body(d, e) # Refused
    PROVE  SentIn(Body(d, e), e)
<1>1. e.hunks \in Seq(HunkRecord) /\ d[e.path] \in Content \cup {Absent}
  BY DEF EditRecord
<1> QED
  BY <1>1, ReplacedLeaves DEF Body, SentIn

\* A reply with files to write of which none was cut short is read whole: of each
\* there is an edit, or an earlier file says the same.
LEMMA ReadWhole ==
    ASSUME NEW r, r.blocks \in Seq(BlockRecord), Parse(r).edits # <<>>, Above(r) # <<>>,
           Parse(r).truncated = {}
    PROVE  \A i \in DOMAIN Above(r) :
              \/ \E k \in DOMAIN Parse(r).edits : Parse(r).edits[k] = Edit(Above(r)[i])
              \/ \E j \in 1..(i - 1) : /\ Above(r)[j].path = Above(r)[i].path
                                       /\ Sent(Edit(Above(r)[j])) = Sent(Edit(Above(r)[i]))
<1> DEFINE sent == Above(r)
           whole == Whole(sent)
           E == [i \in DOMAIN whole |-> Edit(whole[i])]
           S == {i \in DOMAIN sent : ~sent[i].short}
<1>1. sent \in Seq(BlockRecord)
  BY Picked DEF Above, Standing
<1>2. Parse(r).edits = DropRepeats(E) /\ Short(sent) = {}
  BY DEF Parse, Parsed, Sending
<1>3. S = DOMAIN sent
  BY <1>2 DEF Short
<1>4. whole = Pick(sent, S)
  BY DEF Whole
<1>5. E \in Seq(EditRecord) /\ DOMAIN E = DOMAIN whole /\ \A i \in DOMAIN whole : E[i] = Edit(whole[i])
  <2>1. whole \in Seq(BlockRecord)
    BY <1>1, Picked DEF Whole
  <2>2. \A b \in BlockRecord : Edit(b) \in EditRecord
    BY DEF Edit, BlockRecord, EditRecord
  <2> HIDE DEF whole
  <2> QED
    BY <2>1, <2>2
<1>6. DOMAIN sent = 1..Len(sent) /\ Len(sent) \in Nat
  BY <1>1
<1> SUFFICES ASSUME NEW i \in DOMAIN sent
             PROVE  \/ \E k \in DOMAIN Parse(r).edits : Parse(r).edits[k] = Edit(sent[i])
                    \/ \E j \in 1..(i - 1) : sent[j].path = sent[i].path /\ Sent(Edit(sent[j])) = Sent(Edit(sent[i]))
  OBVIOUS
<1> HIDE DEF sent, whole, E, S
<1>7. PICK k \in DOMAIN whole : /\ whole[k] = sent[i]
                                /\ \A l \in DOMAIN whole : l < k => \E j \in S : j < i /\ whole[l] = sent[j]
  BY <1>1, <1>3, <1>4, PickedAll
<1>8. CASE \E m \in DOMAIN DropRepeats(E) : DropRepeats(E)[m] = E[k]
  BY <1>2, <1>5, <1>7, <1>8
<1>9. CASE \E l \in DOMAIN E : l < k /\ E[l].path = E[k].path /\ Sent(E[l]) = Sent(E[k])
  <2>1. PICK l \in DOMAIN whole : l < k /\ E[l].path = E[k].path /\ Sent(E[l]) = Sent(E[k])
    BY <1>5, <1>9
  <2>2. PICK j \in S : j < i /\ whole[l] = sent[j]
    BY <1>7, <2>1
  <2>3. j \in 1..(i - 1)
    BY <1>3, <1>6, <2>2
  <2>4. E[l] = Edit(sent[j]) /\ E[k] = Edit(sent[i])
    BY <1>5, <1>7, <2>2
  <2>5. Edit(sent[j]).path = sent[j].path /\ Edit(sent[i]).path = sent[i].path
    BY DEF Edit
  <2> QED
    BY <2>1, <2>3, <2>4, <2>5
<1> QED
  BY <1>5, <1>8, <1>9, KeptOrRepeated

\* A reply without blocks sends no file.
LEMMA NoBlocksAbove ==
    ASSUME NEW r, r.blocks = <<>>
    PROVE  Above(r) = <<>>
<1> DEFINE S == {i \in DOMAIN r.blocks : r.blocks[i].where = "above"}
<1>1. Above(r) = Pick(r.blocks, S)
  BY DEF Above, Standing
<1> DEFINE blocks == r.blocks
<1>2. blocks \in Seq(BlockRecord) /\ S = {} /\ S \in SUBSET (DOMAIN blocks)
  OBVIOUS
<1> HIDE DEF S, blocks
<1>3. /\ Pick(blocks, S) \in Seq(BlockRecord)
      /\ \A k \in DOMAIN Pick(blocks, S) : \E i \in S : Pick(blocks, S)[k] = blocks[i]
  BY <1>2, PickedAll
<1>4. Pick(blocks, S) = <<>>
  <2> DEFINE picked == Pick(blocks, S)
  <2>1. picked \in Seq(BlockRecord) /\ DOMAIN picked = {}
    BY <1>2, <1>3
  <2> HIDE DEF picked
  <2>2. picked = <<>>
    BY <2>1
  <2> QED
    BY <2>2 DEF picked
<1> QED
  BY <1>1, <1>4 DEF blocks

\* A reply that is well formed and empty sent no file, named none and was no tool
\* call.
LEMMA EmptyIsSilent ==
    ASSUME NEW r, r.blocks \in Seq(BlockRecord), IsEmpty(Parse(r)), ~Malformed(Parse(r), r)
    PROVE  Above(r) = <<>> /\ ~Described(r)
<1>1. Parse(r).truncated = {} /\ Parse(r).edits = <<>> /\ ~Described(r)
      /\ ~Parse(r).blocked /\ ~Parse(r).impossible
  BY DEF IsEmpty, Malformed
<1> SUFFICES ASSUME Above(r) # <<>> PROVE FALSE
  BY <1>1
<1> DEFINE sent == Above(r)
           whole == Whole(sent)
           E == [i \in DOMAIN whole |-> Edit(whole[i])]
           S == {i \in DOMAIN sent : ~sent[i].short}
<1>2. Parse(r) = Sending(r)
  BY <1>1 DEF Parse, Parsed
<1>3. DropRepeats(E) = <<>> /\ Short(sent) = {}
  BY <1>1, <1>2 DEF Sending, Parsed
<1>4. sent \in Seq(BlockRecord) /\ sent # <<>>
  BY Picked DEF Above, Standing
<1>5. S = DOMAIN sent /\ whole = Pick(sent, S)
  BY <1>3 DEF Short, Whole
<1> HIDE DEF sent, S
<1>6. 1 \in DOMAIN sent
  BY <1>4
<1>7. whole \in Seq(BlockRecord) /\ DOMAIN whole # {}
  BY <1>4, <1>5, <1>6, PickedAll
<1> HIDE DEF whole
<1>8. \A b \in BlockRecord : Edit(b) \in EditRecord
  BY DEF Edit, BlockRecord, EditRecord
<1>9. E \in Seq(EditRecord) /\ DOMAIN E # {}
  BY <1>7, <1>8
<1> HIDE DEF E
<1> QED
  BY <1>3, <1>9, SomethingKept

\* A reply with files to write is not one that says it cannot write them.
LEMMA UnblockedEdits ==
    ASSUME NEW r, Parse(r).edits # <<>>
    PROVE  ~Parse(r).blocked
<1>1. CASE Parse(r) = Sending(r)
  BY <1>1 DEF Sending, Parsed
<1>2. CASE Parse(r) # Sending(r)
  BY <1>2 DEF Parse, Parsed
<1> QED
  BY <1>1, <1>2

\* What is in scope of a reply without a path sent twice is all it sends there,
\* once each.
LEMMA InScopeKeeps ==
    ASSUME NEW p, p.edits \in Seq(EditRecord), NEW files, NEW never,
           NEW all, all = InScope(p, files, never)
    PROVE  /\ \A i \in DOMAIN p.edits : p.edits[i].path \in files \ never =>
                 \E k \in DOMAIN all : all[k] = p.edits[i]
           /\ DuplicatePaths(p) = {} => OneEach(all)
           /\ all # <<>> => p.edits # <<>>
<1> DEFINE edits == p.edits
           S == {i \in DOMAIN edits : edits[i].path \in files \ never}
           in == Pick(edits, S)
<1>1. all = in
  BY DEF InScope
<1>2. /\ S \in SUBSET (DOMAIN edits) /\ edits \in Seq(EditRecord)
      /\ \A i \in DOMAIN edits : edits[i].path \in files \ never => i \in S
  OBVIOUS
<1> HIDE DEF S, edits
<1>3. /\ in \in Seq(EditRecord)
      /\ \A i \in S : \E k \in DOMAIN in : in[k] = edits[i]
      /\ \A k \in DOMAIN in : \E i \in S : in[k] = edits[i]
      /\ \A k, l \in DOMAIN in : k # l => \E i, j \in S : i # j /\ in[k] = edits[i] /\ in[l] = edits[j]
  <2>1. /\ in \in Seq(EditRecord)
        /\ \A i \in S : \E k \in DOMAIN in : in[k] = edits[i]
    BY <1>2, PickedAll
  <2>2. \A k \in DOMAIN in : \E i \in S : in[k] = edits[i]
    BY <1>2, PickedAll
  <2>3. \A k, l \in DOMAIN in : k # l => \E i, j \in S : i # j /\ in[k] = edits[i] /\ in[l] = edits[j]
    BY <1>2, PickedAll
  <2> QED
    BY <2>1, <2>2, <2>3
<1> HIDE DEF in
<1>4. ASSUME DuplicatePaths(p) = {} PROVE OneEach(in)
  <2>1. DOMAIN edits = 1..Len(edits) /\ Len(edits) \in Nat
    BY <1>2
  <2>2. \A j, k \in DOMAIN edits : k < j => edits[k].path # edits[j].path
    BY <1>4 DEF DuplicatePaths, edits
  <2>3. \A i, j \in DOMAIN edits : i # j => i < j \/ j < i
    BY <2>1
  <2>4. \A i, j \in S : i # j => edits[i].path # edits[j].path
    BY <1>2, <2>2, <2>3
  <2> SUFFICES ASSUME NEW k \in DOMAIN in, NEW l \in DOMAIN in, k # l
               PROVE  in[k].path # in[l].path
    BY DEF OneEach
  <2>5. PICK i \in S, j \in S : i # j /\ in[k] = edits[i] /\ in[l] = edits[j]
    BY <1>3
  <2> QED
    BY <2>4, <2>5
<1>5. ASSUME in # <<>> PROVE edits # <<>>
  <2>1. DOMAIN in # {}
    BY <1>3, <1>5
  <2> QED
    BY <1>2, <1>3, <2>1
<1> QED
  BY <1>1, <1>2, <1>3, <1>4, <1>5 DEF edits

LEMMA InScopeFrom ==
    ASSUME NEW p, p.edits \in Seq(EditRecord), NEW files, NEW never,
           NEW all, all = InScope(p, files, never)
    PROVE  \A k \in DOMAIN all : \E i \in DOMAIN p.edits : all[k] = p.edits[i]
<1> DEFINE edits == p.edits
           S == {i \in DOMAIN edits : edits[i].path \in files \ never}
<1>1. all = Pick(edits, S)
  BY DEF InScope
<1>2. S \in SUBSET (DOMAIN edits) /\ edits \in Seq(EditRecord)
  OBVIOUS
<1> HIDE DEF S, edits
<1>3. \A k \in DOMAIN all : \E i \in S : all[k] = edits[i]
  BY <1>1, <1>2, PickedAll
<1>4. \A k \in DOMAIN all : \E i \in DOMAIN edits : all[k] = edits[i]
  BY <1>2, <1>3
<1> QED
  BY <1>4 DEF edits

\* What is known of the reply an attempt has in hand: it parsed, or it was
\* recovered from one that did not; and before it there was none.
Before == {"idle", "executor", "painter", "lease", "drawing"}

Read ==
    \/ parsed = Parse(reply) /\ ~Malformed(parsed, reply)
    \/ /\ Cardinality(scope) = 1 /\ Malformed(Parse(reply), reply)
       /\ \E f \in scope, i \in DOMAIN reply.blocks : parsed.edits = As(reply.blocks[i], f)

ReplyKnown ==
    /\ pc = "land" => ~empty /\ reply \in ExecutorReplies /\ Read
    /\ pc \in Before => ~empty /\ reply = Silence

\* What lands of a reply that parsed is on disk as sent.
LEMMA LandedWhole ==
    ASSUME Data, Places, ReplyKnown, Lands, pc' = "tests",
           parsed = Parse(reply), ~Malformed(parsed, reply)
    PROVE  WholeReplyLands'
<1>1. /\ pc = "land" /\ Edits # <<>> /\ ~Landing.torn /\ disk' = Landing.disk
      /\ Truncated(parsed) = {} /\ UNCHANGED <<reply, empty, scope>>
  BY DEF Lands, Fails, Over
<1>2. ~empty' /\ reply \in ExecutorReplies
  BY <1>1 DEF ReplyKnown
<1> DEFINE sent == Above(reply)
<1>3. reply.blocks \in Seq(BlockRecord) /\ sent \in Seq(BlockRecord)
  <2>1. reply.blocks \in Seq(BlockRecord)
    BY <1>2, TurnAssumption
  <2> QED
    BY <2>1, Picked DEF Above, Standing
<1> SUFFICES ASSUME NEW i \in DOMAIN sent, sent[i].path \in scope \ NeverDelegate
             PROVE  \/ Landed(sent[i])'
                    \/ \E j \in 1..(i - 1) : /\ sent[j].path = sent[i].path
                                              /\ Sent(Edit(sent[j])) = Sent(Edit(sent[i]))
  BY <1>1, <1>2 DEF WholeReplyLands
<1>4. parsed = Parse(reply) /\ ~Malformed(parsed, reply)
  OBVIOUS
<1>5. parsed.edits \in Seq(EditRecord) /\ disk \in [Files -> Content \cup {Absent}]
  BY DEF Places, Data
<1>6. parsed.edits # <<>> /\ parsed.truncated = {}
  BY <1>1, <1>5, InScopeKeeps DEF Edits, Truncated
<1>7. ~parsed.blocked
  BY <1>3, <1>4, <1>6, UnblockedEdits
<1>8. DuplicatePaths(parsed) = {}
  BY <1>4, <1>6, <1>7 DEF Malformed, IsEmpty
<1>9. Edits \in Seq(EditRecord) /\ OneEach(Edits)
  BY <1>5, <1>8, InScopeKeeps, InScopeTyped DEF Edits
<1>10. \A k \in DOMAIN Edits : /\ Body(disk, Edits[k]) # Refused
                              /\ Landing.disk[Edits[k].path] = Body(disk, Edits[k])
  BY <1>1, <1>5, <1>9, AppliedWhole DEF Landing
<1>11. \/ \E k \in DOMAIN parsed.edits : parsed.edits[k] = Edit(sent[i])
       \/ \E j \in 1..(i - 1) : sent[j].path = sent[i].path /\ Sent(Edit(sent[j])) = Sent(Edit(sent[i]))
  <2>1. Above(reply) # <<>>
    BY <1>3
  <2> QED
    BY <1>3, <1>4, <1>6, <2>1, ReadWhole
<1>12. CASE \E k \in DOMAIN parsed.edits : parsed.edits[k] = Edit(sent[i])
  <2> DEFINE b == sent[i]
             e == Edit(b)
  <2>1. b \in BlockRecord
    BY <1>3
  <2>2. e \in EditRecord /\ e.path = b.path /\ e.content = b.content /\ e.hunks = b.hunks
    <3> HIDE DEF b
    <3> QED
      BY <2>1 DEF Edit, BlockRecord, EditRecord
  <2>3. PICK k \in DOMAIN Edits : Edits[k] = e
    <3>1. PICK m \in DOMAIN parsed.edits : parsed.edits[m] = e
      BY <1>12
    <3>2. parsed.edits[m].path \in scope \ NeverDelegate
      BY <2>2, <3>1
    <3>3. \E k \in DOMAIN Edits : Edits[k] = parsed.edits[m]
      <4>1. Edits = InScope(parsed, scope, NeverDelegate)
        BY DEF Edits
      <4>2. \A x \in DOMAIN parsed.edits : parsed.edits[x].path \in scope \ NeverDelegate =>
               \E k \in DOMAIN Edits : Edits[k] = parsed.edits[x]
        BY ONLY <1>5, <4>1, InScopeKeeps
      <4> QED
        BY <3>2, <4>2
    <3> QED
      BY <3>1, <3>3
  <2> HIDE DEF e
  <2>4. SentIn(disk'[e.path], e)
    BY <1>1, <1>5, <1>10, <2>2, <2>3, BodyHolds
  <2>5. b.hunks \in Seq(HunkRecord) /\ DOMAIN b.hunks = 1..Len(b.hunks)
    <3> HIDE DEF b
    <3> QED
      BY <2>1 DEF BlockRecord
  <2>6. Landed(b)'
    BY <1>1, <2>2, <2>4, <2>5 DEF Landed, SentIn, Patched
  <2> QED
    BY <2>6
<1> QED
  BY <1>11, <1>12

\* What lands of a reply that was guessed at is one of its blocks.
LEMMA LandedGuess ==
    ASSUME Data, Places, ReplyKnown, Lands, pc' = "tests",
           Cardinality(scope) = 1, Malformed(Parse(reply), reply),
           NEW f \in scope, NEW i \in DOMAIN reply.blocks, parsed.edits = As(reply.blocks[i], f)
    PROVE  WholeReplyLands'
<1>1. /\ pc = "land" /\ Edits # <<>> /\ ~Landing.torn /\ disk' = Landing.disk
      /\ UNCHANGED <<reply, empty, scope>>
  BY DEF Lands, Fails, Over
<1>2. ~empty'
  BY <1>1 DEF ReplyKnown
<1>3. parsed.edits \in Seq(EditRecord) /\ disk \in [Files -> Content \cup {Absent}]
  BY DEF Places, Data
<1> DEFINE content == Literal(reply.blocks[i])
           e == [path |-> f, content |-> content, hunks |-> <<>>]
<1>4. DOMAIN parsed.edits = {1} /\ parsed.edits[1] = e
  BY DEF As
<1>5. /\ e.path = f /\ Body(disk, e) = content
  BY DEF Body
<1> HIDE DEF content, e
<1>6. DuplicatePaths(parsed) = {}
  BY <1>4 DEF DuplicatePaths
<1>7. Edits \in Seq(EditRecord) /\ OneEach(Edits) /\ 1 \in DOMAIN Edits
  BY <1>1, <1>3, <1>6, InScopeKeeps, InScopeTyped DEF Edits
<1>8. Edits[1] = e
  <2>1. \A k \in DOMAIN Edits : \E x \in DOMAIN parsed.edits : Edits[k] = parsed.edits[x]
    BY <1>3, InScopeFrom DEF Edits
  <2> QED
    BY <1>4, <1>7, <2>1
<1>9. Landing.disk[f] = content
  BY <1>1, <1>3, <1>5, <1>7, <1>8, AppliedWhole DEF Landing
<1>10. OneBlockLanded(reply)'
  BY <1>1, <1>9 DEF OneBlockLanded, content
<1> QED
  BY <1>1, <1>2, <1>10 DEF WholeReplyLands

\* A reply is landed as it was parsed, or as it was recovered.
LEMMA AnswerKnown ==
    ASSUME Data, ReplyKnown, NEW r \in ExecutorReplies, ExecutorAnswers(r),
           pc' = "land"
    PROVE  ReplyKnown'
<1>1. pc = "executor" /\ ~empty
  BY DEF ExecutorAnswers, ReplyKnown, Before
<1>2. /\ UNCHANGED empty /\ reply' = r
      /\ \/ ~Malformed(Parse(r), r) /\ parsed' = Parse(r)
         \/ /\ Malformed(Parse(r), r) /\ parsed' = RecoverUnlabelled(r, scope, disk)
            /\ RecoverUnlabelled(r, scope, disk) # Refused
  BY <1>1 DEF ExecutorAnswers, Fails, Blocks, Over, work
<1>3. CASE ~Malformed(Parse(r), r) /\ parsed' = Parse(r)
  BY <1>1, <1>2, <1>3 DEF ReplyKnown, Read, Before
<1>4. CASE /\ Malformed(Parse(r), r) /\ parsed' = RecoverUnlabelled(r, scope, disk)
           /\ RecoverUnlabelled(r, scope, disk) # Refused
  <2>1. /\ Cardinality(scope) = 1 /\ UNCHANGED scope
        /\ \E f \in scope, i \in DOMAIN r.blocks : parsed'.edits = As(r.blocks[i], f)
    BY <1>4, RecoveredOne DEF ExecutorAnswers
  <2> QED
    BY <1>1, <1>2, <1>4, <2>1 DEF ReplyKnown, Read, Before
<1> QED
  BY <1>2, <1>3, <1>4

\* How an attempt comes to have a reply in hand, to have something to test, or to
\* have neither.
LEMMA WhereRepliesCome ==
    ASSUME PictureNext
    PROVE  /\ pc' = "land" => \E r \in ExecutorReplies : ExecutorAnswers(r)
           /\ pc' = "tests" => LandsNothing \/ Lands \/ Drawn
           /\ pc' \in Before => Over \/ (pc \in Before /\ UNCHANGED <<reply, empty>>)
<1> USE DEF Before, Fails, Blocks, work, ticket
<1>1. CASE Next /\ UNCHANGED pictureVars
  <2>1. CASE BeginAttempt \/ ExecutorUnavailable
    BY <2>1 DEF BeginAttempt, ExecutorUnavailable, Over
  <2>2. ASSUME NEW r \in ExecutorReplies, ExecutorAnswers(r)
        PROVE  /\ pc' # "tests"
               /\ pc' \in Before => Over \/ (pc \in Before /\ UNCHANGED <<reply, empty>>)
    BY <2>2 DEF ExecutorAnswers, Over
  <2>3. CASE LandsNothing \/ LandsNowhere \/ ApplyRefused \/ Lands
    BY <2>3 DEF LandsNothing, LandsNowhere, ApplyRefused, Lands, Over
  <2>4. CASE SkipTests \/ KeepTests \/ AskTester \/ TesterUnavailable
    BY <2>4 DEF SkipTests, KeepTests, AskTester, TesterUnavailable, Unchecked
  <2>5. ASSUME NEW r \in TesterReplies, TesterAnswers(r)
        PROVE  pc' \notin {"land", "tests"} /\ (pc' \in Before => Over)
    BY <2>5 DEF TesterAnswers, Unchecked, Over
  <2>6. CASE \/ \E names \in SUBSET {test} : VerifyFails(names)
             \/ NotCollected \/ Verified \/ ReviewFails \/ Approved \/ GiveUp
    BY <2>6 DEF VerifyFails, NotCollected, Verified, ReviewFails, Approved, GiveUp, Over
  <2> QED
    BY <1>1, <2>1, <2>2, <2>3, <2>4, <2>5, <2>6 DEF Next
<1>2. CASE Parked \/ BeginPicture \/ PainterUnavailable \/ Retry \/ KilledAndStarted
  BY <1>2 DEF Parked, BeginPicture, PainterUnavailable, Retry, KilledAndStarted, Over
<1>3. CASE Exhausted
  BY <1>3 DEF Exhausted
<1>4. CASE \E fields \in SUBSET {"PROMPT", "EDIT", "BLOCKED"} : PainterAnswers(fields)
  BY <1>4 DEF PainterAnswers, Over
<1>5. CASE SkipTests \/ KeepTests \/ AskTester \/ TesterUnavailable
  BY <1>5 DEF SkipTests, KeepTests, AskTester, TesterUnavailable, Unchecked
<1>6. ASSUME NEW r \in TesterReplies, TesterAnswers(r)
      PROVE  pc' \notin {"land", "tests"} /\ (pc' \in Before => Over)
  BY <1>6 DEF TesterAnswers, Unchecked, Over
<1>7. CASE Judged
  BY <1>7 DEF Judged, VerifyFails, NotCollected, Verified, GiveUp, Over
<1>8. CASE TakeLease \/ DrawingFails \/ Drawn
  BY <1>8 DEF TakeLease, DrawingFails, Drawn, Over
<1>9. CASE BeginCapture \/ EndCapture \/ PictureApproved
  BY <1>9 DEF BeginCapture, EndCapture, PictureApproved, Approved, Over
<1>10. CASE \E found \in Issues : PictureRejected(found) \/ NoVerdict(found)
  BY <1>10 DEF PictureRejected, NoVerdict, ReviewFails, Over
<1> QED
  BY <1>1, <1>2, <1>3, <1>4, <1>5, <1>6, <1>7, <1>8, <1>9, <1>10 DEF PictureNext, Tested

LEMMA ReplyKnownStep ==
    ASSUME Data, ReplyKnown, PictureNext
    PROVE  ReplyKnown'
<1>1. CASE pc' = "land"
  BY <1>1, WhereRepliesCome, AnswerKnown
<1>2. CASE pc' \in Before
  <2>1. CASE Over
    BY <2>1 DEF Over, ReplyKnown, Before
  <2>2. CASE pc \in Before /\ UNCHANGED <<reply, empty>>
    <3>1. ~empty' /\ reply' = Silence /\ pc' # "land"
      BY <1>2, <2>2 DEF ReplyKnown, Before
    <3> QED
      BY <3>1 DEF ReplyKnown
  <2> QED
    BY <1>2, <2>1, <2>2, WhereRepliesCome
<1>3. CASE pc' # "land" /\ pc' \notin Before
  BY <1>3 DEF ReplyKnown
<1> QED
  BY <1>1, <1>2, <1>3

LEMMA WholeReplyStep ==
    ASSUME Data, Places, ReplyKnown, PictureNext
    PROVE  WholeReplyLands'
<1> SUFFICES ASSUME pc' = "tests" PROVE WholeReplyLands'
  BY DEF WholeReplyLands
<1>1. CASE LandsNothing
  <2>1. /\ pc = "land" /\ IsEmpty(parsed) /\ empty' /\ UNCHANGED reply
        /\ reply \in ExecutorReplies /\ Read
    BY <1>1 DEF LandsNothing, ReplyKnown
  <2>2. reply.blocks \in Seq(BlockRecord) /\ IsEmpty(Parse(reply)) /\ ~Malformed(Parse(reply), reply)
    <3>1. \A b, f : As(b, f) # <<>>
      BY DEF As
    <3> QED
      BY <2>1, <3>1, TurnAssumption DEF Read, IsEmpty
  <2>3. Above(reply) = <<>> /\ ~Described(reply)
    BY <2>2, EmptyIsSilent
  <2> QED
    BY <2>1, <2>3 DEF WholeReplyLands, Described
<1>2. CASE Lands
  <2>1. Read
    BY <1>2 DEF Lands, ReplyKnown
  <2> QED
    BY <1>2, <2>1, LandedWhole, LandedGuess DEF Read
<1>3. CASE Drawn
  <2>1. ~empty /\ reply = Silence /\ UNCHANGED <<reply, empty>>
    BY <1>3 DEF Drawn, ReplyKnown, Before
  <2>2. Above(reply') = <<>>
    BY <2>1, NoBlocksAbove DEF Silence, ReplyOf
  <2> QED
    BY <2>1, <2>2 DEF WholeReplyLands
<1> QED
  BY <1>1, <1>2, <1>3, WhereRepliesCome

\* What goes on to be tested and verified is what the executor's reply sent, in
\* every case and setting, whatever was replied and went wrong before
\* (`parse_output`, `_malformed_reply`, `apply_edits`).
THEOREM WholeLands == PictureSpec => []WholeReplyLands
<1>1. PictureInit => Shape /\ ReplyKnown /\ WholeReplyLands
  <2>1. PictureInit => ReplyKnown /\ WholeReplyLands
    BY DEF PictureInit, Init, ReplyKnown, WholeReplyLands, Before
  <2> QED
    BY <2>1, InitShape
<1>2. Shape /\ ReplyKnown /\ WholeReplyLands /\ [PictureNext]_allVars
        => (Shape /\ ReplyKnown /\ WholeReplyLands)'
  <2> SUFFICES ASSUME Shape, ReplyKnown, WholeReplyLands, [PictureNext]_allVars
               PROVE  (Shape /\ ReplyKnown /\ WholeReplyLands)'
    OBVIOUS
  <2>1. Data /\ Places
    BY ShapeParts
  <2>2. CASE PictureNext
    BY <2>1, <2>2, ShapeStep, ReplyKnownStep, WholeReplyStep
  <2>3. CASE UNCHANGED allVars
    <3>1. Shape'
      BY <2>3, ShapeStep
    <3>2. ReplyKnown'
      BY <2>3 DEF ReplyKnown, Read, allVars, vars, ticket, work, kept, history
    <3>3. WholeReplyLands'
      BY <2>3 DEF WholeReplyLands, Landed, OneBlockLanded, allVars, vars, ticket, work, kept, history
    <3> QED
      BY <3>1, <3>2, <3>3
  <2> QED
    BY <2>2, <2>3
<1> QED
  BY <1>1, <1>2, PTL DEF PictureSpec
=============================================================================
