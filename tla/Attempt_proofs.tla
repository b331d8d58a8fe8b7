--------------------------- MODULE Attempt_proofs ---------------------------
(***************************************************************************)
(* Theorems about Attempt, for every project, backlog, setting and bound.   *)
(***************************************************************************)
EXTENDS Attempt, FiniteSetTheorems, TLAPS

-----------------------------------------------------------------------------
(***************************************************************************)
(* The inductive invariant.                                                *)
(***************************************************************************)
Works == [found: Trees, inherited: [Steps -> SUBSET Errors], repro: Files \cup {Nobody},
          guess: Nat, asks: {0, 1}, touched: SUBSET Files, authored: SUBSET Files,
          written: SUBSET Files, grew: BOOLEAN, blames: SUBSET Files,
          wants: SUBSET Files, spent: 0..InnerTurns, last: SUBSET Errors,
          ungated: BOOLEAN, verdict: {"failed", "blocked", "halt"}]
Memories == [widened: SUBSET Tickets, reproved: SUBSET Tickets, halt: BOOLEAN,
             contradicted: [Tickets -> SUBSET Files]]
Bounds == [cycles: 0..MaxCycles, kills: 0..MaxKills, edits: 0..MaxEdits]

Typed ==
    /\ disk \in Trees /\ row \in [Tickets -> Rows] /\ proof \subseteq Bugs
    /\ steady \in [Tickets -> {Moved} \cup (0..MaxAttempts)]
    /\ pc \in PCs /\ work \in Works /\ memory \in Memories /\ spared \in Bounds

\* A ticket that is worked on is in hand and its row says so; only bugs are proved.
Proving == {"prove", "disproved"}
InHand ==
    /\ pc \in Working => hand \in Tickets /\ row[hand].status = "running"
    /\ pc \in Proving => hand \in Bugs

\* What may be refunded was charged.
Charging == {"build", "gate", "verify", "review", "blocked"}
Paid == pc \in Charging => row[hand].attempts >= 1

\* A contract is rewritten at most once a cycle.
Versioned == \A t \in Tickets : row[t].contract <= MaxCycles - spared.cycles

Base == Typed /\ InHand /\ Paid /\ Versioned

-----------------------------------------------------------------------------
(***************************************************************************)
(* What the operators of the model return.                                 *)
(***************************************************************************)

\* A step prints errors of the project.
LEMMA PrintedTyped ==
    ASSUME NEW s \in Steps, NEW tree \in Trees
    PROVE  Printed(s, tree) \subseteq Errors
BY DEF Printed, Standing

\* The names of what is printed are files.
LEMMA NamedTyped ==
    ASSUME NEW printed, printed \subseteq Errors
    PROVE  Named(printed) \subseteq Files
BY DEF Named, Errors

\* No file, and a file that asserts nothing, are contents.
LEMMA AbsentTyped == Absent \in Contents
BY DEF Absent, Contents

\* Taking files away leaves a tree.
LEMMA RemovedTyped ==
    ASSUME NEW files, disk \in Trees
    PROVE  Removed(files) \in Trees
BY AbsentTyped DEF Removed, Trees

\* A snapshot is a tree, or there is none.
LEMMA SnapshotTyped ==
    ASSUME NEW tree \in Trees
    PROVE  Snapshot(tree) \subseteq Trees
BY AbsentTyped DEF Snapshot, Trees

\* A process that begins remembers nothing, which is of its type.
LEMMA FreshTyped == Fresh \in Works /\ Forgotten \in Memories
BY AttemptAssumption DEF Fresh, Works, Forgotten, Memories, AttemptAssumption

\* The files a tester writes hold contents.
LEMMA TesterTyped ==
    ASSUME NEW f \in Files, NEW c \in TesterWrites(f)
    PROVE  c \in Contents
<1>1. OwnErrors(f) \subseteq Errors
  BY DEF OwnErrors, Errors, Steps
<1>2. CASE \E a \in BOOLEAN : c = [by |-> "tester", breaks |-> {}, asserts |-> a]
  BY <1>2 DEF Contents
<1>3. CASE c = [by |-> "tester", breaks |-> OwnErrors(f), asserts |-> TRUE]
  BY <1>1, <1>3 DEF Contents
<1> QED
  BY <1>2, <1>3 DEF TesterWrites

\* The test files of a ticket are files.
LEMMA TestsAreFiles ==
    ASSUME Typed, NEW t \in Tickets
    PROVE  /\ row[t].scope \subseteq Files /\ OwnTest[t] \in Files
           /\ ReproTarget(t) \in Files
<1>1. row[t].scope \subseteq Files /\ OwnTest[t] \in Files
  BY AttemptAssumption, WorktreeAssumption
  DEF Typed, Rows, AttemptAssumption, WorktreeAssumption
<1>2. ASSUME NEW S, Cardinality(S) = 1
      PROVE  S # {}
  BY <1>2, FS_EmptySet
<1> QED
  BY <1>1, <1>2 DEF ReproTarget

\* A conclusion is drawn and the next attempt begins with it.
LEMMA NextTyped ==
    ASSUME NEW w \in Works, NEW files \in SUBSET Files, NextAttempt(files, w)
    PROVE  pc' = "attempt" /\ hand' = hand /\ work' \in Works
<1> DEFINE told == [w EXCEPT !.blames = files, !.written = {}, !.grew = FALSE]
<1>1. told \in Works
  BY DEF Works
<1>2. 0 \in 0..InnerTurns
  BY AttemptAssumption DEF AttemptAssumption
<1>3. work' = [told EXCEPT !.wants = {}, !.spent = 0, !.last = {}, !.ungated = FALSE]
  BY DEF NextAttempt, GoesWith, Works
<1> HIDE DEF told
<1>4. work' \in Works
  BY <1>1, <1>2, <1>3 DEF Works
<1> QED
  BY <1>4 DEF NextAttempt, GoesWith

\* A block is spent on asking for files.
LEMMA BlocksTyped ==
    ASSUME NEW w \in Works, hand \in Tickets, Blocks(w)
    PROVE  pc' = "blocked" /\ hand' = hand /\ work' \in Works
BY AttemptAssumption DEF Blocks, GoesWith, Works, AttemptAssumption

\* A ticket is let go.
LEMMA LetGoTyped ==
    ASSUME LetGo
    PROVE  pc' = "idle" /\ work' \in Works
BY FreshTyped DEF LetGo, Become

\* What is left to remember at the end is of its type.
LEMMA EndingTyped ==
    ASSUME work \in Works, NEW v \in {"failed", "blocked", "halt"}
    PROVE  Ending(v) \in Works
BY FreshTyped DEF Ending, Works

\* A bound is spent once less.
LEMMA SpendTyped ==
    ASSUME spared \in Bounds, NEW b \in {"cycles", "kills", "edits"}, Spend(b)
    PROVE  /\ spared' \in Bounds
           /\ b = "cycles" => spared'.cycles = spared.cycles - 1
           /\ b # "cycles" => spared'.cycles = spared.cycles
BY AttemptAssumption DEF Spend, Bounds, AttemptAssumption

\* A requeued row is a row, and its contract one version newer at most.
LEMMA RequeuedTyped ==
    ASSUME Typed, NEW t \in Tickets, row[t].contract < MaxCycles, NEW rewritten
    PROVE  /\ Requeued(t, rewritten) \in Rows
           /\ Requeued(t, rewritten).contract <= row[t].contract + 1
           /\ Requeued(t, {}).contract = row[t].contract
           /\ Requeued(t, rewritten).status = "pending"
           /\ Requeued(t, rewritten).charged = row[t].charged
           /\ Requeued(t, rewritten).scope = row[t].scope
           /\ Requeued(t, rewritten).origin = row[t].origin
<1> DEFINE base == IF row[t].base + row[t].attempts > MaxAttempts THEN MaxAttempts
                   ELSE row[t].base + row[t].attempts
<1> DEFINE version(r) == IF t \in r THEN row[t].contract + 1 ELSE row[t].contract
<1>1. row[t] \in Rows
  BY DEF Typed
<1>2. base \in 0..MaxAttempts
  BY <1>1, AttemptAssumption DEF Rows, AttemptAssumption
<1>3. ASSUME NEW r
      PROVE  version(r) \in 0..MaxCycles /\ version(r) <= row[t].contract + 1
  BY <1>1, AttemptAssumption DEF Rows, AttemptAssumption
<1>4. ASSUME NEW r
      PROVE  Requeued(t, r) = [row[t] EXCEPT !.status = "pending", !.attempts = 0,
                                             !.base = base, !.contract = version(r)]
  BY <1>1 DEF Requeued, Rows
<1>5. version({}) = row[t].contract
  OBVIOUS
<1>6. 0 \in 0..MaxAttempts
  BY AttemptAssumption DEF AttemptAssumption
<1> HIDE DEF base, version
<1>7. ASSUME NEW r
      PROVE  /\ Requeued(t, r) \in Rows /\ Requeued(t, r).contract = version(r)
             /\ Requeued(t, r).status = "pending"
             /\ Requeued(t, r).charged = row[t].charged
             /\ Requeued(t, r).scope = row[t].scope
             /\ Requeued(t, r).origin = row[t].origin
  <2> DEFINE q == [row[t] EXCEPT !.status = "pending", !.attempts = 0,
                                 !.base = base, !.contract = version(r)]
  <2>1. q \in Rows
    BY <1>1, <1>2, <1>3, <1>6 DEF Rows, Statuses
  <2>2. /\ q.contract = version(r) /\ q.status = "pending"
        /\ q.charged = row[t].charged /\ q.scope = row[t].scope
        /\ q.origin = row[t].origin
    BY <1>1 DEF Rows
  <2>3. Requeued(t, r) = q
    BY <1>4
  <2> QED
    BY <2>1, <2>2, <2>3
<1> QED
  BY <1>3, <1>5, <1>7
-----------------------------------------------------------------------------
(***************************************************************************)
(* Types, what is in hand and what is paid.                                *)
(***************************************************************************)

\* A step that leaves the rows and the bounds alone and does not take a ticket.
LEMMA StayTyped ==
    ASSUME Base, UNCHANGED <<row, spared>>, memory' \in Memories,
           disk' \in Trees, proof' \subseteq Bugs,
           steady' \in [Tickets -> {Moved} \cup (0..MaxAttempts)],
           pc' \in PCs, work' \in Works,
           pc' \in Working => pc \in Working /\ hand' = hand,
           pc' \in Proving => pc \in Proving,
           pc' \in Charging => pc \in Charging
    PROVE  Base'
<1>1. Typed'
  BY DEF Base, Typed
<1>2. Charging \subseteq Working /\ Proving \subseteq Working
  BY DEF Charging, Proving, Working, PCs
<1> QED
  BY <1>1, <1>2 DEF Base, InHand, Paid, Versioned

\* A step of a ticket in hand that changes its row.
LEMMA RowTyped ==
    ASSUME Base, hand \in Tickets, NEW r \in Rows, row' = [row EXCEPT ![hand] = r],
           r.contract = row[hand].contract, UNCHANGED <<hand, spared>>,
           memory' \in Memories, disk' \in Trees, proof' \subseteq Bugs,
           steady' \in [Tickets -> {Moved} \cup (0..MaxAttempts)],
           pc' \in PCs, work' \in Works, r.status = row[hand].status,
           pc' \in Working => pc \in Working,
           pc' \in Proving => pc \in Proving,
           pc' \in Charging => r.attempts >= 1
    PROVE  Base'
<1>1. row' \in [Tickets -> Rows] /\ row'[hand] = r
  BY DEF Base, Typed
<1>2. Typed'
  BY <1>1 DEF Base, Typed
<1>3. \A t \in Tickets : row'[t].contract = row[t].contract
  BY <1>1 DEF Base, Typed
<1> QED
  BY <1>1, <1>2, <1>3 DEF Base, InHand, Paid, Versioned

\* A step that ends with a ticket let go.
LEMMA GoneTyped ==
    ASSUME Base, hand \in Tickets, NEW v \in Statuses, LetGo, UNCHANGED spared,
           row' = [row EXCEPT ![hand].status = v],
           memory' \in Memories, disk' \in Trees, proof' \subseteq Bugs,
           steady' \in [Tickets -> {Moved} \cup (0..MaxAttempts)]
    PROVE  Base'
<1>1. row[hand] \in Rows
  BY DEF Base, Typed
<1>2. row' \in [Tickets -> Rows]
  BY <1>1 DEF Base, Typed, Rows
<1>3. \A t \in Tickets : row'[t].contract = row[t].contract
  BY <1>1 DEF Base, Typed, Rows
<1>4. pc' = "idle" /\ work' \in Works
  BY LetGoTyped
<1>5. Typed'
  BY <1>2, <1>4 DEF Base, Typed, PCs
<1> QED
  BY <1>3, <1>4, <1>5 DEF Base, InHand, Paid, Versioned, Working, PCs, Charging, Proving

\* Taking a ticket.
LEMMA TakeTyped ==
    ASSUME Base, NEW t \in Tickets, Take(t)
    PROVE  Base'
<1>1. row[t] \in Rows
  BY DEF Base, Typed
<1>2. Snapshot(disk) \subseteq Trees
  BY SnapshotTyped DEF Base, Typed
<1> DEFINE origin == IF row[t].origin = {} THEN Snapshot(disk) ELSE row[t].origin
<1>3. row' = [row EXCEPT ![t] = [row[t] EXCEPT !.status = "running", !.origin = origin]]
  BY <1>1 DEF Take, Base, Typed, Rows
<1>4. row' \in [Tickets -> Rows] /\ row'[t].status = "running"
  <2>1. origin \in SUBSET Trees
    BY <1>1, <1>2 DEF Rows
  <2> HIDE DEF origin
  <2> QED
    BY <1>1, <1>3, <2>1 DEF Base, Typed, Rows, Statuses
<1>5. \A u \in Tickets : row'[u].contract = row[u].contract
  BY <1>1, <1>3 DEF Base, Typed, Rows
<1> DEFINE repro == IF t \in Bugs THEN ReproTarget(t) ELSE Nobody
<1>6. repro \in Files \cup {Nobody}
  BY TestsAreFiles DEF Base
<1>7. Inherited(t, repro) \in [Steps -> SUBSET Errors]
  BY PrintedTyped DEF Inherited, Signatures, Base, Typed
<1>8. /\ work' = [Fresh EXCEPT !.found = disk, !.inherited = Inherited(t, repro),
                              !.repro = repro]
      /\ pc' \in {"prove", "attempt"} /\ hand' = t
      /\ pc' = "prove" => t \in Bugs
  BY DEF Take, Become
<1> HIDE DEF repro
<1>9. work' \in Works
  BY <1>6, <1>7, <1>8, FreshTyped DEF Base, Typed, Works
<1>10. Typed'
  BY <1>4, <1>8, <1>9 DEF Take, Base, Typed, PCs
<1> QED
  BY <1>4, <1>5, <1>8, <1>10 DEF Take, Base, InHand, Paid, Versioned, Charging, Proving
\* Proving a bug.
LEMMA ProveTyped ==
    ASSUME Base, Prove
    PROVE  Base'
<1>1. /\ pc \in Working /\ pc \in Proving
      /\ hand \in Tickets /\ hand \in Bugs /\ row[hand] \in Rows
  <2>1. pc \in {"prove", "disproved"}
    BY DEF Prove, ProofStands, RetireProof, Reproduce, ReproduceNothing,
           RefuseToReproduce, Rediagnose, ParkUnproved, Unproved
  <2> QED
    BY <2>1 DEF Base, Typed, InHand, Working, PCs, Proving
<1>2. ASSUME AskedAgain
      PROVE  pc' \in {"prove", "disproved"} /\ work' \in Works /\ hand' = hand
  BY <1>2 DEF AskedAgain, GoesWith, Goes, Base, Typed, Works
<1>3. CASE ProofStands
  BY <1>1, <1>3, StayTyped DEF ProofStands, Goes, store, Base, Typed, PCs, Working, Charging
<1>4. CASE RetireProof
  <2>1. memory' \in Memories
    BY <1>1, <1>4 DEF RetireProof, Base, Typed, Memories
  <2> QED
    BY <1>1, <1>4, <2>1, StayTyped DEF RetireProof, Base, Typed, Charging, Proving
<1>5. CASE Reproduce
  <2>1. PICK c \in TesterWrites(work.repro) :
            /\ disk' = [disk EXCEPT ![work.repro] = c]
            /\ IF Reproduces(disk')
               THEN proof' = proof \cup {hand} /\ Goes("attempt")
               ELSE AskedAgain /\ UNCHANGED proof
    BY <1>5 DEF Reproduce
  <2>2. disk' \in Trees
    <3>1. CASE work.repro \in Files
      BY <2>1, <3>1, TesterTyped DEF Base, Typed, Trees
    <3>2. CASE work.repro \notin Files
      BY <2>1, <3>2 DEF Base, Typed, Trees
    <3> QED
      BY <3>1, <3>2
  <2>3. pc' \in {"attempt", "prove", "disproved"} /\ work' \in Works /\ hand' = hand
    BY <1>2, <2>1 DEF Goes, Base, Typed
  <2>4. proof' \subseteq Bugs
    BY <1>1, <1>5, <2>1 DEF Base, Typed
  <2> QED
    BY <1>1, <1>5, <2>2, <2>3, <2>4, StayTyped
    DEF Reproduce, Base, Typed, PCs, Charging, Proving
<1>6. CASE ReproduceNothing
  BY <1>1, <1>2, <1>6, StayTyped
  DEF ReproduceNothing, store, Base, Typed, PCs, Charging, Proving
<1>7. CASE RefuseToReproduce
  BY <1>1, <1>7, StayTyped
  DEF RefuseToReproduce, Goes, store, Base, Typed, PCs, Charging, Proving
<1>8. CASE Rediagnose
  <2>1. PICK scope \in Diagnoses[hand] : row' = [row EXCEPT ![hand].scope = scope]
    BY <1>8 DEF Rediagnose
  <2>2. scope \subseteq Files
    BY <1>1, AttemptAssumption DEF AttemptAssumption
  <2> DEFINE r == [row[hand] EXCEPT !.scope = scope]
  <2>3. r \in Rows /\ r.contract = row[hand].contract /\ r.status = row[hand].status
    BY <1>1, <2>2 DEF Rows
  <2>4. row' = [row EXCEPT ![hand] = r]
    BY <1>1, <2>1 DEF Base, Typed
  <2>5. pc' = "prove" /\ work' \in Works /\ hand' = hand
    <3>1. work \in Works /\ work.guess + 1 \in Nat
      BY DEF Base, Typed, Works
    <3>2. work' = [work EXCEPT !.guess = work.guess + 1, !.asks = 0]
      BY <1>8, <3>1 DEF Rediagnose, GoesWith, Works
    <3>3. work' \in Works
      BY <3>1, <3>2 DEF Works
    <3> QED
      BY <1>8, <3>3 DEF Rediagnose, GoesWith
  <2> HIDE DEF r
  <2> QED
    BY <1>1, <1>8, <2>3, <2>4, <2>5, RowTyped
    DEF Rediagnose, Base, Typed, PCs, Charging, Proving
<1>9. CASE ParkUnproved
  BY <1>1, <1>9, GoneTyped DEF ParkUnproved, Base, Typed, Statuses
<1> QED
  BY <1>3, <1>4, <1>5, <1>6, <1>7, <1>8, <1>9 DEF Prove

\* Building.
LEMMA BuildTyped ==
    ASSUME Base, Build
    PROVE  Base'
<1>1. pc \in {"attempt", "build", "gate"}
  BY DEF Build, BeginAttempt, BuildFails, BuildBlocks, BuildNothing, Apply, InnerTurn, Stall
<1>2. pc \in Working /\ hand \in Tickets /\ row[hand] \in Rows
  BY <1>1 DEF Base, Typed, InHand, Working, PCs
<1>3. CASE BeginAttempt
  <2> DEFINE r == [row[hand] EXCEPT !.attempts = @ + 1]
  <2>1. /\ r \in Rows /\ r.contract = row[hand].contract /\ r.status = row[hand].status
        /\ r.attempts >= 1
    BY <1>2, <1>3, AttemptAssumption DEF BeginAttempt, Rows, AttemptAssumption
  <2>2. row' = [row EXCEPT ![hand] = r]
    BY <1>2, <1>3 DEF BeginAttempt, Base, Typed
  <2> HIDE DEF r
  <2> QED
    BY <1>2, <1>3, <2>1, <2>2, RowTyped DEF BeginAttempt, Goes, Base, Typed, PCs, Proving
<1>4. CASE BuildFails
  BY <1>1, <1>2, <1>4, NextTyped, StayTyped
  DEF BuildFails, store, Base, Typed, PCs, Charging, Proving
<1>5. CASE BuildBlocks
  BY <1>2, <1>5, BlocksTyped, StayTyped
  DEF BuildBlocks, store, Base, Typed, PCs, Charging, Proving
<1>6. CASE BuildNothing
  BY <1>2, <1>6, StayTyped DEF BuildNothing, Goes, store, Base, Typed, PCs, Charging, Proving
<1>7. CASE Apply
  <2>1. PICK written \in SUBSET row[hand].scope \ {{}} :
        \E new \in [written -> UNION {ExecutorWrites(f) : f \in written}] :
            /\ \A f \in written : new[f] \in ExecutorWrites(f)
            /\ Write(work.touched \cup written, written, new)
    BY <1>7 DEF Apply
  <2>2. PICK new \in [written -> UNION {ExecutorWrites(f) : f \in written}] :
            /\ \A f \in written : new[f] \in ExecutorWrites(f)
            /\ Write(work.touched \cup written, written, new)
    BY <2>1
  <2>3. written \subseteq Files
    BY <1>2 DEF Rows
  <2>4. \A f \in Files : ExecutorWrites(f) \subseteq Contents
    <3>1. SUFFICES ASSUME NEW f \in Files, NEW b \in SUBSET Breaks[f]
                   PROVE  [by |-> hand, breaks |-> b, asserts |-> f \in TestFiles] \in Contents
      BY DEF ExecutorWrites
    <3>2. b \in SUBSET Errors
      BY AttemptAssumption DEF AttemptAssumption
    <3> QED
      BY <1>2, <3>2 DEF Contents
  <2>5. disk' \in Trees
    BY <2>2, <2>3, <2>4 DEF Write, Base, Typed, Trees
  <2> DEFINE w == [work EXCEPT !.touched = work.touched \cup written, !.written = written]
  <2>6. w \in Works
    BY <2>3 DEF Base, Typed, Works
  <2>7. GoesWith("gate", w) \/ NextAttempt({}, w)
    BY <2>2 DEF Write
  <2> HIDE DEF w
  <2>8. pc' \in {"gate", "attempt"} /\ hand' = hand /\ work' \in Works
    BY <2>6, <2>7, NextTyped DEF GoesWith
  <2> QED
    BY <1>2, <1>7, <2>5, <2>8, StayTyped DEF Apply, store, Base, Typed, PCs, Charging, Proving
<1>8. Printed("check", disk) \subseteq Errors /\ Named(Printed("check", disk)) \subseteq Files
  BY PrintedTyped, NamedTyped DEF Base, Typed, Steps
<1>9. CASE InnerTurn
  <2> DEFINE r == [row[hand] EXCEPT !.attempts = @ - 1]
  <2>1. r \in Rows /\ r.contract = row[hand].contract /\ r.status = row[hand].status
    BY <1>2, <1>9, AttemptAssumption
    DEF InnerTurn, Base, Paid, Charging, Rows, AttemptAssumption
  <2>2. row' = [row EXCEPT ![hand] = r]
    BY <1>2, <1>9 DEF InnerTurn, Base, Typed
  <2>3. work.spent + 1 \in 0..InnerTurns
    BY <1>9, AttemptAssumption
    DEF InnerTurn, Unbuilt, Base, Typed, Works, AttemptAssumption
  <2>4. pc' = "attempt" /\ hand' = hand /\ work' \in Works
    BY <1>8, <1>9, <2>3 DEF InnerTurn, GoesWith, Base, Typed, Works
  <2> HIDE DEF r
  <2> QED
    BY <1>2, <1>9, <2>1, <2>2, <2>4, RowTyped
    DEF InnerTurn, Base, Typed, PCs, Charging, Proving
<1>10. CASE Stall
  <2>1. 0 \in 0..InnerTurns
    BY AttemptAssumption DEF AttemptAssumption
  <2>2. pc' = "attempt" /\ hand' = hand /\ work' \in Works
    BY <1>8, <1>10, <2>1 DEF Stall, GoesWith, Base, Typed, Works
  <2> QED
    BY <1>2, <1>10, <2>2, StayTyped DEF Stall, store, Base, Typed, PCs, Charging, Proving
<1> QED
  BY <1>3, <1>4, <1>5, <1>6, <1>7, <1>9, <1>10 DEF Build
\* Tests.
LEMMA TestTyped ==
    ASSUME Base, Test
    PROVE  Base'
<1>1. pc = "gate"
  BY DEF Test, KeepTests, WriteTests, TesterFails, TesterBlocks, Built
<1>2. pc \in Working /\ pc \in Charging /\ hand \in Tickets /\ row[hand] \in Rows
  BY <1>1 DEF Base, Typed, InHand, Working, PCs, Charging
<1>3. CASE KeepTests
  BY <1>2, <1>3, StayTyped
  DEF KeepTests, Goes, store, Base, Typed, PCs, Proving
<1>4. CASE WriteTests
  <2>1. PICK f \in TestTargets : \E c \in TesterWrites(f) :
          /\ disk' = [disk EXCEPT ![f] = c]
          /\ LET new == disk[f] = Absent IN
             GoesWith("verify", [work EXCEPT !.grew = new,
                                    !.authored = IF new THEN @ \cup {f} ELSE @])
    BY <1>4 DEF WriteTests
  <2>2. f \in Files
    BY <1>2, <2>1, WorktreeAssumption, AttemptAssumption
    DEF TestTargets, Rows, WorktreeAssumption, AttemptAssumption
  <2>3. PICK c \in TesterWrites(f) :
          /\ disk' = [disk EXCEPT ![f] = c]
          /\ LET new == disk[f] = Absent IN
             GoesWith("verify", [work EXCEPT !.grew = new,
                                    !.authored = IF new THEN @ \cup {f} ELSE @])
    BY <2>1
  <2>4. disk' \in Trees
    BY <2>2, <2>3, TesterTyped DEF Base, Typed, Trees
  <2>5. pc' = "verify" /\ hand' = hand /\ work' \in Works
    BY <2>2, <2>3 DEF GoesWith, Base, Typed, Works
  <2> DEFINE r == [row[hand] EXCEPT !.tested = {Fingerprint}]
  <2>6. Fingerprint \in (0..MaxCycles) \X SUBSET Files
    BY <1>2 DEF Fingerprint, Rows
  <2>7. /\ r \in Rows /\ r.contract = row[hand].contract /\ r.status = row[hand].status
        /\ r.attempts = row[hand].attempts
    BY <1>2, <2>6 DEF Rows
  <2>8. row' = [row EXCEPT ![hand] = r]
    BY <1>2, <1>4 DEF WriteTests, Base, Typed
  <2>9. r.attempts >= 1
    BY <1>2, <2>7 DEF Base, Paid
  <2> HIDE DEF r
  <2> QED
    BY <1>2, <1>4, <2>4, <2>5, <2>7, <2>8, <2>9, RowTyped
    DEF WriteTests, Base, Typed, PCs, Proving
<1>5. CASE TesterFails
  <2>1. pc' = "verify" /\ hand' = hand /\ work' \in Works
    BY <1>5 DEF TesterFails, GoesWith, Base, Typed, Works
  <2> QED
    BY <1>2, <1>5, <2>1, StayTyped DEF TesterFails, store, Base, Typed, PCs, Proving
<1>6. CASE TesterBlocks
  BY <1>2, <1>6, BlocksTyped, StayTyped
  DEF TesterBlocks, store, Base, Typed, PCs, Proving
<1> QED
  BY <1>3, <1>4, <1>5, <1>6 DEF Test

\* One more failed suite is counted up to the budget.
LEMMA LogsTyped ==
    ASSUME Base, hand \in Tickets, Logs
    PROVE  steady' \in [Tickets -> {Moved} \cup (0..MaxAttempts)]
<1>1. steady[hand] \in {Moved} \cup (0..MaxAttempts)
  BY DEF Base, Typed
<1>2. ASSUME steady[hand] # Moved, steady[hand] # MaxAttempts
      PROVE  steady[hand] + 1 \in 0..MaxAttempts
  BY <1>1, <1>2, AttemptAssumption DEF AttemptAssumption
<1>3. MaxAttempts \in 0..MaxAttempts
  BY AttemptAssumption DEF AttemptAssumption
<1> QED
  BY <1>1, <1>2, <1>3 DEF Logs, Base, Typed

\* What a ticket is charged for are errors.
LEMMA ChargedTyped ==
    ASSUME Base
    PROVE  Charged \subseteq Errors
BY PrintedTyped DEF Charged, Blamable, Signatures, Base, Typed

\* What a refusal complains about names files.
LEMMA ComplaintTyped ==
    ASSUME Base
    PROVE  Complaint \subseteq Errors /\ Named(Complaint) \subseteq Files
<1>1. Complaint \subseteq Errors
  BY PrintedTyped DEF Complaint, Refusing, Base, Typed
<1> QED
  BY <1>1, NamedTyped

\* A ticket in verification is charged for what it did.
LEMMA ChargesTyped ==
    ASSUME Base, hand \in Tickets, Charges, pc = "verify", UNCHANGED <<hand, spared>>,
           memory' \in Memories, disk' \in Trees, proof' \subseteq Bugs,
           steady' \in [Tickets -> {Moved} \cup (0..MaxAttempts)],
           pc' \in {"attempt", "blocked"}, work' \in Works
    PROVE  Base'
<1> DEFINE r == [row[hand] EXCEPT !.charged = row[hand].charged \cup Charged]
<1>1. row[hand] \in Rows /\ pc \in Working /\ pc \in Charging
  BY DEF Base, Typed, Working, PCs, Charging
<1>2. /\ r \in Rows /\ r.contract = row[hand].contract /\ r.status = row[hand].status
      /\ r.attempts = row[hand].attempts
  BY <1>1, ChargedTyped DEF Rows
<1>3. row' = [row EXCEPT ![hand] = r]
  BY <1>1 DEF Charges, Base, Typed
<1>4. r.attempts >= 1
  BY <1>1, <1>2 DEF Base, Paid
<1> HIDE DEF r
<1> QED
  BY <1>1, <1>2, <1>3, <1>4, RowTyped DEF PCs, Proving

\* Verification.
LEMMA VerifyTyped ==
    ASSUME Base, Verify
    PROVE  Base'
<1>1. pc = "verify"
  BY DEF Verify, VerifyFails, VerifyContradicts, NotCollected, VerifyHalts, VerifyPasses
<1>2. pc \in Working /\ pc \in Charging /\ hand \in Tickets /\ row[hand] \in Rows
  BY <1>1 DEF Base, Typed, InHand, Working, PCs, Charging
<1>3. CASE VerifyFails
  BY <1>1, <1>2, <1>3, NextTyped, LogsTyped, ComplaintTyped, ChargesTyped
  DEF VerifyFails, Base, Typed
<1>4. CASE VerifyContradicts
  <2>1. Contradicting \subseteq Files
    BY WorktreeAssumption DEF Contradicting, WorktreeAssumption
  <2>2. memory' \in Memories
    BY <1>2, <1>4, <2>1 DEF VerifyContradicts, Base, Typed, Memories
  <2> QED
    BY <1>1, <1>2, <1>4, <2>2, BlocksTyped, LogsTyped, ChargesTyped
    DEF VerifyContradicts, Base, Typed
<1>5. CASE NotCollected
  BY <1>2, <1>5, NextTyped, StayTyped
  DEF NotCollected, store, Base, Typed, PCs, Proving, Charging
<1>6. CASE VerifyHalts
  <2>1. pc' = "discard" /\ hand' = hand /\ work' \in Works
    BY <1>6, EndingTyped DEF VerifyHalts, GoesWith, Base, Typed
  <2> QED
    BY <1>2, <1>6, <2>1, LogsTyped, StayTyped
    DEF VerifyHalts, Base, Typed, PCs, Proving, Charging
<1>7. CASE VerifyPasses
  BY <1>2, <1>7, LogsTyped, StayTyped
  DEF VerifyPasses, Goes, Base, Typed, PCs, Proving
<1> QED
  BY <1>3, <1>4, <1>5, <1>6, <1>7 DEF Verify
\* Review, blocks and giving up.
LEMMA EndTyped ==
    ASSUME Base, End
    PROVE  Base'
<1>1. pc \in {"review", "blocked", "attempt", "discard", "quarantine", "record"}
  BY DEF End, ReviewRejects, ReviewApproves, WidenScope, StaysBlocked, Exhausted,
         DiscardTests, Quarantine, GiveUp
<1>2. pc \in Working /\ hand \in Tickets /\ row[hand] \in Rows
  BY <1>1 DEF Base, Typed, InHand, Working, PCs
<1>3. CASE ReviewRejects
  BY <1>2, <1>3, NextTyped, StayTyped
  DEF ReviewRejects, store, Base, Typed, PCs, Proving, Charging
<1>4. CASE ReviewApproves
  BY <1>2, <1>4, GoneTyped DEF ReviewApproves, Base, Typed, Statuses
<1>5. CASE WidenScope
  <2>1. Grantable \subseteq Files
    BY DEF Grantable, Base, Typed, Works
  <2> DEFINE r == [row[hand] EXCEPT !.scope = row[hand].scope \cup Grantable,
                                    !.attempts = row[hand].attempts - 1]
  <2>2. r \in Rows /\ r.contract = row[hand].contract /\ r.status = row[hand].status
    <3>1. row[hand].attempts >= 1
      BY <1>5 DEF WidenScope, Base, Paid, Charging
    <3>2. row[hand].attempts - 1 \in 0..MaxAttempts
      BY <1>2, <3>1, AttemptAssumption DEF Rows, AttemptAssumption
    <3> QED
      BY <1>2, <2>1, <3>2 DEF Rows
  <2>3. row' = [row EXCEPT ![hand] = r]
    BY <1>2, <1>5 DEF WidenScope, Base, Typed
  <2>4. memory' \in Memories
    BY <1>2, <1>5 DEF WidenScope, Base, Typed, Memories
  <2>5. pc' = "attempt" /\ hand' = hand /\ work' \in Works
    BY <1>5, NextTyped DEF WidenScope, Base, Typed, Works
  <2> HIDE DEF r
  <2> QED
    BY <1>2, <1>5, <2>2, <2>3, <2>4, <2>5, RowTyped
    DEF WidenScope, Base, Typed, PCs, Proving, Charging
<1>6. CASE StaysBlocked
  <2>1. pc' = "discard" /\ hand' = hand /\ work' \in Works
    BY <1>6, EndingTyped DEF StaysBlocked, GoesWith, Base, Typed
  <2> QED
    BY <1>2, <1>6, <2>1, StayTyped
    DEF StaysBlocked, store, Base, Typed, PCs, Proving, Charging
<1>7. CASE Exhausted
  <2>1. pc' = "discard" /\ hand' = hand /\ work' \in Works
    BY <1>7, EndingTyped DEF Exhausted, GoesWith, Base, Typed
  <2> QED
    BY <1>2, <1>7, <2>1, StayTyped
    DEF Exhausted, store, Base, Typed, PCs, Proving, Charging
<1>8. CASE DiscardTests
  BY <1>2, <1>8, RemovedTyped, StayTyped
  DEF DiscardTests, Goes, store, Base, Typed, PCs, Proving, Charging
<1>9. CASE Quarantine
  <2>1. ASSUME row[hand].origin # {}
        PROVE  (CHOOSE tree \in row[hand].origin : TRUE) \in Trees
    BY <1>2, <2>1 DEF Rows
  <2>2. disk' \in Trees
    BY <1>9, <2>1 DEF Quarantine, Base, Typed, Trees
  <2> QED
    BY <1>2, <1>9, <2>2, StayTyped
    DEF Quarantine, Goes, store, Base, Typed, PCs, Proving, Charging
<1>10. CASE GiveUp
  <2>1. memory' \in Memories
    BY <1>10 DEF GiveUp, RedLeftBehind, Base, Typed, Memories
  <2> QED
    BY <1>2, <1>10, <2>1, GoneTyped DEF GiveUp, Base, Typed, Statuses
<1> QED
  BY <1>3, <1>4, <1>5, <1>6, <1>7, <1>8, <1>9, <1>10 DEF End

\* A step of nobody's that leaves the contracts at most a version newer for a cycle.
LEMMA IdleTyped ==
    ASSUME Base, row' \in [Tickets -> Rows], spared' \in Bounds, work' \in Works,
           memory' \in Memories, disk' \in Trees, UNCHANGED <<proof, steady>>,
           pc' \in {"down", "idle", "over", "ended"},
           \A t \in Tickets : row'[t].contract <= MaxCycles - spared'.cycles
    PROVE  Base'
<1>1. Typed'
  BY DEF Base, Typed, PCs
<1> QED
  BY <1>1 DEF Base, InHand, Paid, Versioned, Working, PCs, Charging, Proving

\* The run around the tickets.
LEMMA RunTyped ==
    ASSUME Base, Run
    PROVE  Base'
<1>1. /\ disk \in Trees /\ row \in [Tickets -> Rows] /\ spared \in Bounds
      /\ work \in Works /\ memory \in Memories
      /\ \A t \in Tickets : row[t].contract <= MaxCycles - spared.cycles
  BY DEF Base, Typed, Versioned
<1>2. Fresh \in Works /\ Forgotten \in Memories
  BY FreshTyped
<1>3. CASE FinishRun
  BY <1>1, <1>3, RemovedTyped, IdleTyped DEF FinishRun, Goes, store
<1>4. ASSUME spared.cycles > 0, spared' = [spared EXCEPT !.cycles = @ - 1], spared' \in Bounds
      PROVE  \A t \in Tickets : row[t].contract + 1 <= MaxCycles - spared'.cycles
                                /\ row[t].contract < MaxCycles
  BY <1>1, <1>4, AttemptAssumption DEF Bounds, Rows, AttemptAssumption
<1>5. CASE NextCycle
  <2>1. Spend("cycles") /\ pc' = "idle" /\ work' = work /\ UNCHANGED <<disk, proof, steady, memory>>
    BY <1>5 DEF NextCycle, Goes
  <2>2. /\ spared' \in Bounds /\ spared.cycles > 0
        /\ spared' = [spared EXCEPT !.cycles = @ - 1]
    BY <1>1, <2>1, SpendTyped DEF Spend
  <2>3. PICK rewritten, granted : row' = [t \in Tickets |->
                     IF t \notin Retryable THEN row[t]
                     ELSE [Requeued(t, rewritten) EXCEPT
                              !.scope = IF t \in granted
                                        THEN @ \cup memory.contradicted[t] ELSE @]]
    BY <1>5 DEF NextCycle
  <2>4. ASSUME NEW t \in Tickets
        PROVE  row'[t] \in Rows /\ row'[t].contract <= MaxCycles - spared'.cycles
    <3> DEFINE q == Requeued(t, rewritten)
    <3>1. q \in Rows /\ q.contract <= row[t].contract + 1
      BY <1>4, <2>2, RequeuedTyped DEF Base
    <3> HIDE DEF q
    <3> DEFINE scope == IF t \in granted THEN q.scope \cup memory.contradicted[t]
                        ELSE q.scope
    <3>2. scope \in SUBSET Files
      BY <1>1, <3>1 DEF Memories, Rows
    <3>3. row'[t] = row[t] \/ row'[t] = [q EXCEPT !.scope = scope]
      BY <2>3, <3>1 DEF q, Rows
    <3> HIDE DEF scope
    <3>4. [q EXCEPT !.scope = scope] \in Rows /\ [q EXCEPT !.scope = scope].contract = q.contract
      BY <3>1, <3>2 DEF Rows
    <3>5. row[t].contract \in Int /\ q.contract \in Int /\ spared'.cycles \in Int
      BY <1>1, <2>2, <3>1 DEF Rows, Bounds
    <3>6. row[t].contract + 1 <= MaxCycles - spared'.cycles
      BY <1>4, <2>2
    <3>7. CASE row'[t] = row[t]
      BY <1>1, <3>5, <3>6, <3>7, AttemptAssumption DEF AttemptAssumption
    <3>8. CASE row'[t] = [q EXCEPT !.scope = scope]
      <4>1. row'[t] \in Rows /\ row'[t].contract = q.contract
        BY <3>4, <3>8
      <4> QED
        BY <3>1, <3>5, <3>6, <4>1, AttemptAssumption DEF AttemptAssumption
    <3> QED
      BY <3>3, <3>7, <3>8
  <2>5. row' \in [Tickets -> Rows]
    BY <2>3, <2>4
  <2> QED
    BY <1>1, <2>1, <2>2, <2>4, <2>5, IdleTyped
<1>6. CASE Leave
  BY <1>1, <1>2, <1>6, IdleTyped DEF Leave, Become, store
<1>7. CASE Kill
  BY <1>1, <1>2, <1>7, SpendTyped, IdleTyped DEF Kill, Become, store
<1>8. CASE Resume
  BY <1>1, <1>8, IdleTyped DEF Resume, Goes, store
<1>9. CASE Retry
  <2>1. /\ Spend("cycles") /\ pc' = "down" /\ work' = work
        /\ UNCHANGED <<disk, proof, steady, memory>>
        /\ row' = [t \in Tickets |-> IF t \in Retryable THEN Requeued(t, {}) ELSE row[t]]
    BY <1>9 DEF Retry, Goes
  <2>2. /\ spared' \in Bounds /\ spared.cycles > 0
        /\ spared' = [spared EXCEPT !.cycles = @ - 1]
    BY <1>1, <2>1, SpendTyped DEF Spend
  <2>3. ASSUME NEW t \in Tickets
        PROVE  row'[t] \in Rows /\ row'[t].contract = row[t].contract
    BY <1>1, <1>4, <2>1, <2>2, <2>3, RequeuedTyped DEF Base
  <2>4. ASSUME NEW t \in Tickets
        PROVE  row'[t].contract <= MaxCycles - spared'.cycles
    BY <1>1, <1>4, <2>2, <2>3, <2>4, AttemptAssumption DEF Rows, Bounds, AttemptAssumption
  <2> QED
    BY <1>1, <2>1, <2>2, <2>3, <2>4, IdleTyped
<1>10. CASE Edit
  <2>1. [by |-> "person", breaks |-> {}, asserts |-> FALSE] \in Contents
    BY DEF Contents
  <2>2. disk' \in Trees
    BY <1>1, <1>10, <2>1, AbsentTyped DEF Edit, Trees
  <2> QED
    BY <1>1, <1>10, <2>2, SpendTyped, IdleTyped DEF Edit, store
<1> QED
  BY <1>3, <1>5, <1>6, <1>7, <1>8, <1>9, <1>10 DEF Run

\* The types hold, what is in hand is running, and every refund was charged.
LEMMA BaseHolds == Spec => []Base
<1>1. Init => Base
  <2> SUFFICES ASSUME Init PROVE Base
    OBVIOUS
  <2>1. \A t \in Tickets : Planned(t) \in Rows
    BY AttemptAssumption DEF Planned, Rows, Statuses, AttemptAssumption
  <2>2. row \in [Tickets -> Rows] /\ \A t \in Tickets : row[t].contract = 0
    BY <2>1 DEF Init, Planned
  <2>3. spared \in Bounds /\ spared.cycles = MaxCycles
    BY AttemptAssumption DEF Init, Bounds, AttemptAssumption
  <2>4. Typed
    BY <2>2, <2>3, FreshTyped, AttemptAssumption
    DEF Init, Typed, PCs, AttemptAssumption
  <2> QED
    BY <2>2, <2>3, <2>4, AttemptAssumption
    DEF Init, Base, InHand, Paid, Versioned, Working, PCs, Charging, Proving,
        AttemptAssumption
<1>2. Base /\ [Next]_vars => Base'
  <2> SUFFICES ASSUME Base, [Next]_vars PROVE Base'
    OBVIOUS
  <2>1. CASE Next
    BY <2>1, TakeTyped, ProveTyped, BuildTyped, TestTyped, VerifyTyped, EndTyped, RunTyped
    DEF Next
  <2>2. CASE UNCHANGED vars
    BY <2>2 DEF vars, store, Base, Typed, InHand, Paid, Versioned
  <2> QED
    BY <2>1, <2>2
<1> QED
  BY <1>1, <1>2, PTL DEF Spec

\* Every variable stays in its type, for every project, backlog, setting and bound:
\* no compile turn and no widened scope hands back an attempt that was not charged.
THEOREM TypeCorrect == Spec => []TypeOK
<1>1. Base => TypeOK
  BY DEF Base, Typed, InHand, TypeOK, Works
<1> QED
  BY <1>1, BaseHolds, PTL
-----------------------------------------------------------------------------
(***************************************************************************)
(* What a ticket was failed on is never excused to it.                     *)
(***************************************************************************)

\* The errors inherited under the two steps: a suite that was not built printed
\* what the compiler did.
Attributed(inherited) ==
    /\ \A e \in inherited["check"] : e[1] = "check"
    /\ \A e \in inherited["test"] : e[1] = "check" => e \in inherited["check"]
    /\ Compiled /\ inherited["check"] # {} => inherited["check"] \subseteq inherited["test"]

\* What a ticket was charged for can be attributed, and is not inherited by it.
Owing == \A t \in Tickets : row[t].charged \cap Unparsed = {}
NotExcused ==
    pc \in Working => \A s \in Steps : work.inherited[s] \cap row[hand].charged = {}

\* What goes to review prints nothing of it.
Cleared ==
    pc = "review" => \A s \in Steps : Printed(s, disk) \cap row[hand].charged = {}

Debt == Attributed(work.inherited) /\ Owing /\ NotExcused /\ Cleared

\* What the steps print: the compiler its own errors, the suite its own or, where
\* it could not be built, those of the compiler.
LEMMA PrintedOf ==
    ASSUME NEW tree
    PROVE  /\ \A e \in Printed("check", tree) : e[1] = "check"
           /\ \A e \in Printed("test", tree) : e[1] = "check" => e \in Printed("check", tree)
           /\ Compiled /\ Printed("check", tree) # {}
                => Printed("test", tree) = Printed("check", tree)
BY DEF Printed

\* A fresh inheritance is attributed, and holds none of the ticket's own errors.
LEMMA InheritedApart ==
    ASSUME NEW t \in Tickets, NEW repro
    PROVE  /\ Attributed(Inherited(t, repro))
           /\ \A s \in Steps : Inherited(t, repro)[s] \cap row[t].charged = {}
BY PrintedOf DEF Inherited, Attributed, Signatures, Steps

\* What a verification charges a ticket for is not what it inherited.
LEMMA ChargedApart ==
    ASSUME Attributed(work.inherited)
    PROVE  /\ Charged \cap Unparsed = {}
           /\ \A s \in Steps : work.inherited[s] \cap Charged = {}
<1>1. Charged \cap Unparsed = {}
  BY DEF Charged, Blamable, Signatures
<1>2. ASSUME NEW e \in Blamable("check")
      PROVE  e \notin work.inherited["check"] /\ e \notin work.inherited["test"]
  BY <1>2, PrintedOf DEF Blamable, Already, Signatures, Attributed
<1>3. ASSUME NEW e \in Blamable("test")
      PROVE  e \notin work.inherited["check"] /\ e \notin work.inherited["test"]
  <2>1. e \in Printed("test", disk) /\ e \notin work.inherited["test"]
    BY <1>3 DEF Blamable, Already, Signatures
  <2>2. CASE e[1] = "check"
    <3>1. Compiled
      BY <2>1, <2>2 DEF Printed
    <3> QED
      BY <2>1, <3>1 DEF Attributed
  <2>3. CASE e[1] # "check"
    BY <2>1, <2>3 DEF Attributed
  <2> QED
    BY <2>2, <2>3
<1>4. Charged \subseteq Blamable("check") \cup Blamable("test")
  BY DEF Charged, Steps
<1> QED
  BY <1>1, <1>2, <1>3, <1>4 DEF Steps

\* A step that charges nothing, verifies nothing and takes no ticket.
LEMMA QuietDebt ==
    ASSUME Debt, \A t \in Tickets : row'[t].charged = row[t].charged,
           pc' # "review", pc' \in Working => pc \in Working /\ hand' = hand /\ hand \in Tickets,
           \/ work'.inherited = work.inherited
           \/ work'.inherited = [s \in Steps |-> {}]
    PROVE  Debt'
<1>1. Attributed(work'.inherited)
  BY DEF Debt, Attributed, Steps
<1> QED
  BY <1>1 DEF Debt, Attributed, Owing, NotExcused, Cleared, Steps

\* An attempt that is over, and a block, keep what the ticket inherited.
LEMMA KeepsInherited ==
    ASSUME work \in Works
    PROVE  /\ \A files : NextAttempt(files, work) =>
                  pc' = "attempt" /\ hand' = hand /\ work'.inherited = work.inherited
           /\ Blocks(work) =>
                  pc' = "blocked" /\ hand' = hand /\ work'.inherited = work.inherited
           /\ AskedAgain =>
                  pc' \in {"prove", "disproved"} /\ hand' = hand
                    /\ work'.inherited = work.inherited
BY DEF NextAttempt, Blocks, AskedAgain, GoesWith, Goes, Works

\* A ticket that is let go, or given up, inherits nothing any more.
LEMMA DropsInherited ==
    /\ \A p, t : Become(p, t, Fresh) =>
           pc' = p /\ hand' = t /\ work'.inherited = [s \in Steps |-> {}]
    /\ \A v : Ending(v).inherited = [s \in Steps |-> {}]
BY DEF Become, Ending, Fresh

\* Taking a ticket.
LEMMA TakeDebt ==
    ASSUME Base, Debt, NEW t \in Tickets, Take(t)
    PROVE  Debt'
<1> DEFINE repro == IF t \in Bugs THEN ReproTarget(t) ELSE Nobody
<1>1. /\ pc' \in {"prove", "attempt"} /\ hand' = t
      /\ work'.inherited = Inherited(t, repro)
  BY DEF Take, Become, Fresh
<1>2. \A u \in Tickets : row'[u].charged = row[u].charged
  BY DEF Take, Base, Typed, Rows
<1> HIDE DEF repro
<1>3. /\ Attributed(work'.inherited)
      /\ \A s \in Steps : work'.inherited[s] \cap row'[t].charged = {}
  BY <1>1, <1>2, InheritedApart
<1>4. pc' # "review"
  BY <1>1
<1> QED
  BY <1>1, <1>2, <1>3, <1>4 DEF Debt, Owing, NotExcused, Cleared

\* Proving a bug.
LEMMA ProveDebt ==
    ASSUME Base, Debt, Prove
    PROVE  Debt'
<1>1. pc \in {"prove", "disproved"}
  BY DEF Prove, ProofStands, RetireProof, Reproduce, ReproduceNothing,
         RefuseToReproduce, Rediagnose, ParkUnproved, Unproved
<1>2. pc \in Working /\ hand \in Tickets /\ pc # "review"
  BY <1>1 DEF Base, InHand, Working, PCs
<1>3. \A t \in Tickets : row'[t].charged = row[t].charged
  BY DEF Prove, ProofStands, RetireProof, Reproduce, ReproduceNothing,
         RefuseToReproduce, Rediagnose, ParkUnproved, store, Base, Typed, Rows
<1>4. CASE ParkUnproved
  <2>1. pc' = "idle" /\ work'.inherited = [s \in Steps |-> {}]
    BY <1>4, DropsInherited DEF ParkUnproved, LetGo
  <2>2. pc' \notin Working /\ pc' # "review"
    BY <2>1 DEF Working
  <2> QED
    BY <1>3, <2>1, <2>2, QuietDebt
<1>5. CASE ~ParkUnproved
  <2>1. work \in Works
    BY DEF Base, Typed
  <2>2. pc' # "review" /\ hand' = hand /\ work'.inherited = work.inherited
    <3>1. CASE Reproduce
      BY <1>1, <2>1, <3>1, KeepsInherited DEF Reproduce, Goes
    <3>2. CASE ReproduceNothing
      BY <1>1, <2>1, <3>2, KeepsInherited DEF ReproduceNothing
    <3>3. CASE Rediagnose
      BY <2>1, <3>3 DEF Rediagnose, GoesWith, Works
    <3>4. CASE ProofStands \/ RetireProof \/ RefuseToReproduce
      BY <1>1, <3>4 DEF ProofStands, RetireProof, RefuseToReproduce, Goes
    <3> QED
      BY <1>5, <3>1, <3>2, <3>3, <3>4 DEF Prove
  <2> QED
    BY <1>2, <1>3, <2>2, QuietDebt
<1> QED
  BY <1>4, <1>5

\* Building and testing.
LEMMA BuildDebt ==
    ASSUME Base, Debt, Build \/ Test
    PROVE  Debt'
<1>1. pc \in {"attempt", "build", "gate"}
  BY DEF Build, BeginAttempt, BuildFails, BuildBlocks, BuildNothing, Apply, InnerTurn,
         Stall, Test, KeepTests, WriteTests, TesterFails, TesterBlocks, Built
<1>2. pc \in Working /\ hand \in Tickets /\ work \in Works
  BY <1>1 DEF Base, Typed, InHand, Working, PCs
<1>3. \A t \in Tickets : row'[t].charged = row[t].charged
  <2>1. CASE BeginAttempt
    BY <2>1 DEF BeginAttempt, Base, Typed, Rows
  <2>2. CASE InnerTurn
    BY <2>2 DEF InnerTurn, Base, Typed, Rows
  <2>3. CASE WriteTests
    BY <2>3 DEF WriteTests, Base, Typed, Rows
  <2>4. CASE UNCHANGED row
    BY <2>4
  <2> QED
    BY <2>1, <2>2, <2>3, <2>4
    DEF Build, BuildFails, BuildBlocks, BuildNothing, Apply, Stall, Test, KeepTests,
        TesterFails, TesterBlocks, store
<1>4. pc' # "review" /\ hand' = hand /\ work'.inherited = work.inherited
  <2>1. CASE BeginAttempt \/ BuildNothing \/ KeepTests
    BY <2>1 DEF BeginAttempt, BuildNothing, KeepTests, Goes
  <2>2. CASE BuildFails \/ BuildBlocks \/ TesterBlocks
    BY <1>2, <2>2, KeepsInherited DEF BuildFails, BuildBlocks, TesterBlocks
  <2>3. CASE InnerTurn \/ Stall
    BY <1>2, <2>3 DEF InnerTurn, Stall, GoesWith, Works
  <2>4. CASE WriteTests \/ TesterFails
    BY <1>2, <2>4 DEF WriteTests, TesterFails, GoesWith, Works
  <2>5. CASE Apply
    <3>1. PICK written, new : Write(work.touched \cup written, written, new)
      BY <2>5 DEF Apply
    <3> DEFINE w == [work EXCEPT !.touched = work.touched \cup written,
                                 !.written = written]
    <3>2. w.inherited = work.inherited
      BY <1>2 DEF Works
    <3>3. CASE GoesWith("gate", w)
      BY <3>2, <3>3 DEF GoesWith
    <3>4. CASE NextAttempt({}, w)
      BY <1>2, <3>4 DEF NextAttempt, GoesWith, Works
    <3> QED
      BY <3>1, <3>3, <3>4 DEF Write
  <2> QED
    BY <2>1, <2>2, <2>3, <2>4, <2>5 DEF Build, Test
<1> QED
  BY <1>2, <1>3, <1>4, QuietDebt

\* What is verified and refused is charged for, and was not inherited.
LEMMA ChargesDebt ==
    ASSUME Base, Debt, hand \in Tickets, pc = "verify", Charges,
           pc' # "review", hand' = hand, work'.inherited = work.inherited
    PROVE  Debt'
<1>1. /\ row'[hand].charged = row[hand].charged \cup Charged
      /\ \A t \in Tickets \ {hand} : row'[t].charged = row[t].charged
  BY DEF Charges, Base, Typed, Rows
<1>2. /\ Charged \cap Unparsed = {}
      /\ \A s \in Steps : work.inherited[s] \cap Charged = {}
  BY ChargedApart DEF Debt
<1>3. Owing'
  BY <1>1, <1>2 DEF Debt, Owing
<1>4. NotExcused'
  BY <1>1, <1>2 DEF Debt, NotExcused, Working, PCs
<1>5. Attributed(work'.inherited)
  BY DEF Debt
<1> QED
  BY <1>3, <1>4, <1>5 DEF Debt, Cleared

\* A step that passed prints nothing its ticket was charged for.
LEMMA PassedIsPaid ==
    ASSUME Debt, pc = "verify", hand \in Tickets, NEW s \in Steps, Passes(s)
    PROVE  Printed(s, disk) \cap row[hand].charged = {}
<1>1. row[hand].charged \cap Unparsed = {}
  BY DEF Debt, Owing
<1>2. work.inherited[s] \cap row[hand].charged = {}
  BY DEF Debt, NotExcused, Working, PCs
<1>3. Printed(s, disk) = {} \/ Printed(s, disk) \ Unparsed \subseteq work.inherited[s]
  BY DEF Passes, Fails, Excused, Blamable, Already, Signatures
<1> QED
  BY <1>1, <1>2, <1>3

\* Verification.
LEMMA VerifyDebt ==
    ASSUME Base, Debt, Verify
    PROVE  Debt'
<1>1. pc = "verify"
  BY DEF Verify, VerifyFails, VerifyContradicts, NotCollected, VerifyHalts, VerifyPasses
<1>2. pc \in Working /\ hand \in Tickets /\ work \in Works
  BY <1>1 DEF Base, Typed, InHand, Working, PCs
<1>3. CASE VerifyFails
  BY <1>1, <1>2, <1>3, KeepsInherited, ChargesDebt DEF VerifyFails
<1>4. CASE VerifyContradicts
  BY <1>1, <1>2, <1>4, KeepsInherited, ChargesDebt DEF VerifyContradicts
<1>5. CASE NotCollected
  BY <1>2, <1>5, KeepsInherited, QuietDebt DEF NotCollected, store
<1>6. CASE VerifyHalts
  BY <1>2, <1>6, DropsInherited, QuietDebt DEF VerifyHalts, GoesWith
<1>7. CASE VerifyPasses
  <2>1. \A s \in Steps : Passes(s)
    BY <1>7 DEF VerifyPasses, Refusing, Ran, Steps
  <2>2. \A s \in Steps : Printed(s, disk) \cap row[hand].charged = {}
    BY <1>1, <1>2, <2>1, PassedIsPaid
  <2>3. UNCHANGED <<disk, row, hand, work>>
    BY <1>7 DEF VerifyPasses, Goes
  <2>4. Cleared'
    BY <2>2, <2>3 DEF Cleared
  <2>5. NotExcused'
    BY <1>2, <2>3 DEF Debt, NotExcused
  <2> QED
    BY <2>3, <2>4, <2>5 DEF Debt, Owing
<1> QED
  BY <1>3, <1>4, <1>5, <1>6, <1>7 DEF Verify

\* Review, blocks and giving up.
LEMMA EndDebt ==
    ASSUME Base, Debt, End
    PROVE  Debt'
<1>1. pc \in {"review", "blocked", "attempt", "discard", "quarantine", "record"}
  BY DEF End, ReviewRejects, ReviewApproves, WidenScope, StaysBlocked, Exhausted,
         DiscardTests, Quarantine, GiveUp
<1>2. pc \in Working /\ hand \in Tickets /\ work \in Works
  BY <1>1 DEF Base, Typed, InHand, Working, PCs
<1>3. \A t \in Tickets : row'[t].charged = row[t].charged
  BY DEF End, ReviewRejects, ReviewApproves, WidenScope, StaysBlocked, Exhausted,
         DiscardTests, Quarantine, GiveUp, store, Base, Typed, Rows
<1>4. CASE ReviewApproves \/ GiveUp
  <2>1. pc' = "idle" /\ work'.inherited = [s \in Steps |-> {}]
    BY <1>4, DropsInherited DEF ReviewApproves, GiveUp, LetGo
  <2>2. pc' \notin Working /\ pc' # "review"
    BY <2>1 DEF Working
  <2> QED
    BY <1>3, <2>1, <2>2, QuietDebt
<1>5. CASE ReviewRejects \/ WidenScope
  BY <1>2, <1>3, <1>5, KeepsInherited, QuietDebt DEF ReviewRejects, WidenScope
<1>6. CASE StaysBlocked \/ Exhausted
  BY <1>2, <1>3, <1>6, DropsInherited, QuietDebt DEF StaysBlocked, Exhausted, GoesWith
<1>7. CASE DiscardTests \/ Quarantine
  BY <1>2, <1>3, <1>7, QuietDebt DEF DiscardTests, Quarantine, Goes
<1> QED
  BY <1>4, <1>5, <1>6, <1>7 DEF End

\* Requeueing a ticket keeps its scope, its first tree and what it was charged for.
LEMMA RequeuedKeeps ==
    ASSUME Base, Spend("cycles"), NEW t \in Tickets, NEW rewritten
    PROVE  /\ Requeued(t, rewritten) \in Rows
           /\ Requeued(t, rewritten).status = "pending"
           /\ Requeued(t, rewritten).charged = row[t].charged
           /\ Requeued(t, rewritten).scope = row[t].scope
           /\ Requeued(t, rewritten).origin = row[t].origin
<1>1. /\ spared.cycles \in 0..MaxCycles /\ row[t].contract \in 0..MaxCycles
      /\ row[t].contract <= MaxCycles - spared.cycles
  BY DEF Base, Typed, Versioned, Bounds, Rows
<1>2. row[t].contract < MaxCycles
  BY <1>1, AttemptAssumption DEF Spend, AttemptAssumption
<1> QED
  BY <1>2, RequeuedTyped DEF Base

\* The run around the tickets.
LEMMA RunDebt ==
    ASSUME Base, Debt, Run
    PROVE  Debt'
<1>1. pc' \in {"down", "idle", "over", "ended"}
  BY DEF Run, FinishRun, NextCycle, Leave, Kill, Resume, Retry, Edit, Goes, Become
<1>2. pc' \notin Working /\ pc' # "review"
  BY <1>1 DEF Working
<1>3. work' = work \/ work'.inherited = [s \in Steps |-> {}]
  BY DropsInherited
  DEF Run, FinishRun, NextCycle, Leave, Kill, Resume, Retry, Edit, Goes
<1>4. \A t \in Tickets : row'[t].charged = row[t].charged
  <2>1. CASE NextCycle
    <3>1. PICK rewritten, granted : row' = [t \in Tickets |->
                     IF t \notin Retryable THEN row[t]
                     ELSE [Requeued(t, rewritten) EXCEPT
                              !.scope = IF t \in granted
                                        THEN @ \cup memory.contradicted[t] ELSE @]]
      BY <2>1 DEF NextCycle
    <3>2. ASSUME NEW t \in Tickets
          PROVE  row[t] \in Rows /\ Requeued(t, rewritten).charged = row[t].charged
      BY <2>1, RequeuedKeeps DEF NextCycle, Base, Typed
    <3> QED
      BY <3>1, <3>2 DEF Requeued, Rows
  <2>2. CASE Retry
    BY <2>2, RequeuedKeeps DEF Retry
  <2>3. CASE ~NextCycle /\ ~Retry
    BY <2>3 DEF Run, FinishRun, Leave, Kill, Resume, Edit, store
  <2> QED
    BY <2>1, <2>2, <2>3
<1> QED
  BY <1>2, <1>3, <1>4, QuietDebt

\* What a ticket owes is never excused to it, and what goes to review owes nothing.
LEMMA DebtHolds == Spec => [](Base /\ Debt)
<1>1. Init => Debt
  <2> SUFFICES ASSUME Init PROVE Debt
    OBVIOUS
  <2>1. work.inherited = [s \in Steps |-> {}] /\ pc = "idle"
    BY DEF Init, Fresh
  <2>2. \A t \in Tickets : row[t].charged = {}
    BY DEF Init, Planned
  <2> QED
    BY <2>1, <2>2 DEF Debt, Attributed, Owing, NotExcused, Cleared, Working, Steps
<1>2. Base /\ Debt /\ [Next]_vars => Debt'
  <2> SUFFICES ASSUME Base, Debt, [Next]_vars PROVE Debt'
    OBVIOUS
  <2>1. CASE Next
    BY <2>1, TakeDebt, ProveDebt, BuildDebt, VerifyDebt, EndDebt, RunDebt DEF Next
  <2>2. CASE UNCHANGED vars
    BY <2>2 DEF vars, store, Debt, Attributed, Owing, NotExcused, Cleared
  <2> QED
    BY <2>1, <2>2
<1> QED
  BY <1>1, <1>2, BaseHolds, PTL DEF Spec

-----------------------------------------------------------------------------
(***************************************************************************)
(* A ticket is done over a tree that owes nothing of what it was failed on. *)
(***************************************************************************)

\* Only a review finishes a ticket.
LEMMA OnlyReviewFinishes ==
    ASSUME Base, Next, NEW t \in Tickets, row[t].status # "done", row'[t].status = "done"
    PROVE  pc = "review" /\ hand = t
<1>1. row \in [Tickets -> Rows]
  BY DEF Base, Typed
<1>2. CASE \E u \in Tickets : Take(u)
  BY <1>1, <1>2 DEF Take, Rows
<1>3. CASE Prove
  BY <1>1, <1>3
  DEF Prove, ProofStands, RetireProof, Reproduce, ReproduceNothing, RefuseToReproduce,
      Rediagnose, ParkUnproved, store, Rows
<1>4. CASE Build
  <2>1. CASE BeginAttempt \/ InnerTurn
    BY <1>1, <2>1 DEF BeginAttempt, InnerTurn, Rows
  <2>2. CASE UNCHANGED row
    BY <2>2
  <2> QED
    BY <1>4, <2>1, <2>2
    DEF Build, BuildFails, BuildBlocks, BuildNothing, Apply, Stall, store
<1>5. CASE Test
  <2>1. CASE WriteTests
    BY <1>1, <2>1 DEF WriteTests, Rows
  <2>2. CASE UNCHANGED row
    BY <2>2
  <2> QED
    BY <1>5, <2>1, <2>2 DEF Test, KeepTests, TesterFails, TesterBlocks, store
<1>6. CASE Verify
  BY <1>1, <1>6
  DEF Verify, VerifyFails, VerifyContradicts, NotCollected, VerifyHalts, VerifyPasses,
      Charges, store, Rows
<1>7. CASE End
  <2>1. CASE ReviewApproves
    BY <1>1, <2>1 DEF ReviewApproves, Rows
  <2>2. CASE WidenScope \/ GiveUp
    BY <1>1, <2>2 DEF WidenScope, GiveUp, Rows
  <2>3. CASE UNCHANGED row
    BY <2>3
  <2> QED
    BY <1>7, <2>1, <2>2, <2>3
    DEF End, ReviewRejects, StaysBlocked, Exhausted, DiscardTests, Quarantine, store
<1>8. CASE Run
  <2>1. CASE NextCycle
    <3>1. PICK rewritten, granted : row' = [u \in Tickets |->
                     IF u \notin Retryable THEN row[u]
                     ELSE [Requeued(u, rewritten) EXCEPT
                              !.scope = IF u \in granted
                                        THEN @ \cup memory.contradicted[u] ELSE @]]
      BY <2>1 DEF NextCycle
    <3>2. Requeued(t, rewritten).status = "pending"
      BY <1>1 DEF Requeued, Rows
    <3> QED
      BY <1>1, <3>1, <3>2 DEF Requeued, Rows
  <2>2. CASE Retry
    BY <1>1, <2>2 DEF Retry, Requeued, Rows
  <2>3. CASE UNCHANGED row
    BY <2>3
  <2> QED
    BY <1>8, <2>1, <2>2, <2>3 DEF Run, FinishRun, Leave, Kill, Resume, Edit, store
<1> QED
  BY <1>2, <1>3, <1>4, <1>5, <1>6, <1>7, <1>8 DEF Next

\* What a ticket was failed on is its to fix for good, whatever the project, the
\* tickets, the settings and the bounds: no cycle, restart, widened scope or new
\* baseline ever excuses it.
THEOREM ChargedIsFixed == Spec => DebtIsKept
<1> DEFINE Kept == \A t \in Tickets :
                      row[t].status # "done" /\ row'[t].status = "done" =>
                        \A s \in Steps : Printed(s, disk) \cap row[t].charged = {}
<1>1. Base /\ Debt /\ [Next]_vars => [Kept]_vars
  BY OnlyReviewFinishes DEF Debt, Cleared
<1> QED
  BY <1>1, DebtHolds, PTL DEF Spec, DebtIsKept

-----------------------------------------------------------------------------
(***************************************************************************)
(* A landing or nothing: Attempt implements Landing.                       *)
(***************************************************************************)

\* The files a ticket may be let write, but for its own test.
Mine(t) == Scope0[t] \cup Askable[t] \cup UNION Diagnoses[t]

\* No two tickets write the same file or test, no ticket is asked to write a test,
\* and what a build ticket is tested by is not there before it.
Apart ==
    /\ \A t \in Tickets : Mine(t) \cap TestFiles = {}
    /\ \A t, u \in Tickets : t # u => Mine(t) \cap Mine(u) = {} /\ OwnTest[t] # OwnTest[u]
    /\ \A t \in Tickets \ Bugs : Found0[OwnTest[t]] = Absent

\* Everything can be put back, what the steps print can be attributed, and nobody
\* else touches the files: no kill, no person, no full disk.
Restorable ==
    /\ Git /\ QuarantineFailed /\ Ignored = {} /\ Unparsed = {}
    /\ Weather \subseteq {"respec"}

Within == \A t \in Tickets : row[t].scope \subseteq Mine(t)

\* Whatever changed since a ticket was taken is on record.
Traced ==
    pc \in Working =>
        /\ work.found \in Trees /\ row[hand].origin # {}
        /\ \A f \in Files : disk[f] # work.found[f] => f \in work.touched \cup {OwnTest[hand]}
        /\ work.touched \subseteq Mine(hand) /\ work.authored \subseteq {OwnTest[hand]}
        /\ \A s \in Steps : work.inherited[s] \subseteq Printed(s, work.found)
        /\ pc \in Proving => work.touched = {} /\ work.repro = OwnTest[hand]
        /\ pc = "blocked" => work.wants \subseteq Askable[hand]

Undone ==
    /\ pc = "quarantine" /\ hand \notin Bugs => disk[OwnTest[hand]] = work.found[OwnTest[hand]]
    /\ pc = "record" => \A f \in Files \ Keeps(hand) : disk[f] = work.found[f]

Reviewed ==
    pc = "review" => \A s \in Steps : Printed(s, disk) \subseteq Printed(s, work.found)

\* The tree a ticket was first taken on is the project's, as far as it reaches.
Original ==
    \A t \in Tickets : row[t].status # "done" =>
        \A tree \in row[t].origin : \A f \in Mine(t) : tree[f] = Settled[f]

Unwritten ==
    \A t \in Tickets \ Bugs : row[t].status # "done" => Settled[OwnTest[t]] = Absent

Whole == Within /\ Traced /\ Undone /\ Reviewed /\ Original /\ Unwritten

\* What Landing sees of a step.
Landed == {t \in Tickets : row[t].status = "done"}
Quiet == Settled' = Settled /\ Landed' = Landed
Lands(t) ==
    /\ t \in Tickets /\ t \notin Landed /\ Landed' = Landed \cup {t}
    /\ Settled' \in Trees /\ \A f \in Files \ Reach(t) : Settled'[f] = Settled[f]
    /\ \A s \in Steps : Printed(s, Settled') \subseteq Printed(s, Settled)
Leaves(t) ==
    /\ t \in Tickets /\ t \notin Landed /\ Landed' = Landed
    /\ Settled' \in Trees /\ \A f \in Files \ Keeps(t) : Settled'[f] = Settled[f]
Seen == Quiet \/ \E t \in Tickets : Lands(t) \/ Leaves(t)

\* The files a ticket may write are the project's, and its own test is not one.
LEMMA MineTyped ==
    ASSUME NEW t \in Tickets
    PROVE  /\ Mine(t) \subseteq Files /\ OwnTest[t] \in TestFiles /\ OwnTest[t] \in Files
           /\ Apart => \A u \in Tickets : OwnTest[u] \notin Mine(t)
BY AttemptAssumption, WorktreeAssumption
DEF Mine, Apart, AttemptAssumption, WorktreeAssumption

\* The ticket in hand keeps its status and the tree it was first taken on while
\* it is worked on; what it writes shows nowhere else.
LEMMA WorksOn ==
    ASSUME Base, Whole, pc \in Working, pc' \in Working, hand' = hand,
           work'.found = work.found,
           \A t \in Tickets : /\ row'[t].status = row[t].status
                              /\ row'[t].origin = row[t].origin
                              /\ row'[t].scope \subseteq Mine(t),
           \A f \in Files : disk'[f] # disk[f] => f \in work'.touched \cup {OwnTest[hand]},
           work.touched \subseteq work'.touched, work'.touched \subseteq Mine(hand),
           work'.authored \subseteq {OwnTest[hand]},
           work'.inherited = work.inherited \/ work'.inherited = [s \in Steps |-> {}],
           pc' \in Proving => work'.touched = {} /\ work'.repro = OwnTest[hand],
           pc' = "blocked" => work'.wants \subseteq Askable[hand],
           pc' \notin {"quarantine", "record", "review"} \/ (Undone' /\ Reviewed')
    PROVE  Whole' /\ Quiet
<1>1. hand \in Tickets
  BY DEF Base, InHand
<1>2. Settled' = Settled /\ Landed' = Landed
  BY DEF Settled, Landed
<1>3. Within'
  BY DEF Within
<1>4. Traced'
  <2>1. /\ work.found \in Trees /\ row[hand].origin # {}
        /\ \A f \in Files : disk[f] # work.found[f] => f \in work.touched \cup {OwnTest[hand]}
        /\ \A s \in Steps : work.inherited[s] \subseteq Printed(s, work.found)
    BY DEF Whole, Traced
  <2>2. \A f \in Files : disk'[f] # work'.found[f] => f \in work'.touched \cup {OwnTest[hand]}
    BY <2>1
  <2>3. \A s \in Steps : work'.inherited[s] \subseteq Printed(s, work'.found)
    BY <2>1
  <2> QED
    BY <1>1, <2>1, <2>2, <2>3 DEF Traced
<1>5. Undone' /\ Reviewed'
  BY DEF Undone, Reviewed
<1>6. Original'
  BY <1>2 DEF Whole, Original
<1>7. Unwritten'
  BY <1>2 DEF Whole, Unwritten
<1> QED
  BY <1>2, <1>3, <1>4, <1>5, <1>6, <1>7 DEF Whole, Quiet

\* An attempt that is over, a block, a tester asked again and a ticket given up
\* keep the tree the ticket was taken on and the list of what it wrote.
LEMMA KeepsFound ==
    ASSUME work \in Works
    PROVE  /\ \A files : NextAttempt(files, work) =>
                  /\ pc' = "attempt" /\ hand' = hand /\ work'.found = work.found
                  /\ work'.touched = work.touched /\ work'.authored = work.authored
                  /\ work'.inherited = work.inherited
           /\ Blocks(work) =>
                  /\ pc' = "blocked" /\ hand' = hand /\ work'.found = work.found
                  /\ work'.touched = work.touched /\ work'.authored = work.authored
                  /\ work'.inherited = work.inherited /\ work'.wants \subseteq Askable[hand]
           /\ AskedAgain =>
                  /\ pc' \in {"prove", "disproved"} /\ hand' = hand /\ work'.found = work.found
                  /\ work'.touched = work.touched /\ work'.authored = work.authored
                  /\ work'.inherited = work.inherited /\ work'.repro = work.repro
           /\ \A v : /\ Ending(v).found = work.found /\ Ending(v).touched = work.touched
                     /\ Ending(v).authored = work.authored
                     /\ Ending(v).inherited = [s \in Steps |-> {}]
BY DEF NextAttempt, Blocks, AskedAgain, GoesWith, Goes, Works, Ending, Fresh

\* Taking a ticket.
LEMMA TakeWhole ==
    ASSUME Base, Whole, Apart, Restorable, NEW t \in Tickets, Take(t)
    PROVE  Whole' /\ Quiet
<1> DEFINE repro == IF t \in Bugs THEN ReproTarget(t) ELSE Nobody
<1>1. /\ pc = "idle" /\ disk' = disk /\ hand' = t
      /\ pc' \in {"prove", "attempt"} /\ pc' \in Working /\ (pc' = "prove" => t \in Bugs)
      /\ work' = [Fresh EXCEPT !.found = disk, !.inherited = Inherited(t, repro), !.repro = repro]
      /\ row[t].status \in {"pending", "running"}
  BY DEF Take, Become, Waiting, Working, PCs
<1>2. /\ work'.found = disk /\ work'.touched = {} /\ work'.authored = {}
      /\ work'.inherited = Inherited(t, repro) /\ work'.repro = repro
  BY <1>1 DEF Fresh
<1>3. Settled' = disk /\ Settled = disk
  BY <1>1, <1>2 DEF Settled, Working
<1>4. disk \in Trees /\ row[t] \in Rows
  BY DEF Base, Typed
<1>5. Snapshot(disk) = {disk}
  <2>1. [f \in Files |-> IF f \in Ignored THEN Absent ELSE disk[f]] = disk
    BY <1>4 DEF Restorable, Trees
  <2> QED
    BY <2>1 DEF Snapshot, Restorable
<1>6. /\ row'[t].status = "running" /\ row'[t].scope = row[t].scope
      /\ row'[t].origin = IF row[t].origin = {} THEN {disk} ELSE row[t].origin
      /\ \A u \in Tickets \ {t} : row'[u] = row[u]
  BY <1>4, <1>5 DEF Take, Base, Typed, Rows
<1>7. Landed' = Landed
  BY <1>1, <1>6 DEF Landed
<1>8. Within'
  BY <1>6 DEF Whole, Within
<1>9. \A s \in Steps : Inherited(t, repro)[s] \subseteq Printed(s, disk)
  BY DEF Inherited, Signatures
<1>10. t \in Bugs => repro = OwnTest[t]
  <2>1. row[t].scope \cap TestFiles = {}
    BY DEF Whole, Within, Apart
  <2>2. Cardinality(row[t].scope \cap TestFiles) # 1
    BY <2>1, FS_EmptySet
  <2> QED
    BY <2>2 DEF ReproTarget
<1> HIDE DEF repro
<1>11. Traced'
  <2>1. row'[t].origin # {}
    BY <1>6
  <2>2. pc' \in Proving => work'.repro = OwnTest[t]
    BY <1>1, <1>2, <1>10 DEF Proving
  <2> QED
    BY <1>1, <1>2, <1>4, <1>9, <2>1, <2>2 DEF Traced
<1>12. Undone' /\ Reviewed'
  BY <1>1 DEF Undone, Reviewed
<1>13. Original'
  <2> SUFFICES ASSUME NEW u \in Tickets, row'[u].status # "done", NEW tree \in row'[u].origin,
                      NEW f \in Mine(u)
               PROVE  tree[f] = disk[f]
    BY <1>3 DEF Original
  <2>1. row[u].status # "done"
    BY <1>1, <1>6
  <2>2. CASE tree \in row[u].origin
    BY <1>3, <2>1, <2>2 DEF Whole, Original
  <2>3. CASE tree \notin row[u].origin
    BY <1>6, <2>3
  <2> QED
    BY <2>2, <2>3
<1>14. Unwritten'
  BY <1>1, <1>3, <1>6 DEF Whole, Unwritten
<1> QED
  BY <1>3, <1>7, <1>8, <1>11, <1>12, <1>13, <1>14 DEF Whole, Quiet

\* A ticket that is let go leaves the project with what it may leave behind.
LEMMA LetsGo ==
    ASSUME Base, Whole, Apart, pc \in Working, LetGo, disk' = disk, NEW v \in GaveUp,
           row' = [row EXCEPT ![hand].status = v],
           \A f \in Files \ Keeps(hand) : disk[f] = work.found[f]
    PROVE  Whole' /\ Leaves(hand)
<1>1. /\ hand \in Tickets /\ row[hand] \in Rows /\ row[hand].status = "running" /\ disk \in Trees
      /\ work.found \in Trees
  BY DEF Base, Typed, InHand, Whole, Traced
<1>2. pc' = "idle" /\ pc' \notin Working
  BY DEF LetGo, Become, Working
<1>3. Settled' = disk /\ Settled = work.found
  BY <1>2 DEF Settled
<1>4. /\ row'[hand].status = v /\ v # "done" /\ row'[hand].scope = row[hand].scope
      /\ row'[hand].origin = row[hand].origin
      /\ \A u \in Tickets \ {hand} : row'[u] = row[u]
  BY <1>1 DEF Base, Typed, Rows, GaveUp
<1>5. Landed' = Landed /\ hand \notin Landed
  BY <1>1, <1>4 DEF Landed
<1>6. Leaves(hand)
  BY <1>1, <1>3, <1>5 DEF Leaves
<1>7. Within' /\ Traced' /\ Undone' /\ Reviewed'
  BY <1>2, <1>4 DEF Whole, Within, Traced, Undone, Reviewed
<1>8. Original'
  <2> SUFFICES ASSUME NEW u \in Tickets, row'[u].status # "done", NEW tree \in row'[u].origin,
                      NEW f \in Mine(u)
               PROVE  tree[f] = disk[f]
    BY <1>3 DEF Original
  <2>1. row[u].status # "done" /\ tree \in row[u].origin
    BY <1>1, <1>4
  <2>2. tree[f] = work.found[f]
    BY <1>3, <2>1 DEF Whole, Original
  <2>3. f \in Files \ Keeps(hand)
    BY <1>1, MineTyped DEF Keeps
  <2> QED
    BY <2>2, <2>3
<1>9. Unwritten'
  <2> SUFFICES ASSUME NEW u \in Tickets \ Bugs, row'[u].status # "done"
               PROVE  disk[OwnTest[u]] = Absent
    BY <1>3 DEF Unwritten
  <2>1. row[u].status # "done"
    BY <1>1, <1>4
  <2>2. work.found[OwnTest[u]] = Absent
    BY <1>3, <2>1 DEF Whole, Unwritten
  <2>3. OwnTest[u] \in Files \ Keeps(hand)
    BY <1>1, MineTyped DEF Keeps, Apart
  <2> QED
    BY <2>2, <2>3
<1> QED
  BY <1>6, <1>7, <1>8, <1>9 DEF Whole

\* Proving a bug: only the reproduction is written.
LEMMA ProveWhole ==
    ASSUME Base, Whole, Apart, Prove
    PROVE  Whole' /\ Seen
<1>1. pc \in Proving
  BY DEF Prove, ProofStands, RetireProof, Reproduce, ReproduceNothing,
         RefuseToReproduce, Rediagnose, ParkUnproved, Unproved, Proving
<1>2. /\ pc \in Working /\ hand \in Tickets /\ hand \in Bugs /\ row[hand] \in Rows
      /\ work \in Works /\ row \in [Tickets -> Rows] /\ disk \in Trees
  BY <1>1 DEF Base, Typed, InHand, Working, PCs, Proving
<1>3. /\ work.touched = {} /\ work.repro = OwnTest[hand]
      /\ work.authored \subseteq {OwnTest[hand]}
      /\ \A f \in Files : disk[f] # work.found[f] => f \in work.touched \cup {OwnTest[hand]}
      /\ \A t \in Tickets : row[t].scope \subseteq Mine(t)
  BY <1>1, <1>2 DEF Whole, Traced, Within
<1>4. CASE ProofStands \/ RetireProof \/ RefuseToReproduce
  <2>1. /\ pc' \in {"attempt", "prove", "disproved"} /\ hand' = hand /\ work' = work
        /\ UNCHANGED <<disk, row>>
    BY <1>1, <1>4 DEF ProofStands, RetireProof, RefuseToReproduce, Goes, store, Proving
  <2>2. pc' \in Working /\ pc' \notin {"quarantine", "record", "review"} /\ pc' # "blocked"
    BY <2>1 DEF Working, PCs
  <2> QED
    BY <1>2, <1>3, <2>1, <2>2, WorksOn DEF Seen
<1>5. CASE Reproduce \/ ReproduceNothing
  <2>1. /\ pc' \in {"attempt", "prove", "disproved"} /\ hand' = hand
        /\ work'.found = work.found /\ work'.touched = work.touched
        /\ work'.authored = work.authored /\ work'.inherited = work.inherited
        /\ work'.repro = work.repro /\ UNCHANGED row
    BY <1>2, <1>5, KeepsFound DEF Reproduce, ReproduceNothing, Goes, store
  <2>2. \A f \in Files : disk'[f] # disk[f] => f = OwnTest[hand]
    BY <1>2, <1>3, <1>5 DEF Reproduce, ReproduceNothing, Trees
  <2>3. pc' \in Working /\ pc' \notin {"quarantine", "record", "review"} /\ pc' # "blocked"
    BY <2>1 DEF Working, PCs
  <2> QED
    BY <1>2, <1>3, <2>1, <2>2, <2>3, WorksOn DEF Seen
<1>6. CASE Rediagnose
  <2>1. PICK scope \in Diagnoses[hand] : row' = [row EXCEPT ![hand].scope = scope]
    BY <1>6 DEF Rediagnose
  <2>2. /\ pc' = "prove" /\ hand' = hand /\ UNCHANGED disk
        /\ work'.found = work.found /\ work'.touched = work.touched
        /\ work'.authored = work.authored /\ work'.inherited = work.inherited
        /\ work'.repro = work.repro
    BY <1>2, <1>6 DEF Rediagnose, GoesWith, Works
  <2>3. \A t \in Tickets : /\ row'[t].status = row[t].status /\ row'[t].origin = row[t].origin
                            /\ row'[t].scope \subseteq Mine(t)
    <3>1. scope \subseteq Mine(hand)
      BY DEF Mine
    <3> QED
      BY <1>2, <1>3, <2>1, <3>1 DEF Rows
  <2>4. pc' \in Working /\ pc' \notin {"quarantine", "record", "review"} /\ pc' # "blocked"
    BY <2>2 DEF Working, PCs
  <2> QED
    BY <1>2, <1>3, <2>2, <2>3, <2>4, WorksOn DEF Seen
<1>7. CASE ParkUnproved
  <2>1. /\ LetGo /\ disk' = disk /\ row' = [row EXCEPT ![hand].status = "blocked"]
        /\ "blocked" \in GaveUp
    BY <1>7 DEF ParkUnproved, GaveUp
  <2>2. \A f \in Files \ Keeps(hand) : disk[f] = work.found[f]
    BY <1>2, <1>3 DEF Keeps
  <2> QED
    BY <1>2, <2>1, <2>2, LetsGo DEF Seen
<1> QED
  BY <1>4, <1>5, <1>6, <1>7 DEF Prove

\* Building writes the ticket's own files and lists them, testing its own test.
LEMMA BuildWhole ==
    ASSUME Base, Whole, Apart, Build \/ Test
    PROVE  Whole' /\ Seen
<1>1. pc \in {"attempt", "build", "gate"}
  BY DEF Build, BeginAttempt, BuildFails, BuildBlocks, BuildNothing, Apply, InnerTurn,
         Stall, Test, KeepTests, WriteTests, TesterFails, TesterBlocks, Built
<1>2. /\ pc \in Working /\ hand \in Tickets /\ row[hand] \in Rows
      /\ work \in Works /\ row \in [Tickets -> Rows] /\ disk \in Trees
  BY <1>1 DEF Base, Typed, InHand, Working, PCs
<1>3. /\ work.touched \subseteq Mine(hand) /\ work.authored \subseteq {OwnTest[hand]}
      /\ \A t \in Tickets : row[t].scope \subseteq Mine(t)
  BY <1>2 DEF Whole, Traced, Within
<1> DEFINE Same == \A t \in Tickets : /\ row'[t].status = row[t].status
                                       /\ row'[t].origin = row[t].origin
                                       /\ row'[t].scope \subseteq Mine(t)
<1>4. Same
  <2>1. CASE BeginAttempt
    BY <1>2, <1>3, <2>1 DEF BeginAttempt, Rows
  <2>2. CASE InnerTurn
    BY <1>2, <1>3, <2>2 DEF InnerTurn, Rows
  <2>3. CASE WriteTests
    BY <1>2, <1>3, <2>3 DEF WriteTests, Rows
  <2>4. CASE UNCHANGED row
    BY <1>3, <2>4
  <2> QED
    BY <2>1, <2>2, <2>3, <2>4
    DEF Build, BuildFails, BuildBlocks, BuildNothing, Apply, Stall, Test, KeepTests,
        TesterFails, TesterBlocks, store
<1> HIDE DEF Same
<1> DEFINE On == /\ pc' \in {"attempt", "build", "gate", "verify", "blocked"} /\ hand' = hand
                 /\ work'.found = work.found /\ work'.inherited = work.inherited
                 /\ pc' = "blocked" => work'.wants \subseteq Askable[hand]
<1>5. ASSUME On, work.touched \subseteq work'.touched, work'.touched \subseteq Mine(hand),
             work'.authored \subseteq {OwnTest[hand]},
             \A f \in Files : disk'[f] # disk[f] => f \in work'.touched \cup {OwnTest[hand]}
      PROVE  Whole' /\ Seen
  <2>1. pc' \in Working /\ pc' \notin {"quarantine", "record", "review"} /\ pc' \notin Proving
    BY <1>5 DEF Working, PCs, Proving
  <2> QED
    BY <1>2, <1>4, <1>5, <2>1, WorksOn DEF Seen, Same
<1>6. CASE \/ BeginAttempt \/ BuildFails \/ BuildBlocks \/ BuildNothing \/ InnerTurn \/ Stall
           \/ KeepTests \/ TesterFails \/ TesterBlocks
  <2>1. On /\ work'.touched = work.touched /\ work'.authored = work.authored
    <3>1. CASE BeginAttempt \/ BuildNothing \/ KeepTests
      BY <3>1 DEF BeginAttempt, BuildNothing, KeepTests, Goes
    <3>2. CASE BuildFails \/ BuildBlocks \/ TesterBlocks
      BY <1>2, <3>2, KeepsFound DEF BuildFails, BuildBlocks, TesterBlocks
    <3>3. CASE InnerTurn \/ Stall
      BY <1>2, <3>3 DEF InnerTurn, Stall, GoesWith, Works
    <3>4. CASE TesterFails
      BY <1>2, <3>4 DEF TesterFails, GoesWith, Works
    <3> QED
      BY <1>6, <3>1, <3>2, <3>3, <3>4
  <2>2. disk' = disk
    BY <1>6 DEF BeginAttempt, BuildFails, BuildBlocks, BuildNothing, InnerTurn, Stall,
                KeepTests, TesterFails, TesterBlocks, store
  <2> HIDE DEF On
  <2> QED
    BY <1>3, <1>5, <2>1, <2>2
<1>7. CASE Apply
  <2>1. PICK written, new : /\ written \subseteq row[hand].scope
                            /\ Write(work.touched \cup written, written, new)
    BY <1>7 DEF Apply
  <2> DEFINE w == [work EXCEPT !.touched = work.touched \cup written, !.written = written]
  <2>2. /\ w.found = work.found /\ w.inherited = work.inherited
        /\ w.touched = work.touched \cup written /\ w.authored = work.authored
    BY <1>2 DEF Works
  <2>3. /\ pc' \in {"gate", "attempt"} /\ hand' = hand /\ work'.found = w.found
        /\ work'.inherited = w.inherited /\ work'.touched = w.touched
        /\ work'.authored = w.authored
    <3>1. CASE GoesWith("gate", w)
      BY <3>1 DEF GoesWith
    <3>2. CASE NextAttempt({}, w)
      BY <1>2, <3>2 DEF NextAttempt, GoesWith, Works
    <3> QED
      BY <2>1, <3>1, <3>2 DEF Write
  <2>4. written \subseteq Mine(hand)
    BY <1>2, <1>3, <2>1
  <2>5. \A f \in Files : disk'[f] # disk[f] => f \in written
    BY <2>1 DEF Write
  <2> HIDE DEF w
  <2>6. On
    BY <2>2, <2>3
  <2>7. /\ work.touched \subseteq work'.touched /\ work'.touched \subseteq Mine(hand)
        /\ work'.authored \subseteq {OwnTest[hand]}
        /\ \A f \in Files : disk'[f] # disk[f] => f \in work'.touched \cup {OwnTest[hand]}
    BY <1>3, <2>2, <2>3, <2>4, <2>5
  <2> HIDE DEF On
  <2> QED
    BY <1>5, <2>6, <2>7
<1>8. CASE WriteTests
  <2>1. PICK f, c :
           /\ f \in TestTargets /\ disk' = [disk EXCEPT ![f] = c]
           /\ GoesWith("verify",
                 [work EXCEPT !.grew = (disk[f] = Absent),
                              !.authored = IF disk[f] = Absent THEN @ \cup {f} ELSE @])
    BY <1>8 DEF WriteTests
  <2>2. f = OwnTest[hand]
    <3>1. row[hand].scope \cap TestFiles = {}
      BY <1>2, <1>3 DEF Apart
    <3> QED
      BY <2>1, <3>1 DEF TestTargets
  <2>3. /\ pc' = "verify" /\ hand' = hand /\ work'.found = work.found
        /\ work'.inherited = work.inherited /\ work'.touched = work.touched
        /\ work'.authored \subseteq work.authored \cup {f}
    BY <1>2, <2>1 DEF GoesWith, Works
  <2>4. \A g \in Files : disk'[g] # disk[g] => g = f
    BY <1>2, <2>1 DEF Trees
  <2> QED
    BY <1>3, <1>5, <2>2, <2>3, <2>4
<1> QED
  BY <1>6, <1>7, <1>8 DEF Build, Test

\* What passes its steps prints nothing that was not printed before.
LEMMA VerifyWhole ==
    ASSUME Base, Whole, Apart, Restorable, Verify
    PROVE  Whole' /\ Seen
<1>1. pc = "verify"
  BY DEF Verify, VerifyFails, VerifyContradicts, NotCollected, VerifyHalts, VerifyPasses
<1>2. /\ pc \in Working /\ hand \in Tickets /\ row[hand] \in Rows
      /\ work \in Works /\ row \in [Tickets -> Rows] /\ disk \in Trees
  BY <1>1 DEF Base, Typed, InHand, Working, PCs
<1>3. /\ work.touched \subseteq Mine(hand) /\ work.authored \subseteq {OwnTest[hand]}
      /\ \A t \in Tickets : row[t].scope \subseteq Mine(t)
      /\ \A s \in Steps : work.inherited[s] \subseteq Printed(s, work.found)
  BY <1>2 DEF Whole, Traced, Within
<1>4. disk' = disk /\ \A t \in Tickets : /\ row'[t].status = row[t].status
                                          /\ row'[t].origin = row[t].origin
                                          /\ row'[t].scope \subseteq Mine(t)
  BY <1>2, <1>3
  DEF Verify, VerifyFails, VerifyContradicts, NotCollected, VerifyHalts, VerifyPasses,
      Charges, store, Rows
<1>5. /\ pc' \in {"attempt", "blocked", "discard", "review"} /\ hand' = hand
      /\ work'.found = work.found /\ work'.touched = work.touched
      /\ work'.authored = work.authored
      /\ work'.inherited = work.inherited \/ work'.inherited = [s \in Steps |-> {}]
      /\ pc' = "blocked" => work'.wants \subseteq Askable[hand]
  <2>1. CASE VerifyFails \/ VerifyContradicts \/ NotCollected
    BY <1>2, <2>1, KeepsFound DEF VerifyFails, VerifyContradicts, NotCollected
  <2>2. CASE VerifyHalts
    BY <1>2, <2>2, KeepsFound DEF VerifyHalts, GoesWith
  <2>3. CASE VerifyPasses
    BY <2>3 DEF VerifyPasses, Goes
  <2> QED
    BY <2>1, <2>2, <2>3 DEF Verify
<1>6. pc' = "review" => \A s \in Steps : Printed(s, disk) \subseteq Printed(s, work.found)
  <2> SUFFICES ASSUME pc' = "review", NEW s \in Steps
               PROVE  Printed(s, disk) \subseteq Printed(s, work.found)
    OBVIOUS
  <2>1. VerifyPasses
    BY <1>2, KeepsFound
    DEF Verify, VerifyFails, VerifyContradicts, NotCollected, VerifyHalts, GoesWith
  <2>2. Passes(s)
    BY <2>1 DEF VerifyPasses, Refusing, Ran, Steps
  <2>3. Printed(s, disk) = {} \/ Printed(s, disk) \ Unparsed \subseteq work.inherited[s]
    BY <2>2 DEF Passes, Fails, Excused, Blamable, Already, Signatures
  <2> QED
    BY <1>3, <2>3 DEF Restorable
<1>7. pc' \in Working /\ pc' \notin {"quarantine", "record"} /\ pc' \notin Proving
  BY <1>5 DEF Working, PCs, Proving
<1>8. Undone' /\ Reviewed'
  BY <1>4, <1>5, <1>6, <1>7 DEF Undone, Reviewed
<1> QED
  BY <1>2, <1>3, <1>4, <1>5, <1>7, <1>8, WorksOn DEF Seen

\* An approved ticket lands.
LEMMA ApprovedLands ==
    ASSUME Base, Whole, Apart, ReviewApproves
    PROVE  Whole' /\ Lands(hand)
<1>1. /\ pc \in Working /\ pc' = "idle" /\ pc' \notin Working
      /\ disk' = disk /\ row' = [row EXCEPT ![hand].status = "done"]
  BY DEF ReviewApproves, LetGo, Become, Working, PCs
<1>2. /\ hand \in Tickets /\ row[hand] \in Rows /\ row[hand].status = "running" /\ disk \in Trees
      /\ \A f \in Files : disk[f] # work.found[f] => f \in work.touched \cup {OwnTest[hand]}
      /\ work.touched \subseteq Mine(hand)
  BY <1>1 DEF Base, Typed, InHand, Whole, Traced
<1>3. Settled' = disk /\ Settled = work.found
  BY <1>1 DEF Settled
<1>4. /\ row'[hand].status = "done" /\ row'[hand].scope = row[hand].scope
      /\ \A u \in Tickets \ {hand} : row'[u] = row[u]
  BY <1>1, <1>2 DEF Base, Typed, Rows
<1>5. hand \notin Landed /\ Landed' = Landed \cup {hand}
  BY <1>2, <1>4 DEF Landed
<1>6. \A f \in Files \ Reach(hand) : disk[f] = work.found[f]
  BY <1>2 DEF Reach, Mine
<1>7. \A s \in Steps : Printed(s, disk) \subseteq Printed(s, work.found)
  BY DEF Whole, Reviewed, ReviewApproves
<1>8. Lands(hand)
  BY <1>2, <1>3, <1>5, <1>6, <1>7 DEF Lands
<1>9. Within' /\ Traced' /\ Undone' /\ Reviewed'
  BY <1>1, <1>4 DEF Whole, Within, Traced, Undone, Reviewed
<1>10. Original'
  <2> SUFFICES ASSUME NEW u \in Tickets, row'[u].status # "done", NEW tree \in row'[u].origin,
                      NEW f \in Mine(u)
               PROVE  tree[f] = disk[f]
    BY <1>3 DEF Original
  <2>1. u # hand /\ row[u].status # "done" /\ tree \in row[u].origin
    BY <1>4
  <2>2. tree[f] = work.found[f]
    BY <1>3, <2>1 DEF Whole, Original
  <2>3. f \in Files /\ f \notin Mine(hand) /\ f # OwnTest[hand]
    BY <1>2, <2>1, MineTyped DEF Apart
  <2> QED
    BY <1>2, <2>2, <2>3
<1>11. Unwritten'
  <2> SUFFICES ASSUME NEW u \in Tickets \ Bugs, row'[u].status # "done"
               PROVE  disk[OwnTest[u]] = Absent
    BY <1>3 DEF Unwritten
  <2>1. u # hand /\ row[u].status # "done"
    BY <1>4
  <2>2. work.found[OwnTest[u]] = Absent
    BY <1>3, <2>1 DEF Whole, Unwritten
  <2>3. OwnTest[u] \in Files /\ OwnTest[u] \notin Mine(hand) /\ OwnTest[u] # OwnTest[hand]
    BY <1>2, <2>1, MineTyped DEF Apart
  <2> QED
    BY <1>2, <2>2, <2>3
<1> QED
  BY <1>8, <1>9, <1>10, <1>11 DEF Whole

\* A ticket that is given up goes back to the tree it was taken on.
LEMMA EndWhole ==
    ASSUME Base, Whole, Apart, Restorable, End
    PROVE  Whole' /\ Seen
<1>1. pc \in {"review", "blocked", "attempt", "discard", "quarantine", "record"}
  BY DEF End, ReviewRejects, ReviewApproves, WidenScope, StaysBlocked, Exhausted,
         DiscardTests, Quarantine, GiveUp
<1>2. /\ pc \in Working /\ hand \in Tickets /\ row[hand] \in Rows
      /\ work \in Works /\ row \in [Tickets -> Rows] /\ disk \in Trees
      /\ row[hand].status = "running"
  BY <1>1 DEF Base, Typed, InHand, Working, PCs
<1>3. /\ work.touched \subseteq Mine(hand) /\ work.authored \subseteq {OwnTest[hand]}
      /\ \A t \in Tickets : row[t].scope \subseteq Mine(t)
      /\ row[hand].origin # {}
      /\ \A f \in Files : disk[f] # work.found[f] => f \in work.touched \cup {OwnTest[hand]}
  BY <1>2 DEF Whole, Traced, Within
<1>4. ASSUME disk' = disk, \A t \in Tickets : /\ row'[t].status = row[t].status
                                              /\ row'[t].origin = row[t].origin
                                              /\ row'[t].scope \subseteq Mine(t),
             pc' \in {"attempt", "discard"}, hand' = hand, work'.found = work.found,
             work'.touched = work.touched, work'.authored = work.authored,
             work'.inherited = work.inherited \/ work'.inherited = [s \in Steps |-> {}]
      PROVE  Whole' /\ Seen
  <2>1. pc' \in Working /\ pc' \notin {"quarantine", "record", "review", "blocked"} /\ pc' \notin Proving
    BY <1>4 DEF Working, PCs, Proving
  <2> QED
    BY <1>2, <1>3, <1>4, <2>1, WorksOn DEF Seen
<1>5. CASE ReviewRejects \/ StaysBlocked \/ Exhausted
  <2>1. /\ pc' \in {"attempt", "discard"} /\ hand' = hand /\ work'.found = work.found
        /\ work'.touched = work.touched /\ work'.authored = work.authored
        /\ work'.inherited = work.inherited \/ work'.inherited = [s \in Steps |-> {}]
    BY <1>2, <1>5, KeepsFound DEF ReviewRejects, StaysBlocked, Exhausted, GoesWith
  <2>2. disk' = disk /\ row' = row
    BY <1>5 DEF ReviewRejects, StaysBlocked, Exhausted, store
  <2> QED
    BY <1>3, <1>4, <2>1, <2>2
<1>6. CASE WidenScope
  <2>1. /\ pc' = "attempt" /\ hand' = hand /\ work'.found = work.found /\ disk' = disk
        /\ work'.touched = work.touched /\ work'.authored = work.authored
        /\ work'.inherited = work.inherited
    BY <1>2, <1>6, KeepsFound DEF WidenScope
  <2>2. Grantable \subseteq Mine(hand)
    BY <1>2, <1>6 DEF WidenScope, Whole, Traced, Grantable, Mine
  <2>3. row' = [row EXCEPT ![hand].scope = @ \cup Grantable, ![hand].attempts = @ - 1]
    BY <1>6 DEF WidenScope
  <2>4. \A t \in Tickets : /\ row'[t].status = row[t].status /\ row'[t].origin = row[t].origin
                            /\ row'[t].scope \subseteq Mine(t)
    BY <1>2, <1>3, <2>2, <2>3 DEF Rows
  <2> QED
    BY <1>4, <2>1, <2>4
<1>7. CASE ReviewApproves
  BY <1>2, <1>7, ApprovedLands DEF Seen
<1>8. CASE DiscardTests
  <2>1. /\ pc' = "quarantine" /\ hand' = hand /\ work' = work /\ row' = row
        /\ disk' = IF hand \in Bugs THEN disk ELSE Removed({OwnTest[hand]} \cup work.authored)
    BY <1>8 DEF DiscardTests, Goes, store
  <2>2. \A f \in Files : disk'[f] # disk[f] => f = OwnTest[hand]
    BY <1>3, <2>1 DEF Removed
  <2>3. hand \notin Bugs => disk'[OwnTest[hand]] = work.found[OwnTest[hand]]
    <3> SUFFICES ASSUME hand \notin Bugs
                 PROVE  disk'[OwnTest[hand]] = work.found[OwnTest[hand]]
      OBVIOUS
    <3>1. Settled[OwnTest[hand]] = Absent
      BY <1>2 DEF Whole, Unwritten
    <3>2. disk'[OwnTest[hand]] = Absent
      BY <1>2, <2>1, MineTyped DEF Removed
    <3> QED
      BY <1>2, <3>1, <3>2 DEF Settled
  <2>4. Undone' /\ Reviewed'
    BY <2>1, <2>3 DEF Undone, Reviewed
  <2>5. pc' \in Working /\ pc' \notin Proving /\ pc' # "blocked"
    BY <2>1 DEF Working, PCs, Proving
  <2> QED
    BY <1>2, <1>3, <2>1, <2>2, <2>4, <2>5, WorksOn DEF Seen
<1>9. CASE Quarantine
  <2> DEFINE first == CHOOSE tree \in row[hand].origin : TRUE
  <2>1. /\ pc = "quarantine" /\ pc' = "record" /\ hand' = hand /\ work' = work /\ row' = row
        /\ disk' = [f \in Files |-> IF f \in work.touched THEN first[f] ELSE disk[f]]
    <3>1. "disk" \notin Weather /\ QuarantineFailed
      BY DEF Restorable
    <3> QED
      BY <1>3, <1>9, <3>1 DEF Quarantine, Goes, store
  <2>2. first \in row[hand].origin
    BY <1>3
  <2>3. \A f \in Mine(hand) : first[f] = work.found[f]
    BY <1>2, <2>2 DEF Whole, Original, Settled
  <2> HIDE DEF first
  <2>4. \A f \in Files : f # OwnTest[hand] => disk'[f] = work.found[f]
    BY <1>3, <2>1, <2>3
  <2>5. hand \notin Bugs => disk'[OwnTest[hand]] = work.found[OwnTest[hand]]
    <3>1. OwnTest[hand] \notin work.touched /\ OwnTest[hand] \in Files
      BY <1>2, <1>3, MineTyped
    <3> QED
      BY <2>1, <3>1 DEF Whole, Undone
  <2>6. \A f \in Files \ Keeps(hand) : disk'[f] = work.found[f]
    BY <2>4, <2>5 DEF Keeps
  <2>7. Undone' /\ Reviewed'
    BY <2>1, <2>6 DEF Undone, Reviewed, Keeps
  <2>8. \A f \in Files : disk'[f] # disk[f] => f \in work.touched
    BY <2>1
  <2>9. pc' \in Working /\ pc' \notin Proving /\ pc' # "blocked"
    BY <2>1 DEF Working, PCs, Proving
  <2> QED
    BY <1>2, <1>3, <2>1, <2>7, <2>8, <2>9, WorksOn DEF Seen
<1>10. CASE GiveUp
  <2>1. /\ LetGo /\ disk' = disk /\ \E v \in GaveUp : row' = [row EXCEPT ![hand].status = v]
    BY <1>10 DEF GiveUp, GaveUp
  <2>2. \A f \in Files \ Keeps(hand) : disk[f] = work.found[f]
    BY <1>10 DEF GiveUp, Whole, Undone
  <2> QED
    BY <1>2, <2>1, <2>2, LetsGo DEF Seen
<1> QED
  BY <1>5, <1>6, <1>7, <1>8, <1>9, <1>10 DEF End

\* The run around the tickets writes nothing.
LEMMA RunWhole ==
    ASSUME Base, Whole, Apart, Restorable, Run
    PROVE  Whole' /\ Seen
<1>1. /\ pc \notin Working /\ pc' \notin Working
      /\ pc' \notin {"quarantine", "record", "review"} /\ ~Kill /\ ~Edit
  BY DEF Run, FinishRun, NextCycle, Leave, Kill, Resume, Retry, Edit, Goes, Become, Working,
         Restorable
<1>2. row \in [Tickets -> Rows] /\ disk \in Trees
  BY DEF Base, Typed
<1>3. disk' = disk
  <2>1. CASE FinishRun
    <3> DEFINE swept == {OwnTest[t] : t \in {u \in Tickets \ Bugs : row[u].status # "done"}}
    <3>1. \A f \in swept : disk[f] = Absent
      BY <1>1 DEF Whole, Unwritten, Settled
    <3>2. disk' = [f \in Files |-> IF f \in swept THEN Absent ELSE disk[f]]
      BY <2>1 DEF FinishRun, Removed
    <3> HIDE DEF swept
    <3>3. [f \in Files |-> IF f \in swept THEN Absent ELSE disk[f]] = [f \in Files |-> disk[f]]
      BY <3>1
    <3> QED
      BY <1>2, <3>2, <3>3 DEF Trees
  <2>2. CASE ~FinishRun
    BY <1>1, <2>2 DEF Run, NextCycle, Leave, Resume, Retry
  <2> QED
    BY <2>1, <2>2
<1>4. \A t \in Tickets : /\ (row'[t].status = "done" <=> row[t].status = "done")
                          /\ row'[t].origin = row[t].origin /\ row'[t].scope = row[t].scope
  <2>1. \A t \in Retryable : row[t].status # "done"
    BY DEF Retryable, GaveUp
  <2>2. CASE NextCycle
    <3>1. PICK rewritten, granted :
             /\ granted \in {{}}
             /\ row' = [t \in Tickets |->
                          IF t \notin Retryable THEN row[t]
                          ELSE [Requeued(t, rewritten) EXCEPT
                                   !.scope = IF t \in granted
                                             THEN @ \cup memory.contradicted[t] ELSE @]]
      BY <2>2 DEF NextCycle, Restorable
    <3> SUFFICES ASSUME NEW t \in Tickets
                 PROVE  /\ (row'[t].status = "done" <=> row[t].status = "done")
                        /\ row'[t].origin = row[t].origin /\ row'[t].scope = row[t].scope
      OBVIOUS
    <3>2. CASE t \notin Retryable
      BY <3>1, <3>2
    <3>3. CASE t \in Retryable
      <4> DEFINE r == Requeued(t, rewritten)
      <4>1. row'[t] = [r EXCEPT !.scope = r.scope]
        BY <3>1, <3>3
      <4>2. /\ r.status = "pending" /\ r.origin = row[t].origin /\ r.scope = row[t].scope
            /\ r \in Rows
        BY RequeuedKeeps, <2>2 DEF NextCycle
      <4> HIDE DEF r
      <4>3. /\ row'[t].status = "pending" /\ row'[t].origin = row[t].origin
            /\ row'[t].scope = row[t].scope
        BY <4>1, <4>2 DEF Rows
      <4> QED
        BY <2>1, <3>3, <4>3
    <3> QED
      BY <3>2, <3>3
  <2>3. CASE Retry
    BY RequeuedKeeps, <2>1, <2>3 DEF Retry
  <2>4. CASE row' = row
    BY <2>4
  <2> QED
    BY <1>1, <2>2, <2>3, <2>4 DEF Run, FinishRun, Leave, Resume, store
<1>5. Settled' = Settled /\ Landed' = Landed
  BY <1>1, <1>3, <1>4 DEF Settled, Landed
<1>6. Within' /\ Traced' /\ Undone' /\ Reviewed'
  BY <1>1, <1>4 DEF Whole, Within, Traced, Undone, Reviewed
<1>7. Original' /\ Unwritten'
  BY <1>4, <1>5 DEF Whole, Original, Unwritten
<1> QED
  BY <1>5, <1>6, <1>7 DEF Whole, Seen, Quiet

\* A step that is none.
LEMMA StutterWhole ==
    ASSUME Whole, UNCHANGED vars
    PROVE  Whole' /\ Quiet
<1>1. /\ disk' = disk /\ row' = row /\ pc' = pc /\ hand' = hand /\ work' = work
  BY DEF vars, store
<1>2. Settled' = Settled /\ Landed' = Landed
  BY <1>1 DEF Settled, Landed
<1> QED
  BY <1>1, <1>2
  DEF Whole, Within, Traced, Undone, Reviewed, Original, Unwritten, Quiet

\* Every step keeps the record and is a landing, a leaving or nothing.
LEMMA StepWhole ==
    ASSUME Base, Whole, Apart, Restorable, [Next]_vars
    PROVE  Whole' /\ Seen
<1>1. ASSUME NEW t \in Tickets, Take(t)
      PROVE  Whole' /\ Seen
  BY <1>1, TakeWhole DEF Seen
<1>2. CASE UNCHANGED vars
  BY <1>2, StutterWhole DEF Seen
<1> QED
  BY <1>1, <1>2, ProveWhole, BuildWhole, VerifyWhole, EndWhole, RunWhole DEF Next

\* The worktree Landing speaks of is Attempt's.
LEMMA SameWorktree ==
    /\ Project!Steps = Steps /\ Project!Trees = Trees
    /\ \A s, tree : Project!Printed(s, tree) = Printed(s, tree)
<1>1. Project!Steps = Steps /\ Project!Errors = Errors
  BY DEF Project!Steps, Steps, Project!Errors, Errors
<1>2. Project!Trees = Trees
  BY <1>1 DEF Project!Trees, Trees, Project!Contents, Contents
<1>3. \A tree : Project!Standing(tree) = Standing(tree)
  BY <1>1 DEF Project!Standing, Standing, Project!Absent, Absent
<1>4. ASSUME NEW s, NEW tree
      PROVE  Project!Printed(s, tree) = Printed(s, tree)
  BY <1>3 DEF Project!Printed, Printed
<1> QED
  BY <1>1, <1>2, <1>4

\* What is seen of a step is a step of Landing, or nothing.
LEMMA SeenIsStep ==
    ASSUME Seen
    PROVE  [Project!Next]_<<Settled, Landed>>
<1>1. /\ Landed = {u \in Tickets : row[u].status = "done"}
      /\ Landed' = {u \in Tickets : row'[u].status = "done"}
  BY DEF Landed
<1>2. ASSUME NEW t \in Tickets, Lands(t)
      PROVE  Project!Land(t)
  BY <1>1, <1>2, SameWorktree DEF Lands, Project!Land, Project!Only
<1>3. ASSUME NEW t \in Tickets, Leaves(t)
      PROVE  Project!Leave(t)
  BY <1>1, <1>3, SameWorktree DEF Leaves, Project!Leave, Project!Only
<1> QED
  BY <1>2, <1>3 DEF Seen, Quiet, Project!Next

\* A project begins with nothing landed and nothing on record.
LEMMA InitWhole ==
    ASSUME Init, Apart
    PROVE  Whole /\ Settled \in Trees /\ Landed = {}
<1>1. /\ pc = "idle" /\ pc \notin Working /\ disk = Found0 /\ Found0 \in Trees
      /\ \A t \in Tickets : /\ row[t].status = "pending" /\ row[t].origin = {}
                             /\ row[t].scope = Scope0[t]
  BY AttemptAssumption DEF Init, Working, Planned, AttemptAssumption
<1>2. Settled = Found0
  BY <1>1 DEF Settled
<1>3. Within /\ Traced /\ Undone /\ Reviewed
  BY <1>1 DEF Within, Mine, Traced, Undone, Reviewed
<1>4. Original /\ Unwritten
  BY <1>1, <1>2 DEF Original, Unwritten, Apart
<1> QED
  BY <1>1, <1>2, <1>3, <1>4 DEF Whole, Landed

\* A ticket at a time and a landing or nothing: where tickets write apart and what
\* they write can be put back, working through a backlog is Landing, whatever the
\* answers, the failures, the refunds and the cycles were.
THEOREM Transaction ==
    ASSUME Apart, Restorable
    PROVE  Spec => IsTransaction
<1>1. Init => Settled \in Project!Trees /\ {t \in Tickets : row[t].status = "done"} = {}
  BY InitWhole, SameWorktree DEF Landed
<1>2. Base /\ Whole /\ [Next]_vars =>
         [Project!Next]_<<Settled, {t \in Tickets : row[t].status = "done"}>>
  BY StepWhole, SeenIsStep DEF Landed
<1>3. Init => Whole
  BY InitWhole
<1>4. Base /\ Whole /\ [Next]_vars => Whole'
  BY StepWhole
<1> QED
  BY <1>1, <1>2, <1>3, <1>4, BaseHolds, PTL DEF Spec, IsTransaction, Project!Spec

-----------------------------------------------------------------------------
(***************************************************************************)
(* The reproduction of a bug stays what proved it, and passes in the end.   *)
(***************************************************************************)

\* No ticket is planned, moved or granted onto a test, and each has its own.
TestsApart ==
    /\ \A t \in Tickets : /\ Scope0[t] \cap TestFiles = {}
                          /\ \A scope \in Diagnoses[t] : scope \cap TestFiles = {}
    /\ \A t, u \in Tickets : t # u => OwnTest[t] # OwnTest[u]
    /\ "grant" \notin Weather

Attempting == {"attempt", "build", "gate", "verify", "review", "blocked"}

ScopesSpare == \A t \in Tickets : row[t].scope \cap TestFiles = {}

\* The test that is written is the ticket's own, and nothing else that is one.
WritesSpare ==
    pc \in Working =>
        /\ work.touched \cap TestFiles = {} /\ work.authored \subseteq {OwnTest[hand]}
        /\ pc \in Proving \cup Attempting /\ hand \in Bugs => work.repro = OwnTest[hand]

\* A bug is worked on over its reproduction, and reviewed once that passes.
Shown ==
    /\ pc \in Attempting /\ hand \in Bugs => disk[OwnTest[hand]] # Absent
    /\ pc = "review" /\ hand \in Bugs /\ ~Compiled =>
          <<"test", OwnTest[hand]>> \notin Standing(disk)

Spared == ScopesSpare /\ WritesSpare /\ Shown

\* A ticket's own test is a test file; what a tester writes is there.
LEMMA OwnTyped ==
    ASSUME NEW t \in Tickets
    PROVE  /\ OwnTest[t] \in TestFiles /\ OwnTest[t] \in Files
           /\ \A f : \A c \in TesterWrites(f) : c # Absent
<1>1. \A f : \A c \in TesterWrites(f) : c.by = "tester"
  BY DEF TesterWrites
<1>2. Absent.by = "nobody"
  BY DEF Absent
<1> QED
  BY <1>1, <1>2, AttemptAssumption, WorktreeAssumption
  DEF AttemptAssumption, WorktreeAssumption

\* The ticket in hand is worked on: no scope takes in a test, the lists of what
\* was written grow by no other ticket's, and the reproduction stays.
LEMMA WorkSpares ==
    ASSUME Base, Spared, pc \in Proving \cup Attempting, hand' = hand,
           pc' \in (Proving \cup Attempting) \ {"review"},
           \A t \in Tickets : row'[t].scope \cap TestFiles = {},
           work'.touched \cap TestFiles = {}, work'.authored \subseteq {OwnTest[hand]},
           work'.repro = work.repro,
           pc' \in Attempting /\ hand \in Bugs => disk'[OwnTest[hand]] # Absent
    PROVE  Spared'
<1>1. pc \in Working /\ pc' \in Working
  BY DEF Working, PCs, Proving, Attempting
<1> QED
  BY <1>1 DEF Spared, ScopesSpare, WritesSpare, Shown

\* An attempt that is over, a block and a tester asked again keep what was written.
LEMMA KeepsWritten ==
    ASSUME work \in Works
    PROVE  /\ \A files : NextAttempt(files, work) =>
                  /\ pc' = "attempt" /\ hand' = hand /\ work'.touched = work.touched
                  /\ work'.authored = work.authored /\ work'.repro = work.repro
           /\ Blocks(work) =>
                  /\ pc' = "blocked" /\ hand' = hand /\ work'.touched = work.touched
                  /\ work'.authored = work.authored /\ work'.repro = work.repro
           /\ AskedAgain =>
                  /\ pc' \in Proving /\ hand' = hand /\ work'.touched = work.touched
                  /\ work'.authored = work.authored /\ work'.repro = work.repro
           /\ \A v : Ending(v).touched = work.touched /\ Ending(v).authored = work.authored
           /\ Fresh.touched = {} /\ Fresh.authored = {}
BY DEF NextAttempt, Blocks, AskedAgain, GoesWith, Goes, Works, Ending, Fresh, Proving

\* Taking a ticket.
LEMMA TakeSpares ==
    ASSUME Base, Spared, TestsApart, NEW t \in Tickets, Take(t)
    PROVE  Spared'
<1> DEFINE repro == IF t \in Bugs THEN ReproTarget(t) ELSE Nobody
<1>1. /\ hand' = t /\ pc' = IF t \in Bugs THEN "prove" ELSE "attempt"
      /\ work' = [Fresh EXCEPT !.found = disk, !.inherited = Inherited(t, repro), !.repro = repro]
  BY DEF Take, Become
<1>2. /\ work'.touched = {} /\ work'.authored = {} /\ work'.repro = repro
  BY <1>1 DEF Fresh
<1>3. \A u \in Tickets : row'[u].scope = row[u].scope
  BY DEF Take, Base, Typed, Rows
<1>4. t \in Bugs => repro = OwnTest[t]
  <2>1. row[t].scope \cap TestFiles = {}
    BY DEF Spared, ScopesSpare
  <2>2. Cardinality(row[t].scope \cap TestFiles) # 1
    BY <2>1, FS_EmptySet
  <2> QED
    BY <2>2 DEF ReproTarget
<1> HIDE DEF repro
<1>5. ScopesSpare'
  BY <1>3 DEF Spared, ScopesSpare
<1>6. WritesSpare'
  BY <1>1, <1>2, <1>4 DEF WritesSpare
<1>7. Shown'
  BY <1>1 DEF Shown, Attempting
<1> QED
  BY <1>5, <1>6, <1>7 DEF Spared

\* Proving a bug writes its reproduction, and nothing is attempted without one.
LEMMA ProveSpares ==
    ASSUME Base, Spared, TestsApart, Prove
    PROVE  Spared'
<1>1. pc \in Proving
  BY DEF Prove, ProofStands, RetireProof, Reproduce, ReproduceNothing,
         RefuseToReproduce, Rediagnose, ParkUnproved, Unproved, Proving
<1>2. /\ pc \in Working /\ hand \in Tickets /\ hand \in Bugs /\ row \in [Tickets -> Rows]
      /\ work \in Works /\ disk \in Trees
  BY <1>1 DEF Base, Typed, InHand, Working, PCs, Proving
<1>3. /\ work.touched \cap TestFiles = {} /\ work.authored \subseteq {OwnTest[hand]}
      /\ work.repro = OwnTest[hand] /\ \A t \in Tickets : row[t].scope \cap TestFiles = {}
  BY <1>1, <1>2 DEF Spared, ScopesSpare, WritesSpare
<1>4. CASE ProofStands \/ RetireProof \/ RefuseToReproduce
  <2>1. /\ pc' \in {"attempt", "prove", "disproved"} /\ hand' = hand /\ work' = work
        /\ UNCHANGED row
        /\ pc' = "attempt" => disk'[work.repro] # Absent
    BY <1>1, <1>4 DEF ProofStands, RetireProof, RefuseToReproduce, Goes, store, Proving
  <2>2. /\ pc' \in (Proving \cup Attempting) \ {"review"}
        /\ pc' \in Attempting => disk'[OwnTest[hand]] # Absent
    BY <1>3, <2>1 DEF Proving, Attempting
  <2> QED
    BY <1>1, <1>3, <2>1, <2>2, WorkSpares
<1>5. CASE Reproduce
  <2>1. PICK c \in TesterWrites(work.repro) : disk' = [disk EXCEPT ![work.repro] = c]
    BY <1>5 DEF Reproduce
  <2>2. disk'[OwnTest[hand]] # Absent
    BY <1>2, <1>3, <2>1, OwnTyped DEF Trees
  <2>3. /\ pc' \in Proving \cup {"attempt"} /\ hand' = hand
        /\ work'.touched = work.touched /\ work'.authored = work.authored
        /\ work'.repro = work.repro /\ UNCHANGED row
    BY <1>2, <1>5, KeepsWritten DEF Reproduce, Goes
  <2>4. pc' \in (Proving \cup Attempting) \ {"review"}
    BY <2>3 DEF Proving, Attempting
  <2> QED
    BY <1>1, <1>3, <2>2, <2>3, <2>4, WorkSpares
<1>6. CASE ReproduceNothing
  <2>1. /\ pc' \in Proving /\ hand' = hand
        /\ work'.touched = work.touched /\ work'.authored = work.authored
        /\ work'.repro = work.repro /\ UNCHANGED row
    BY <1>2, <1>6, KeepsWritten DEF ReproduceNothing, store
  <2>2. pc' \in (Proving \cup Attempting) \ {"review"} /\ pc' \notin Attempting
    BY <2>1 DEF Proving, Attempting
  <2> QED
    BY <1>1, <1>3, <2>1, <2>2, WorkSpares
<1>7. CASE Rediagnose
  <2>1. PICK scope \in Diagnoses[hand] : row' = [row EXCEPT ![hand].scope = scope]
    BY <1>7 DEF Rediagnose
  <2>2. \A t \in Tickets : row'[t].scope = IF t = hand THEN scope ELSE row[t].scope
    BY <1>2, <2>1 DEF Rows
  <2>3. \A t \in Tickets : row'[t].scope \cap TestFiles = {}
    BY <1>2, <1>3, <2>2 DEF TestsApart
  <2>4. /\ pc' = "prove" /\ hand' = hand
        /\ work'.touched = work.touched /\ work'.authored = work.authored
        /\ work'.repro = work.repro
    BY <1>2, <1>7 DEF Rediagnose, GoesWith, Works
  <2>5. pc' \in (Proving \cup Attempting) \ {"review"} /\ pc' \notin Attempting
    BY <2>4 DEF Proving, Attempting
  <2> QED
    BY <1>1, <1>3, <2>3, <2>4, <2>5, WorkSpares
<1>8. CASE ParkUnproved
  <2>1. /\ pc' \notin Working /\ pc' \notin Attempting
        /\ \A t \in Tickets : row'[t].scope = row[t].scope
    BY <1>2, <1>8 DEF ParkUnproved, LetGo, Become, Working, Attempting, Rows
  <2> QED
    BY <1>3, <2>1 DEF Spared, ScopesSpare, WritesSpare, Shown, Attempting
<1> QED
  BY <1>4, <1>5, <1>6, <1>7, <1>8 DEF Prove

\* What an executor may write is no test, and a tester writes the ticket's own.
LEMMA BuildSpares ==
    ASSUME Base, Spared, TestsApart, Build \/ Test
    PROVE  Spared'
<1>1. pc \in {"attempt", "build", "gate"}
  BY DEF Build, BeginAttempt, BuildFails, BuildBlocks, BuildNothing, Apply, InnerTurn,
         Stall, Test, KeepTests, WriteTests, TesterFails, TesterBlocks, Built
<1>2. /\ pc \in Working /\ hand \in Tickets /\ row \in [Tickets -> Rows]
      /\ work \in Works /\ disk \in Trees
  BY <1>1 DEF Base, Typed, InHand, Working, PCs
<1>3. /\ work.touched \cap TestFiles = {} /\ work.authored \subseteq {OwnTest[hand]}
      /\ \A t \in Tickets : row[t].scope \cap TestFiles = {}
      /\ hand \in Bugs => disk[OwnTest[hand]] # Absent
  BY <1>1, <1>2 DEF Spared, ScopesSpare, WritesSpare, Shown, Attempting
<1>4. OwnTest[hand] \in TestFiles /\ OwnTest[hand] \in Files
  BY <1>2, OwnTyped
<1>5. ASSUME pc' \in Attempting \ {"review"}, hand' = hand, work'.repro = work.repro,
             work'.touched \cap TestFiles = {}, work'.authored \subseteq {OwnTest[hand]},
             \A t \in Tickets : row'[t].scope = row[t].scope,
             hand \in Bugs => disk'[OwnTest[hand]] = disk[OwnTest[hand]]
      PROVE  Spared'
  <2>1. pc \in Proving \cup Attempting /\ pc' \in (Proving \cup Attempting) \ {"review"}
    BY <1>1, <1>5 DEF Attempting
  <2> QED
    BY <1>3, <1>5, <2>1, WorkSpares
<1>6. CASE BeginAttempt \/ BuildFails \/ BuildBlocks \/ BuildNothing \/ InnerTurn \/ Stall
           \/ KeepTests \/ TesterFails \/ TesterBlocks
  <2>1. disk' = disk /\ \A t \in Tickets : row'[t].scope = row[t].scope
    BY <1>2, <1>6
    DEF BeginAttempt, BuildFails, BuildBlocks, BuildNothing, InnerTurn, Stall, KeepTests,
        TesterFails, TesterBlocks, store, Rows
  <2>2. /\ pc' \in {"attempt", "blocked", "build", "gate", "verify"} /\ hand' = hand
        /\ work'.repro = work.repro /\ work'.touched = work.touched
        /\ work'.authored = work.authored
    <3>1. CASE BeginAttempt \/ BuildNothing \/ KeepTests
      BY <3>1 DEF BeginAttempt, BuildNothing, KeepTests, Goes
    <3>2. CASE BuildFails \/ BuildBlocks \/ TesterBlocks
      BY <1>2, <3>2, KeepsWritten DEF BuildFails, BuildBlocks, TesterBlocks
    <3>3. CASE InnerTurn \/ Stall \/ TesterFails
      BY <1>2, <3>3 DEF InnerTurn, Stall, TesterFails, GoesWith, Works
    <3> QED
      BY <1>6, <3>1, <3>2, <3>3
  <2> QED
    BY <1>3, <1>5, <2>1, <2>2 DEF Attempting
<1>7. CASE Apply
  <2>1. PICK written, new :
           written \in SUBSET row[hand].scope \ {{}} /\ Write(work.touched \cup written, written, new)
    BY <1>7 DEF Apply
  <2>2. written \cap TestFiles = {}
    BY <1>2, <1>3, <2>1
  <2>3. disk'[OwnTest[hand]] = disk[OwnTest[hand]]
    BY <1>4, <2>1, <2>2 DEF Write
  <2> DEFINE w == [work EXCEPT !.touched = work.touched \cup written, !.written = written]
  <2>4. w.repro = work.repro /\ w.authored = work.authored
        /\ w.touched = work.touched \cup written
    BY <1>2 DEF Works
  <2>5. GoesWith("gate", w) \/ NextAttempt({}, w)
    BY <2>1 DEF Write
  <2>6. /\ pc' \in {"gate", "attempt"} /\ hand' = hand /\ work'.repro = w.repro
        /\ work'.touched = w.touched /\ work'.authored = w.authored
    <3>1. CASE GoesWith("gate", w)
      BY <3>1 DEF GoesWith
    <3>2. CASE NextAttempt({}, w)
      BY <1>2, <3>2 DEF NextAttempt, GoesWith, Works
    <3> QED
      BY <2>5, <3>1, <3>2
  <2> HIDE DEF w
  <2>7. row' = row
    BY <1>7 DEF Apply, store
  <2> QED
    BY <1>3, <1>5, <2>2, <2>3, <2>4, <2>6, <2>7 DEF Attempting
<1>8. CASE WriteTests
  <2>1. PICK f, c :
           /\ f \in TestTargets /\ disk' = [disk EXCEPT ![f] = c]
           /\ GoesWith("verify",
                 [work EXCEPT !.grew = (disk[f] = Absent),
                              !.authored = IF disk[f] = Absent THEN @ \cup {f} ELSE @])
    BY <1>8 DEF WriteTests
  <2>2. f = OwnTest[hand] /\ hand \notin Bugs
    BY <1>2, <1>3, <2>1 DEF TestTargets
  <2>3. /\ pc' = "verify" /\ hand' = hand /\ work'.repro = work.repro
        /\ work'.touched = work.touched /\ work'.authored \subseteq work.authored \cup {f}
    BY <1>2, <2>1 DEF GoesWith, Works
  <2>4. \A t \in Tickets : row'[t].scope = row[t].scope
    BY <1>2, <1>8 DEF WriteTests, Rows
  <2> QED
    BY <1>3, <1>5, <2>2, <2>3, <2>4 DEF Attempting
<1> QED
  BY <1>6, <1>7, <1>8 DEF Build, Test

\* A bug is let through by its suite only when its reproduction does not fail.
LEMMA VerifySpares ==
    ASSUME Base, Spared, TestsApart, Verify
    PROVE  Spared'
<1>1. pc = "verify"
  BY DEF Verify, VerifyFails, VerifyContradicts, NotCollected, VerifyHalts, VerifyPasses
<1>2. /\ pc \in Working /\ hand \in Tickets /\ row \in [Tickets -> Rows]
      /\ work \in Works /\ disk \in Trees
  BY <1>1 DEF Base, Typed, InHand, Working, PCs
<1>3. /\ work.touched \cap TestFiles = {} /\ work.authored \subseteq {OwnTest[hand]}
      /\ \A t \in Tickets : row[t].scope \cap TestFiles = {}
      /\ hand \in Bugs => disk[OwnTest[hand]] # Absent /\ work.repro = OwnTest[hand]
  BY <1>1, <1>2 DEF Spared, ScopesSpare, WritesSpare, Shown, Attempting
<1>4. disk' = disk /\ \A t \in Tickets : row'[t].scope = row[t].scope
  BY <1>2
  DEF Verify, VerifyFails, VerifyContradicts, NotCollected, VerifyHalts, VerifyPasses,
      Charges, store, Rows
<1>5. CASE VerifyFails \/ VerifyContradicts \/ NotCollected
  <2>1. /\ pc' \in {"attempt", "blocked"} /\ hand' = hand /\ work'.touched = work.touched
        /\ work'.authored = work.authored /\ work'.repro = work.repro
    BY <1>2, <1>5, KeepsWritten DEF VerifyFails, VerifyContradicts, NotCollected
  <2>2. pc \in Proving \cup Attempting /\ pc' \in (Proving \cup Attempting) \ {"review"}
    BY <1>1, <2>1 DEF Attempting
  <2> QED
    BY <1>3, <1>4, <2>1, <2>2, WorkSpares
<1>6. CASE VerifyHalts
  <2>1. pc' = "discard" /\ hand' = hand /\ work' = Ending("halt")
    BY <1>6 DEF VerifyHalts, GoesWith
  <2>2. work'.touched = work.touched /\ work'.authored = work.authored
    BY <1>2, <2>1, KeepsWritten
  <2>3. pc' \notin Proving \cup Attempting
    BY <2>1 DEF Proving, Attempting
  <2> QED
    BY <1>3, <1>4, <2>1, <2>2, <2>3 DEF Spared, ScopesSpare, WritesSpare, Shown
<1>7. CASE VerifyPasses
  <2>1. pc' = "review" /\ hand' = hand /\ work' = work /\ Refusing = {}
    BY <1>7 DEF VerifyPasses, Goes
  <2>2. hand \in Bugs /\ ~Compiled => <<"test", OwnTest[hand]>> \notin Standing(disk)
    <3> SUFFICES ASSUME hand \in Bugs, ~Compiled, <<"test", OwnTest[hand]>> \in Standing(disk)
                 PROVE  FALSE
      OBVIOUS
    <3> DEFINE e == <<"test", OwnTest[hand]>>
    <3>1. e \in Printed("test", disk)
      BY DEF Printed
    <3>2. OwnTest[hand] \in Named(Printed("test", disk))
      <4>1. e[2] = OwnTest[hand]
        OBVIOUS
      <4> QED
        BY <3>1, <4>1 DEF Named
    <3>3. Passes("test")
      BY <2>1 DEF Refusing, Ran, Steps
    <3>4. Fails("test", disk)
      BY <3>1 DEF Fails
    <3> QED
      BY <1>3, <3>2, <3>3, <3>4 DEF Passes
  <2>3. ScopesSpare' /\ WritesSpare'
    BY <1>3, <1>4, <2>1 DEF ScopesSpare, WritesSpare
  <2>4. Shown'
    BY <1>3, <1>4, <2>1, <2>2 DEF Shown
  <2> QED
    BY <2>3, <2>4 DEF Spared
<1> QED
  BY <1>5, <1>6, <1>7 DEF Verify

\* The end of a ticket widens no scope onto a test.
LEMMA EndSpares ==
    ASSUME Base, Spared, TestsApart, End
    PROVE  Spared'
<1>1. pc \in {"review", "blocked", "attempt", "discard", "quarantine", "record"}
  BY DEF End, ReviewRejects, ReviewApproves, WidenScope, StaysBlocked, Exhausted,
         DiscardTests, Quarantine, GiveUp
<1>2. /\ pc \in Working /\ hand \in Tickets /\ row \in [Tickets -> Rows]
      /\ work \in Works /\ disk \in Trees
  BY <1>1 DEF Base, Typed, InHand, Working, PCs
<1>3. /\ work.touched \cap TestFiles = {} /\ work.authored \subseteq {OwnTest[hand]}
      /\ \A t \in Tickets : row[t].scope \cap TestFiles = {}
  BY <1>1, <1>2 DEF Spared, ScopesSpare, WritesSpare
<1>4. CASE ReviewRejects \/ WidenScope
  <2>1. /\ pc' = "attempt" /\ hand' = hand /\ work'.touched = work.touched
        /\ work'.authored = work.authored /\ work'.repro = work.repro /\ disk' = disk
    BY <1>2, <1>4, KeepsWritten DEF ReviewRejects, WidenScope
  <2>2. \A t \in Tickets : row'[t].scope \cap TestFiles = {}
    BY <1>2, <1>3, <1>4 DEF ReviewRejects, WidenScope, Grantable, store, Rows
  <2>3. /\ pc \in Proving \cup Attempting /\ pc' \in (Proving \cup Attempting) \ {"review"}
        /\ hand \in Bugs => disk[OwnTest[hand]] # Absent
    BY <1>4, <2>1 DEF ReviewRejects, WidenScope, Spared, Shown, Attempting
  <2> QED
    BY <1>3, <2>1, <2>2, <2>3, WorkSpares
<1>5. CASE StaysBlocked \/ Exhausted
  <2>1. /\ pc' = "discard" /\ hand' = hand /\ row' = row
        /\ \E v : work' = Ending(v)
    BY <1>5 DEF StaysBlocked, Exhausted, GoesWith, store
  <2>2. work'.touched = work.touched /\ work'.authored = work.authored
    BY <1>2, <2>1, KeepsWritten
  <2>3. pc' \notin Proving \cup Attempting
    BY <2>1 DEF Proving, Attempting
  <2> QED
    BY <1>3, <2>1, <2>2, <2>3 DEF Spared, ScopesSpare, WritesSpare, Shown
<1>6. CASE DiscardTests \/ Quarantine
  <2>1. /\ pc' \in {"quarantine", "record"} /\ hand' = hand /\ row' = row /\ work' = work
    BY <1>6 DEF DiscardTests, Quarantine, Goes, store
  <2>2. pc' \notin Proving \cup Attempting
    BY <2>1 DEF Proving, Attempting
  <2> QED
    BY <1>3, <2>1, <2>2 DEF Spared, ScopesSpare, WritesSpare, Shown
<1>7. CASE ReviewApproves \/ GiveUp
  <2>1. pc' \notin Working /\ pc' \notin Attempting
    BY <1>7 DEF ReviewApproves, GiveUp, LetGo, Become, Working, Attempting
  <2>2. \A t \in Tickets : row'[t].scope = row[t].scope
    BY <1>2, <1>7 DEF ReviewApproves, GiveUp, Rows
  <2> QED
    BY <1>3, <2>1, <2>2 DEF Spared, ScopesSpare, WritesSpare, Shown, Attempting
<1> QED
  BY <1>4, <1>5, <1>6, <1>7 DEF End

\* The run around the tickets leaves the scopes as they are.
LEMMA RunSpares ==
    ASSUME Base, Spared, TestsApart, Run
    PROVE  Spared'
<1>1. pc' \notin Working /\ pc' \notin Attempting
  BY DEF Run, FinishRun, NextCycle, Leave, Kill, Resume, Retry, Edit, Goes, Become, Working,
         Attempting
<1>2. row \in [Tickets -> Rows]
  BY DEF Base, Typed
<1>3. \A t \in Tickets : row'[t].scope = row[t].scope
  <2>1. CASE NextCycle
    <3>1. PICK rewritten, granted :
             /\ granted \in {{}}
             /\ row' = [t \in Tickets |->
                          IF t \notin Retryable THEN row[t]
                          ELSE [Requeued(t, rewritten) EXCEPT
                                   !.scope = IF t \in granted
                                             THEN @ \cup memory.contradicted[t] ELSE @]]
      BY <2>1 DEF NextCycle, TestsApart
    <3> SUFFICES ASSUME NEW t \in Tickets
                 PROVE  row'[t].scope = row[t].scope
      OBVIOUS
    <3> DEFINE r == Requeued(t, rewritten)
    <3>2. row'[t] = row[t] \/ row'[t] = [r EXCEPT !.scope = r.scope]
      BY <3>1
    <3>3. r.scope = row[t].scope /\ r \in Rows
      BY RequeuedKeeps, <2>1 DEF NextCycle
    <3> HIDE DEF r
    <3> QED
      BY <3>2, <3>3 DEF Rows
  <2>2. CASE Retry
    BY RequeuedKeeps, <2>2 DEF Retry
  <2>3. CASE row' = row
    BY <2>3
  <2> QED
    BY <2>1, <2>2, <2>3 DEF Run, FinishRun, Leave, Kill, Resume, Edit, store
<1> QED
  BY <1>1, <1>3 DEF Spared, ScopesSpare, WritesSpare, Shown, Attempting

\* No step but a person's writes the test that proved a bug while it stands.
LEMMA StepUntouched ==
    ASSUME Base, Spared, TestsApart, Next, pc \notin {"down", "ended"},
           NEW t \in Bugs, t \in proof, t \in proof'
    PROVE  disk'[OwnTest[t]] = disk[OwnTest[t]]
<1>1. /\ t \in Tickets /\ disk \in Trees
  BY AttemptAssumption DEF AttemptAssumption, Base, Typed
<1>2. OwnTest[t] \in TestFiles /\ OwnTest[t] \in Files
  BY <1>1, OwnTyped
<1>3. \A u \in Tickets : u # t => OwnTest[u] # OwnTest[t]
  BY <1>1 DEF TestsApart
<1>4. CASE Reproduce
  <2>1. pc \in Working /\ pc \in Proving /\ hand \notin proof
    BY <1>4 DEF Reproduce, Unproved, Working, PCs, Proving
  <2>2. /\ hand \in Tickets /\ hand \in Bugs /\ hand # t
        /\ work.repro = OwnTest[hand]
    BY <2>1 DEF Base, InHand, Spared, WritesSpare
  <2>3. PICK c : disk' = [disk EXCEPT ![work.repro] = c]
    BY <1>4 DEF Reproduce
  <2> QED
    BY <1>1, <1>2, <1>3, <2>2, <2>3 DEF Trees
<1>5. CASE Apply
  <2>1. PICK written, new : /\ written \subseteq row[hand].scope
                            /\ Write(work.touched \cup written, written, new)
    BY <1>5 DEF Apply
  <2>2. hand \in Tickets
    BY <1>5 DEF Apply, Base, InHand, Working, PCs
  <2>3. OwnTest[t] \notin written
    BY <1>2, <2>1, <2>2 DEF Spared, ScopesSpare
  <2> QED
    BY <1>2, <2>1, <2>3 DEF Write
<1>6. CASE WriteTests
  <2>1. PICK f, c : f \in TestTargets /\ disk' = [disk EXCEPT ![f] = c]
    BY <1>6 DEF WriteTests
  <2>2. hand \in Tickets
    BY <1>6 DEF WriteTests, Built, Base, InHand, Working, PCs
  <2>3. f = OwnTest[hand] /\ hand # t
    BY <2>1, <2>2 DEF TestTargets, Spared, ScopesSpare
  <2> QED
    BY <1>1, <1>2, <1>3, <2>1, <2>2, <2>3 DEF Trees
<1>7. CASE DiscardTests
  <2>1. hand \in Tickets /\ work.authored \subseteq {OwnTest[hand]}
    BY <1>7 DEF DiscardTests, Base, InHand, Spared, WritesSpare, Working, PCs
  <2>2. CASE hand = t
    BY <1>7, <2>2 DEF DiscardTests
  <2>3. CASE hand # t
    BY <1>2, <1>3, <1>7, <2>1, <2>3 DEF DiscardTests, Removed
  <2> QED
    BY <2>2, <2>3
<1>8. CASE Quarantine
  <2>1. OwnTest[t] \notin work.touched
    BY <1>2, <1>8 DEF Quarantine, Spared, WritesSpare, Working, PCs
  <2>2. PICK uncopied :
           LET back == IF QuarantineFailed THEN work.touched \ uncopied ELSE {} IN
           disk' = [f \in Files |->
                       IF f \in back /\ row[hand].origin # {}
                       THEN (CHOOSE tree \in row[hand].origin : TRUE)[f]
                       ELSE disk[f]]
    BY <1>8 DEF Quarantine
  <2> QED
    BY <1>2, <2>1, <2>2
<1>9. CASE FinishRun
  <2>1. OwnTest[t] \notin {OwnTest[u] : u \in {v \in Tickets \ Bugs : row[v].status # "done"}}
    BY <1>3
  <2> QED
    BY <1>2, <1>9, <2>1 DEF FinishRun, Removed
<1>10. CASE disk' = disk
  BY <1>10
<1>11. ~Edit
  BY DEF Edit
<1> QED
  BY <1>4, <1>5, <1>6, <1>7, <1>8, <1>9, <1>10, <1>11
  DEF Next, Take, Prove, ProofStands, RetireProof, ReproduceNothing, RefuseToReproduce,
      Rediagnose, ParkUnproved, Build, BeginAttempt, BuildFails, BuildBlocks, BuildNothing,
      InnerTurn, Stall, Test, KeepTests, TesterFails, TesterBlocks, Verify, VerifyFails,
      VerifyContradicts, NotCollected, VerifyHalts, VerifyPasses, End, ReviewRejects,
      ReviewApproves, WidenScope, StaysBlocked, Exhausted, GiveUp, Run, NextCycle, Leave,
      Kill, Resume, Retry

\* A step of any kind.
LEMMA StepSpares ==
    ASSUME Base, Spared, TestsApart, [Next]_vars
    PROVE  Spared'
<1>1. CASE UNCHANGED vars
  BY <1>1 DEF vars, store, Spared, ScopesSpare, WritesSpare, Shown
<1>2. ASSUME NEW t \in Tickets, Take(t)
      PROVE  Spared'
  BY <1>2, TakeSpares
<1> QED
  BY <1>1, <1>2, ProveSpares, BuildSpares, VerifySpares, EndSpares, RunSpares DEF Next

LEMMA SparedHolds ==
    ASSUME TestsApart
    PROVE  Spec => [](Base /\ Spared)
<1>1. Init => Spared
  BY DEF Init, Planned, TestsApart, Spared, ScopesSpare, WritesSpare, Shown, Working, Attempting
<1>2. Base /\ Spared /\ [Next]_vars => Spared'
  BY StepSpares
<1> QED
  BY <1>1, <1>2, BaseHolds, PTL DEF Spec

\* Once it proved a bug, the reproduction is what it was, whatever is attempted,
\* tested, discarded, quarantined or swept: where no ticket is put onto a test and
\* each has a test of its own.
THEOREM ReproductionStays ==
    ASSUME TestsApart
    PROVE  Spec => ReproductionUntouched
<1> DEFINE Kept == \A t \in Bugs :
                      t \in proof /\ t \in proof' /\ pc \notin {"down", "ended"} =>
                        disk'[OwnTest[t]] = disk[OwnTest[t]]
<1>1. Base /\ Spared /\ [Next]_vars => [Kept]_vars
  BY StepUntouched
<1> QED
  BY <1>1, SparedHolds, PTL DEF Spec, ReproductionUntouched

\* A bug is done over a reproduction that is there and does not fail, whatever else
\* was excused on the way: under the same hypothesis, and where a suite runs whether
\* or not everything compiles.
THEOREM FixedIsShown ==
    ASSUME TestsApart, ~Compiled
    PROVE  Spec => FixedMeansReproductionPasses
<1> DEFINE Kept == \A t \in Bugs : row[t].status # "done" /\ row'[t].status = "done" =>
                      /\ disk[OwnTest[t]] # Absent
                      /\ <<"test", OwnTest[t]>> \notin Standing(disk)
<1>1. Base /\ Spared /\ [Next]_vars => [Kept]_vars
  BY OnlyReviewFinishes, AttemptAssumption DEF AttemptAssumption, Spared, Shown, Attempting
<1> QED
  BY <1>1, SparedHolds, PTL DEF Spec, FixedMeansReproductionPasses
=============================================================================
