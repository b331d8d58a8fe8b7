------------------------------- MODULE Attempt -------------------------------
(***************************************************************************)
(* Work on a ticket, from the tree it finds to the tree it leaves:          *)
(* `_work_ticket` and `_attempt` of src/forge/loop.py with what they do to  *)
(* the files and to the ticket's row.  RunLoop has the same attempts as     *)
(* outcomes only; here the run around them is what puts the tickets in hand *)
(* one after the other, requeues them and is killed.                        *)
(*                                                                         *)
(* A model call is its answer.  Whatever writes the disk or the store is a  *)
(* step, with the reads that lead to it; a kill falls between any two.      *)
(***************************************************************************)
EXTENDS Worktree

CONSTANTS
    Bugs,              \* the tickets that are bug reports
    Position,          \* the place of each ticket in the plan
    Found0,            \* the project a run starts on
    Scope0,            \* the files each ticket may write, as planned
    OwnTest,           \* the test file each ticket has by its name
    Breaks,            \* the errors a content of each file may cause
    Askable,           \* the files an executor may say it needs
    Diagnoses,         \* scopes a planner may move a bug ticket to
    MaxAttempts,       \* loop.maxAttempts
    InnerTurns,        \* loop.innerTurns
    BugHypotheses,     \* loop.bugHypotheses
    FreezeTests,       \* loop.freezeTests
    BaselineVerify,    \* loop.baselineVerify
    QuarantineFailed,  \* loop.quarantineFailed
    Weather,           \* what may happen besides: see WeatherTypes
    MaxCycles,         \* bound: times tickets are requeued
    MaxKills,          \* bound: kills
    MaxEdits           \* bound: files a person writes or deletes

WeatherTypes == {"kill", "edit", "disk", "grant", "respec"}

ASSUME AttemptAssumption ==
    /\ Bugs \subseteq Tickets /\ Found0 \in Trees
    /\ Position \in [Tickets -> Nat]
    /\ Scope0 \in [Tickets -> SUBSET Files] /\ OwnTest \in [Tickets -> TestFiles]
    /\ Breaks \in [Files -> SUBSET Errors] /\ Askable \in [Tickets -> SUBSET Files]
    /\ Diagnoses \in [Tickets -> SUBSET SUBSET Files]
    /\ MaxAttempts \in Nat \ {0} /\ InnerTurns \in Nat /\ BugHypotheses \in Nat \ {0}
    /\ FreezeTests \in BOOLEAN /\ BaselineVerify \in BOOLEAN
    /\ QuarantineFailed \in BOOLEAN
    /\ Weather \subseteq WeatherTypes
    /\ MaxCycles \in Nat /\ MaxKills \in Nat /\ MaxEdits \in Nat

VARIABLES
    disk,    \* the files
    row,     \* the tickets' rows in the store
    proof,   \* the bug tickets whose log holds a reproduction
    steady,  \* failed suites in the log, while they all blame the reproduction
    pc,      \* the process
    hand,    \* the ticket in hand
    work,    \* what `_work_ticket` remembers of it
    memory,  \* what the process remembers of the run
    spared   \* what is left of the bounds

store == <<row, proof, steady>>
vars == <<disk, store, pc, hand, work, memory, spared>>

Statuses == {"pending", "running", "done", "failed", "blocked"}
PCs == {"down", "idle", "prove", "disproved", "attempt", "build", "gate", "verify",
        "review", "blocked", "discard", "quarantine", "record", "over", "ended"}
Working == PCs \ {"down", "idle", "over", "ended"}
GaveUp == {"failed", "blocked"}
Nobody == "nobody"
Moved == -1

Rows == [status: Statuses, attempts: 0..MaxAttempts, base: 0..MaxAttempts,
         scope: SUBSET Files, contract: 0..MaxCycles, origin: SUBSET Trees,
         charged: SUBSET Errors, tested: SUBSET ((0..MaxCycles) \X SUBSET Files)]

Planned(t) == [status |-> "pending", attempts |-> 0, base |-> 0,
               scope |-> Scope0[t], contract |-> 0, origin |-> {},
               charged |-> {}, tested |-> {}]

\* The locals of `_work_ticket`, with the tree the ticket was taken on, and those
\* of the attempt in hand.
Fresh == [found |-> Found0, inherited |-> [s \in Steps |-> {}], repro |-> Nobody,
          guess |-> 1, asks |-> 0, touched |-> {}, authored |-> {},
          written |-> {}, grew |-> FALSE, blames |-> {}, wants |-> {},
          spent |-> 0, last |-> {}, ungated |-> FALSE, verdict |-> "failed"]

Forgotten == [widened |-> {}, reproved |-> {}, halt |-> FALSE,
              contradicted |-> [t \in Tickets |-> {}]]

\* The process: everything of it is lost when it ends.
Become(p, t, w) == pc' = p /\ hand' = t /\ work' = w
Goes(p) == pc' = p /\ UNCHANGED <<hand, work>>
GoesWith(p, w) == pc' = p /\ work' = w /\ UNCHANGED hand
LetGo == Become("idle", Nobody, Fresh)

Init ==
    /\ disk = Found0
    /\ row = [t \in Tickets |-> Planned(t)]
    /\ proof = {} /\ steady = [t \in Tickets |-> 0]
    /\ pc = "idle" /\ hand = Nobody /\ work = Fresh /\ memory = Forgotten
    /\ spared = [cycles |-> MaxCycles, kills |-> MaxKills, edits |-> MaxEdits]

(***************************************************************************)
(* Taking a ticket.                                                        *)
(***************************************************************************)

\* `_repro_target`: the one test file in the ticket's scope, or its own.
ReproTarget(t) ==
    LET designated == row[t].scope \cap TestFiles IN
    IF Cardinality(designated) = 1 THEN CHOOSE f \in designated : TRUE ELSE OwnTest[t]

\* (mutant) what the ticket was charged for is forgotten
InheritedAfresh(t, repro) ==
    [s \in Steps |->
        IF ~BaselineVerify THEN {}
        ELSE {e \in Signatures(Printed(s, disk)) : e[2] \notin row[t].scope \cup {repro}}]

\* `_baseline_failures`, `_inherited_failures`: what stands outside the ticket's
\* scope and its reproduction, and was not of its own making.
Inherited(t, repro) ==
    [s \in Steps |->
        IF ~BaselineVerify THEN {}
        ELSE {e \in Signatures(Printed(s, disk)) :
                 e[2] \notin row[t].scope \cup {repro} /\ e \notin row[t].charged}]

Waiting == {t \in Tickets : row[t].status \in {"pending", "running"}}

Take(t) ==
    /\ pc = "idle" /\ ~memory.halt
    /\ t \in Waiting /\ \A u \in Waiting : Position[t] <= Position[u]
    /\ row' = [row EXCEPT ![t].status = "running",
                          ![t].origin = IF @ = {} THEN Snapshot(disk) ELSE @]
    /\ LET repro == IF t \in Bugs THEN ReproTarget(t) ELSE Nobody IN
       Become(IF t \in Bugs THEN "prove" ELSE "attempt", t,
              [Fresh EXCEPT !.found = disk, !.inherited = Inherited(t, repro), !.repro = repro])
    /\ UNCHANGED <<disk, proof, steady, memory, spared>>

(***************************************************************************)
(* Proving a bug, before anything is built.                                *)
(***************************************************************************)

\* `_stale_reproduction`: a cycle spent, and every failed suite of the ticket
\* blames its reproduction and nothing else.
Stale(t) ==
    /\ t \notin memory.reproved /\ row[t].base = MaxAttempts
    /\ steady[t] >= MaxAttempts

ProofStands ==
    /\ pc = "prove" /\ hand \in proof /\ ~Stale(hand)
    /\ disk[work.repro] # Absent
    /\ Goes("attempt")
    /\ UNCHANGED <<disk, store, memory, spared>>

RetireProof ==
    /\ pc = "prove"
    /\ Stale(hand) \/ (hand \in proof /\ disk[work.repro] = Absent)
    /\ proof' = proof \ {hand}
    /\ memory' = IF Stale(hand) THEN [memory EXCEPT !.reproved = @ \cup {hand}]
                 ELSE memory
    /\ UNCHANGED <<disk, row, steady, pc, hand, work, spared>>

Unproved == pc = "prove" /\ hand \notin proof /\ ~Stale(hand)

\* The tester is asked twice about each explanation of the bug.
AskedAgain ==
    IF work.asks = 0 THEN GoesWith("prove", [work EXCEPT !.asks = 1])
    ELSE Goes("disproved")

\* The suite is red, and the reproduction is not what does not build.
Reproduces(tree) ==
    LET printed == Printed("test", tree) IN
    /\ printed # {}
    /\ ~(work.repro \in Named(printed) /\ tree[work.repro].breaks # {})

Reproduce ==
    /\ Unproved
    /\ \E c \in TesterWrites(work.repro) :
          /\ disk' = [disk EXCEPT ![work.repro] = c]
          /\ IF Reproduces(disk')
             THEN proof' = proof \cup {hand} /\ Goes("attempt")
             ELSE AskedAgain /\ UNCHANGED proof
    /\ UNCHANGED <<row, steady, memory, spared>>

\* The tester wrote no test, or only one that cannot be used.
ReproduceNothing ==
    /\ Unproved /\ AskedAgain
    /\ UNCHANGED <<disk, store, memory, spared>>

\* The tester says there is nothing to test, or does not answer.
RefuseToReproduce ==
    /\ Unproved /\ Goes("disproved")
    /\ UNCHANGED <<disk, store, memory, spared>>

Rediagnose ==
    /\ pc = "disproved" /\ work.guess < BugHypotheses
    /\ \E scope \in Diagnoses[hand] : row' = [row EXCEPT ![hand].scope = scope]
    /\ GoesWith("prove", [work EXCEPT !.guess = @ + 1, !.asks = 0])
    /\ UNCHANGED <<disk, proof, steady, memory, spared>>

\* What was written stays on disk: no attempt was made.
ParkUnproved ==
    /\ pc = "disproved"
    /\ row' = [row EXCEPT ![hand].status = "blocked"]
    /\ LetGo
    /\ UNCHANGED <<disk, proof, steady, memory, spared>>

(***************************************************************************)
(* An attempt.                                                             *)
(***************************************************************************)

\* (mutant) the budget is compared after the charge
BeginOneMore ==
    /\ pc = "attempt" /\ row[hand].attempts <= MaxAttempts
    /\ row' = [row EXCEPT ![hand].attempts = @ + 1]
    /\ Goes("build")
    /\ UNCHANGED <<disk, proof, steady, memory, spared>>

BeginAttempt ==
    /\ pc = "attempt" /\ row[hand].attempts < MaxAttempts
    /\ row' = [row EXCEPT ![hand].attempts = @ + 1]
    /\ Goes("build")
    /\ UNCHANGED <<disk, proof, steady, memory, spared>>

\* The attempt is over; the next one is told of a failure that names these files.
NextAttempt(files, w) ==
    GoesWith("attempt",
        [w EXCEPT !.blames = files, !.written = {}, !.grew = FALSE, !.wants = {},
                  !.spent = 0, !.last = {}, !.ungated = FALSE])

BuildFails ==
    /\ pc = "build" /\ NextAttempt({}, work)
    /\ UNCHANGED <<disk, store, memory, spared>>

\* Whoever blocks names files, and the block is spent on asking for them.
Blocks(w) == \E files \in SUBSET Askable[hand] :
                 GoesWith("blocked", [w EXCEPT !.wants = files])

BuildBlocks ==
    /\ pc = "build" /\ Blocks(work)
    /\ UNCHANGED <<disk, store, memory, spared>>

\* A readable answer with no file in it: the work is on disk already.
BuildNothing ==
    /\ pc = "build" /\ Goes("gate")
    /\ UNCHANGED <<disk, store, memory, spared>>

ExecutorWrites(f) ==
    {[by |-> hand, breaks |-> b, asserts |-> f \in TestFiles] : b \in SUBSET Breaks[f]}

\* What is left of an answer once the scope is enforced reaches the disk.
Write(touched, written, new) ==
    /\ disk' = [f \in Files |-> IF f \in written THEN new[f] ELSE disk[f]]
    /\ LET w == [work EXCEPT !.touched = touched, !.written = written] IN
       \/ GoesWith("gate", w)
       \/ NextAttempt({}, w)  \* cut short, an import of nothing, a gutted manifest

\* (mutant) only what the last attempt wrote is remembered
ApplyForgetful ==
    /\ pc = "build"
    /\ \E written \in SUBSET row[hand].scope \ {{}} :
       \E new \in [written -> UNION {ExecutorWrites(f) : f \in written}] :
          /\ \A f \in written : new[f] \in ExecutorWrites(f)
          /\ Write(written, written, new)
    /\ UNCHANGED <<store, memory, spared>>

Apply ==
    /\ pc = "build"
    /\ \E written \in SUBSET row[hand].scope \ {{}} :
       \E new \in [written -> UNION {ExecutorWrites(f) : f \in written}] :
          /\ \A f \in written : new[f] \in ExecutorWrites(f)
          /\ Write(work.touched \cup written, written, new)
    /\ UNCHANGED <<store, memory, spared>>

(***************************************************************************)
(* The compile gate.                                                       *)
(***************************************************************************)
Already(s) == work.inherited[s]
Blamable(s) == Signatures(Printed(s, disk)) \ Already(s)
Excused(s) == Fails(s, disk) /\ Already(s) # {} /\ Blamable(s) = {}
Refused(s) == Fails(s, disk) /\ ~Excused(s)

Unbuilt == /\ ~work.ungated /\ work.spent < InnerTurns
           /\ work.written # {} /\ Refused("check")

\* Another turn brought no fewer errors, or the same words.
Stalled ==
    LET now == Printed("check", disk) IN
    /\ work.spent > 0
    /\ IF Signatures(now) # {}
       THEN Cardinality(Signatures(now)) >= Cardinality(Signatures(work.last))
       ELSE now = work.last

InnerTurn ==
    /\ pc = "gate" /\ Unbuilt /\ ~Stalled
    /\ row' = [row EXCEPT ![hand].attempts = @ - 1]
    /\ GoesWith("attempt",
          [work EXCEPT !.written = {}, !.spent = @ + 1, !.last = Printed("check", disk),
                       !.blames = Named(Printed("check", disk))])
    /\ UNCHANGED <<disk, proof, steady, memory, spared>>

Stall ==
    /\ pc = "gate" /\ Unbuilt /\ Stalled
    /\ GoesWith("attempt",
          [work EXCEPT !.written = {}, !.spent = 0, !.last = {}, !.ungated = TRUE,
                       !.blames = Named(Printed("check", disk))])
    /\ UNCHANGED <<disk, store, memory, spared>>

(***************************************************************************)
(* Tests.                                                                  *)
(***************************************************************************)
Built == pc = "gate" /\ ~Unbuilt

\* `_test_target`: a test file in the scope, else the ticket's own, once there
\* is something to test.
TestTargets ==
    LET designated == row[hand].scope \cap TestFiles IN
    IF hand \in Bugs \/ work.written = {} THEN {}
    ELSE IF designated # {} THEN designated ELSE {OwnTest[hand]}

Fingerprint == <<row[hand].contract, row[hand].scope>>

TestsAreCurrent(target) ==
    /\ FreezeTests /\ Fingerprint \in row[hand].tested
    /\ disk[target] # Absent /\ target \notin work.blames

\* Nothing to assert, nothing worth a test, or the tests written before stand.
KeepTests ==
    /\ Built /\ Goes("verify")
    /\ \/ TestTargets = {} \/ row[hand].scope \cap TestFiles = {}
       \/ \E f \in TestTargets : TestsAreCurrent(f)
    /\ UNCHANGED <<disk, store, memory, spared>>

WriteTests ==
    /\ Built
    /\ \E f \in TestTargets : \E c \in TesterWrites(f) :
          /\ ~TestsAreCurrent(f)
          /\ disk' = [disk EXCEPT ![f] = c]
          /\ LET new == disk[f] = Absent IN
             GoesWith("verify",
                [work EXCEPT !.grew = new,
                             !.authored = IF new THEN @ \cup {f} ELSE @])
    /\ row' = [row EXCEPT ![hand].tested = {Fingerprint}]
    /\ UNCHANGED <<proof, steady, memory, spared>>

\* No test comes of it: the review is told so.
TesterFails ==
    /\ Built
    /\ \E f \in TestTargets :
          /\ ~TestsAreCurrent(f)
          /\ GoesWith("verify", [work EXCEPT !.grew = disk[f] = Absent])
    /\ UNCHANGED <<disk, store, memory, spared>>

\* Twice the tester could only assert something other than the criterion.
TesterBlocks ==
    /\ Built /\ \E f \in TestTargets : ~TestsAreCurrent(f)
    /\ Blocks(work)
    /\ UNCHANGED <<disk, store, memory, spared>>

(***************************************************************************)
(* Verification: the steps in order, up to the first that is refused.      *)
(***************************************************************************)

\* (mutant) an old failure is excused on a bug ticket whatever it is
PassesOverExcused(s) == Fails(s, disk) => Excused(s)

\* An old failure is excused, but never the reproduction of a bug.
Passes(s) ==
    Fails(s, disk) => Excused(s) /\ work.repro \notin Named(Printed(s, disk))

Ran(s) == s = "check" \/ Passes("check")
Refusing == {s \in Steps : Ran(s) /\ ~Passes(s)}
Complaint == UNION {Printed(s, disk) : s \in Refusing}
Proved == {s \in Steps : ~Fails(s, disk)}

\* `_charge`: the errors of the steps that ran which the ticket did not find.
Charged == UNION {Blamable(s) : s \in {r \in Steps : Ran(r)}}

Charges == row' = [row EXCEPT ![hand].charged = @ \cup Charged]

\* The log holds one more failed suite.
Logs ==
    steady' = IF ~Ran("test") \/ ~Fails("test", disk) THEN steady
              ELSE [steady EXCEPT ![hand] =
                       IF @ = Moved \/ Signatures(Printed("test", disk))
                                          # {<<"test", work.repro>>}
                       THEN Moved
                       ELSE IF @ = MaxAttempts THEN @ ELSE @ + 1]

\* `_contradicting_tests`: the fix works, and a test out of the ticket's reach
\* asks for what it was filed to change.
Contradicting ==
    LET blamed == FilesBlamed(Complaint \ UNION {Already(s) : s \in Refusing}) IN
    IF hand \notin Bugs \/ work.repro \in blamed THEN {}
    ELSE {f \in (blamed \cap TestFiles) \ row[hand].scope : disk[f] # Absent}

VerifyFails ==
    /\ pc = "verify" /\ Refusing # {} /\ Contradicting = {}
    /\ Charges /\ Logs
    /\ NextAttempt(Named(Complaint), work)
    /\ UNCHANGED <<disk, proof, memory, spared>>

VerifyContradicts ==
    /\ pc = "verify" /\ Contradicting # {}
    /\ Charges /\ Logs
    /\ memory' = [memory EXCEPT !.contradicted[hand] = Contradicting]
    /\ Blocks(work)
    /\ UNCHANGED <<disk, proof, spared>>

\* The suite is green and did not grow by the test that was just written.
NotCollected ==
    /\ pc = "verify" /\ work.grew /\ Refusing = {} /\ "test" \in Proved
    /\ NextAttempt({}, work)
    /\ UNCHANGED <<disk, store, memory, spared>>

\* All that is left to remember of a ticket that is given up.
Ending(verdict) == [Fresh EXCEPT !.found = work.found, !.touched = work.touched,
                                 !.authored = work.authored, !.verdict = verdict]

\* Whoever may write a red file has given up.
Abandoned(red, rows, except) ==
    \E t \in Tickets \ except :
        rows[t].status \in GaveUp /\ red \cap rows[t].scope # {}

\* `_unverifiable`: every step was excused, and nothing to come clears the first.
Unverifiable ==
    /\ Proved = {}
    /\ Abandoned(FilesBlamed(Printed("check", disk)), row, {hand})

VerifyHalts ==
    /\ pc = "verify" /\ Refusing = {} /\ Unverifiable
    /\ Logs
    /\ GoesWith("discard", Ending("halt"))
    /\ UNCHANGED <<disk, row, proof, memory, spared>>

VerifyPasses ==
    /\ pc = "verify" /\ Refusing = {} /\ ~Unverifiable
    /\ Logs
    /\ Goes("review")
    /\ UNCHANGED <<disk, row, proof, memory, spared>>

ReviewRejects ==
    /\ pc = "review" /\ NextAttempt({}, work)
    /\ UNCHANGED <<disk, store, memory, spared>>

ReviewApproves ==
    /\ pc = "review"
    /\ row' = [row EXCEPT ![hand].status = "done"]
    /\ LetGo
    /\ UNCHANGED <<disk, proof, steady, memory, spared>>

(***************************************************************************)
(* Blocking and giving up.                                                 *)
(***************************************************************************)

\* `_widen_scope`: a file that is there and is no test, once.
Grantable ==
    IF hand \in memory.widened THEN {}
    ELSE {f \in work.wants \ (row[hand].scope \cup TestFiles) : disk[f] # Absent}

WidenScope ==
    /\ pc = "blocked" /\ Grantable # {}
    /\ row' = [row EXCEPT ![hand].scope = @ \cup Grantable, ![hand].attempts = @ - 1]
    /\ memory' = [memory EXCEPT !.widened = @ \cup {hand}]
    /\ NextAttempt(work.blames, work)
    /\ UNCHANGED <<disk, proof, steady, spared>>

StaysBlocked ==
    /\ pc = "blocked" /\ Grantable = {}
    /\ GoesWith("discard", Ending("blocked"))
    /\ UNCHANGED <<disk, store, memory, spared>>

Exhausted ==
    /\ pc = "attempt" /\ row[hand].attempts = MaxAttempts
    /\ GoesWith("discard", Ending("failed"))
    /\ UNCHANGED <<disk, store, memory, spared>>

Removed(files) == [f \in Files |-> IF f \in files THEN Absent ELSE disk[f]]

\* (mutant) the tests of a bug ticket are discarded like any other
DiscardEveryTest ==
    /\ pc = "discard"
    /\ disk' = Removed({OwnTest[hand]} \cup work.authored)
    /\ Goes("quarantine")
    /\ UNCHANGED <<store, memory, spared>>

\* `_discard_tests`: by name, and those the ticket brought into existence.
DiscardTests ==
    /\ pc = "discard"
    /\ disk' = IF hand \in Bugs THEN disk
               ELSE Removed({OwnTest[hand]} \cup work.authored)
    /\ Goes("quarantine")
    /\ UNCHANGED <<store, memory, spared>>

\* `_quarantine`: what the attempts wrote goes back to the ticket's first tree,
\* where a copy could be kept of it.
Quarantine ==
    /\ pc = "quarantine"
    /\ \E uncopied \in IF "disk" \in Weather THEN SUBSET work.touched ELSE {{}} :
       LET back == IF QuarantineFailed THEN work.touched \ uncopied ELSE {} IN
       disk' = [f \in Files |->
                   IF f \in back /\ row[hand].origin # {}
                   THEN (CHOOSE tree \in row[hand].origin : TRUE)[f]
                   ELSE disk[f]]
    /\ Goes("record")
    /\ UNCHANGED <<store, memory, spared>>

\* `_red_left_behind`: there is more to do, over a tree nobody will mend.
RedLeftBehind(rows) ==
    /\ \E t \in Tickets : rows[t].status \in {"pending", "running"}
    /\ Abandoned(FilesBlamed(UNION {Printed(s, disk) : s \in Steps}), rows, {})

GiveUp ==
    /\ pc = "record"
    /\ row' = [row EXCEPT ![hand].status =
                  IF work.verdict = "failed" THEN "failed" ELSE "blocked"]
    /\ memory' = [memory EXCEPT !.halt =
                     work.verdict = "halt" \/ RedLeftBehind(row')]
    /\ LetGo
    /\ UNCHANGED <<disk, proof, steady, spared>>

(***************************************************************************)
(* The run around it.                                                      *)
(***************************************************************************)
Spend(bound) == spared[bound] > 0 /\ spared' = [spared EXCEPT ![bound] = @ - 1]

\* The backlog is exhausted, or a halt ends it: tests nobody verified are swept.
FinishRun ==
    /\ pc = "idle"
    /\ memory.halt \/ Waiting = {}
    /\ disk' = Removed({OwnTest[t] : t \in {u \in Tickets \ Bugs : row[u].status # "done"}})
    /\ Goes("over")
    /\ UNCHANGED <<store, memory, spared>>

\* `reset_tickets` keeps the tree, the charges and the tests' fingerprint.  A
\* reviewer may have argued a contradicted test into a bug ticket's scope, and a
\* planner have rewritten the ticket.
Requeued(t, rewritten) ==
    [row[t] EXCEPT
        !.status = "pending", !.attempts = 0,
        !.base = IF @ + row[t].attempts > MaxAttempts THEN MaxAttempts
                 ELSE @ + row[t].attempts,
        !.contract = IF t \in rewritten THEN @ + 1 ELSE @]

Retryable == {t \in Tickets : row[t].status \in GaveUp}

NextCycle ==
    /\ pc = "over" /\ ~memory.halt /\ Retryable # {} /\ Spend("cycles")
    /\ \E rewritten \in IF "respec" \in Weather THEN SUBSET Retryable ELSE {{}} :
       \E granted \in IF "grant" \in Weather THEN SUBSET rewritten ELSE {{}} :
          row' = [t \in Tickets |->
                     IF t \notin Retryable THEN row[t]
                     ELSE [Requeued(t, rewritten) EXCEPT
                              !.scope = IF t \in granted
                                        THEN @ \cup memory.contradicted[t] ELSE @]]
    /\ Goes("idle")
    /\ UNCHANGED <<disk, proof, steady, memory>>

\* The run is over and its process ends; or it is killed, and is resumed.
Leave ==
    /\ pc = "over" /\ memory' = Forgotten
    /\ Become("ended", Nobody, Fresh)
    /\ UNCHANGED <<disk, store, spared>>

Kill ==
    /\ "kill" \in Weather /\ pc \notin {"down", "ended"} /\ Spend("kills")
    /\ memory' = Forgotten /\ Become("down", Nobody, Fresh)
    /\ UNCHANGED <<disk, store>>

Resume ==
    /\ pc = "down" /\ Goes("idle")
    /\ UNCHANGED <<disk, store, memory, spared>>

\* `forge retry`.
Retry ==
    /\ pc \in {"down", "ended"} /\ Retryable # {} /\ Spend("cycles")
    /\ Goes("down")
    /\ row' = [t \in Tickets |-> IF t \in Retryable THEN Requeued(t, {}) ELSE row[t]]
    /\ UNCHANGED <<disk, proof, steady, memory>>

\* A person mends a file, or removes it.
Edit ==
    /\ "edit" \in Weather /\ pc \in {"down", "ended"} /\ Spend("edits")
    /\ \E f \in Present(disk) :
          disk' = [disk EXCEPT ![f] =
                      IF f \in TestFiles THEN Absent
                      ELSE [by |-> "person", breaks |-> {}, asserts |-> FALSE]]
    /\ UNCHANGED <<store, pc, hand, work, memory>>

Prove == ProofStands \/ RetireProof \/ Reproduce \/ ReproduceNothing
            \/ RefuseToReproduce \/ Rediagnose \/ ParkUnproved
Build == BeginAttempt \/ BuildFails \/ BuildBlocks \/ BuildNothing \/ Apply
            \/ InnerTurn \/ Stall
Test == KeepTests \/ WriteTests \/ TesterFails \/ TesterBlocks
Verify == VerifyFails \/ VerifyContradicts \/ NotCollected \/ VerifyHalts \/ VerifyPasses
End == ReviewRejects \/ ReviewApproves \/ WidenScope \/ StaysBlocked \/ Exhausted
          \/ DiscardTests \/ Quarantine \/ GiveUp
Run == FinishRun \/ NextCycle \/ Leave \/ Kill \/ Resume \/ Retry \/ Edit

Next == (\E t \in Tickets : Take(t)) \/ Prove \/ Build \/ Test \/ Verify \/ End \/ Run

Spec == Init /\ [][Next]_vars
-----------------------------------------------------------------------------
(***************************************************************************)
(* What a backlog that is worked through unattended may do to a project.    *)
(***************************************************************************)

\* Every variable stays in its type: an attempt that was refunded, by a compile
\* turn or a widened scope, had been charged.
TypeOK ==
    /\ disk \in Trees
    /\ row \in [Tickets -> Rows] /\ proof \subseteq Bugs
    /\ steady \in [Tickets -> {Moved} \cup (0..MaxAttempts)]
    /\ pc \in PCs
    /\ pc \in Working => hand \in Tickets /\ row[hand].status = "running"
    /\ work.touched \subseteq Files /\ work.spent \in 0..InnerTurns

\* A ticket at a time, a landing or nothing: see Landing.
Reach(t) == {OwnTest[t]} \cup Scope0[t] \cup Askable[t] \cup UNION Diagnoses[t]
Keeps(t) == IF t \in Bugs THEN {OwnTest[t]} ELSE {}
Settled == IF pc \in Working THEN work.found ELSE disk
Project == INSTANCE Landing WITH
    tree <- Settled, landed <- {t \in Tickets : row[t].status = "done"}
IsTransaction == Project!Spec

\* What a ticket was failed on is its to fix for good: it is never done while one
\* of those errors is printed, however often it was requeued or the process was
\* killed since (`_charge`, `_inherited_failures`).
DebtIsKept ==
    [][\A t \in Tickets : row[t].status # "done" /\ row'[t].status = "done" =>
          \A s \in Steps : Printed(s, disk) \cap row[t].charged = {}]_vars

\* A bug ticket is done over a reproduction that is there and does not fail
\* (`_repro_target`, the reproduction in `_attempt`'s verification).
FixedMeansReproductionPasses ==
    [][\A t \in Bugs : row[t].status # "done" /\ row'[t].status = "done" =>
          /\ disk[OwnTest[t]] # Absent
          /\ <<"test", OwnTest[t]>> \notin Standing(disk)]_vars

\* Once it proved the bug, the reproduction is what it was until it is retired,
\* or removed by a person: no attempt, test, discard, quarantine or sweep of any
\* ticket touches it.
ReproductionUntouched ==
    [][\A t \in Bugs : t \in proof /\ t \in proof' /\ pc \notin {"down", "ended"} =>
          disk'[OwnTest[t]] = disk[OwnTest[t]]]_vars

\* A ticket that gives up leaves the files it wrote as it found them.
TreeAsFound ==
    pc = "record" => \A f \in work.touched : disk[f] = work.found[f]
=============================================================================
