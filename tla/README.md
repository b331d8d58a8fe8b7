# hybrid-forge, specified

hybrid-forge takes a plan that was ingested as tickets, hands the tickets one
at a time to a small local model, judges what comes back with the project's own
commands, and asks a stronger planner to sign off, revise or decompose what
does not land. It is meant to run unattended for hours, be killed, be resumed,
and be talked to by people while it runs. Almost everything that can go wrong
with that is in the order of steps: which row is written before which, what is
read before a wait and used after it, and what a restart finds.

This directory specifies that part of the program in TLA+, checks it with TLC
on small backlogs and proves the central invariants with TLAPS for all of them.

- [The system](#the-system): the inventory
- [The modules](#the-modules) and how they correspond to the code
- [The runs](#the-runs), their bounds, and the fairness they assume
- [The proofs](#the-proofs)
- [What was found](#what-was-found)
- [What is not modelled](#what-is-not-modelled)
- [The plan](#the-plan)

Paths below are relative to `src/`; `loop.py` is `src/forge/loop.py` and so on.


## The system

One process, `forge go`, holds an `Orchestrator` and works one run. Everything
that has to survive it is in an SQLite store, `.forge/state.db`, one statement
or one transaction at a time. Other processes write the same store whenever
they like: the commands a person gives (`forge retry`, `advise`, `criteria`,
`release`, `discharge`, `stop`, ...) and the dashboard's requests. They share
no lock beyond SQLite's; what they exchange is rows.

    forge go --> Orchestrator.run --> _work_ticket --> _attempt --> _call --> provider
       |              |                    |              |
       |         _retry_cycle          gates, sign-off    `-> patch, toolchain, tests
       |              |                    |
       v              v                    v
    servers     the store: runs, tickets, steps, control, notes, metrics
                      ^                    ^
                      |                    |
        commands and dashboard        ingest (before), evidence and replay (after)

### Run loop (`loop.py` 2226-4180, `cli.py` `cmd_go`, `_drain`)

State: the run's row (status, cycles made, digest of the last cycle's evidence),
a control row (`run`, `pause`, `stop`), the ticket rows, the step log; in memory
the ticket in hand, `_halt`, `_toolchain`, the tickets whose scope was widened.
Operations: start (preflight, baseline, canary, reopen what is stale), take the
next ticket, work it, close split parents, park what can no longer be reached,
finish, open a retry cycle (measure, decompose, compare the evidence, respec,
requeue, count), stop, pause and resume, wait for a usage window.
Hard: a process may be killed between any two writes; a stop may arrive in any
wait; `_retry_cycle` decides and writes in one function, over tickets in several
states; the retries must converge without a limit.
Correct when: work starts only on what is ready and stays ready; budgets hold
across restarts; a run that says it is over left nothing queued, and its row says
what it returned; what landed is never undone by the loop and never stands on
something that moved; the run ends.

### Ticket attempt (`loop.py` 4627-7315)

State: the ticket's status and attempts, the compile turns used, the worktree
against `attempt_base`, the notes an attempt leaves. Operations: the gates
(triage, kind, scope), sign-off, charge, build, apply, compile turns, tests,
format, verify, review, record, commit; refunds for compile turns and widened
scopes. Hard: charge before the work and refund after; restore of the worktree
when one of many steps fails. Correct when: a ticket reported failed spent its
budget; what is committed is what was verified; a failed attempt leaves the tree
as it found it.

### Handback: the commands and the dashboard (`cli.py` 1508-2460, `ui/writes.py`)

State: the same ticket rows, read into a copy first. Operations: retry, advise,
criteria (state or adopt), release, discharge. Hard: the loop holds a copy of
the ticket for minutes; a discharge verifies for minutes between its read and
its write; a release is three writes. Correct when: no writer takes back what
another one is the only one to write.

### Contract: ratification and respec (`ratify.py`, `signoff.py`, `respec.py`)

State: a ticket's spec, criteria, allowed paths, context, needs, the plan's
originals, the ratified spec and criteria, the sign-off's fingerprint. Operations: a
sign-off pass (roles vote, the planner rewords), settling, a respec revision, a new
diagnosis, a decomposition, and the reordering each of them sets off. Hard: what may
be dropped, reworded or added depends on who wrote it, over a sequence of
sign-offs and revisions; a cycle writes rows it read at its head. Correct when: the bar
a ticket is held to is only moved by a sign-off or by a person, nothing is built that
was not voted on, nothing passes under a bar it was not judged on, and no rewrite makes
a ticket wait for itself.

### Split (`split.py`, `loop.py` 3560-3720)

A ticket that churns is decomposed into pieces; the parent becomes a gate over
them. Correct when: the gate opens only over pieces that all landed, and the pieces are
held to all the parent was held to.

### Call gate, budget and converse (`loop.py` 1157-1530, `budget.py`, `tokens.py`, `tools.py`)

State: a ledger of what each model's calls cost, on disk; until when its window is shut,
in memory; the conversation. Operations: fit the prompt in the window, wait for the
allowances, send, send again to a model that only reasoned, park a limit that was met,
read what the model asked for, ask it to answer. Hard: several loops around one request,
each with its own end; a limit at its boundary; the messages that may be left out are in
the middle of ones that may not. Correct when: no more than the allowance is used; what
is sent is a conversation an endpoint takes; a model is told when it can read no more;
each conversation ends.

### Replies: patch and scope (`patch.py`, `manifests.py`, `imports.py`, `loop.py` 6259-7000)

State: the working tree, and what is remembered of the attempt. Operations: read a reply
that may be cut, misplaced, repeated or no reply at all; scope it; write its files; look at
what they lose and what they dangle; the same for the tester's. Hard: half of a reply
parses. Correct when: what is verified is what was sent; a dependency that is lost was
spoken of; a ticket that gives up leaves the tree as it found it.

### Image tickets (`loop.py` 847-1130, `artifacts.py`, `gpu.py`, `llama.py`)

State: the artifacts of earlier attempts, the verdicts of their reviews, the graphics card
the roles' models, the image model and the project's own renderer share. Operations: the
gate, the prompt, the lease, the drawing, the capture, the stop for reviews that repeat
themselves. Hard: the card is given back on every way out; attempts are numbered
anew in each cycle; what is remembered is read back after a restart. Correct when: no two
are on a leased card; what is offered to be edited is the newest picture.

### Bug reproduction and quarantine (`loop.py` 8337-9105)

The test that must fail before and pass after; tests that are discarded and restored.
Correct when: a bug ticket passes only on a test that failed first; what was
quarantined comes back.

### Toolchain, preflight and canary (`toolchain.py`, `loop.py` 1575-1660, 2650-3005)

Whether this machine can run the commands and whether the model can do the job
at all, before a ticket is blamed. Correct when: no ticket is blamed for the
machine.

### Model servers (`servers.py`, `run_servers.py`, `llama_server.py`, `comfy_server.py`, `processes.py`)

State: a file with the number, the owner and the preset of each server, and the
processes themselves, which outlive whoever started them. Operations: bring one up
(adopt, keep, replace or start it, and wait until it is ready), look whether it died
and start it again once, restart it for the graphics card, take down what runs
started; the commands that start, stop and look at one. Hard: every process of forge
rewrites the file; a kill between starting and recording, or while a server starts; a
server that hangs, that will not die, or whose number another process has by now.
Correct when: forge stops nothing it did not start; what it started and lives is on
record, once; a queue that ends leaves no server behind; what dies while a run works
comes back or ends the run.

### The store (`state.py`)

Tables for runs, tickets, steps, control, notes and metrics. Each statement
writes some columns of a row; `update_ticket` leaves the route, the notes, the
anchor and the ratified criteria out on purpose.

### The rest

| Part | Files | State it changes |
| --- | --- | --- |
| Providers | `providers/*` (3 000 lines) | none of a run's; an answer, a refusal, or a closed window |
| Failure classification | `failures.py` | none; expressions over command output |
| Evidence and replay | `evidence.py`, `replay.py` | none; reads the log |
| Prompts | `prompts.py` | none; what it parses is in Turn, Picture and Bar |
| Project memory | `memory.py` | lessons shown in prompts |
| Ingest | `ingest.py` | the rows a run starts from; `derive_needs` is in Ordering |
| Repository survey | `repomap.py`, `imports.py`, `manifests.py` | none; the last two are in Reply |
| Configuration | `config.py`, `wizard.py`, `presets.py`, `profile.py`, `secrets.py` | a file |

PROJECT.json lists the same parts with what is modelled of each, and, under
`hazards`, every place where the code is exposed to something a test would
hardly reach, with the property that covers it.


## The modules

    RunLoop  <-------  MCRunLoop                        the whole backlog, one process
             <-------  RunLoop_proofs <-- Landed_proofs

    Contract <-------  Handback                         one ticket, every writer
             |            ^-----  MCHandback, Handback_proofs
             <-------  Revising <-- Ordering <-- Bar    the text of a backlog
                                                  ^---  MCBar, Bar_proofs

    Worktree <-------  Attempt                          tickets and the files they write
       Landing <--INSTANCE--  ^                         what a ticket promises the project
                              ^-----  MCAttempt, Attempt_proofs

    Reply    <-------  Turn                             what attempts make of replies
                          ^-----  Picture               image tickets
                                     ^--  MCTurn, Picture_proofs

    Toolbox  <-------  Calls                            how a reply is obtained
                          ^-----  MCCalls, Calls_proofs

    Servers  <-------  Servers_proofs                   the model servers around a run

An arrow is EXTENDS. The modules look at the same tickets from several sides. RunLoop has
all of the backlog and an attempt as its outcome. Handback has one ticket and every process
that writes its row; Bar has the text of all tickets and the one process that rewrites it.
Attempt has the inside of the attempts and the project they leave behind, whatever the
replies are; Turn has the replies, and Calls how one is obtained. Servers shares nothing
with them but the process `forge go`: what a run sees of it is that it is refused or ended,
`RefuseToStart` and `Dies` of RunLoop. Contract's rules on criteria are shared by Handback
and Bar, so that what is proved with one is about the same operators as with the other.

### RunLoop

`Orchestrator.run`, what it calls between tickets, and the `forge go` around it.

| In the model | In the code |
| --- | --- |
| `runStatus`, `control`, `retries`, `evidenceKey` | the run's row, the control rows `CONTROL_KEY`, `retries_key`, `evidence_key` |
| `status`, `attempts`, `route`, `depStamp`, `impossible`, `present` | the columns of `tickets`; `present` are the rows there are, which a split adds to |
| `contract` | spec, criteria and allowed files as a version number, which is also the fingerprint |
| `cycleSeen`, `everSeen`, `cycleClasses`, `flatCycles` | the step log, as the kinds of failure it holds, by cycle |
| `pc`, `current`, `turns`, `widened`, `halt`, `toolchain`, `eligible`, `measured` | the process and its memory: `Leave` forgets them |
| `outcome` | what `run` returned |
| `Go`, `Enter`, `RefuseToStart`, `StartWorking` | `cmd_go`, the head of `run`, and the reasons not to start |
| `Withhold`, `ParkAtGate`, `BeginTicket` | the gates of `_work_ticket` |
| `BeginAttempt`, `AskExecutor`, `InnerTurn`, `WidenScope`, `Attempt...`, `GiveUp` | charge, call, the refunds and the ends of an attempt |
| `Audited`, `LookBehind`, `StopOnGivingUp`, `CloseParents` | what follows the ticket's row: `_audit_criteria` after a pass, `_red_left_behind` and `stopOnBlocked` after giving up, `_close_split_parents` |
| `Finish`, `RefuseRetry`, `OpenCycle` | `_finish` and the head of `_retry_cycle` |
| `MeasureTicket`, `KeepWhole`, `AddPieces`, `HoldGate`, `DecideCycle`, `Respec`, `Requeue`, `CountCycle` | the body of `_retry_cycle`, one action per transaction or planner call |
| `Stop`, `Pause`, `Resume`, `WaitForWindow`, `WindowReopens`, `RunsOut`, `Dies`, `Crash` | `_honor_control`, `_sleep_for_window`, the runtime cap, an exception, a kill |
| `AskStop`, `AskPause`, `OrderRetry`, `OrderRelease`, `OrderDischarge` | commands between and during runs |

`Weather` names which outside events may happen in a run and `Orders` which
commands; both are sets, so that each run asks one question at a time over a
complete set of interleavings instead of all of them over a truncated one.

Abstractions, each on the side of more behaviours unless said otherwise:

- A model call is its outcome; the pipeline inside an attempt is the choice among
  `InnerTurn`, `AttemptFails`, `WidenScope`, `AttemptBlocks`, `AttemptHalts` and
  `AttemptPasses`. Sign-off, kind and scope gates are a park or a rewrite.
- `flatCycles` saturates at the setting, which is all the code compares it with.
- Splits are one level deep, which is fewer behaviours: the code's default for
  `loop.maxSplitDepth` is 2, and a parent whose pieces did not land may be decomposed
  anew. Bar has both.
- `attempt_base` and unprovable bug tickets are left out.
- Retry, release and discharge are given while no loop is up; beside a live loop
  they are the subject of Handback.

### Contract

The rules on a ticket's criteria as operators on sets: `ContractCriteria`,
`MergeCriteria`, `Admitted`, `DropWholeFileClaims`, `Revised` (a respec) and
`SignedOff` (a sign-off pass). A criterion is a value; a rewording is another
value; two spellings of one criterion are one value, as `_key` makes them.
`loop.respecCriteria` is off, its default.

### Handback

One ticket's row and everybody who writes it. `mine` is the copy the loop works
on, `hand[h].copy` the one command h read when it started; `judged` is a history
variable, the criteria the last recorded pass was judged on plus those a person
stated since. The statements of the store are the operators `UpdateTicket`,
`RecordRatification`, `Advise`, `SetRoute` and `ResetTicket`, each with exactly the
columns the code writes. The grain: a read and the write that follows with nothing
between them are one step; whatever waits for a model or a verification, and every
second write, is a step of its own, and `Interrupted` kills a command before it.
`forge retry --respec`, which asks a planner itself, is left out. The other
tickets of the run appear only as the time that passes between two steps.

### Worktree, Attempt and Landing

`Worktree` is what commands print about a tree: a file has a content, a content is who
wrote it, the errors it causes (of a step, `check` or `test`, and naming a file, its own
or another) and, of a test, whether it asserts anything. An error stands while the file it
names is there. `Printed` is what a step prints, with `Compiled` for a project whose test
step prints the compiler's errors when there are any; `Unparsed` are the errors the
expressions of `failures.py` cannot attribute, which fail a step and blame no file.

`Attempt` is `_work_ticket` with `_attempt`, the proof of a bug, and what follows when a
ticket gives up. A step is what ends in one write of the disk or the store, so a kill falls
between any two.

| In the model | In the code |
| --- | --- |
| `disk` | the working tree, tests included |
| `row[t]` | status, attempts and `base_attempts`, the scope (`allowed_files`), the contract as a version, `baseline_tree` (`origin`), `charged_errors`, `tests_fingerprint` |
| `proof`, `steady` | in the step log: that a bug was reproduced, and how many suites failed that blame the reproduction only |
| `work` | the locals of `_work_ticket` and of the attempt in hand: the tree it found, what it inherited, `touched`, `authored`, the compile turns |
| `memory` | of the process: whose scope was widened, whose proof retired, `_halt`, contradicting tests |
| `Take` | `next_ticket`, `_snapshot`, `_baseline_failures`, `_inherited_failures` |
| `ProofStands`, `RetireProof`, `Reproduce`, `ReproduceNothing`, `RefuseToReproduce`, `Rediagnose`, `ParkUnproved` | `_prove`, `_stale_reproduction`, `_reproduce`, `_rediagnose` |
| `BeginAttempt`, `BuildFails`, `BuildBlocks`, `BuildNothing`, `Apply` | the charge, the executor's call and the edits that survive the scope |
| `InnerTurn`, `Stall` | `_compile_gate` with the refund, and the turn that makes no progress |
| `KeepTests`, `WriteTests`, `TesterFails`, `TesterBlocks` | `_tests_are_current`, the tester's file |
| `VerifyFails`, `VerifyContradicts`, `NotCollected`, `VerifyHalts`, `VerifyPasses` | the steps in order, `_charge`, `_contradicting_tests`, `_test_was_collected`, `_unverifiable` |
| `ReviewRejects`, `ReviewApproves`, `WidenScope`, `StaysBlocked`, `Exhausted` | the ends of an attempt |
| `DiscardTests`, `Quarantine`, `GiveUp` | `_discard_tests`, `_quarantine`, the status and `_red_left_behind` |
| `FinishRun`, `NextCycle`, `Leave`, `Kill`, `Resume`, `Retry`, `Edit` | `_sweep_orphan_tests`, `reset_tickets` with `_grant_contradicted_scope`, `forge go`, `forge retry`, a person |

`Landing` is the promise, in two actions: a ticket lands, having changed no file out of its
reach and with no command printing an error it did not print before; or a bug ticket that
gave up leaves its reproduction. Anything else leaves the project as it was. `IsTransaction`
is its specification with `Settled` for the tree, which is the one a ticket found while it
is worked on and the one on disk otherwise, and the done tickets for what has landed.

Abstractions, besides the answers of models:

- Tickets are taken in the order of the plan; what they need of each other is RunLoop's.
- One build ticket, one kind of test file and one `verify` plan of two steps; no images,
  no formatter (both are Turn's and Picture's), no commit (`loop.autoCommit`), no `stopOnBlocked`.
- Of the copies quarantine keeps under `abandoned/`, only whether one could be kept
  (`"disk"` in `Weather`): a file that cannot be copied is not restored.
- A run may start on a red project, as with `requireGreenBaseline` off or `forge go
  --allow-red-baseline`; otherwise the errors that stand are those of tickets before.
- A broken toolchain, a closed window and the gates before an attempt are RunLoop's.
- A person edits between runs only: while a loop is up the code gives no answer to whose
  the edit is, and makes it the ticket's.

### Revising, Ordering and Bar

`Revising` is what a planner's rewrite of a ticket goes through before it is kept, as
operators on Contract's: `SignOffApplies` is `_apply` of ratify.py, `RespecApplies` is `revise`
of respec.py, each field by its own rule, with what is put back. `Ordering` has `derive_needs`
(`DerivedNeeds`, a fold over the files that several tickets write) and what a decomposition
must be to be taken (`Sound`, `PieceOf`). `Bar` is the process that uses them.

| In the model | In the code |
| --- | --- |
| `row[t]` | the ticket: status, needs, spec, criteria, scope, context, the plan's `original_*`, the `ratified_*`, the sign-off's result and fingerprint (`signoff`, `agreed`), the fingerprint of what cannot be satisfied (`impossible`), the causes that were ruled out (`dead`) |
| `Text` | `Ticket.fingerprint` |
| `Take` | `next_ticket`, and the check whether what was agreed still stands |
| `Vote`, `VoteOf`, `Resolve` | a pass of `ratify`, `_vote` with `_ask_again`, `resolve` |
| `Revise`, `Settle` | the planner between two passes; `_settle` and `_park` |
| `Build`, `Rediagnose`, `Finish` | the attempts, as their end; `_rediagnose`; `_park_unreachable` |
| `OpenCycle`, `Decompose`, `KeepWhole`, `AskPlanner`, `Respec`, `Impossible`, `KeepAsWritten`, `Requeue` | the body of `_retry_cycle` and `_respec`, from the rows read at its head: `held` is what of them may be older than the row |
| `backed`, `heard` | history: the text the last sign-off carried, and the one the last pass voted on |

A spec or a context is the set of what it says, and `Figures`, `Marked`, `Taboos`, `Excuses` and
`Inlined` are the sentences the rules look for; a criterion is a value that pins values
(`Pins`). What moves numbers of the plan, drops a decision or softens a value is a comparison
of such sets. Left out: reading scopes and references, the digest of what overran, notes,
what was learned or abandoned, the decisions about when cycles end (RunLoop's), and
`_reopen_stale`. `Decompose` is bounded as in the code, by `MaxSplitDepth` and by the names
that are taken: a piece is decomposed like a ticket of the plan, and a parent that is
blocked over its pieces once more. `running` is no status of its own: between `Take` and `Build` nothing reads it.

### Reply, Turn and Picture

`Reply` is what is read in a reply and what becomes of it, on files as sets of lines. A block
says where its path stands (above its fence, inside it, nowhere), whether its fence is too short
for what it holds, and its lines or searches; a reply has its declarations, its blocks, and
whether it was cut. `Parse` is `parse_output` with its rescues, `Malformed` what is asked
about again, `RecoverUnlabelled`, `InScope`, `ApplyEdits`, `Losses` (`_gutted_manifests`),
`Unresolved` (`imports.unresolved`) and `Honest` the rest.

| In the model | In the code |
| --- | --- |
| `BeginAttempt`, `ExecutorAnswers`, `ExecutorUnavailable` | the charge, the oversized gate, the executor asked at most twice |
| `LandsNothing`, `LandsNowhere`, `ApplyRefused`, `Lands` | scope, `apply_edits`, manifests, imports, what was cut short |
| `SkipTests`, `KeepTests`, `AskTester`, `TesterAnswers`, `TesterUnavailable` | `_test_target`, the fingerprint of the tests, the tester asked at most twice |
| `VerifyFails`, `NotCollected`, `Verified`, `ReviewFails`, `Approved`, `GiveUp` | the rest of `_attempt`; `_discard_tests` and `_quarantine` |
| `context`, `stamped`, `impossible` | what the next attempt is told, the tests' fingerprint, what the executor declared |
| `Parked`, `ImageStalled`, `PainterAnswers` | the gate on kinds, `imageStall`, the prompt or edit an executor sends |
| `TakeLease`, `Drawn`, `DrawingFails` | `_gpu_lease` around the drawing of `_render_attempt` |
| `BeginCapture`, `EndCapture`, `PictureRejected`, `NoVerdict` | the capture command under its lease, and the reviewer's verdicts |
| `renders`, `verdicts`, `rejections` | the artifacts by attempt, the reviews on record, those the process remembers |
| `card`, `refused` | who has something on the graphics card; that somebody did not give it back |
| `Retry`, `KilledAndStarted` | `forge retry`; a kill, and the card as `RunServers.start` of the next `forge go` leaves it |

`named`, `unread` and `torn` are history: the losses the executor was told of, the
manifests that could not be read, and a refused apply that left files behind. Turn has one
ticket and neither compile turns nor widened scopes; these, the baseline and bugs
are Attempt's. Artifacts are written always or never in a setting, and a path that leaves
the repository is a workflow the server refuses (`Blocks`).

### Toolbox and Calls

`Toolbox` is what the four tools give for a call, with their limits: the lines of a range, a
definition, matches with context, a directory, each cut at `MAX_RESULT_CHARS`.

| In the model | In the code |
| --- | --- |
| `thread`, `sent`, `offered`, `left` | the messages of `_converse`, those that were kept to fit, whether the tools are sent along, the turns left |
| `ledger`, `parked` | the usage ledger of a model's answers; until when its window is shut |
| `Fits`, `Overflows`, `Without` | `BudgetGate.fit`: the oldest messages that may be left out go first |
| `Blocked`, `Waits`, `Sends`, `Wakes` | `check_rate_limit`, `_sleep_for_window` |
| `Limited`, `Fails`, `Refuses`, `Breaks` | a 429 with what it says of its end; errors; an overflow the endpoint reports; what is no `ProviderError` |
| `Thinks`, `LimitedAgain` | the second request of `complete`, for a model whose output was all reasoning |
| `Answers`, `Spells`, `Calls` | an answer; a call written out as text; calls, which are run whether or not the tools were offered |
| `Note`, `LastRead`, `Reserved` | the message that asks for an answer, and the turns kept for it |

A message is its kind and two lengths, what is counted of it and what is sent besides. Time
is ticks; a tick may pass while a request is out and between conversations. An allowance
counts requests or tokens over a span that includes its bound, as the queries do.

### Servers

`Supervisor` and those who use it: `forge go`, and one `forge llama` or `forge comfy` at a
time.

| In the model | In the code |
| --- | --- |
| `file` | `servers.json`: of each server the number, the owner and the fingerprint of its preset |
| `proc` | the processes of the machine: their state, and who has to collect them |
| `preset` | what the configuration asks of a server, as a version |
| `agent["run"]`, `agent["hand"]` | the locals of `forge go` and of a command: the server and the number in hand, `RunServers.specs`, `Supervisor._restarted` |
| `Mine`, `Dropped`, `Forgotten` | `record`, which drops what is gone as it looks, and `_forget` |
| `LookElsewhere`, `LookAtNothing`, `LookAgain`, `LookAtMine` | `ensure`: adopt, start, or replace |
| `Spawn`, `SpawnFails`, `WriteDown`, `Exited`, `Ready`, `TooLong` | `_start` |
| `Kill`, `KillMisses`, `Forget` | `_kill` with `kill_tree` and the wait for the process |
| `Go`, `Check`, `Lease`, `Finish`, `StopNext` | `RunServers.start`, `keep` with `check`, `restart`, and the `finally` of `cmd_go` with `stop_owned` |
| `Start`, `Stop`, `Status` | the commands |
| `Comes`, `Dies`, `Deafens`, `Outside`, `Reuse`, `Edit`, `Killed` | the machine and the people on it |

Abstractions:

- A read of the file and the write that follows at once are one step: two processes that
  meet inside of it would lose one of the writes, in a window of microseconds. Waits for a
  process or a port are steps, and so is the spawn before its record.
- Whether what answers on a port is the right server and ready (`identify`, `ready`) is an
  input, as is whether a spawn succeeds.
- A run looks after its servers in any order; the code goes through them in one. Servers
  are stopped in any order too.
- The number of a dead process is given out again only after it was collected and only
  with `"reuse"`; a daemon whose starter is gone is collected at once, by init.
- The configuration changes between commands: a command reads it once, at its start.
- `graphics` clearing other backends off the card, logs and what a preset is made of are
  left out.


## The runs

No run checks for deadlock: a run really ends, with `pc = "down"` and nothing to
resume, a conversation may be the last, and the bounded number of commands, cycles and
attempts runs out.

| Run | Instance | States | What it shows |
| --- | --- | --- | --- |
| RunLoopCycles | two chained tickets, 2 attempts, a compile turn, a cycle with respec, every weather, one kill and two orders to stop or pause anywhere | 1.0 M | `WorksOnlyReady`, `FailedSpentTheBudget`, `StopHonoured`, `RunEnds`, `NothingQueuedOnReturn`: budgets hold across restarts; a run that is over has nothing queued; a stop is honoured and a run ends |
| RunLoopOrders | a withheld ticket, one that needs it, one alone; any two of retry, retry --all, retry --ticket, release, discharge | 2.7 M | `DoneIsCurrent`, `LandedStaysLanded`: what stands on a moved dependency is judged again, and only then |
| RunLoopSplit | a ticket decomposed into two pieces beside a withheld one and one that waits on that, parks, halts and the runtime cap (between the row of a piece and that of its parent, too), no limit on the cycles | 1.2 M | `QueuedCanBeResumed`, `EvidenceEndsRetries`, `DoneRunMeansLanded`, `SettledStaysParked`, `GateOpensOverAll`: a gate opens over pieces that all landed, the evidence ends the retries, a verdict stands |
| Handback | one withheld ticket with two criteria, a rewording, an entailed addition, a criterion a person states; three commands in a row beside a live loop, each of which may be killed | 1.9 M | `DoneMeansJudged`, `ReleasedOnRecord`, `OnlySignOffMovesTheFloor`, `NotesKept`, `AnchorKept`: no writer takes back what another is the only one to write |
| Bar | two tickets of a plan that come to share a file, one of them a bug, the other split in two pieces, the first of them split once more; respecs of the pieces; two passes of three roles, a revision, a new diagnosis, a cycle and a kill | 4.3 M | `BuiltAsAgreed`, `PlanStands`, `PiecesCoverParent`, `NeedsAcyclic`: what is built is what was voted on, and rewriting neither loses the plan nor makes a ticket wait for itself |
| AttemptBuild | two build tickets, 2 attempts, 2 compile turns, a cycle; what A writes may break B's file, and it may be granted one that never compiled | 1.2 M | `IsTransaction`: Attempt implements Landing; no compile turn, failure, block or excused error leaves half a ticket in the project |
| AttemptBugs | a build ticket and a bug whose errors cannot be attributed, two hypotheses, an older test that asks for the fault, no git; a cycle or a retry, a kill and an edit anywhere | 1.1 M | `DebtIsKept`, `FixedMeansReproductionPasses`, `ReproductionUntouched`: what is excused, what is discarded and by what name, over everything that changes those names |
| Turn | a ticket with one of five scopes, 3 attempts, 31 replies of an executor and 12 of a tester; or an image ticket under six settings, drawn, reviewed, retried once and killed once | 1.2 M | `WholeReplyLands`, `LossesAreNamed`, `TreeIsLeft`, `OfferedIsNewest`, `CardIsLeased`, `TypeOK`: what is verified is what was sent, and what a drawing holds is given back |
| Calls | four roles over three models, two on one account with an allowance of requests and one of tokens, one with no room for a prompt; reads, limits, failures, breaks, stops, a model that only reasons | 60 K | `WithinAllowance`, `AskedToAnswer`, `ConversationEnds`: the three loops around a request agree on when to wait, when to say so, and when to end |
| Servers | two kinds of server, one of them leased; three numbers; servers that die and hang, others started by hand, forge killed except between a spawn and its record; commands between runs | 577 K | `OnlyItsOwn`, `WrittenDown`, `OneCopy`, `RunTakesItsServersDown`, `KeptIsRestarted`: who owns a server survives who started it |
| ServersRough | one leased server with commands beside the run, two numbers that are given out again, zombies, kills that are not delivered, a changed configuration, forge killed anywhere | 442 K | `Returns`: whatever the record comes to say, every start, replacement and stop ends |

One more, TurnMissing, shows a sentence of the comments that the code does not keep; see
[What was found](#what-was-found).

### Bounds, and why they are enough

`MaxRevision`/`MaxSpec` (rewrites of a contract), `MaxOrders` (commands), `MaxCrashes`
(kills) and `MaxCycles` of Handback bound the behaviours; `CycleCap` is where the counter
of cycles saturates when the cycles are not limited, so an unlimited run is a graph with
cycles and its liveness is checked over infinite behaviours. With two attempts the
second is charged after a failure and refunded after a compile turn; with one
cycle that is the last, both sides of every comparison with `retryCycles` occur. Two
chained tickets are the smallest backlog with a dependency that is requeued under a
dependent; three tickets, one of which splits, the smallest where what is compared at the
end of a cycle has a part that moved and a part that did not. Two orders are needed for a
discharge on top of a retry, or a resume after a pause.

In Handback three commands are needed for a release, a statement and a note on one ticket;
two rewrites for a sign-off followed by a revision; `Hands` are interchangeable, so the run
uses their permutations as a symmetry (it checks no liveness). A larger instance, three
rewrites and two cycles, was also run (7.1 M states) with the same result.

In Bar a rewording needs two passes to be voted on again, and a cycle for a respec to follow
a sign-off; two tickets come to share a file either by a respec or by a diagnosis, and a
split in two puts a piece on each side of the order that is derived. `MaxSplitDepth` is 2,
the code's default: a piece is decomposed into a further two, and the values its parent is
held to are then two levels down. Pieces are respecified and reworded while the parent is a
gate. There are names for one split of each ticket, so that a blocked parent split anew is
covered by the proofs only. `MaxCauses` is one
diagnosis, after which the ticket's text is another. The roles' answers are the ones that
`VoteOf` tells apart once a bare refusal has been asked about again.

In Attempt two compile turns are needed for one that makes progress and one
that stalls; two tickets for an error that one causes and the other is shown; a cycle for
a baseline that is taken over a tree with the ticket's own debts in it; an old test and a
new one for a reproduction to be confused with, and one hypothesis more for a proof to be
looked for in another scope. `MaxEdits` bounds what a person does by hand. `steady` stops
at the budget, which is all it is compared with.

In Turn three attempts are needed for a file that is gutted, repaired and gutted again; each
reply is the smallest with its peculiarity, and all of them may follow each other.
`ImageStall` and `PriorVerdicts` are 2, so that a stall can be reached within a cycle and
by the verdicts a retry is given back; one retry and one kill suffice for the numbers of
attempts to start again and for a kill to fall in that second cycle.

In Calls four turns are two to read and two to answer in; the ledger drops rows older than
the longest span an allowance looks back over, as the code's queries do, so that the run is a
finite graph whose liveness is checked over infinite behaviours. The allowances are of two
requests in two ticks and sixteen tokens in three, so that either may be met
without the other.

In Servers three numbers are needed for a server that hangs,
its replacement and one a person starts on the same port; two kinds for a run that brings
up one and finds the other on record; two versions of a preset for a replacement. The
numbers run out, so behaviours end when every one was used; `"reuse"` in ServersRough
takes that bound away. The theorems below remove the bounds for the properties they state.

### Fairness

`FairSpec` of RunLoop is `Spec /\ WF_vars(LoopStep)`: the process is scheduled. Every wait of
the code is either a sleep that ends or a poll, so weak fairness of the loop's own steps is
what the operating system gives. Nothing is assumed of people (`AskStop`, `AskResume`,
`Order...` may never happen), of the weather, or of which outcome a model call has: the
actions of `LoopStep` share one fairness condition, so a run may fail for ever. A closed
window reopens (`WindowReopens` is in `LoopStep`) because the code waits until a time the
provider named; `RunEnds` and `EvidenceEndsRetries` except a run whose provider names
another each time.

In Calls the loop's own steps (`WF_vars(Own)`) and time (`WF_vars(Tick)`) go on. `Comes` is
strongly fair: a request that is sent over and over is answered or fails at some time. Requests
have a timeout, so none stays out for ever; what the assumption adds is that an endpoint does
not answer each of infinitely many requests with another limit. The code has no bound on those.

In Servers an agent that is inside the supervisor goes on (`WF_vars(Steps(a))`,
`WF_vars(StopNext)`): every wait of `_start` and `_kill` has a deadline in the code, which
is `TooLong` and `KillMisses`. `Check` is strongly fair, a server at a time, because
the loop calls `_keep_servers` before every ticket and `check` goes through all of them: a run that
comes back to its tickets for ever looks at each server for ever. Nothing is assumed of
servers: one that is coming may never come.

TurnMissing's counterexample is one under `WF_allVars(PictureNext)`: an attempt goes on. The
other runs check no liveness.


## The proofs

TLAPS checks every step. Nothing is assumed but the modules' named assumptions on their
constants (`ShapeAssumption`, `SettingsAssumption`, `BoundsAssumption`,
`CriteriaAssumption`, `HandAssumption`, `RevisingAssumption`, `OrderingAssumption`,
`BarAssumption`, `WorktreeAssumption`, `AttemptAssumption`, `ReplyAssumption`,
`TurnAssumption`, `PictureAssumption`, `CallsAssumption`, `ServersAssumption`), which TLC
evaluates in every run. They say what type a constant has, and little else: that a plan's own
needs run in no circle (`graph_problems`, ingest.py:620, refuses one that does), that the
lines drawn and marked are lines, that the lengths of messages are numbers.

A theorem with a column "Under" has hypotheses on the constants. Each is the setting or the
kind of plan under which the code keeps the property; what happens outside of it is said here
or under [Where a checked property stops holding](#where-a-checked-property-stops-holding),
and the runs go on checking the property there where the code keeps it for the instance.

**RunLoop_proofs**, for every plan, setting, weather and bound:

| Theorem | States |
| --- | --- |
| `TypeCorrect` | `Spec => []TypeOK` |
| `ReadyWork` | `Spec => []WorksOnlyReady` |
| `WholeBudget` | `Spec => []FailedSpentTheBudget` |
| `CyclesBounded` | `Spec => []RetryBudget` |
| `VerdictStands` | `Spec => SettledStaysParked` |

They rest on `Invariance == Spec => []IInv`, with
`IInv == TypeOK /\ InHand /\ WorksOnlyReady /\ Charged /\ Budgeted /\ Verdicts`. None of
the properties is inductive by itself: `WorksOnlyReady` needs to know that the ticket was
ready already at the gates, before it is marked running (`InHand`); the budget needs the
charge to be there when the executor is asked (`Charged`); the number of cycles needs the
comparison made when a cycle was opened to hold until the count is written, several
transactions later (`Budgeted`); and a verdict stands because a cycle that is under way
holds no ticket that has one for the contract it has (`Verdicts`). `TypeOK` is split by
the group of variables and each group proved for every action; the others are proved one
lemma per conjunct (`InHandStep`, `ReadyStep`, `ChargedStep`, `BudgetedStep`,
`VerdictsStep`) with one step per action. Each conjunct was checked by TLC first.

**Landed_proofs**, over RunLoop_proofs, is about what landed and what a run says at its end:

| Theorem | States | Under |
| --- | --- | --- |
| `ForwardHolds` | `Spec => []Forward` | `OnlyForward` |
| `CurrentAlways` | `Spec => []DoneIsCurrent` | no ticket can be split, or `OnlyForward` |
| `LandedForGood` | `Spec => LandedStaysLanded` | the same |
| `LandedForEver` | `Spec => NeverUndone` | `OnlyForward` |
| `GateHolds` | `Spec => GateOpensOverAll` | nobody discharges a ticket by hand |
| `QueuedIsFound` | `Spec => []QueuedCanBeResumed` | `OnlyForward`; no release, no refused start, no broken toolchain, no exception; `NobodyWaits` or `Unbroken` |
| `NothingLeftQueued` | `Spec => NothingQueuedOnReturn` | no ticket can be split, and `OnlyForward` |
| `DoneMeansDone` | `Spec => DoneRunMeansLanded` | `OnlyForward`, no release, and `NothingStrays` |

`OnlyForward`: the commands of a person may stop, pause, resume, release and retry a whole
run, and not retry one ticket or every ticket, which undo what landed, nor discharge one.
`NobodyWaits`: no ticket needs one that can be split. `Unbroken`: no run is killed, stopped,
capped or ended by an exception, so that none ends between the row of a piece and that of
its parent. `NothingStrays`: no ticket can be split; or `NobodyWaits` and no run
halts on a ticket that gives up. `CurrentAlways` and `LandedForGood` cover the whole of
RunLoopOrders, whatever its orders, because nothing splits there. `LandedStaysLanded` is what
the loop does: it excepts a person's orders between runs and the reopening at the start of
one. `NeverUndone` has no exception: where no order undoes anything, not even a start finds
something to reopen.

The invariants are stated in RunLoop. `DoneIsCurrent` is not inductive: what keeps a
dependency from moving under what stands on it is that a ticket that was ever worked had all
its needs landed then and for good (`Landed`), that what has not been added yet was never
worked and a ticket's needs come with it (`Rows`), and that a gate never stands over pieces
that all landed, so that no closing of it is missed (`Shut`). `Exhausted` says why the loop
left the backlog. `Forward` is their conjunction. `GateHolds` needs none of it, only that
what closes a gate looks at every piece. `QueuedIsFound` adds that the row says done only
while nothing is queued (`RowIsTrue`); `NothingLeftQueued` that from the end of the backlog
to the end of the cycle nothing is (`NothingQueued`); `DoneMeansDone` that whatever is
skipped waits on something that was given up, which the next cycle takes along (`Left`).
`QueuedIsFound` is where the steps after a ticket's row matter. A piece's pass and the closing
of its parent are two transactions with a reviewer's call between them. Whoever is killed
there leaves a parent that the next run closes at its very end, when nothing that waits for
the parent is looked for any more: hence the hypothesis.

**Handback_proofs**, for every set of criteria and commands:

| Theorem | States | Under |
| --- | --- | --- |
| `TypeCorrect` | `Spec => []TypeOK` | nothing |
| `Judged` | `Spec => []DoneMeansJudged` | nothing: any number of commands at once, discharges beside the loop included |
| `Released` | `Spec => []ReleasedOnRecord` | nothing |
| `Anchored` | `Spec => AnchorKept` | nothing |
| `Noted` | `Spec => NotesKept` | `AtOnce = 1` |
| `FloorStands` | `Spec => OnlySignOffMovesTheFloor` | `AtOnce = 1`, no discharge beside the loop, sign-offs that reach some role |

The first four rest on `Kept == TypeOK /\ Held /\ DoneMeansJudged /\ Recorded`: the loop
never holds a copy of a done ticket, and always one with the plan in its anchor and the
row's agreement (`Held`); an open route, and a release about to open one, stand over a
note (`Recorded`). `LoopStepKeeps` goes through the loop's actions once and says what each
leaves to the people (`TheirsIsKept`), when it finishes a ticket (`DoneIsEarned`) and where
its copy comes from (`CopyIsTraced`); `HandWrites`, `HandMoves` and `HandReads` do the same
for the commands. `Noted` adds `OneAtATime`: only one command is under way and the notes it
read are the notes there are. `FloorStands` adds `Carried`: what the loop holds is still on
the row, and no verification runs beside it. The hypotheses are not for convenience: TLC
finds a counterexample when any of them is dropped (below).

**Attempt_proofs**, for every project, backlog, setting and bound:

| Theorem | States | Under |
| --- | --- | --- |
| `TypeCorrect` | `Spec => []TypeOK` | nothing |
| `ChargedIsFixed` | `Spec => DebtIsKept` | nothing |
| `Transaction` | `Spec => IsTransaction`: Attempt implements Landing | `Apart`, `Restorable` |
| `ReproductionStays` | `Spec => ReproductionUntouched` | `TestsApart` |
| `FixedIsShown` | `Spec => FixedMeansReproductionPasses` | `TestsApart`, `~Compiled` |

`TypeOK` says that attempts stay within the budget and never become negative, which needs
every refund to follow a charge: `Paid` says that there is one to hand back wherever a
compile turn or a widened scope may happen, and `Versioned` that a contract is rewritten
at most once for every cycle spent. With `Typed` and `InHand` they are `Base`, proved a
lemma per group of actions over four lemmas about steps that leave the row, change it, let
go of the ticket or are nobody's. `DebtIsKept` speaks of the moment a ticket is done, so it
needs what verification saw to be what is there when the review ends (`Cleared`), and that
rests on nothing the ticket owes being excused to it (`NotExcused`) or being an error that
cannot be attributed (`Owing`). Neither would survive a project whose test step prints the
compiler's errors, were an error of the compiler inherited under one step and charged under
the other; `Attributed` says that it is not, because both steps are read from the same
baseline. `Base` and `Debt` were checked by TLC on the instances of both runs first.

`Transaction` is the refinement for every backlog, with retries, respecs, widened scopes, new
diagnoses and any number of cycles. `Apart` says whose a file is: no two tickets write the
same one, tests apart, and a build ticket's test is not there before it. `Restorable` says
that what is undone can be: there is git and quarantine is on, no file is ignored or
cannot be copied, every error can be attributed, and neither a kill nor a person comes in
between. The mapping is the one of the run; that a step of Attempt is one of Landing's or
none needs `Whole`. Whatever differs from the tree a ticket found was recorded as written by it
(`Traced`); the two steps that take it back leave nothing of it (`Undone`); what a review
sees prints nothing the tree found did not (`Reviewed`); and the tree a retried ticket goes
back to, which is the one of the *first* time it ran, is still the project's as far as that
ticket reaches (`Original`, `Unwritten`). The last is where disjoint files are needed: the
code never takes that tree again, whatever landed since.

The two theorems on bugs hold through kills, edits of a person, a full disk, respecs and new
diagnoses, with or without git. `TestsApart` says that no scope a ticket starts with or is
diagnosed into holds a test, that tickets name distinct tests, and that no reviewer grants
one. `Spared` is what they rest on: scopes hold no tests, so the only test an attempt writes
is its own, and a bug under way has its reproduction on disk, which passes from verification
on. That a later grant voids them is under
[What was found](#what-was-found); AttemptBugs has a project with `Compiled` TRUE where
`FixedMeansReproductionPasses` still holds.

**Servers_proofs**, for every set of servers, numbers, commands and configurations:

| Theorem | States | Under |
| --- | --- | --- |
| `TypeCorrect` | `Spec => []TypeOK` | nothing |
| `KillsItsOwn` | `Spec => []OnlyItsOwn` | no number is given out twice |
| `Recorded` | `Spec => []WrittenDown` | `Calm` |
| `Single` | `Spec => []OneCopy` | `Calm` |
| `RunLeavesNothing` | `Spec => []RunTakesItsServersDown` | `Calm` |

`Calm` is: one process of forge at a time, no number given out twice, kills that are
delivered, and no kill of forge between a spawn and its record. Everything else stays: servers die and
hang, others are started, configurations change, forge is killed while it starts, replaces
or stops a server. None of the last three properties is inductive. `OnlyItsOwn` needs that
whatever number is on record or in hand was given by forge (`Started`). For the others the
invariant says who may be alive unrecorded: besides `Started`, at most one process of forge
is busy (`Solo`); a server of forge that lives is the one on record under its own name, or
the one in hand that is not yet (`Known`); what is in hand is what the record says, and
where a start is about to be made there is none of that kind (`Grip`); and once a
run takes its servers down, what runs started and still lives is to be seen to, or is
being killed (`Stopping`). `Tended` is the
conjunction, checked by TLC on the instance of Servers, with and without zombies; `Calm`'s
parts are necessary, see below.

**Bar_proofs**, for every plan, set of roles, way to answer, rewrite, decomposition,
diagnosis and bound:

| Theorem | States | Under |
| --- | --- | --- |
| `Backed` | `Spec => []BuiltAsAgreed` | nothing |
| `PlanKept` | `Spec => []PlanStands` | nothing |
| `NoCircles` | `Spec => []NeedsAcyclic` | nothing |
| `ContractCarried` | `Spec => []PiecesCoverParent` | `PiecesAreNotReworded` |

The first two rest on `Inv == Fit(row, backed) /\ InHand /\ BuiltAsAgreed`. `BuiltAsAgreed` alone says
nothing of a ticket that is not in hand; what carries it from one build to the next is that
the fingerprint on the row is the text that was backed (`Kept`), for every ticket and through
every rewrite, split and reordering, and that what was voted on is what is settled (`InHand`).
`PlanStands` needs what was ratified to have kept the plan when it was ratified (`Stands`),
since from then on the rules compare with the ratified text and no longer with the plan. A
lemma each says that `SignOffApplies`, `RespecApplies`, `PieceOf` and `Ordered` keep this.

`NoCircles` is about `derive_needs`, a fold over the files that tickets share and over the
writers of each: every edge is added behind a search for a way back. `GraphInv` is the
acyclic graph and `HeldOver`: a cycle's copies of the rows, which are written back over
what was derived since, wait for no more than the rows do, so writing one back only removes
edges. `BehindStays` is the lemma on one edge, and `ChainedStays` and `DerivedStays` carry it
through the two folds.

`ContractCarried` rests on `CoverInv`: what the pieces of a gate were created with pins all
that its contract pins, and what a piece was created with stays among its criteria and among
the ratified ones (`Covered`, `Held`); and a gate is never asked about, built or respecified
(`OnlyWork`). Its hypothesis leaves out that a second sign-off pass rewords a piece, which
the code's default settings allow (`ratifyPasses` 2, `reviseBetweenPasses` on): there the
rewording is held to the values it softens only until it is dropped, in the two ways
described below. The run checks the property with rewordings that no such step drops.

**Calls_proofs**, for every model, window, allowance, turn budget, tool and prompt:

| Theorem | States |
| --- | --- |
| `Told` | `Spec => []AskedToAnswer` |
| `ResultsFollow` | `Spec => [](pc = "flight" => CallsHaveResults)` |
| `AllowanceHolds` | `Spec => []WithinAllowance` |

`Inv == Talking /\ Noted /\ Sending /\ Answered`. What is in the thread is related to the turns
that are left (`Noted`: the note is there exactly from the first turn without the tools) and
what is sent to what is in the thread (`Sending`: nothing that may not be left out is);
`Answered` places the results of a call right after it. `FittedKeeps` is the lemma on the
window: however much is left out, only what is droppable is.

`AllowanceHolds` says that an allowance is overrun by no more than the last answer that
counts against it. `SpendInv` adds `LetThrough`: while a request is out its model is still
under every allowance, because only its own answer is entered meanwhile and time only makes
room. That time makes room is a lemma on the sum over the ledger (`AgedLess`): a tick moves
answers out of an allowance's span and none into it.

**Picture_proofs**, for every setting, reply, failure and kill:

| Theorem | States | Under |
| --- | --- | --- |
| `TypeCorrect` | `PictureSpec => []TypeOK` | nothing |
| `Leased` | `PictureSpec => []CardIsLeased` | nothing |
| `Newest` | `PictureSpec => []OfferedIsNewest` | nothing |
| `TreeLeft` | `PictureSpec => []TreeIsLeft` | `KillsForgetNothing` |
| `LossesNamed` | `PictureSpec => []LossesAreNamed` | `ManifestsApart` |
| `WholeLands` | `PictureSpec => []WholeReplyLands` | nothing |

`CardIsLeased` holds because whoever holds a leased card is the one at work (`Held`), and a
ticket that is no image ticket never has it (`Apart`). `OfferedIsNewest` rests on the
attempts whose pictures are kept being in increasing order, and all of them
before the attempt that has not drawn yet (`Numbered`), across retries and kills.

The others rest on `Shape`, which adds to the types that a ticket writes within its scope
and tests where its tests go. `TreeIsLeft` is a property of the end of a ticket;
`WorkIsKnown` is it at every step: a file that is not as it was found is in what the ticket
is known to have touched or authored, until it has been taken back. `KillsForgetNothing` is
its hypothesis because `authored` is in memory only: a kill is harmless where there is none,
or where the tests an image ticket may write were there before. `LossesAreNamed` needs
`LossesKnown`: what a readable manifest declared when the ticket was taken and does not now
was named, and one that is unreadable is remembered as such.

`WholeReplyLands` follows a reply from its blocks to the disk. `ReplyKnown` is what is
known of it in between: where an attempt lands, what was parsed is well formed, or it is one
block of a reply that stayed malformed; and before it answers nothing is in hand. The steps
are lemmas: every file that is sent whole has an edit or repeats an earlier one
(`ReadWhole`, over `PickedAll` and `KeptOrRepeated`); of what is in scope nothing is lost,
and a path that is sent once stands there once (`InScopeKeeps`); an apply that is not
refused leaves each of those files as its own edit made it (`AppliedWhole`); and a patch
leaves its replacements and none of its searches, as far as no other search or replacement
of it touched them (`ReplacedLeaves`).

**Recursive functions.** What `ApplyEdits`, `Replaced`, `DerivedNeeds`, `Spent` and `Carried`
compute is defined by a recursive function on `0..n`. Two lemmas, proved once in each module
that needs them, make these usable without the library's induction theorems, which take an
operator as a parameter: `FoldExists`, that a function with the recursive equation exists, so
that CHOOSE finds one, and `SetInduction`, that a set of numbers that holds 0 and with each
number the next one holds them all; the second follows from every nonempty set of naturals
having a least element. An induction is then a DEFINE of the set of the lengths for which the
claim holds.

**Only model-checked.** The liveness properties (`StopHonoured`, `RunEnds`,
`EvidenceEndsRetries`, `Returns`, `KeptIsRestarted`, `ConversationEnds`), which are beyond
the prover; every invariant a run checks is stated by a theorem. Where a theorem has
hypotheses, the runs check more than it says: RunLoopSplit has runs that halt beside a split (`DoneMeansDone`
excludes it), AttemptBugs `Compiled` TRUE, Bar a second pass that rewords pieces. The types of Bar
and Calls were checked once and are in no run.


## What was found

One run ends in a counterexample to a sentence of the repository. TurnMissing: loop.py:6922
says "A missing test is a weaker result, not a failed ticket". Whether a test file is to
come is decided before the tester is asked (loop.py:6725). When the tester cannot be
reached, is cut off, or sends a test that is not kept, nothing is written, the suite counts
as many tests as before, and the attempt fails on a file that is not collected
(loop.py:8025-8062).

### Other sentences that do not hold

Those of the first table are stated at the end of MCRunLoop or among the properties of RunLoop. To see the
counterexample, take the plan and the settings below, and for everything else what
RunLoopCycles has, with `Weather` and `Orders` empty, `MaxOrders` and `MaxCrashes` 0 and
`StopOnBlocked` FALSE.

| Definition | Sentence | Settings |
| --- | --- | --- |
| `ToolchainRunResumes` | docs/LOOP-INVARIANTS.md:526, a broken toolchain stops the run, which resumes once it is mended; the run's row says `failed`, and `forge go` does not look at failed runs | LonePlan, RetryCycles 1, Weather {"toolchain"} |
| `ToolchainBlamesNobody` | loop.py:1632, "no ticket was blamed for this" | LonePlan, RetryCycles 0, Weather {"toolchain"} |
| `SameFailuresEndRetries` | loop.py:3281, the same failures give the same digest | LonePlan, Classes {"x", "y"}, RetryCycles 3, FlatCycles 3, RespecOnRetry FALSE, MaxRevision 0, CycleCap 3, InnerTurns 0 |
| `SkippedClears` | loop.py:2544, skipped "clears itself when the dependency lands" | ChainPlan, RetryCycles 0, Orders {"discharge"}, MaxOrders 1 |
| `StalledStaysParked` | docs/CONFIG.md:979, a stalled ticket is parked and the rest carries on | PairPlan, Classes {"x", "y"}, RetryCycles 4, FlatCycles 1, MaxRevision 4, CycleCap 4 |
| `EvidenceEndsRetries` | docs/CONFIG.md:959, with no limit on the cycles `flatCycles` makes a run converge or stop; two tickets that fail alike in every cycle are parked in turn, each parking changes the evidence the next cycle is compared with, and the run never ends | PairPlan, FairSpec, MaxAttempts 1, RetryCycles Unlimited, FlatCycles 2, RespecOnRetry FALSE, MaxRevision 0, CycleCap 2, InnerTurns 0 |
| `StopBeforeEntry` | cli.py:2550, a requested stop is applied after the current step | LonePlan, FairSpec, Orders {"stop"}, MaxOrders 1 |
| `NothingPartiallyCompletes` | loop.py:3653, a parent blocked with its pieces is requeued whole next to them and lands while a piece is failed | SplitPlan, MaxAttempts 1, RetryCycles 2, VolumeThreshold 1, MaxRevision 1, CycleCap 2, InnerTurns 0 |
| `NothingQueuedOnReturn` | loop.py:4079, a cycle that splits one ticket and gives up on the rest returns with the new pieces pending | SplitSidePlan, otherwise the same |

Two are stated at the end of Handback, for one loop and one command (`Hands` of one,
`AtOnce` 1, `InitRoute` "delegate", `MaxAttempts` 1, `Ratifies` and `Reachable` TRUE,
`MaxSpec` 2, `MaxCycles` 1) over `Planned` {"o1", "o2"}, `Stated` {"h"}, `Proposable`
{"r1", "m"} and `Entailed` {"m"}:

| Definition | Sentence | Settings |
| --- | --- | --- |
| `RatifiedNotShorter` | state.py:515, "ratification cannot return a shorter one"; a sign-off counts the criteria before it drops those that pin a shared file (ratify.py:692) | Pinning {"r1"}, Kinds and Beside {} |
| `PlanAuthoredStays` | state.py:1267, an adopted criterion is "protected by the ratchet from the next revision onwards"; on a ticket that was signed off it is not in the ratified list, and the next respec drops it by not repeating it | Pinning {}, Kinds and Beside {"criteria"} |

Two are stated in Attempt. `TreeAsFound`, for docs/CONFIG.md:966, a ticket that gives up
leaves the tree as it found it. A file of a ticket that failed is mended by hand and the
ticket retried; when it fails again, quarantine restores the file from the tree of the
first time the ticket ran, and the mended content is replaced. (MCAttempt's `Lone...`
plan, no bugs, `MaxAttempts` 1, `InnerTurns` 0, `BugHypotheses` 1, `MaxCycles` 1,
`MaxKills` 0, `MaxEdits` 1, Weather {"edit"}, the rest TRUE.)
`FixedMeansReproductionPasses`, for loop.py:7042, "One thing is never excused on a bug
ticket: its own reproduction": a bug ticket that was granted an existing test that
contradicts its fix has that test taken for its reproduction from then on. The real one,
still red, is an old failure outside its scope: it is excused, and the ticket is done with
no change to the code. (MCAttempt's `Old...` plan with `Bugs` {"X"}, `Unparsed` {},
`MaxAttempts` 1, `InnerTurns` 0, `BugHypotheses` 1, `MaxCycles` 1, `MaxKills` and
`MaxEdits` 0, Weather {"grant", "respec"}, `Git` TRUE, `Compiled` FALSE.)

One is stated in Servers: `RunSparesPersons`, for cli.py:331-333, of a server that a
person starts "only `forge llama stop` ends it". A run replaces it when the configuration
has changed (Weather {"edit"}, `MaxPreset` 1), when it hangs, and for a lease, and then
takes down at its end what it started in its place.

One is stated in Bar: `StopsOnFailure`, for loop.py:2530, when nothing can be handed out
"every remaining ticket is waiting on one that failed". Two tickets may wait for each
other through a gate: a split parent writes nothing, so that the order derived between its
pieces and another ticket does not see what waits for the parent. Neither is then
ever handed out, and nothing failed. (Bar's run with that invariant.)

One is stated in MCCalls: `PromptFits`, for budget.py:5, "prove the prompt fits in the
model's window". What is counted of a message is the text of its parts (tokens.py:57-71);
the tool calls a turn carries are sent and not counted. (Calls's run with that invariant.)

One is in `WholeReplyLands`, whose last disjunct is there for it: `_recover_unlabeled`
says it reads a reply whose block had "no path line above it" (loop.py:1824), and it reads
every reply that stayed malformed. A file sent twice under its path, with different content
each time, is refused for that (loop.py:1854), and then the longest block of the reply is
written, whichever of the two it is. A file whose fence is too short for it is refused as
well, because "guessing which of two readings the model meant is how a `build.sh` ends up
holding a fragment of a README" (patch.py:173-174), and then what came before the inner
fence is written, when that still holds four fifths of the file on disk. Both need a ticket
of one file and two such replies in a row. (Turn's run with `OneBlockLanded` FALSE.)

### Where a checked property stops holding

A property is checked where the code keeps it. It fails:

- `PiecesCoverParent` when a sign-off on a piece rewords a criterion into one that pins the
  shared file and carries its value: `_softened_values` finds the value, and then
  `_drop_whole_file_claims` drops the criterion (MCBar with p1's rewrite
  {`soft`, `whole`} and `whole` pinning v). It also fails when the first of two passes
  rewords a criterion of a piece that carries the value, and the second reaches nobody:
  nothing is ratified, the piece is built and fails, its sibling is skipped, the parent
  stays a gate, and a respec that does not repeat the rewording drops it, because it is in
  neither the plan's list nor a ratified one;
- `NothingPartiallyCompletes`, of which the runs check `GateOpensOverAll`, after a kill
  between adding the pieces of a split and writing the parent (SplitPlan, VolumeThreshold 1,
  MaxCrashes 1);
- `DoneRunMeansLanded` where another ticket needs the one that is split and the process is
  killed between making it a gate and requeueing the cycle: the pieces land and the
  parent with them, what needed it stays skipped, and the run ends done (SplitSidePlan with
  q needing p, MaxAttempts 1, RetryCycles 1, RespecOnRetry FALSE, VolumeThreshold 1,
  MaxRevision 1, CycleCap 2, InnerTurns 0, MaxCrashes 1);
- `DoneRunMeansLanded` and `QueuedCanBeResumed` in the same instance, killed or stopped
  after the last piece's row and before the parent's: the next run finds nothing to hand
  out, `_finish` closes the parent (loop.py:3644 by way of 3201) and records the run done,
  and q, which needed the parent, is left pending under a run `forge go` does not find;
- `DoneIsCurrent` in a split plan after a retry of one ticket: p needs q and is split, q is
  retried by hand, and the gate closes over the pieces while q is not done (the same
  instance with p needing q, Orders {"retryOne"}, MaxOrders 1, MaxCrashes 0);
- `NothingQueuedOnReturn` when a ticket left running by a kill loses its dependency to a
  retry of one ticket (ChainPlan, RetryCycles 0, Orders {"retryOne"}, MaxOrders 2,
  MaxCrashes 1);
- `ReturnIsRecorded`, which no run checks, where a window closes (LonePlan, Weather
  {"limits"}), and after a pause and a resume while a cycle that is then given up asks the
  planner (LonePlan, Orders {"pause"}, MaxOrders 2);
- `QueuedCanBeResumed` after a release on a run that ended done (GuardPlan, Orders
  {"release"}, MaxOrders 1);
- `WorkingRunSaysRunning`, which no run checks either, in a cycle that only decomposed
  (SplitPlan, VolumeThreshold 1);
- `NotesKept` with two commands at once, `AtOnce = 2`: each appends to the notes it read;
  with a discharge among them the window is as long as a verification;
- `OnlySignOffMovesTheFloor` with "discharge" in `Beside`: a discharge writes back the
  criteria it read before the verification over those a sign-off settled meanwhile; and
  with `Reachable = FALSE`, where a rewording is kept and no anchor written, so that
  nothing on the ticket is protected from the next revision;
- `IsTransaction` after a kill in an attempt (AttemptBuild with Weather {"kill"}, MaxKills
  1): what the attempt wrote stays and no later one remembers it; and where the disk has no
  room for a copy (Weather {"disk"}), since a file that cannot be kept is left as it is;
- `FixedMeansReproductionPasses` in the instance given for loop.py:7042 with `Weather` {} and `Compiled`
  TRUE on a project whose old test does not compile to begin with: the suite prints the
  compiler's error, which counts as a reproduction, and both steps are then excused;
- `ReproductionUntouched` where a ticket is granted a test that is another bug's
  reproduction: from then on it may write it (Weather with "grant", and `Askable` holding
  a bug's own test);
- `TreeIsLeft` after a kill of an image ticket whose designated test was not there before:
  that the test was forge's own was only in memory;
- `LossesAreNamed` for a manifest that is also a test by its path: `is_test_path`
  (patch.py:1235) counts every file under a tests directory, so `tests/package.json` is
  both, and what the tester's reply drops from it is never spoken of;
- `KeptIsRestarted` (one server "llama", `Pids` {1, 2}, Weather {"dies"}) with `Zombies`
  TRUE: `pid_alive` asks whether the number is in use, and the number of a dead child is,
  until something collects it. The same is behind tests/test_servers.py:197 and :234,
  which say that a dead server is noticed. Also with `Beside` {"status"}: looking drops the
  entry of a server that died, and `check` restarts nothing it has no entry of; and for a
  leased server, whose `restart` looks in the same way, which is why the property leaves
  those out;
- `OnlyItsOwn` with Weather {"dies", "reuse"}: the number of a server that died while no
  forge looked is another process's, and is killed (servers.py:246-248 says that it never is);
- `WrittenDown` with Weather {"killedAtSpawn"}: nobody knows the server that was just
  started; with {"stubborn"}: a server that did not go is struck off the record; with `Beside`
  {"stop"} and Weather {"edit"}: a stop strikes off what a run put in its place meanwhile;
  `WrittenDown` and `OneCopy` with `Beside` {"start"}: two that start at once.

Some of what Attempt does is against no sentence, but worth knowing. A suite that is red
for a reason of its own is accepted as proof of any bug (`Reproduces`). Errors that cannot
be attributed are an amnesty: a step that prints nothing but those and something inherited
passes. An existing test in the scope that the tester overwrites is not restored when the
ticket gives up. A failure of a gate before verification, or of a step after the first that
was refused, is not charged, and is inherited in the next cycle. A scope that is widened or
re-diagnosed does not take the baseline again.

Of the servers: when the second of two is refused at the start, the first stays up
(the `finally` that stops them is around the queue, not around the start), until a later
`forge go` that ends takes it down; the one restart is per `forge go`, not per run.

Of Handback's behaviours, not against any sentence but worth knowing: a discharge or a
retry given while the loop holds the ticket is overwritten by it, as is a criterion stated
meanwhile; a release killed before its last write leaves a ticket withheld that a second
release calls already routed (`forge retry` brings it back).

Of Bar's: a sign-off in which the last pass reaches nobody, after a revision between the
passes, lets text through nobody voted on. A decision may keep its sentence and lose its
mark, after which no rule looks for it. With one criterion more or less than before,
softened values are not looked for. `derive_needs` orders only consecutive writers of a
file. A respec or a split writes back the needs its cycle read at its head, and loses an
edge that was derived since. A respec may leave a ticket with no file to write. A new
diagnosis changes the scope without a new order or a vote. A reviewer's grant is not, as
loop.py:5139 has it, the one place where the loop lets a ticket write a test.

Of Turn's: a search that is refused in a later file leaves the earlier ones written, and
they are not among what quarantine restores. A manifest an attempt gutted is the next attempt's
"before" (loop.py:7834), and one that cannot be read hides any loss. Two patches of one
file with the same replacement count as one (patch.py:322). A patch whose path stands inside
its fence is written down with its search marks. An executor that says only that the ticket
is impossible is told about its scope. A "BLOCKED:" with its reason on the next line is an
empty reply, which goes on to verification. A tester that sends no usable edit is not taken
for one that wrote no test (loop.py:6678-6690). A test an executor may write is not looked at
for honesty, nor are the replacements of a tester's patch; a kept test the executor overwrote
is taken for the tester's (loop.py:6710). The note about files out of scope is lost when the
attempt fails before verification or in review.

Of Picture's: the picture of an image ticket that gave up stays in the tree (loop.py:1054).
A ticket that stalled and is retried by a person is parked again before anything is drawn, since
the verdicts it is given back are the ones it stalled on, and an attempt is charged for it. A
restart within the first cycle forgets what was rejected. A `ServerError` from the restart of
the image server ends the run. The lease is released only for the image model, and it is
ComfyUI that is restarted, whichever server refused.

Of Calls's: leaving out a replayed turn leaves its tool results without their call. A limit
met by the second request of a call fails the attempt and parks nothing. Two requests are
entered as one, those that fail as none. Parks are forgotten by a restart. A date that does
not parse, or a connection reset in the middle of an answer, is no `ProviderError` and ends
the run. Tools are run for a model that calls them when they were not offered. The hint to
read on from where a result was cut skips what the limit on its length cut.


## What is not modelled

- Text: what is put together for a model, how its replies spell a header, a fence or a
  verdict, the expressions that classify command output, streaming and wire formats. What
  they come to is an input, or a value, of the modules.
- Memory, evidence and replay, the repository map, the configuration and its wizard: they
  read, or write what only people or prompts read.
- The canary's cases and their cache, and the detection of toolchains: RunLoop has whether
  they pass.
- Of a sign-off: reading scopes, references that are checked against the repository, the
  digest of what overran, and what was learned or abandoned before.
- Of an attempt: the commit, and the formatter other than as files it could not read.
  Attempt's baseline and compile turns and Turn's replies are not combined.
- Of a call: reference images on the opening turn, a pause at the gate, prices.
- Of the servers: what a server is asked to tell who it is, and clearing other backends off
  the card.
- Migrations of the store, metrics, the step log beyond what is read back from it.
- Two loops on one run: `forge go` does not lock a run, and nothing in the repository says
  what two of them would promise.
- Time, other than as events and, in Calls, as ticks.


## The plan

Done, in the order in which the parts matter to the whole: **RunLoop**; **Contract** and
**Handback**; **Worktree**, **Attempt** and **Landing**; **Servers**; **Toolbox** and
**Calls**; **Revising**, **Ordering** and **Bar**; **Reply**, **Turn** and **Picture**; and
proofs of each.

What is left:

1. Proofs: `DoneRunMeansLanded` for runs that halt beside a split; `PiecesCoverParent` with two passes, for rewordings
   that keep a value where it cannot be dropped.
2. **Backlog**: an abstract specification of the whole (a ticket is waiting, being worked,
   landed or given up; what landed stands on what landed) that RunLoop refines, and the
   drain of several runs by `_drain`.
3. The canary, its cases and their cache, as a module beside RunLoop.
