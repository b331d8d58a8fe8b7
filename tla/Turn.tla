-------------------------------- MODULE Turn --------------------------------
(***************************************************************************)
(* What one build ticket's attempts make of the replies they get: the      *)
(* executor is asked, at most twice, for files (`_attempt`); they are      *)
(* scoped, applied and looked over; the tester is asked, at most twice,    *)
(* for tests of them; the verify commands and the reviewer judge the tree; *)
(* and a ticket that gives up takes its work back out.                     *)
(*                                                                         *)
(* Attempt says what attempts do to the tree whatever the replies were:    *)
(* the compile turns, the widened scopes and the bugs are there.  How one  *)
(* reply is obtained is in Calls; here it arrives, or does not.            *)
(***************************************************************************)
EXTENDS Reply

CONSTANTS
    Scopes,       \* what the ticket may be allowed to write
    NeverDelegate,
    Planned,      \* the files the backlog's other tickets are to write
    Found,        \* the tree it finds
    OwnTest,      \* the test file named after it
    Oversized,    \* the files too large to be sent whole
    Images,       \* the pictures among the files, which only Picture's tickets write
    Criteria,
    ExecutorReplies, TesterReplies,
    Weather,      \* what can go wrong besides
    FreezeTests, Formatter,  \* loop.freezeTests, a format command
    QuarantineFailed,        \* loop.quarantineFailed
    MaxAttempts

VARIABLES
    disk, scope,
    status, attempts, stamped,  \* the ticket: and the tests its record says are current
    context,     \* what the next attempt is told: of what, and what it names
    impossible,  \* its executor says it cannot be satisfied
    pc, round,
    reply, parsed,   \* the executor's
    written, empty, scopeNote,
    test, fresh, unchecked,  \* fresh: asked for a test file that was not there
    touched, authored,  \* what its attempts wrote; the tests they brought into existence
    \* history
    named,    \* the dependencies an executor was told it had dropped
    unread,   \* the manifests that were unreadable when an attempt landed
    torn      \* an apply was refused part-way

ticket == <<status, attempts, stamped, context, impossible>>
work == <<written, empty, scopeNote, test, fresh, unchecked>>
kept == <<touched, authored>>
history == <<named, unread, torn>>
vars == <<disk, scope, ticket, pc, round, reply, parsed, work, kept, history>>

Nothing == Parsed(<<>>, {}, FALSE, FALSE)
Silence == ReplyOf("nothing", <<>>, FALSE, FALSE, FALSE)
Telling(kind, names) == [kind |-> kind, names |-> names]

ASSUME TurnAssumption ==
    /\ Found \in [Files -> Content \cup {Absent}]
    /\ \A r \in ExecutorReplies \cup TesterReplies : r.blocks \in Seq(BlockRecord)
    /\ \A s \in Scopes : s \subseteq Files
    /\ OwnTest \in TestFiles /\ Found[OwnTest] = Absent
    /\ Manifests \subseteq Files /\ TestFiles \subseteq Files /\ MaxAttempts \in Nat
    /\ Absent \notin Files
    /\ Images \subseteq Files \cap Untestable

Init ==
    /\ disk = Found /\ scope \in Scopes
    /\ status = "working" /\ attempts = 0 /\ stamped = Absent
    /\ context = Telling("none", {}) /\ impossible = FALSE
    /\ pc = "idle" /\ round = 0 /\ reply = Silence /\ parsed = Nothing
    /\ written = {} /\ empty = FALSE /\ scopeNote = FALSE
    /\ test = Absent /\ fresh = FALSE /\ unchecked = FALSE
    /\ touched = {} /\ authored = {}
    /\ named = {} /\ unread = {} /\ torn = FALSE

-----------------------------------------------------------------------------
(* How an attempt ends.                                                    *)

Over == pc' = "idle" /\ round' = 0 /\ reply' = Silence /\ parsed' = Nothing
        /\ written' = {} /\ empty' = FALSE /\ scopeNote' = FALSE
        /\ test' = Absent /\ fresh' = FALSE /\ unchecked' = FALSE

\* The next attempt is told of it; after the last one the ticket has failed.
Fails(kind, names) ==
    /\ context' = Telling(kind, names) /\ Over
    /\ status' = IF attempts = MaxAttempts THEN "failed" ELSE "working"

Blocks == status' = "blocked" /\ context' = Telling("blocked", {}) /\ Over

\* The tests a ticket that is given up brought into existence, by name or by the
\* attempt's own record (`_discard_tests`).
Discarded == {OwnTest} \cup authored

\* What its attempts wrote goes back to what it found (`_quarantine`).
Quarantined == IF QuarantineFailed THEN touched ELSE {}

\* (mutant) what an attempt wrote is restored to what the attempt found
GiveUpLeaving ==
    /\ pc = "idle" /\ status \in {"failed", "blocked"}
    /\ disk' = [f \in Files |-> IF f \in Discarded THEN Absent ELSE disk[f]]
    /\ pc' = "over"
    /\ UNCHANGED <<scope, ticket, round, reply, parsed, work, kept, history>>

GiveUp ==
    /\ pc = "idle" /\ status \in {"failed", "blocked"}
    /\ disk' = [f \in Files |-> IF f \in Quarantined THEN Found[f]
                                ELSE IF f \in Discarded THEN Absent ELSE disk[f]]
    /\ pc' = "over"
    /\ UNCHANGED <<scope, ticket, round, reply, parsed, work, kept, history>>

-----------------------------------------------------------------------------
(* The executor.                                                           *)

\* An attempt is counted, and a ticket is blocked that may write a file too
\* large to be shown whole.
BeginAttempt ==
    /\ pc = "idle" /\ status = "working" /\ attempts < MaxAttempts
    /\ attempts' = attempts + 1
    /\ IF \E f \in scope : f \in Oversized /\ disk[f] # Absent
       THEN Blocks /\ UNCHANGED <<stamped, impossible>>
       ELSE /\ pc' = "executor" /\ round' = 1
            /\ UNCHANGED <<status, stamped, context, impossible, reply, parsed, work>>
    /\ UNCHANGED <<disk, scope, kept, history>>

ExecutorUnavailable ==
    /\ pc = "executor"
    /\ \/ "unavailable" \in Weather /\ Fails("unavailable", {})
       \/ "overflow" \in Weather /\ Blocks
    /\ UNCHANGED <<disk, scope, attempts, stamped, impossible, kept, history>>

\* A reply that was cut is not read; one that did not parse is asked for once
\* more; what parsed in the end is what counts.
ExecutorAnswers(r) ==
    /\ pc = "executor"
    /\ LET answer == Parse(r)
           recovered == RecoverUnlabelled(r, scope, disk)
       IN CASE r.cut -> Fails(IF NamesAFile(r) THEN "cut" ELSE "prose", {}) /\ UNCHANGED impossible
            [] ~r.cut /\ Malformed(answer, r) /\ round = 1 ->
                 /\ round' = 2
                 /\ UNCHANGED <<status, context, impossible, pc, reply, parsed, work>>
            [] ~r.cut /\ ~(Malformed(answer, r) /\ round = 1) /\ answer.blocked ->
                 Blocks /\ UNCHANGED impossible
            [] OTHER ->
                 /\ impossible' = (impossible \/ answer.impossible)
                 /\ IF Malformed(answer, r) /\ recovered = Refused
                    THEN Fails("malformed", {})
                    ELSE /\ pc' = "land" /\ reply' = r
                         /\ parsed' = IF Malformed(answer, r) THEN recovered ELSE answer
                         /\ UNCHANGED <<status, context, round, work>>
    /\ UNCHANGED <<disk, scope, attempts, stamped, kept, history>>

\* A reply that sends nothing goes on to be verified as the tree is.
LandsNothing ==
    /\ pc = "land" /\ IsEmpty(parsed)
    /\ pc' = "tests" /\ empty' = TRUE
    /\ UNCHANGED <<disk, scope, ticket, round, reply, parsed, written, scopeNote, test,
                   fresh, unchecked, kept, history>>

Edits == InScope(parsed, scope, NeverDelegate)
Landing == ApplyEdits(disk, Edits)

\* (mutant) what did not come whole is forgotten when something else did
ForgetsTruncated(p) == {}

\* What the fence of a file cut short, which was not written.
Truncated(p) == p.truncated

LandsNowhere ==
    /\ pc = "land" /\ ~IsEmpty(parsed) /\ Edits = <<>>
    /\ Fails("scope", {})
    /\ UNCHANGED <<disk, scope, attempts, stamped, impossible, kept, history>>

\* Nothing is recorded as touched of an apply that is refused part-way.
ApplyRefused ==
    /\ pc = "land" /\ ~IsEmpty(parsed) /\ Edits # <<>> /\ Landing.torn
    /\ disk' = Landing.disk /\ torn' = (torn \/ Landing.written # {})
    /\ Blocks
    /\ UNCHANGED <<scope, attempts, stamped, impossible, kept, named, unread>>

Lands ==
    /\ pc = "land" /\ ~IsEmpty(parsed) /\ Edits # <<>> /\ ~Landing.torn
    /\ disk' = Landing.disk /\ touched' = touched \cup Landing.written
    /\ unread' = unread \cup {f \in Manifests : disk'[f] # Absent /\ Declared(disk'[f]) = Absent}
    /\ LET lost == Losses(disk, disk', Landing.written)
           loose == Unresolved(disk', Landing.written, Planned \cup scope)
       IN /\ named' = named \cup lost
          /\ CASE lost # {} -> Fails("gutted", lost)
               [] lost = {} /\ loose # {} -> Fails("dangling", loose)
               [] lost = {} /\ loose = {} /\ Truncated(parsed) # {} ->
                    Fails("truncated", Truncated(parsed))
               [] OTHER -> /\ pc' = "tests" /\ written' = Landing.written
                           /\ scopeNote' = (Len(Edits) < Len(parsed.edits))
                           /\ UNCHANGED <<status, context, round, reply, parsed, empty, test,
                                          fresh, unchecked>>
    /\ UNCHANGED <<scope, attempts, stamped, impossible, authored, torn>>

-----------------------------------------------------------------------------
(* The tester.                                                             *)

\* The tests are kept when nothing they are derived from changed: they are on
\* disk, the record says so, and the last failure does not name them.
Current(path) ==
    FreezeTests /\ stamped = path /\ disk[path] # Absent /\ path \notin context.names

SkipTests ==
    /\ pc = "tests" /\ (empty \/ TestTarget(scope, written, OwnTest) = Absent)
    /\ pc' = "verify" /\ unchecked' = (Criteria # {})
    /\ UNCHANGED <<disk, scope, ticket, round, reply, parsed, written, empty, scopeNote, test,
                   fresh, kept, history>>

KeepTests ==
    /\ pc = "tests" /\ ~empty
    /\ LET path == TestTarget(scope, written, OwnTest) IN
          path # Absent /\ Current(path) /\ test' = path
    /\ pc' = "verify"
    /\ UNCHANGED <<disk, scope, ticket, round, reply, parsed, written, empty, scopeNote,
                   fresh, unchecked, kept, history>>

AskTester ==
    /\ pc = "tests" /\ ~empty
    /\ LET path == TestTarget(scope, written, OwnTest) IN
          /\ path # Absent /\ ~Current(path) /\ test' = path
          /\ fresh' = (Criteria # {} /\ disk[path] = Absent)
    /\ pc' = (IF Criteria = {} THEN "verify" ELSE "tester")
    /\ round' = 1
    /\ UNCHANGED <<disk, scope, ticket, reply, parsed, written, empty, scopeNote, unchecked,
                   kept, history>>

Unchecked ==
    /\ pc' = "verify" /\ unchecked' = TRUE
    /\ UNCHANGED <<status, context, round, reply, parsed, written, empty, scopeNote, test, fresh>>

\* Whatever stops the tester leaves the review to check the criteria.
TesterUnavailable ==
    /\ pc = "tester" /\ "unavailable" \in Weather /\ Unchecked
    /\ UNCHANGED <<disk, scope, attempts, stamped, impossible, kept, history>>

Acceptable(edits) == \A i \in DOMAIN edits : Honest(LinesOf(edits[i]), Criteria)

\* Twice only a criterion's value was changed: the ticket contradicts the code.
OnlySoftened(edits) ==
    /\ \A i \in DOMAIN edits : ForeignBindings(LinesOf(edits[i])) = {} /\ ~Laundered(LinesOf(edits[i]))
    /\ \E i \in DOMAIN edits : Weakened(LinesOf(edits[i]), Criteria) # {}

TesterAnswers(r) ==
    /\ pc = "tester"
    /\ LET edits == InScope(Parse(r), {test}, NeverDelegate)
           applied == ApplyEdits(disk, edits)
       IN CASE r.cut -> Unchecked /\ UNCHANGED <<disk, stamped, authored, torn>>
            [] ~r.cut /\ ~Acceptable(edits) /\ round = 1 ->
                 /\ round' = 2
                 /\ UNCHANGED <<disk, status, stamped, context, pc, reply, parsed, work, authored, torn>>
            [] ~r.cut /\ ~Acceptable(edits) /\ round = 2 ->
                 /\ IF OnlySoftened(edits) THEN Blocks ELSE Unchecked
                 /\ UNCHANGED <<disk, stamped, authored, torn>>
            [] ~r.cut /\ Acceptable(edits) /\ applied.torn ->
                 /\ Unchecked /\ disk' = applied.disk /\ torn' = (torn \/ applied.written # {})
                 /\ UNCHANGED <<stamped, authored>>
            [] OTHER ->
                 /\ disk' = applied.disk
                 /\ stamped' = IF edits = <<>> THEN stamped ELSE test
                 /\ authored' = IF edits # <<>> /\ disk[test] = Absent
                                THEN authored \cup {test} ELSE authored
                 /\ pc' = "verify"
                 /\ UNCHANGED <<status, context, round, reply, parsed, work, torn>>
    /\ UNCHANGED <<scope, attempts, impossible, touched, named, unread>>

-----------------------------------------------------------------------------
(* The judges.                                                             *)

\* The files the formatter could not read are only spoken of when a command fails.
Unformattable ==
    IF Formatter THEN {f \in written \cup {test} : f \in Files /\ disk[f] # Absent /\ Garble \in disk[f]}
    ELSE {}

\* A command fails, on the ticket's test file or elsewhere.
VerifyFails(names) ==
    /\ pc = "verify" /\ names \subseteq {test} \ {Absent}
    /\ Fails(IF scopeNote THEN "verify and scope" ELSE "verify", names \cup Unformattable)
    /\ UNCHANGED <<disk, scope, attempts, stamped, impossible, kept, history>>

\* The commands pass and count no more tests than when the run began, in an
\* attempt that asked for a test file that was not there.
NotCollected ==
    /\ pc = "verify" /\ fresh /\ "uncollected" \in Weather
    /\ Fails("uncollected", {})
    /\ UNCHANGED <<disk, scope, attempts, stamped, impossible, kept, history>>

Verified ==
    /\ pc = "verify" /\ pc' = "review"
    /\ UNCHANGED <<disk, scope, ticket, round, reply, parsed, work, kept, history>>

\* A reviewer that cannot be reached, is cut off or rejects does not approve.
ReviewFails ==
    /\ pc = "review" /\ Fails("review", {})
    /\ UNCHANGED <<disk, scope, attempts, stamped, impossible, kept, history>>

Approved ==
    /\ pc = "review" /\ status' = "done" /\ pc' = "over"
    /\ UNCHANGED <<disk, scope, attempts, stamped, context, impossible, round, reply, parsed,
                   work, kept, history>>

Next ==
    \/ BeginAttempt \/ ExecutorUnavailable
    \/ \E r \in ExecutorReplies : ExecutorAnswers(r)
    \/ LandsNothing \/ LandsNowhere \/ ApplyRefused \/ Lands
    \/ SkipTests \/ KeepTests \/ AskTester \/ TesterUnavailable
    \/ \E r \in TesterReplies : TesterAnswers(r)
    \/ (\E names \in SUBSET {test} : VerifyFails(names)) \/ NotCollected \/ Verified
    \/ ReviewFails \/ Approved \/ GiveUp

Spec == Init /\ [][Next]_vars

-----------------------------------------------------------------------------
(***************************************************************************)
(* Properties.                                                             *)
(***************************************************************************)
TypeOK ==
    /\ disk \in [Files -> Content \cup {Absent}]
    /\ scope \in Scopes /\ status \in {"working", "done", "failed", "blocked"}
    /\ attempts \in 0..MaxAttempts /\ stamped \in TestFiles \cup {Absent}
    /\ impossible \in BOOLEAN /\ round \in 0..2
    /\ pc \in {"idle", "executor", "land", "tests", "tester", "verify", "review", "over"}
              \cup {"painter", "lease", "drawing", "capture"}
    /\ written \subseteq scope /\ touched \subseteq scope /\ written \subseteq touched \cup Images
    /\ test \in TestFiles \cup {Absent} /\ authored \subseteq TestFiles
    /\ fresh \in BOOLEAN /\ empty \in BOOLEAN /\ scopeNote \in BOOLEAN /\ unchecked \in BOOLEAN
    /\ (status = "done" => pc = "over")

\* What a block sent is on disk: its lines, or what its replacements put in and a
\* later search of it did not take out, and nothing it looked for that none of
\* them brought back.
Landed(b) ==
    IF b.hunks = <<>> THEN disk[b.path] = b.content
    ELSE \A i \in DOMAIN b.hunks :
            /\ \A line \in b.hunks[i].replace \ disk[b.path] :
                  \E j \in DOMAIN b.hunks : i < j /\ b.hunks[j].search = line
            /\ b.hunks[i].search \in disk[b.path] =>
                  \E j \in DOMAIN b.hunks : i <= j /\ b.hunks[i].search \in b.hunks[j].replace

\* A reply that stayed malformed, of which one block became the one file its
\* ticket may write.
OneBlockLanded(r) ==
    /\ Cardinality(scope) = 1 /\ Malformed(Parse(r), r)
    /\ \E f \in scope, i \in DOMAIN r.blocks : disk[f] = Literal(r.blocks[i])

\* What goes on to be tested and verified is what the reply sent
\* (`parse_output`, `_malformed_reply`, `apply_edits`): every file it may write
\* that it sends under its path is on disk as sent, with every search replaced,
\* save a patch that puts in the same lines as the one before it; and a reply
\* that lands nothing sent no file, named none and was no tool call.  Of a reply
\* that is guessed at, what landed is one of its blocks (`_recover_unlabeled`).
WholeReplyLands ==
    pc = "tests" =>
        IF empty THEN ~reply.call /\ ~reply.bare /\ reply.blocks = <<>>
        ELSE LET sent == Above(reply) IN
             \/ \A i \in DOMAIN sent :
                   \/ sent[i].path \notin scope \ NeverDelegate
                   \/ Landed(sent[i])
                   \/ \E j \in 1..(i - 1) : sent[j].path = sent[i].path
                                             /\ Sent(Edit(sent[j])) = Sent(Edit(sent[i]))
             \/ OneBlockLanded(reply)

\* A dependency that was declared when the ticket began and is not when it is
\* done was named to the executor (`_gutted_manifests`), unless the manifest was
\* unreadable in between.
LossesAreNamed ==
    status = "done" =>
        \A f \in Manifests \ unread : Dropped(Found[f], disk[f]) \subseteq named

\* A ticket that gives up leaves the tree as it found it (`_discard_tests`,
\* `_quarantine`), unless an apply was refused part-way or the tester rewrote a
\* test file that was there; a picture stays.
TreeIsLeft ==
    pc = "over" /\ status # "done" /\ QuarantineFailed /\ ~torn =>
        \A f \in Files \ Images :
            disk[f] = Found[f] \/ (f \in scope \cap TestFiles /\ Found[f] # Absent)

\* "A missing test is a weaker result, not a failed ticket": what the tester
\* could not write is not what an attempt fails on (`_attempt`).
MissingTestIsNoFailure ==
    [][unchecked => context'.kind # "uncollected"]_vars
=============================================================================
