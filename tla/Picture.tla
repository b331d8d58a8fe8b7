------------------------------ MODULE Picture ------------------------------
(***************************************************************************)
(* An image ticket (src/forge/loop.py, `_render_attempt`): its executor    *)
(* writes a prompt, an image model draws, and the reviewer is shown what   *)
(* it drew.  What follows the drawing -- tests, verification, giving up -- *)
(* is Turn's; before it there is the gate on kinds, the stop for a ticket  *)
(* whose reviews repeat themselves, and the graphics card, which the       *)
(* models the roles speak through, the image model and the project's own   *)
(* capture command have to share (`_gpu_lease`, src/forge/gpu.py).         *)
(*                                                                         *)
(* A ticket that gave up may be retried, and forge may be killed.          *)
(***************************************************************************)
EXTENDS Turn

CONSTANTS
    Cases,          \* a ticket's kind and scope, with the settings it meets
    ImageStall,     \* loop.imageStall
    PriorVerdicts,  \* the verdicts a retried ticket is given back
    Issues,         \* what a reviewer may find wrong with a picture, by sets
    MaxRetries, MaxKills

VARIABLES
    kind, setting,
    base,         \* the attempts of earlier cycles
    renders,      \* the attempts whose picture is among the artifacts, in order of time
    rejections,   \* what the verdicts this cycle knows of found wrong
    verdicts,     \* and the last of those on record
    captured,     \* the capture command has run
    card,         \* who holds the graphics card
    refused,      \* somebody did not give it back when asked
    retries, kills

record == <<kind, setting, base, renders, verdicts, retries, kills>>
pictureVars == <<record, rejections, captured, card, refused>>
allVars == <<vars, pictureVars>>

\* What the configuration says: an image model, an editing model, a reviewer that
\* can be shown a picture, what runs with the card to itself, a capture command;
\* and whether the image server is one forge started and artifacts can be written.
Setting(model, edit, sees, leases, capture, ours, keeps) ==
    [model |-> model, edit |-> edit, sees |-> sees, leases |-> leases,
     capture |-> capture, ours |-> ours, keeps |-> keeps]

ASSUME PictureAssumption ==
    /\ ImageStall \in Nat /\ PriorVerdicts \in Nat \ {0} /\ ImageStall <= PriorVerdicts
    /\ MaxRetries \in Nat /\ MaxKills \in Nat /\ "drawn" \in Lines

PictureInit ==
    /\ Init
    /\ \E c \in Cases : kind = c.kind /\ scope = c.scope /\ setting = c.setting
    /\ base = 0 /\ renders = <<>> /\ rejections = <<>> /\ verdicts = <<>>
    /\ captured = FALSE /\ card = {} /\ refused = FALSE
    /\ retries = 0 /\ kills = 0

LastFew(seq, n) == SubSeq(seq, IF Len(seq) > n THEN Len(seq) - n + 1 ELSE 1, Len(seq))

-----------------------------------------------------------------------------
(* The card.                                                               *)

\* Under a lease the checkpoints of the roles are unloaded first, as far as their
\* router will.
Takes(user, lease) ==
    \/ lease \in setting.leases /\ card' = (card \ {"llama"}) \cup {user} /\ UNCHANGED refused
    \/ lease \notin setting.leases /\ card' = card \cup {user} /\ UNCHANGED refused
    \/ /\ lease \in setting.leases /\ "llama" \in card /\ "stubborn" \in Weather
       /\ card' = card \cup {user} /\ refused' = TRUE

\* The image server is told to give the card back, and restarted when it does not
\* and is forge's.
Freed(ours) ==
    \/ card' = card \ {"image"} /\ UNCHANGED refused
    \/ /\ "image" \in card /\ "stubborn" \in Weather
       /\ IF ours THEN card' = card \ {"image"} /\ UNCHANGED refused
                  ELSE UNCHANGED card /\ refused' = TRUE

\* (mutant) the card is given back by the way out of a drawing that succeeded
GivesWhenDrawn(drawn) ==
    IF "image" \in setting.leases /\ drawn THEN Freed(setting.ours) ELSE UNCHANGED <<card, refused>>

Gives(drawn) ==
    IF "image" \in setting.leases THEN Freed(setting.ours) ELSE UNCHANGED <<card, refused>>

\* A role is asked: its model is loaded.
Asked == card' = card \cup {"llama"} /\ UNCHANGED refused

-----------------------------------------------------------------------------
(* Before an attempt.                                                      *)

ImageTargets == scope \cap Images

\* A ticket of a kind the loop runs; an image ticket needs something to draw with,
\* one picture to draw and somebody to look at it.
KindGate ==
    \/ kind = "feature"
    \/ /\ kind = "image" /\ setting.model /\ setting.sees
       /\ Cardinality(ImageTargets) = 1

Parked ==
    /\ pc = "idle" /\ status = "working" /\ ~KindGate
    /\ status' = "blocked" /\ context' = Telling("blocked", {}) /\ pc' = "over"
    /\ UNCHANGED <<disk, scope, attempts, stamped, impossible, round, reply, parsed, work,
                   kept, history, pictureVars>>

\* (mutant) an attempt is numbered within its cycle
NumberInCycle == attempts

AttemptNumber == base + attempts

Target == CHOOSE f \in ImageTargets : TRUE

\* The newest picture an earlier attempt left among the artifacts, if any.
Previous ==
    LET earlier == {n \in Range(renders) : n < AttemptNumber}
    IN IF earlier = {} THEN 0 ELSE CHOOSE n \in earlier : \A k \in earlier : k <= n

\* The last reviews all name one thing.
ImageStalled ==
    /\ ImageStall > 0 /\ Len(rejections) >= ImageStall
    /\ \E i \in UNION Issues : \A k \in (Len(rejections) - ImageStall + 1)..Len(rejections) :
          i \in rejections[k]

BeginPicture ==
    /\ pc = "idle" /\ status = "working" /\ kind = "image" /\ KindGate
    /\ attempts < MaxAttempts /\ attempts' = attempts + 1
    /\ IF ImageStalled
       THEN Blocks /\ UNCHANGED <<card, refused>>
       ELSE /\ pc' = "painter" /\ Asked
            /\ UNCHANGED <<status, context, round, reply, parsed, work>>
    /\ UNCHANGED <<disk, scope, stamped, impossible, kept, history, record,
                   rejections, captured>>

-----------------------------------------------------------------------------
(* The attempt.                                                            *)

PainterUnavailable ==
    /\ pc = "painter" /\ "unavailable" \in Weather /\ Fails("picture", {})
    /\ UNCHANGED <<disk, scope, attempts, stamped, impossible, kept, history, pictureVars>>

\* A reply with neither a prompt nor an edit that can be made draws nothing.
PainterAnswers(fields) ==
    /\ pc = "painter"
    /\ LET editing == "EDIT" \in fields /\ setting.edit /\ Previous # 0
       IN CASE "BLOCKED" \in fields -> Blocks
            [] "BLOCKED" \notin fields /\ "PROMPT" \notin fields /\ ~editing -> Fails("picture", {})
            [] OTHER -> pc' = "lease" /\ UNCHANGED <<status, context, round, reply, parsed, work>>
    /\ UNCHANGED <<disk, scope, attempts, stamped, impossible, kept, history, pictureVars>>

TakeLease ==
    /\ pc = "lease" /\ Takes("image", "image") /\ pc' = "drawing"
    /\ UNCHANGED <<disk, scope, ticket, round, reply, parsed, work, kept, history, record,
                   rejections, captured>>

\* A workflow the server refuses is a person's to mend; a server that fails, does
\* not finish in time, or saves no image fails the attempt.
DrawingFails ==
    /\ pc = "drawing" /\ Gives(FALSE)
    /\ Blocks \/ Fails("picture", {})
    /\ UNCHANGED <<disk, scope, attempts, stamped, impossible, kept, history, record, rejections,
                   captured>>

\* The picture goes where the ticket says; the copy among the artifacts is made if
\* it can be.  None of it is recorded as touched.
Drawn ==
    /\ pc = "drawing" /\ Gives(TRUE)
    /\ disk' = [disk EXCEPT ![Target] = {"drawn"}] /\ written' = {Target}
    /\ renders' = IF setting.keeps THEN Append(renders, AttemptNumber) ELSE renders
    /\ pc' = "tests" /\ captured' = FALSE
    /\ UNCHANGED <<scope, ticket, round, reply, parsed, empty, scopeNote, test, fresh, unchecked,
                   kept, history, kind, setting, base, verdicts, retries, kills, rejections>>

\* The capture command draws what the ticket built, when all else has passed.
BeginCapture ==
    /\ pc = "review" /\ setting.capture /\ ~captured
    /\ Takes("capture", "capture") /\ pc' = "capture"
    /\ UNCHANGED <<disk, scope, ticket, round, reply, parsed, work, kept, history, record,
                   rejections, captured>>

EndCapture ==
    /\ pc = "capture" /\ card' = card \ {"capture"}
    /\ \/ Fails("picture", {}) /\ UNCHANGED captured
       \/ /\ captured' = TRUE /\ pc' = "review"
          /\ UNCHANGED <<status, context, round, reply, parsed, work>>
    /\ UNCHANGED <<disk, scope, attempts, stamped, impossible, kept, history, record, rejections,
                   refused>>

Reviewing == pc = "review" /\ (setting.capture => captured) /\ Asked

\* A rejection is remembered and on record; a review that did not end is only on
\* record, with what there was of it.
PictureRejected(found) ==
    /\ Reviewing /\ ReviewFails
    /\ rejections' = LastFew(Append(rejections, found), PriorVerdicts)
    /\ verdicts' = LastFew(Append(verdicts, found), PriorVerdicts)
    /\ UNCHANGED <<kind, setting, base, renders, retries, kills, captured>>

NoVerdict(found) ==
    /\ Reviewing /\ ReviewFails
    /\ verdicts' = LastFew(Append(verdicts, found), PriorVerdicts)
    /\ UNCHANGED <<kind, setting, base, renders, retries, kills, rejections, captured>>

PictureApproved ==
    /\ Reviewing /\ Approved
    /\ UNCHANGED <<record, rejections, captured>>

-----------------------------------------------------------------------------
(* After it.                                                               *)

\* What a cycle begins with: the verdicts on record, unless it is the first.
Remembered(earlier) == IF earlier > 0 THEN verdicts ELSE <<>>

\* A ticket that was killed in its last attempt has no attempts left.
Exhausted ==
    /\ pc = "idle" /\ status = "working" /\ kind = "image" /\ KindGate /\ attempts = MaxAttempts
    /\ status' = "failed"
    /\ UNCHANGED <<disk, scope, attempts, stamped, context, impossible, pc, round, reply, parsed,
                   work, kept, history, pictureVars>>

\* A person asks for another cycle.
Retry ==
    /\ pc = "over" /\ status \in {"failed", "blocked"} /\ kind = "image" /\ retries < MaxRetries
    /\ retries' = retries + 1 /\ base' = base + attempts /\ attempts' = 0
    /\ status' = "working" /\ context' = Telling("none", {}) /\ Over
    /\ touched' = {} /\ authored' = {}
    /\ rejections' = Remembered(base') /\ captured' = FALSE
    /\ UNCHANGED <<disk, scope, stamped, impossible, history, kind, setting, renders, verdicts,
                   kills, card, refused>>

\* Forge is killed, or ends because the image server it restarted does not come
\* up, and is started again: what it only held is gone, and the image servers are
\* told to give the card back before anything else.
KilledAndStarted ==
    /\ pc # "over" /\ kind = "image" /\ kills < MaxKills
    /\ kills' = kills + 1
    /\ status' = "working" /\ context' = Telling("none", {}) /\ Over
    /\ touched' = {} /\ authored' = {}
    /\ rejections' = Remembered(base) /\ captured' = FALSE
    /\ \/ card' = card \ {"image", "capture"} /\ UNCHANGED refused
       \/ /\ "image" \in card /\ "stubborn" \in Weather
          /\ card' = card \ {"capture"} /\ refused' = TRUE
    /\ UNCHANGED <<disk, scope, attempts, stamped, impossible, history, kind, setting, base,
                   renders, verdicts, retries>>

\* What an image ticket shares with the others.
Tested ==
    \/ AskTester /\ Asked
    \/ /\ SkipTests \/ KeepTests \/ TesterUnavailable \/ \E r \in TesterReplies : TesterAnswers(r)
       /\ UNCHANGED <<card, refused>>

Judged ==
    (\E names \in SUBSET {test} : VerifyFails(names)) \/ NotCollected \/ Verified \/ GiveUp

PictureNext ==
    \/ kind = "feature" /\ Next /\ UNCHANGED pictureVars
    \/ Parked \/ BeginPicture \/ PainterUnavailable
    \/ \E fields \in SUBSET {"PROMPT", "EDIT", "BLOCKED"} : PainterAnswers(fields)
    \/ kind = "image" /\ Tested /\ UNCHANGED <<record, rejections, captured>>
    \/ kind = "image" /\ Judged /\ UNCHANGED pictureVars
    \/ kind = "image" /\ (TakeLease \/ DrawingFails \/ Drawn \/ BeginCapture \/ EndCapture)
    \/ kind = "image" /\ \E found \in Issues : PictureRejected(found) \/ NoVerdict(found)
    \/ kind = "image" /\ PictureApproved
    \/ Exhausted \/ Retry \/ KilledAndStarted

PictureSpec == PictureInit /\ [][PictureNext]_allVars
FairPictureSpec == PictureSpec /\ WF_allVars(PictureNext)

-----------------------------------------------------------------------------
(***************************************************************************)
(* Properties.                                                             *)
(***************************************************************************)

\* The picture an executor is offered to edit is the newest there is, whatever
\* failed since, across cycles and restarts (`_previous_render`).
OfferedIsNewest == pc = "painter" /\ renders # <<>> => Previous = Last(renders)

\* Neither the image model nor the capture command is ever on the card together
\* with a role's checkpoint where the project leases it, unless somebody that is
\* not forge's did not give it back when asked (`_gpu_lease`).
CardIsLeased ==
    ~refused => \A user \in {"image", "capture"} \cap setting.leases : ~({"llama", user} \subseteq card)

-----------------------------------------------------------------------------
(***************************************************************************)
(* What the properties of Turn rest on, for a ticket of any kind.          *)
(***************************************************************************)

\* Nothing that only forge's memory knows of is lost by a kill: there is none, or
\* the tests an image ticket may write were there before it.
KillsForgetNothing ==
    MaxKills = 0 \/ \A c \in Cases :
        c.kind = "image" => \A f \in c.scope \cap TestFiles : Found[f] # Absent

\* A manifest is no test file and no picture.
ManifestsApart == Manifests \cap (TestFiles \cup Images) = {}

\* A ticket writes what it may, and tests where its tests go; one the loop does
\* not run has done nothing.
Shape ==
    /\ TypeOK /\ parsed.edits \in Seq(EditRecord) /\ kills \in 0..MaxKills
    /\ (pc \in {"idle", "over"} \/ status = "working")
    /\ \E c \in Cases : kind = c.kind /\ scope = c.scope
    /\ {test} \cup authored \subseteq (scope \cap TestFiles) \cup {OwnTest, Absent}
    /\ pc = "tester" => test # Absent
    /\ kind # "feature" => touched = {} /\ pc \notin {"executor", "land"}
    /\ ~KindGate => /\ disk = Found /\ pc \in {"idle", "over"}
                    /\ status \in {"working", "blocked"} /\ (pc = "idle" => status = "working")

\* Whatever differs from what the ticket found is known to be its work, until it
\* has been taken back.
WorkIsKnown ==
    QuarantineFailed /\ ~torn =>
        \A f \in Files \ Images :
            \/ disk[f] = Found[f]
            \/ f \in scope \cap TestFiles /\ Found[f] # Absent
            \/ f \in touched \cup Discarded /\ (pc # "over" \/ status = "done")

\* No dependency was lost yet that was not named, and a manifest that was
\* readable is, unless it is remembered that it was not.
LossesKnown ==
    /\ kind # "feature" => \A f \in Manifests : disk[f] = Found[f]
    /\ status \in {"working", "done"} =>
          \A f \in Manifests \ unread :
             /\ Declared(Found[f]) # Absent => Declared(disk[f]) # Absent
             /\ Dropped(Found[f], disk[f]) \subseteq named
=============================================================================
