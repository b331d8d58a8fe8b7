-------------------------------- MODULE Calls --------------------------------
(***************************************************************************)
(* One conversation of a role with its model: the prompt is made to fit    *)
(* the window (`BudgetGate.fit`), the account's allowances are waited for  *)
(* (`check_rate_limit`, `_sleep_for_window`), the request is sent          *)
(* (`_call`, `OpenAICompatProvider.complete`), and what the model asked to *)
(* read is put before it for a bounded number of turns (`_converse`).      *)
(*                                                                         *)
(* Time passes in ticks.  The loop has one conversation at a time; what it *)
(* leaves behind for the next is the ledger, on disk, and the parks, in    *)
(* memory.                                                                 *)
(***************************************************************************)
EXTENDS Toolbox

CONSTANTS
    Roles, Models, ModelOf,
    ReadTools, ToolModels,  \* loop.readTools; the models that support tools
    ToolTurns,              \* loop.toolTurns
    ContextWindow, MaxOutput, SafetyMargin,  \* of a model; Capabilities
    Opening,      \* of a role: the messages its conversation begins with
    Limits,       \* of a model: its allowances, in the order they are asked
    Requested,    \* what a model may ask to read at once
    AnswerSizes, NoteSize,
    ChosenReasoning,  \* the models whose extraBody says how they reason
    Headers,      \* what a limit may say of its end: its reset, a time to retry after
    UnknownReset, \* what is assumed of one that says neither
    Unknown,
    Weather,      \* what can go wrong
    None

VARIABLES
    ledger,   \* of a model: the age and the cost of each answer, oldest first
    parked,   \* of a model: how long until its window reopens
    pc, role, left,
    thread,   \* the conversation
    sent,     \* the messages of it that are sent
    offered,  \* with the tools, or without
    wait,     \* how much is left of a sleep
    ending    \* how the last conversation ended

talk == <<role, left, thread, sent, offered>>
vars == <<ledger, parked, pc, talk, wait, ending>>

\* Content is counted; what a tool call or a result carries besides is not.
Message(kind, content, carried, calls) ==
    [kind |-> kind, content |-> content, carried |-> carried, calls |-> calls]

Kinds == {"opening", "extra", "replayed", "calls", "spelled", "result", "note"}

\* What the first n of some amounts come to.
Total(n, amounts) ==
    LET upto[i \in 0..n] == IF i = 0 THEN 0 ELSE upto[i - 1] + amounts[i]
    IN  upto[n]

\* An allowance: what it counts, over how many ticks, how much, and how long
\* the loop sleeps once it is used up.
Limit(unit, span, cap, pause) == [unit |-> unit, span |-> span, cap |-> cap, pause |-> pause]

Span(m) ==
    LET spans == {Limits[m][i].span : i \in DOMAIN Limits[m]}
    IN IF spans = {} THEN 0 ELSE CHOOSE s \in spans : \A r \in spans : r <= s

ASSUME CallsAssumption ==
    /\ ModelOf \in [Roles -> Models] /\ ToolTurns \in Nat \ {0}
    /\ ContextWindow \in [Models -> Nat] /\ MaxOutput \in [Models -> Nat] /\ SafetyMargin \in Nat
    /\ \A m \in Models :
          /\ Limits[m] \in Seq({Limits[m][i] : i \in DOMAIN Limits[m]})
          /\ \A i \in DOMAIN Limits[m] :
                /\ Limits[m][i].unit \in {"requests", "tokens"}
                /\ Limits[m][i].span \in Nat \ {0} /\ Limits[m][i].cap \in Nat \ {0}
                /\ Limits[m][i].pause \in Nat \ {0}
    /\ AnswerSizes \subseteq Nat /\ NoteSize \in Nat
    /\ UnknownReset \in Nat /\ None \notin Roles
    /\ \A r \in Roles :
          /\ Opening[r] \in Seq({Opening[r][i] : i \in DOMAIN Opening[r]})
          /\ \A i \in DOMAIN Opening[r] :
                /\ Opening[r][i].kind \in {"opening", "extra", "replayed"}
                /\ Opening[r][i].calls = 0
                /\ Opening[r][i].content \in Nat /\ Opening[r][i].carried \in Nat
    /\ \A calls \in Requested :
          /\ calls \in Seq({calls[i] : i \in DOMAIN calls})
          /\ \A i \in DOMAIN calls : Run(calls[i]).size \in Nat

Init ==
    /\ ledger = [m \in Models |-> <<>>] /\ parked = [m \in Models |-> 0]
    /\ pc = "idle" /\ role = None /\ left = 0
    /\ thread = <<>> /\ sent = {} /\ offered = FALSE
    /\ wait = 0 /\ ending = "none"

-----------------------------------------------------------------------------
(* The window.                                                             *)

Droppable(message) == message.kind \in {"extra", "replayed", "calls", "spelled"}

\* What the window leaves when the output asked for has its room.
InputBudget == ContextWindow[ModelOf[role]] - MaxOutput[ModelOf[role]] - SafetyMargin

Counted(S) ==
    Total(Len(thread), [i \in DOMAIN thread |-> IF i \in S THEN thread[i].content ELSE 0])

\* What the endpoint is sent.
Carried(S) ==
    Counted(S)
      + Total(Len(thread), [i \in DOMAIN thread |-> IF i \in S THEN thread[i].carried ELSE 0])

\* The thread without the n oldest messages that may be left out.
Without(n) ==
    LET optional == {i \in DOMAIN thread : Droppable(thread[i])}
    IN DOMAIN thread \ {i \in optional : Cardinality({j \in optional : j <= i}) <= n}

Tries == {n \in 0..Len(thread) : Counted(Without(n)) <= InputBudget}

\* Nothing is left out unless there is room for a prompt at all.
CanFit == IF InputBudget <= 0 THEN Counted(DOMAIN thread) <= InputBudget
          ELSE Tries # {}

Fitted == Without(CHOOSE n \in Tries : \A k \in Tries : n <= k)

-----------------------------------------------------------------------------
(* The allowances.                                                         *)

\* What an answer counts for; one as old as the allowance's time is included.
Cost(answer, limit) ==
    IF answer.age > limit.span THEN 0
    ELSE IF limit.unit = "requests" THEN 1 ELSE answer.tokens

\* What the first n answers in the ledger count for.
Spent(m, limit, n) == Total(n, [k \in 1..n |-> Cost(ledger[m][k], limit)])

Used(m, limit) == Spent(m, limit, Len(ledger[m]))

\* (mutant) one more is let through
ReachedLate(m) == {i \in DOMAIN Limits[m] : Used(m, Limits[m][i]) > Limits[m][i].cap}

Reached(m) == {i \in DOMAIN Limits[m] : Used(m, Limits[m][i]) >= Limits[m][i].cap}

\* How long to sleep: until a park ends, else for the first allowance used up.
Blocked(m) ==
    IF parked[m] > 0 THEN parked[m]
    ELSE IF Reached(m) = {} THEN 0
    ELSE Limits[m][CHOOSE i \in Reached(m) : \A j \in Reached(m) : i <= j].pause

\* (mutant) the newest row comes first
RecordedFirst(m, tokens) ==
    IF Span(m) = 0 THEN ledger[m] ELSE <<[age |-> 0, tokens |-> tokens]>> \o ledger[m]

Recorded(m, tokens) ==
    IF Span(m) = 0 THEN ledger[m] ELSE Append(ledger[m], [age |-> 0, tokens |-> tokens])

-----------------------------------------------------------------------------
(* The conversation.                                                       *)

CanRead(r) == ReadTools /\ ModelOf[r] \in ToolModels
Turns(r) == IF CanRead(r) THEN ToolTurns ELSE 1

\* The turns at the end in which nothing can be read: at most two, and one is
\* kept for reading when there are two at all.
Reserved == IF ToolTurns <= 2 THEN 1 ELSE 2
Reads(r, turn) == CanRead(r) /\ turn > Reserved

Begins(r) ==
    /\ pc = "idle" /\ pc' = "fit"
    /\ role' = r /\ left' = Turns(r) /\ thread' = Opening[r]
    /\ sent' = {} /\ offered' = FALSE /\ ending' = "none"
    /\ UNCHANGED <<ledger, parked, wait>>

Ends(outcome) ==
    /\ pc' = "idle" /\ role' = None /\ left' = 0
    /\ thread' = <<>> /\ sent' = {} /\ offered' = FALSE /\ wait' = 0
    /\ ending' = outcome

\* ContextOverflow, before anything is sent.
Overflows ==
    /\ pc = "fit" /\ ~CanFit
    /\ Ends("overflow") /\ UNCHANGED <<ledger, parked>>

Fits ==
    /\ pc = "fit" /\ CanFit /\ pc' = "gate"
    /\ sent' = Fitted /\ offered' = Reads(role, left)
    /\ UNCHANGED <<ledger, parked, role, left, thread, wait, ending>>

\* The run was stopped, or its time is up; a sleep hears of a stop.
Stops ==
    /\ "stop" \in Weather /\ pc \in {"gate", "sleep"}
    /\ Ends("stopped") /\ UNCHANGED <<ledger, parked>>

Waits ==
    /\ pc = "gate" /\ Blocked(ModelOf[role]) > 0
    /\ pc' = "sleep" /\ wait' = Blocked(ModelOf[role])
    /\ UNCHANGED <<ledger, parked, talk, ending>>

Sends ==
    /\ pc = "gate" /\ Blocked(ModelOf[role]) = 0
    /\ pc' = "flight" /\ UNCHANGED <<ledger, parked, talk, wait, ending>>

Wakes ==
    /\ pc = "sleep" /\ wait = 0
    /\ pc' = "gate" /\ UNCHANGED <<ledger, parked, talk, wait, ending>>

\* Answers no allowance looks back to are left out of the model.
Aged(m) ==
    LET lapsed == Cardinality({k \in DOMAIN ledger[m] : ledger[m][k].age >= Span(m)})
    IN  [k \in 1..(Len(ledger[m]) - lapsed) |->
            [ledger[m][k + lapsed] EXCEPT !.age = @ + 1]]

\* (mutant) the time a window reopens at is taken for how long it is shut
ShutForGood(m) == parked[m]

\* The time a park ends comes nearer.
Shut(m) == IF parked[m] > 0 THEN parked[m] - 1 ELSE 0

\* An answer may take its time; so may the work between two conversations.
Tick ==
    /\ pc = "idle" \/ (pc = "sleep" /\ wait > 0) \/ (pc = "flight" /\ "slow" \in Weather)
    /\ ledger' = [m \in Models |-> Aged(m)]
    /\ parked' = [m \in Models |-> Shut(m)]
    /\ wait' = IF wait > 0 THEN wait - 1 ELSE 0
    /\ UNCHANGED <<pc, talk, ending>>

-----------------------------------------------------------------------------
(* What comes back.                                                        *)

\* When a limit ends: an explicit reset before a time to retry after, which is
\* read in either case.
Readable(header) == header.after # Garbled
ResetIn(header) ==
    IF header.reset # Unknown THEN header.reset
    ELSE IF header.after # Unknown THEN header.after ELSE UnknownReset

\* 429: the model is parked and slept for, and the same request is sent again.
Limited(header) ==
    /\ "limited" \in Weather /\ pc = "flight" /\ Readable(header)
    /\ LET m == ModelOf[role] IN
          parked' = [parked EXCEPT ![m] = IF ResetIn(header) > @ THEN ResetIn(header) ELSE @]
    /\ wait' = ResetIn(header)
    /\ pc' = "sleep" /\ UNCHANGED <<ledger, talk, ending>>

\* Unreachable, refused, unreadable, or too long for the endpoint: the call
\* fails, and nothing is entered in the ledger.
Fails ==
    /\ "fails" \in Weather /\ pc \in {"flight", "resend"}
    /\ Ends("unavailable") /\ UNCHANGED <<ledger, parked>>

\* What the endpoint says is longer than its window (and says so) is an
\* overflow, from the first request; from the second, any error is a bad answer.
Refuses ==
    /\ "fails" \in Weather /\ pc = "flight"
    /\ Ends("overflow") /\ UNCHANGED <<ledger, parked>>

\* A limit met by the second request fails the call and parks nothing.
LimitedAgain ==
    /\ "limited" \in Weather /\ pc = "resend"
    /\ Ends("unavailable") /\ UNCHANGED <<ledger, parked>>

\* The connection breaks in the middle of an answer, or the date a limit ends
\* on does not parse: what is raised is no ProviderError.
Breaks ==
    /\ pc \in {"flight", "resend"}
    /\ \/ "breaks" \in Weather
       \/ "limited" \in Weather /\ \E header \in Headers : ~Readable(header)
    /\ Ends("crashed") /\ UNCHANGED <<ledger, parked>>

\* The model used its whole output to reason: it is asked again not to, unless
\* the configuration already says how it reasons.
Thinks ==
    /\ "thinks" \in Weather /\ pc = "flight"
    /\ IF ModelOf[role] \in ChosenReasoning
       THEN Ends("unavailable") /\ UNCHANGED <<ledger, parked>>
       ELSE pc' = "resend" /\ UNCHANGED <<ledger, parked, talk, wait, ending>>

\* The answer is entered in the ledger, with what the first request cost when
\* there were two, and the model is no longer parked.
Record(size) ==
    LET m == ModelOf[role]
        cost == (Carried(sent) + size) * (IF pc = "resend" THEN 2 ELSE 1)
    IN /\ ledger' = [ledger EXCEPT ![m] = Recorded(m, cost)]
       /\ parked' = [parked EXCEPT ![m] = 0]

Another(messages) ==
    /\ pc' = "fit" /\ left' = left - 1 /\ thread' = thread \o messages
    /\ sent' = {} /\ offered' = FALSE
    /\ UNCHANGED <<role, wait, ending>>

Note == Message("note", NoteSize, 0, 0)

Answers(size) ==
    /\ pc \in {"flight", "resend"} /\ Record(size)
    /\ Ends("answered")

\* A tool call written out as text: it is asked again while a turn is left in
\* which it may only answer.
Spells(size) ==
    /\ pc \in {"flight", "resend"} /\ Record(size)
    /\ IF CanRead(role) /\ ~offered /\ left > 1
       THEN Another(<<Message("spelled", size, 0, 0), Note>>)
       ELSE Ends("spelled")

\* (mutant) a call that is refused has no result
ResultsGiven(calls) ==
    LET given == SelectSeq(calls, LAMBDA call : Run(call).ok)
    IN [i \in DOMAIN given |-> Message("result", 0, Run(given[i]).size, 0)]

\* One result for each call, those that are refused too.
Results(calls) == [i \in DOMAIN calls |-> Message("result", 0, Run(calls[i]).size, 0)]

\* (mutant) it is told a turn late
ToldLate == left = Reserved

\* The model is told when that was its last turn with the tools.
LastRead == left = Reserved + 1

\* What was asked for is read, whether or not the tools were offered.
Calls(size, calls) ==
    /\ pc \in {"flight", "resend"} /\ Record(size)
    /\ IF CanRead(role) /\ left > 1
       THEN Another(<<Message("calls", size, Len(calls), Len(calls))>> \o Results(calls)
                      \o (IF LastRead THEN <<Note>> ELSE <<>>))
       ELSE Ends("reading")

Replies ==
    \E size \in AnswerSizes :
        \/ Answers(size) \/ Spells(size)
        \/ \E calls \in Requested : Calls(size, calls)

Comes == Replies \/ Fails \/ Refuses \/ LimitedAgain \/ Breaks \/ Thinks

Own == Overflows \/ Fits \/ Waits \/ Sends \/ Wakes

Next ==
    \/ \E r \in Roles : Begins(r)
    \/ Own \/ Stops \/ Tick
    \/ \E header \in Headers : Limited(header)
    \/ Comes

Spec == Init /\ [][Next]_vars

\* The loop's own steps are taken and time passes.  An endpoint answers or
\* fails in the end: a request has a timeout, and no limit is met forever.
Fairness == WF_vars(Own) /\ WF_vars(Tick) /\ SF_vars(Comes)
FairSpec == Spec /\ Fairness

-----------------------------------------------------------------------------
(***************************************************************************)
(* Properties.                                                             *)
(***************************************************************************)
TypeOK ==
    /\ \A m \in Models :
          /\ \A i \in DOMAIN ledger[m] :
                /\ ledger[m][i].age \in 0..Span(m) /\ ledger[m][i].tokens \in Nat
                /\ i > 1 => ledger[m][i].age <= ledger[m][i - 1].age
          /\ parked[m] \in Nat
    /\ pc \in {"idle", "fit", "gate", "sleep", "flight", "resend"}
    /\ role \in Roles \cup {None} /\ (pc = "idle" <=> role = None)
    /\ left \in 0..ToolTurns /\ sent \subseteq DOMAIN thread
    /\ \A i \in DOMAIN thread : thread[i].kind \in Kinds
    /\ offered \in BOOLEAN /\ wait \in Nat
    /\ ending \in {"none", "overflow", "stopped", "unavailable", "crashed",
                   "answered", "spelled", "reading"}

\* No more than an allowance is ever used in the time it is given for, but for
\* the last answer, whose cost is not known before it is sent
\* (`check_rate_limit`, `record`): the loop waits before crossing a limit.
WithinAllowance ==
    \A m \in Models : \A i \in DOMAIN Limits[m] : \A k \in DOMAIN ledger[m] :
        ledger[m][k].age <= Limits[m][i].span =>
            Spent(m, Limits[m][i], k - 1) < Limits[m][i].cap

\* A model that has read is told, in what it is sent, that it can read no more
\* exactly when it is not offered the tools (`_converse`): never before, while
\* it still may, and never not at all, whatever was left out to make it fit.
AskedToAnswer ==
    pc = "flight" /\ (\E i \in DOMAIN thread : thread[i].kind = "result") =>
        (offered <=> ~\E i \in sent : thread[i].kind = "note")

\* Every call of a turn that is sent has its result sent after it (`_converse`,
\* `Toolbox.run`, `fit`): an endpoint refuses a conversation with one missing.
CallsHaveResults ==
    \A i \in sent : \A k \in 1..thread[i].calls :
        i + k \in sent /\ thread[i + k].kind = "result"

\* Every conversation comes to an end (`_call`, `_converse`,
\* `_sleep_for_window`): no wait for an allowance goes on forever.
ConversationEnds == pc # "idle" ~> pc = "idle"
=============================================================================
