---------------------------- MODULE Calls_proofs ----------------------------
(***************************************************************************)
(* Theorems about Calls, for every model, window, allowance and tool.      *)
(***************************************************************************)
EXTENDS Calls, TLAPS, FiniteSetTheorems, WellFoundedInduction

-----------------------------------------------------------------------------
(***************************************************************************)
(* The inductive invariant.                                                *)
(***************************************************************************)

\* Everything a conversation may hold.
Opened == UNION {{Opening[r][i] : i \in DOMAIN Opening[r]} : r \in Roles}
Asking == {Message("calls", size, Len(calls), Len(calls)) : size \in AnswerSizes, calls \in Requested}
Read == UNION {{Results(calls)[i] : i \in DOMAIN calls} : calls \in Requested}
Spelled == {Message("spelled", size, 0, 0) : size \in AnswerSizes}
Messages == Opened \cup Asking \cup Read \cup Spelled \cup {Note}

HasRead == \E i \in DOMAIN thread : thread[i].kind = "result"
IsTold == \E i \in DOMAIN thread : thread[i].kind = "note"

Talking ==
    /\ thread \in Seq(Messages)
    /\ role \in Roles \cup {None} /\ (pc = "idle" <=> role = None)
    /\ left \in Nat
    /\ pc \in {"idle", "fit", "gate", "sleep", "flight", "resend"}
    /\ role # None => left \in 1..Turns(role)

\* Results come in only where a role reads in turns, and the note with the last
\* turn it may read in.
Noted ==
    /\ HasRead => CanRead(role) /\ ToolTurns > 1
    /\ role # None /\ CanRead(role) /\ ToolTurns > 1 => (IsTold <=> left <= Reserved)

\* What the window leaves out is nothing that has to be there.
Sending ==
    pc \notin {"idle", "fit"} =>
        /\ sent \subseteq DOMAIN thread /\ offered = Reads(role, left)
        /\ \A i \in DOMAIN thread : ~Droppable(thread[i]) => i \in sent

\* Every call in the thread is followed by its result.
Answered ==
    \A i \in DOMAIN thread : \A k \in 1..thread[i].calls :
        i + k \in DOMAIN thread /\ thread[i + k].kind = "result"

Inv == Talking /\ Noted /\ Sending /\ Answered

-----------------------------------------------------------------------------
\* What the window leaves keeps what may not be left out.
LEMMA FittedKeeps ==
    /\ Fitted \subseteq DOMAIN thread
    /\ \A i \in DOMAIN thread : ~Droppable(thread[i]) => i \in Fitted
BY DEF Fitted, Without

LEMMA InvInit == Init => Inv
BY CallsAssumption DEF Init, Inv, Talking, Noted, Sending, Answered, HasRead

\* A role has a turn at least, and one that reads in turns has more than are reserved.
LEMMA TurnsBounds ==
    ASSUME NEW r \in Roles
    PROVE  /\ Turns(r) \in Nat \ {0} /\ Reserved \in {1, 2}
           /\ CanRead(r) => Turns(r) = ToolTurns
           /\ CanRead(r) /\ ToolTurns > 1 => Turns(r) > Reserved
BY CallsAssumption DEF Turns, Reserved

\* Between what is said, the conversation stands.
LEMMA TalkUntouched ==
    ASSUME Inv, UNCHANGED talk, pc \notin {"idle", "fit"},
           pc' \in {"gate", "sleep", "flight", "resend"}
    PROVE  Inv'
BY DEF Inv, talk, Talking, Noted, Sending, Answered, HasRead, IsTold

LEMMA Ended ==
    ASSUME NEW outcome, Ends(outcome)
    PROVE  Inv'
BY DEF Ends, Inv, Talking, Noted, Sending, Answered, HasRead

LEMMA BeginsKeeps ==
    ASSUME NEW r \in Roles, Begins(r)
    PROVE  Inv'
<1>1. /\ pc' = "fit" /\ role' = r /\ left' = Turns(r) /\ thread' = Opening[r]
  BY DEF Begins
<1>2. /\ Opening[r] \in Seq({Opening[r][i] : i \in DOMAIN Opening[r]})
      /\ \A i \in DOMAIN Opening[r] :
            Opening[r][i].kind \in {"opening", "extra", "replayed"} /\ Opening[r][i].calls = 0
  BY CallsAssumption
<1>3. {Opening[r][i] : i \in DOMAIN Opening[r]} \subseteq Messages
  BY DEF Messages, Opened
<1>4. thread' \in Seq(Messages)
  BY <1>1, <1>2, <1>3
<1>5. r # None
  BY CallsAssumption
<1>6. Talking'
  BY <1>1, <1>4, <1>5, TurnsBounds DEF Talking, Turns
<1>7. Noted'
  <2>1. ~HasRead' /\ ~IsTold'
    BY <1>1, <1>2 DEF HasRead, IsTold
  <2>2. CanRead(r) /\ ToolTurns > 1 => ~(Turns(r) <= Reserved)
    BY TurnsBounds
  <2> QED
    BY <1>1, <2>1, <2>2 DEF Noted, CanRead, Reserved
<1>8. Sending' /\ Answered'
  BY <1>1, <1>2 DEF Sending, Answered
<1> QED
  BY <1>6, <1>7, <1>8 DEF Inv

\* Another turn, after some messages.
LEMMA Said ==
    ASSUME Inv, NEW messages \in Seq(Messages), Another(messages)
    PROVE  /\ thread' \in Seq(Messages) /\ Len(thread') = Len(thread) + Len(messages)
           /\ DOMAIN thread = 1..Len(thread) /\ DOMAIN thread' = 1..Len(thread')
           /\ DOMAIN messages = 1..Len(messages)
           /\ Len(thread) \in Nat /\ Len(messages) \in Nat
           /\ \A i \in 1..Len(thread) : thread'[i] = thread[i]
           /\ \A i \in 1..Len(messages) : thread'[Len(thread) + i] = messages[i]
           /\ \A j \in 1..Len(thread') :
                 j \in 1..Len(thread) \/ \E i \in 1..Len(messages) : j = Len(thread) + i
<1>1. thread \in Seq(Messages) /\ thread' = thread \o messages
  BY DEF Another, Inv, Talking
<1>2. Len(thread) \in Nat /\ Len(messages) \in Nat
  BY <1>1
<1>3. /\ thread' \in Seq(Messages) /\ Len(thread') = Len(thread) + Len(messages)
      /\ DOMAIN thread = 1..Len(thread) /\ DOMAIN thread' = 1..Len(thread')
      /\ DOMAIN messages = 1..Len(messages)
  BY <1>1
<1>4. \A i \in 1..Len(thread) : thread'[i] = thread[i]
  BY <1>1
<1>5. \A i \in 1..Len(messages) : thread'[Len(thread) + i] = messages[i]
  BY <1>1, <1>2
<1>6. ASSUME NEW j \in 1..Len(thread'), j \notin 1..Len(thread)
      PROVE  \E i \in 1..Len(messages) : j = Len(thread) + i
  <2>1. j - Len(thread) \in 1..Len(messages) /\ j = Len(thread) + (j - Len(thread))
    BY <1>2, <1>3, <1>6
  <2> QED
    BY <2>1
<1> QED
  BY <1>2, <1>3, <1>4, <1>5, <1>6

\* What was asked for and answered before is so after another turn, when the calls
\* among the new messages are answered among them.
LEMMA SaidKeepsTalking ==
    ASSUME Inv, pc # "idle", NEW messages \in Seq(Messages), Another(messages), left > 1,
           \A i \in 1..Len(messages) : \A k \in 1..messages[i].calls :
              i + k \in 1..Len(messages) /\ messages[i + k].kind = "result"
    PROVE  Talking' /\ Sending' /\ Answered'
<1>1. pc' = "fit" /\ left' = left - 1 /\ role' = role /\ role # None
  BY DEF Another, Inv, Talking
<1>2. Talking'
  <2>1. left - 1 \in 1..Turns(role)
    BY <1>1, TurnsBounds DEF Inv, Talking
  <2>2. thread' \in Seq(Messages)
    BY Said
  <2> QED
    BY <1>1, <2>1, <2>2 DEF Inv, Talking, Turns
<1>3. Sending'
  BY <1>1 DEF Sending
<1>4. ASSUME NEW j \in DOMAIN thread', NEW k \in 1..thread'[j].calls
      PROVE  j + k \in DOMAIN thread' /\ thread'[j + k].kind = "result"
  <2>1. CASE j \in 1..Len(thread)
    <3>1. j + k \in DOMAIN thread /\ thread[j + k].kind = "result"
      BY <1>4, <2>1, Said DEF Inv, Answered
    <3>2. j \in 1..Len(thread) /\ j + k \in 1..Len(thread)
      BY <2>1, <3>1, Said
    <3> QED
      BY <3>1, <3>2, Said
  <2>2. CASE \E i \in 1..Len(messages) : j = Len(thread) + i
    <3>1. PICK i \in 1..Len(messages) : j = Len(thread) + i
      BY <2>2
    <3>2. i + k \in 1..Len(messages) /\ messages[i + k].kind = "result"
      BY <1>4, <3>1, Said
    <3>3. k \in Int
      OBVIOUS
    <3>4. j + k = Len(thread) + (i + k)
      BY <3>1, <3>3, Said
    <3> QED
      BY <3>2, <3>4, Said
  <2> QED
    BY <2>1, <2>2, Said
<1>5. Answered'
  BY <1>4 DEF Answered
<1> QED
  BY <1>2, <1>3, <1>5

LEMMA SpellsKeeps ==
    ASSUME Inv, NEW size \in AnswerSizes, Spells(size)
    PROVE  Inv'
<1>1. CASE CanRead(role) /\ ~offered /\ left > 1
  <2> DEFINE messages == <<Message("spelled", size, 0, 0), Note>>
  <2>1. Another(messages) /\ pc \in {"flight", "resend"}
    BY <1>1 DEF Spells
  <2>2. messages \in Seq(Messages)
    BY DEF Messages, Spelled
  <2>3. /\ Len(messages) = 2 /\ messages[1].kind = "spelled" /\ messages[2].kind = "note"
        /\ messages[1].calls = 0 /\ messages[2].calls = 0
    BY DEF Message, Note
  <2> HIDE DEF messages
  <2>4. Talking' /\ Sending' /\ Answered'
    BY <1>1, <2>1, <2>2, <2>3, SaidKeepsTalking
  <2>5. role \in Roles /\ left \in 1..ToolTurns /\ left <= Reserved
    <3>1. role \in Roles /\ left \in 1..Turns(role) /\ offered = Reads(role, left)
      BY <2>1 DEF Inv, Talking, Sending
    <3>2. ~Reads(role, left)
      BY <1>1, <3>1, Zenon
    <3>3. ~(left > Reserved)
      BY <1>1, <3>2 DEF Reads
    <3> QED
      BY <1>1, <3>1, <3>3, TurnsBounds
  <2>6. HasRead' => HasRead
    <3> SUFFICES ASSUME NEW j \in DOMAIN thread', thread'[j].kind = "result" PROVE HasRead
      BY DEF HasRead
    <3>1. j \in 1..Len(thread) \/ \E i \in 1..Len(messages) : j = Len(thread) + i
      BY <2>1, <2>2, Said
    <3>2. ASSUME NEW i \in 1..Len(messages), j = Len(thread) + i PROVE FALSE
      <4>1. thread'[j] = messages[i] /\ i \in {1, 2}
        BY <2>1, <2>2, <2>3, <3>2, Said
      <4> QED
        BY <2>3, <4>1
    <3>3. j \in DOMAIN thread /\ thread[j].kind = "result"
      BY <2>1, <2>2, <3>1, <3>2, Said
    <3> QED
      BY <3>3 DEF HasRead
  <2>7. IsTold'
    <3>1. Len(thread) \in Nat /\ Len(thread') = Len(thread) + 2 /\ DOMAIN thread' = 1..Len(thread')
      BY <2>1, <2>2, <2>3, Said
    <3>2. Len(thread) + 2 \in DOMAIN thread'
      BY <3>1
    <3>3. 2 \in 1..Len(messages)
      BY <2>3
    <3>4. thread'[Len(thread) + 2] = messages[2]
      BY <2>1, <2>2, <3>3, Said
    <3> QED
      BY <2>3, <3>2, <3>4 DEF IsTold
  <2>8. role' = role /\ left' = left - 1
    BY <2>1 DEF Another
  <2>9. Noted'
    BY <1>1, <2>5, <2>6, <2>7, <2>8, TurnsBounds DEF Noted, CanRead, Inv, Reserved
  <2> QED
    BY <2>4, <2>9 DEF Inv
<1>2. CASE ~(CanRead(role) /\ ~offered /\ left > 1)
  BY <1>2, Ended DEF Spells
<1> QED
  BY <1>1, <1>2

LEMMA CallsKeeps ==
    ASSUME Inv, NEW size \in AnswerSizes, NEW calls \in Requested, Calls(size, calls)
    PROVE  Inv'
<1>1. CASE CanRead(role) /\ left > 1
  <2> DEFINE call == Message("calls", size, Len(calls), Len(calls))
             told == IF LastRead THEN <<Note>> ELSE <<>>
             messages == <<call>> \o Results(calls) \o told
  <2>1. Another(messages) /\ pc \in {"flight", "resend"}
    BY <1>1 DEF Calls
  <2>2. calls \in Seq({calls[i] : i \in DOMAIN calls})
    BY CallsAssumption
  <2>3. Len(calls) \in Nat /\ DOMAIN calls = 1..Len(calls)
    BY <2>2
  <2>4. /\ Results(calls) \in Seq(Messages) /\ Len(Results(calls)) = Len(calls)
        /\ \A i \in 1..Len(calls) : Results(calls)[i].kind = "result" /\ Results(calls)[i].calls = 0
    <3>1. \A i \in 1..Len(calls) : Results(calls)[i] \in Messages
      BY <2>3 DEF Messages, Read
    <3>2. Results(calls) = [i \in 1..Len(calls) |-> Message("result", 0, Run(calls[i]).size, 0)]
      BY <2>3 DEF Results
    <3>3. \A i \in 1..Len(calls) : Results(calls)[i].kind = "result" /\ Results(calls)[i].calls = 0
      BY <3>2 DEF Message
    <3>4. Results(calls) \in [1..Len(calls) -> Messages]
      BY <3>1, <3>2
    <3>5. Results(calls) \in Seq(Messages)
      BY <2>3, <3>4
    <3> QED
      BY <2>3, <3>2, <3>3, <3>5
  <2>5. call \in Messages /\ call.kind = "calls" /\ call.calls = Len(calls)
    BY DEF Messages, Asking, Message
  <2>6. Note \in Messages /\ Note.kind = "note" /\ Note.calls = 0
    BY DEF Messages, Note, Message
  <2>7. told \in Seq(Messages)
    BY <2>6
  <2>8. messages \in Seq(Messages) /\ Len(messages) = 1 + Len(calls) + Len(told)
    BY <2>3, <2>4, <2>5, <2>7
  <2>9. /\ messages[1] = call
        /\ \A i \in 1..Len(calls) : messages[1 + i] = Results(calls)[i]
        /\ LastRead => Len(told) = 1 /\ messages[2 + Len(calls)] = Note
        /\ ~LastRead => Len(told) = 0
    BY <2>3, <2>4, <2>5, <2>6
  <2> HIDE DEF call, told, messages
  <2>10. \A i \in 1..Len(messages) :
            i = 1 \/ (i - 1 \in 1..Len(calls) /\ messages[i] = Results(calls)[i - 1])
                  \/ (LastRead /\ i = 2 + Len(calls) /\ messages[i] = Note)
    <3> SUFFICES ASSUME NEW i \in 1..Len(messages), i # 1, i - 1 \notin 1..Len(calls)
                 PROVE  LastRead /\ i = 2 + Len(calls) /\ messages[i] = Note
      <4> \A i \in 1..Len(messages) : i - 1 \in 1..Len(calls) => messages[1 + (i - 1)] = Results(calls)[i - 1] /\ 1 + (i - 1) = i
        BY <2>9
      <4> QED
        OBVIOUS
    <3>1. Len(told) = 1 /\ LastRead
      BY <2>3, <2>8, <2>9
    <3> QED
      BY <2>3, <2>8, <2>9, <3>1
  <2>11. \A i \in 1..Len(messages) : \A k \in 1..messages[i].calls :
            i + k \in 1..Len(messages) /\ messages[i + k].kind = "result"
    <3> SUFFICES ASSUME NEW i \in 1..Len(messages), NEW k \in 1..messages[i].calls
                 PROVE  i + k \in 1..Len(messages) /\ messages[i + k].kind = "result"
      OBVIOUS
    <3>1. i = 1
      BY <2>4, <2>6, <2>10
    <3>2. k \in 1..Len(calls)
      BY <2>5, <2>9, <3>1
    <3>3. Len(told) \in Nat
      BY <2>7
    <3> QED
      BY <2>3, <2>4, <2>8, <2>9, <3>1, <3>2, <3>3
  <2>12. Talking' /\ Sending' /\ Answered'
    BY <1>1, <2>1, <2>8, <2>11, SaidKeepsTalking
  <2>13. role \in Roles /\ left \in 1..ToolTurns /\ role' = role /\ left' = left - 1
    <3>1. role \in Roles /\ left \in 1..Turns(role)
      BY <2>1 DEF Inv, Talking
    <3> QED
      BY <1>1, <2>1, <3>1, TurnsBounds DEF Another
  <2>14. IsTold' <=> IsTold \/ LastRead
    <3>1. IsTold => IsTold'
      BY <2>1, <2>8, Said DEF IsTold
    <3>2. ASSUME LastRead PROVE IsTold'
      <4>1. 2 + Len(calls) \in 1..Len(messages)
        <5>1. Len(told) = 1
          BY <2>9, <3>2
        <5>2. Len(messages) = 2 + Len(calls) /\ Len(calls) \in Nat
          BY <2>3, <2>8, <5>1
        <5> QED
          BY <5>2
      <4>2. thread'[Len(thread) + (2 + Len(calls))] = Note
        <5>1. thread'[Len(thread) + (2 + Len(calls))] = messages[2 + Len(calls)]
          BY <2>1, <2>8, <4>1, Said
        <5> QED
          BY <2>9, <3>2, <5>1
      <4>3. Len(thread) + (2 + Len(calls)) \in DOMAIN thread'
        BY <2>1, <2>8, <4>1, Said
      <4> QED
        BY <2>6, <4>2, <4>3 DEF IsTold
    <3>3. ASSUME IsTold', ~LastRead PROVE IsTold
      <4>1. PICK j \in DOMAIN thread' : thread'[j].kind = "note"
        BY <3>3 DEF IsTold
      <4>2. ASSUME NEW i \in 1..Len(messages), j = Len(thread) + i PROVE FALSE
        <5>1. thread'[j] = messages[i]
          BY <2>1, <2>8, <4>2, Said
        <5>2. messages[i].kind \in {"calls", "result"}
          BY <2>4, <2>5, <2>9, <2>10, <3>3
        <5> QED
          BY <4>1, <5>1, <5>2
      <4>3. j \in DOMAIN thread /\ thread'[j] = thread[j]
        BY <2>1, <2>8, <4>2, Said
      <4> QED
        BY <4>1, <4>3 DEF IsTold
    <3> QED
      BY <3>1, <3>2, <3>3
  <2>15. Noted'
    BY <1>1, <2>13, <2>14, TurnsBounds DEF Inv, Noted, LastRead, CanRead, Reserved
  <2> QED
    BY <2>12, <2>15 DEF Inv
<1>2. CASE ~(CanRead(role) /\ left > 1)
  BY <1>2, Ended DEF Calls
<1> QED
  BY <1>1, <1>2

LEMMA InvStep == Inv /\ [Next]_vars => Inv'
<1> SUFFICES ASSUME Inv, [Next]_vars PROVE Inv'
  OBVIOUS
<1>1. ASSUME NEW r \in Roles, Begins(r) PROVE Inv'
  BY <1>1, BeginsKeeps
<1>2. CASE Overflows \/ Stops \/ Fails \/ Refuses \/ LimitedAgain \/ Breaks
  BY <1>2, Ended DEF Overflows, Stops, Fails, Refuses, LimitedAgain, Breaks
<1>3. CASE Fits
  <2>1. /\ pc = "fit" /\ pc' = "gate" /\ sent' = Fitted /\ offered' = Reads(role, left)
        /\ UNCHANGED <<role, left, thread>>
    BY <1>3 DEF Fits
  <2>2. Talking' /\ Noted' /\ Answered'
    BY <2>1 DEF Inv, Talking, Noted, Answered, HasRead, IsTold
  <2>3. Sending'
    BY <2>1, FittedKeeps DEF Sending, Droppable, Reads, CanRead, Reserved
  <2> QED
    BY <2>2, <2>3 DEF Inv
<1>4. CASE Waits \/ Sends \/ Wakes
  BY <1>4, TalkUntouched DEF Waits, Sends, Wakes
<1>5. CASE Tick
  BY <1>5 DEF Tick, talk, Inv, Talking, Noted, Sending, Answered, HasRead, IsTold
<1>6. ASSUME NEW header \in Headers, Limited(header) PROVE Inv'
  BY <1>6, TalkUntouched DEF Limited
<1>7. CASE Thinks
  BY <1>7, Ended, TalkUntouched DEF Thinks
<1>8. CASE Replies
  BY <1>8, Ended, SpellsKeeps, CallsKeeps DEF Replies, Answers
<1>9. CASE UNCHANGED vars
  BY <1>9 DEF vars, talk, Inv, Talking, Noted, Sending, Answered, HasRead, IsTold
<1> QED
  BY <1>1, <1>2, <1>3, <1>4, <1>5, <1>6, <1>7, <1>8, <1>9 DEF Next, Own, Comes

THEOREM Invariance == Spec => []Inv
BY InvInit, InvStep, PTL DEF Spec

\* A model that has read is told that it can read no more exactly when it is not
\* offered the tools, whatever the window leaves out, however often it calls a
\* tool it was not offered or spells one out (`_converse`).
THEOREM Told == Spec => []AskedToAnswer
<1>1. Inv => AskedToAnswer
  <2> SUFFICES ASSUME Inv, pc = "flight", HasRead
               PROVE  offered <=> ~\E i \in sent : thread[i].kind = "note"
    BY DEF AskedToAnswer, HasRead
  <2>1. role \in Roles /\ CanRead(role) /\ ToolTurns > 1 /\ left \in 1..ToolTurns
    BY TurnsBounds DEF Inv, Talking, Noted
  <2>2. IsTold <=> left <= Reserved
    BY <2>1, CallsAssumption DEF Inv, Noted
  <2>3. IsTold <=> \E i \in sent : thread[i].kind = "note"
    BY DEF Inv, Sending, IsTold, Droppable
  <2>4. offered = Reads(role, left)
    BY DEF Inv, Sending
  <2>5. Reads(role, left) <=> ~(left <= Reserved)
    BY <2>1, TurnsBounds DEF Reads
  <2> QED
    BY <2>2, <2>3, <2>4, <2>5, Zenon
<1> QED
  BY <1>1, Invariance, PTL

\* Every call of a turn that is sent has its result sent after it (`_converse`,
\* `Toolbox.run`, `fit`), whatever is left out to make the prompt fit.
THEOREM ResultsFollow == Spec => [](pc = "flight" => CallsHaveResults)
<1>1. Inv => (pc = "flight" => CallsHaveResults)
  BY DEF Inv, Sending, Answered, CallsHaveResults, Droppable
<1> QED
  BY <1>1, Invariance, PTL

-----------------------------------------------------------------------------
(***************************************************************************)
(* What amounts come to.                                                   *)
(***************************************************************************)
\* What holds of 0 and, with a number, of the next one holds of every number.
LEMMA SetInduction ==
    ASSUME NEW I, 0 \in I, \A n \in Nat : n \in I => n + 1 \in I
    PROVE  \A n \in Nat : n \in I
<1> DEFINE T == {n \in Nat : n \notin I}
<1>1. SUFFICES ASSUME T # {} PROVE FALSE
  OBVIOUS
<1>2. PICK x \in T : \A y \in T : ~ (<<y, x>> \in OpToRel(<, Nat))
  BY <1>1, NatLessThanWellFounded, WFMin
<1>3. \A y \in Nat : y < x => y \in I
  BY <1>2 DEF OpToRel
<1>4. x \in Nat /\ x # 0 /\ x \notin I
  OBVIOUS
<1>5. x - 1 \in Nat /\ x - 1 < x /\ (x - 1) + 1 = x
  BY <1>4
<1> QED
  BY <1>3, <1>4, <1>5

\* There is a least in any numbers.
LEMMA Least ==
    ASSUME NEW S, S \subseteq Nat, S # {}
    PROVE  \E i \in S : \A j \in S : i <= j
<1>1. PICK i \in S : \A j \in S : ~ (<<j, i>> \in OpToRel(<, Nat))
  BY NatLessThanWellFounded, WFMin
<1>2. \A j \in Nat : j < i => j \notin S
  BY <1>1 DEF OpToRel
<1> QED
  BY <1>2

\* What is built from a start in n steps.
Folds(V, n, start, F, g) ==
    g \in [0..n -> V] /\ g[0] = start /\ \A i \in 1..n : g[i] = F[i][g[i - 1]]

LEMMA FoldExists ==
    ASSUME NEW V, NEW n \in Nat, NEW start \in V, NEW F \in [1..n -> [V -> V]]
    PROVE  \E g : Folds(V, n, start, F, g)
<1> DEFINE Upto(k, g) == g \in [0..k -> V] /\ g[0] = start
                          /\ \A i \in 1..k : i <= n => g[i] = F[i][g[i - 1]]
           I == {k \in Nat : \E g : Upto(k, g)}
<1>1. 0 \in I
  <2>1. Upto(0, [i \in 0..0 |-> start])
    OBVIOUS
  <2> QED
    BY <2>1
<1>2. ASSUME NEW k \in Nat, k \in I PROVE k + 1 \in I
  <2>1. PICK g : Upto(k, g)
    BY <1>2
  <2> DEFINE h == [i \in 0..(k + 1) |-> IF i <= k THEN g[i]
                                        ELSE IF k + 1 <= n THEN F[k + 1][g[k]] ELSE start]
  <2>2. k + 1 <= n => F[k + 1] \in [V -> V] /\ g[k] \in V
    BY <2>1
  <2>3. h \in [0..(k + 1) -> V]
    BY <2>1, <2>2
  <2>4. h[0] = start
    BY <2>1
  <2>5. \A i \in 0..k : h[i] = g[i]
    OBVIOUS
  <2>6. ASSUME NEW i \in 1..(k + 1), i <= n PROVE h[i] = F[i][h[i - 1]]
    <3>1. i - 1 \in 0..k /\ h[i - 1] = g[i - 1]
      BY <2>5
    <3>2. CASE i \in 1..k
      BY <2>1, <2>5, <2>6, <3>1, <3>2
    <3>3. CASE i = k + 1
      <4>1. h[i] = F[k + 1][g[k]] /\ h[i - 1] = g[k]
        BY <2>6, <3>1, <3>3
      <4> QED
        BY <3>3, <4>1
    <3> QED
      BY <3>2, <3>3
  <2> HIDE DEF h
  <2>7. Upto(k + 1, h)
    BY <2>3, <2>4, <2>6
  <2> QED
    BY <2>7
<1>3. n \in I
  <2> HIDE DEF I
  <2> QED
    BY <1>1, <1>2, SetInduction
<1> QED
  BY <1>3 DEF Folds

Amounts(n) == [1..n -> Nat]

\* A total is taken step by step.
LEMMA TotalSteps ==
    ASSUME NEW n \in Nat, NEW amounts \in Amounts(n)
    PROVE  \E upto \in [0..n -> Nat] :
              /\ upto[0] = 0 /\ \A i \in 1..n : upto[i] = upto[i - 1] + amounts[i]
              /\ Total(n, amounts) = upto[n]
<1> DEFINE F == [i \in 1..n |-> [v \in Nat |-> v + amounts[i]]]
           Is(f) == f = [i \in 0..n |-> IF i = 0 THEN 0 ELSE f[i - 1] + amounts[i]]
<1>1. \A i \in 1..n, v \in Nat : v + amounts[i] \in Nat
  BY DEF Amounts
<1>2. F \in [1..n -> [Nat -> Nat]] /\ 0 \in Nat
  BY <1>1
<1>3. \A i \in 1..n, v \in Nat : F[i][v] = v + amounts[i]
  OBVIOUS
<1> HIDE DEF F
<1>4. PICK g : Folds(Nat, n, 0, F, g)
  BY <1>2, FoldExists
<1>5. /\ g \in [0..n -> Nat] /\ g[0] = 0
      /\ \A i \in 1..n : g[i] = g[i - 1] + amounts[i]
  <2>1. g \in [0..n -> Nat] /\ g[0] = 0 /\ \A i \in 1..n : g[i] = F[i][g[i - 1]]
    BY <1>4 DEF Folds
  <2>2. \A i \in 1..n : g[i - 1] \in Nat
    BY <2>1
  <2> QED
    BY <1>3, <2>1, <2>2
<1>6. Is(g)
  <2>1. \A i \in 0..n : g[i] = IF i = 0 THEN 0 ELSE g[i - 1] + amounts[i]
    BY <1>5
  <2> QED
    BY <1>5, <2>1
<1> DEFINE upto == CHOOSE f : Is(f)
<1>7. Total(n, amounts) = upto[n]
  BY DEF Total
<1>8. Is(upto)
  BY <1>6
<1> HIDE DEF upto
<1>9. upto[0] = 0 /\ \A i \in 1..n : upto[i] = upto[i - 1] + amounts[i]
  BY <1>8
<1> DEFINE I == {k \in Nat : k <= n => upto[k] \in Nat}
<1>10. 0 \in I
  BY <1>9
<1>11. ASSUME NEW k \in Nat, k \in I PROVE k + 1 \in I
  BY <1>9, <1>11 DEF Amounts
<1>12. \A k \in Nat : k \in I
  <2> HIDE DEF I
  <2> QED
    BY <1>10, <1>11, SetInduction
<1>13. upto \in [0..n -> Nat]
  BY <1>8, <1>12
<1> QED
  BY <1>7, <1>9, <1>13

LEMMA TotalCounts ==
    ASSUME NEW n \in Nat, NEW amounts \in Amounts(n)
    PROVE  Total(n, amounts) \in Nat
<1>1. PICK upto \in [0..n -> Nat] : Total(n, amounts) = upto[n]
  BY TotalSteps
<1> QED
  BY <1>1

LEMMA SumsCompare ==
    ASSUME NEW a \in Nat, NEW b \in Nat, NEW c \in Nat, NEW d \in Nat, a <= b, c <= d
    PROVE  a + c <= b + d
OBVIOUS

\* What came before, and counts for less now, comes to no more.
LEMMA TotalLess ==
    ASSUME NEW n \in Nat, NEW lapsed \in Nat, NEW less \in Amounts(n),
           NEW amounts \in Amounts(n + lapsed), \A i \in 1..n : less[i] <= amounts[i + lapsed]
    PROVE  Total(n, less) <= Total(n + lapsed, amounts)
<1>1. PICK a \in [0..n -> Nat] :
         /\ a[0] = 0 /\ \A i \in 1..n : a[i] = a[i - 1] + less[i]
         /\ Total(n, less) = a[n]
  BY TotalSteps
<1>2. PICK b \in [0..(n + lapsed) -> Nat] :
         /\ b[0] = 0 /\ \A i \in 1..(n + lapsed) : b[i] = b[i - 1] + amounts[i]
         /\ Total(n + lapsed, amounts) = b[n + lapsed]
  <2>1. n + lapsed \in Nat
    OBVIOUS
  <2> QED
    BY <2>1, TotalSteps
<1> DEFINE I == {k \in Nat : k <= n => a[k] <= b[k + lapsed]}
<1>3. 0 \in I
  BY <1>1, <1>2
<1>4. ASSUME NEW k \in Nat, k \in I PROVE k + 1 \in I
  <2> SUFFICES ASSUME k + 1 <= n PROVE a[k + 1] <= b[(k + 1) + lapsed]
    OBVIOUS
  <2>1. PICK p \in 1..(n + lapsed) : p = (k + 1) + lapsed
    OBVIOUS
  <2>2. PICK q \in 0..(n + lapsed) : q = k + lapsed
    OBVIOUS
  <2>3. PICK j \in 1..n : j = k + 1
    OBVIOUS
  <2>4. a[k] <= b[q]
    BY <1>4, <2>2
  <2>5. less[j] <= amounts[p]
    <3>1. p = j + lapsed
      BY <2>1, <2>3
    <3> QED
      BY <3>1
  <2>6. a[j] = a[k] + less[j] /\ a[k] \in Nat /\ less[j] \in Nat
    <3>1. j - 1 = k /\ k \in 0..n
      BY <2>3
    <3> QED
      BY <1>1, <3>1 DEF Amounts
  <2>7. b[p] = b[q] + amounts[p] /\ b[q] \in Nat /\ amounts[p] \in Nat
    <3>1. p - 1 = q
      BY <2>1, <2>2
    <3> QED
      BY <1>2, <3>1 DEF Amounts
  <2>8. a[j] <= b[p]
    <3>1. b[q] \in Nat /\ amounts[p] \in Nat
      BY <2>7
    <3>2. a[k] + less[j] <= b[q] + amounts[p]
      BY ONLY <2>4, <2>5, <2>6, <3>1, SumsCompare
    <3> QED
      BY ONLY <2>6, <2>7, <3>2
  <2> QED
    BY <2>1, <2>3, <2>8
<1>5. n \in I
  <2> HIDE DEF I
  <2> QED
    BY <1>3, <1>4, SetInduction
<1> QED
  BY <1>1, <1>2, <1>5

-----------------------------------------------------------------------------
(***************************************************************************)
(* What an allowance lets through.                                         *)
(***************************************************************************)
Answer == [age : Nat, tokens : Nat]

Ledgers == ledger \in [Models -> Seq(Answer)]

\* What is under way was let through, and time only makes room.
LetThrough ==
    pc \in {"flight", "resend"} =>
        \A i \in DOMAIN Limits[ModelOf[role]] :
            Used(ModelOf[role], Limits[ModelOf[role]][i]) < Limits[ModelOf[role]][i].cap

SpendInv == Inv /\ Ledgers /\ LetThrough /\ WithinAllowance

LEMMA CostCounts ==
    ASSUME NEW a \in Answer, NEW limit
    PROVE  Cost(a, limit) \in Nat
BY DEF Cost, Answer

\* What the messages of a conversation count for.
LEMMA MessagesCount ==
    ASSUME NEW message \in Messages
    PROVE  message.content \in Nat /\ message.carried \in Nat
<1>1. CASE message \in Opened
  <2>1. PICK r \in Roles : \E i \in DOMAIN Opening[r] : message = Opening[r][i]
    BY <1>1 DEF Opened
  <2> QED
    BY <2>1, CallsAssumption
<1>2. CASE message \in Asking
  <2>1. PICK size \in AnswerSizes, calls \in Requested :
           message = Message("calls", size, Len(calls), Len(calls))
    BY <1>2 DEF Asking
  <2>2. size \in Nat /\ Len(calls) \in Nat
    BY CallsAssumption
  <2> QED
    BY <2>1, <2>2 DEF Message
<1>3. CASE message \in Read
  <2>1. PICK calls \in Requested : \E i \in DOMAIN calls : message = Results(calls)[i]
    BY <1>3 DEF Read, Results
  <2>2. PICK i \in DOMAIN calls : message = Message("result", 0, Run(calls[i]).size, 0)
    BY <2>1 DEF Results
  <2>3. Run(calls[i]).size \in Nat
    BY CallsAssumption
  <2> QED
    BY <2>2, <2>3 DEF Message
<1>4. CASE message \in Spelled \cup {Note}
  BY <1>4, CallsAssumption DEF Spelled, Note, Message
<1> QED
  BY <1>1, <1>2, <1>3, <1>4 DEF Messages

LEMMA CarriedCounts ==
    ASSUME Inv, NEW S
    PROVE  Carried(S) \in Nat
<1>1. /\ Len(thread) \in Nat /\ DOMAIN thread = 1..Len(thread)
      /\ \A i \in DOMAIN thread : thread[i] \in Messages
  BY DEF Inv, Talking
<1>2. /\ [i \in DOMAIN thread |-> IF i \in S THEN thread[i].content ELSE 0] \in Amounts(Len(thread))
      /\ [i \in DOMAIN thread |-> IF i \in S THEN thread[i].carried ELSE 0] \in Amounts(Len(thread))
  BY <1>1, MessagesCount DEF Amounts
<1> QED
  BY <1>1, <1>2, TotalCounts DEF Carried, Counted

\* What the answers up to one come to, in some rows of the ledger.
Sum(rows, limit, n) == Total(n, [k \in 1..n |-> Cost(rows[k], limit)])

LEMMA SumCounts ==
    ASSUME NEW rows \in Seq(Answer), NEW limit, NEW n \in 0..Len(rows)
    PROVE  /\ Sum(rows, limit, n) \in Nat
           /\ [k \in 1..n |-> Cost(rows[k], limit)] \in Amounts(n)
<1>1. \A k \in 1..n : rows[k] \in Answer
  OBVIOUS
<1>2. [k \in 1..n |-> Cost(rows[k], limit)] \in Amounts(n) /\ n \in Nat
  BY <1>1, CostCounts DEF Amounts
<1> QED
  BY <1>2, TotalCounts DEF Sum

LEMMA SpentIsSum ==
    /\ \A m, limit, n : Spent(m, limit, n) = Sum(ledger[m], limit, n)
    /\ \A m, limit : Used(m, limit) = Sum(ledger[m], limit, Len(ledger[m]))
BY DEF Spent, Used, Sum

LEMMA SpentIsSumNext ==
    /\ \A m, limit, n : Spent(m, limit, n)' = Sum(ledger[m]', limit, n)
    /\ \A m, limit : Used(m, limit)' = Sum(ledger[m]', limit, Len(ledger[m]'))
BY DEF Spent, Used, Sum

\* Nothing is sent while an allowance is used up.
LEMMA SendsWithin ==
    ASSUME Inv, Ledgers, Sends
    PROVE  LetThrough'
<1> DEFINE m == ModelOf[role]
<1>1. role \in Roles /\ m \in Models /\ Blocked(m) = 0 /\ UNCHANGED <<ledger, role>>
  BY CallsAssumption DEF Sends, talk, Inv, Talking
<1>2. Reached(m) = {}
  <2> SUFFICES ASSUME Reached(m) # {} PROVE FALSE
    OBVIOUS
  <2>1. Reached(m) \subseteq Nat /\ Reached(m) \subseteq DOMAIN Limits[m]
    <3>1. Limits[m] \in Seq({Limits[m][i] : i \in DOMAIN Limits[m]})
      BY <1>1, CallsAssumption
    <3>2. DOMAIN Limits[m] \subseteq Nat
      BY <3>1
    <3> QED
      BY <3>2 DEF Reached
  <2>2. \E i \in Reached(m) : \A j \in Reached(m) : i <= j
    BY <2>1, Least
  <2> DEFINE first == CHOOSE i \in Reached(m) : \A j \in Reached(m) : i <= j
  <2>3. first \in Reached(m)
    BY <2>2
  <2>4. Blocked(m) = IF parked[m] > 0 THEN parked[m] ELSE Limits[m][first].pause
    BY DEF Blocked
  <2> HIDE DEF first
  <2>5. Limits[m][first].pause # 0
    BY <1>1, <2>1, <2>3, CallsAssumption
  <2> QED
    BY <1>1, <2>4, <2>5
<1>3. ASSUME NEW i \in DOMAIN Limits[m]
      PROVE  Used(m, Limits[m][i]) < Limits[m][i].cap
  <2>1. ~(Used(m, Limits[m][i]) >= Limits[m][i].cap)
    BY <1>2 DEF Reached
  <2>2. Used(m, Limits[m][i]) \in Nat
    <3>1. ledger[m] \in Seq(Answer) /\ Len(ledger[m]) \in 0..Len(ledger[m])
      BY <1>1 DEF Ledgers
    <3> QED
      BY <3>1, SumCounts, SpentIsSum
  <2>3. Limits[m][i].cap \in Nat
    BY <1>1, CallsAssumption
  <2> QED
    BY <2>1, <2>2, <2>3
<1>4. \A i \in DOMAIN Limits[m] : Used(m, Limits[m][i])' = Used(m, Limits[m][i])
  BY <1>1, SpentIsSum, SpentIsSumNext
<1> QED
  BY <1>1, <1>3, <1>4 DEF LetThrough

\* Time drops what no allowance looks back to from the front, and ages the rest.
LEMMA AgedRows ==
    ASSUME Ledgers, NEW m \in Models
    PROVE  \E lapsed \in Nat :
              /\ lapsed <= Len(ledger[m])
              /\ Aged(m) \in Seq(Answer) /\ Len(Aged(m)) = Len(ledger[m]) - lapsed
              /\ \A k \in 1..Len(Aged(m)) :
                    /\ k + lapsed \in 1..Len(ledger[m])
                    /\ Aged(m)[k].age = ledger[m][k + lapsed].age + 1
                    /\ Aged(m)[k].tokens = ledger[m][k + lapsed].tokens
<1> DEFINE rows == ledger[m]
           L == {k \in DOMAIN rows : rows[k].age >= Span(m)}
           lapsed == Cardinality(L)
<1>1. rows \in Seq(Answer) /\ Len(rows) \in Nat /\ DOMAIN rows = 1..Len(rows)
  BY DEF Ledgers
<1>2. lapsed \in Nat /\ lapsed <= Len(rows)
  <2>1. IsFiniteSet(1..Len(rows)) /\ Cardinality(1..Len(rows)) = Len(rows)
    BY <1>1, FS_Interval
  <2>2. L \subseteq 1..Len(rows)
    BY <1>1
  <2>3. IsFiniteSet(L) /\ Cardinality(L) <= Cardinality(1..Len(rows))
    BY <2>1, <2>2, FS_Subset
  <2>4. Cardinality(L) \in Nat
    BY <2>3, FS_CardinalityType
  <2> QED
    BY <2>1, <2>3, <2>4
<1>3. Aged(m) = [k \in 1..(Len(rows) - lapsed) |-> [rows[k + lapsed] EXCEPT !.age = @ + 1]]
  BY DEF Aged
<1> HIDE DEF lapsed, rows
<1>4. \A k \in 1..(Len(rows) - lapsed) : k + lapsed \in 1..Len(rows) /\ rows[k + lapsed] \in Answer
  <2>1. \A k \in 1..(Len(rows) - lapsed) : k + lapsed \in 1..Len(rows)
    BY <1>1, <1>2
  <2> QED
    BY <1>1, <2>1
<1>5. ASSUME NEW k \in 1..(Len(rows) - lapsed)
      PROVE  /\ Aged(m)[k] \in Answer
             /\ Aged(m)[k].age = rows[k + lapsed].age + 1
             /\ Aged(m)[k].tokens = rows[k + lapsed].tokens
  <2>1. PICK a \in Answer : a = rows[k + lapsed]
    BY <1>4
  <2>2. Aged(m)[k] = [a EXCEPT !.age = @ + 1]
    BY <1>3, <2>1
  <2>3. [a EXCEPT !.age = @ + 1] = [age |-> a.age + 1, tokens |-> a.tokens] /\ a.age \in Nat /\ a.tokens \in Nat
    BY DEF Answer
  <2> QED
    BY <2>1, <2>2, <2>3 DEF Answer
<1>6. Len(rows) - lapsed \in Nat
  BY <1>1, <1>2
<1>7. Aged(m) \in [1..(Len(rows) - lapsed) -> Answer]
  BY <1>3, <1>5
<1>8. Aged(m) \in Seq(Answer) /\ Len(Aged(m)) = Len(rows) - lapsed
  BY <1>6, <1>7
<1> QED
  BY <1>2, <1>4, <1>5, <1>8 DEF rows

\* Time makes no answer count for more.
LEMMA AgedLess ==
    ASSUME NEW rows \in Seq(Answer), NEW aged \in Seq(Answer), NEW lapsed \in Nat,
           NEW limit, limit.span \in Nat, NEW n \in 0..Len(aged), n + lapsed <= Len(rows),
           \A k \in 1..Len(aged) : /\ aged[k].age = rows[k + lapsed].age + 1
                                   /\ aged[k].tokens = rows[k + lapsed].tokens
    PROVE  Sum(aged, limit, n) <= Sum(rows, limit, n + lapsed)
<1> DEFINE less == [k \in 1..n |-> Cost(aged[k], limit)]
           amounts == [k \in 1..(n + lapsed) |-> Cost(rows[k], limit)]
<1>1. n \in Nat /\ n + lapsed \in 0..Len(rows)
  OBVIOUS
<1>2. less \in Amounts(n) /\ amounts \in Amounts(n + lapsed)
  BY <1>1, SumCounts
<1>3. ASSUME NEW i \in 1..n PROVE less[i] <= amounts[i + lapsed]
  <2>1. PICK j \in 1..(n + lapsed) : j = i + lapsed
    BY <1>1
  <2>2. aged[i] \in Answer /\ rows[j] \in Answer
    BY <1>1, <2>1
  <2>3. aged[i].age = rows[j].age + 1 /\ aged[i].tokens = rows[j].tokens
    BY <1>1, <2>1
  <2>4. Cost(aged[i], limit) <= Cost(rows[j], limit)
    <3> HIDE DEF less, amounts
    <3>1. rows[j].age \in Nat /\ rows[j].tokens \in Nat
      BY <2>2 DEF Answer
    <3>2. CASE rows[j].age + 1 > limit.span
      <4>1. Cost(aged[i], limit) = 0 /\ Cost(rows[j], limit) \in Nat
        BY <2>2, <2>3, <3>2, CostCounts DEF Cost
      <4> QED
        BY <4>1
    <3>3. CASE ~(rows[j].age + 1 > limit.span)
      <4>1. ~(rows[j].age > limit.span)
        BY <3>1, <3>3
      <4>2. Cost(aged[i], limit) = Cost(rows[j], limit) /\ Cost(rows[j], limit) \in Nat
        BY <2>2, <2>3, <3>3, <4>1, CostCounts DEF Cost
      <4> QED
        BY <4>2
    <3> QED
      BY <3>2, <3>3
  <2>5. less[i] = Cost(aged[i], limit) /\ amounts[j] = Cost(rows[j], limit)
    BY <1>1, <2>1
  <2> HIDE DEF less, amounts
  <2> QED
    BY <2>1, <2>4, <2>5
<1> HIDE DEF less, amounts
<1>4. Total(n, less) <= Total(n + lapsed, amounts)
  BY <1>1, <1>2, <1>3, TotalLess
<1> QED
  BY <1>4 DEF Sum, less, amounts

LEMMA TickWithin ==
    ASSUME SpendInv, Tick
    PROVE  Ledgers' /\ LetThrough' /\ WithinAllowance'
<1>1. ledger' = [m \in Models |-> Aged(m)] /\ UNCHANGED <<pc, role>>
  BY DEF Tick, talk
<1>2. Ledgers /\ LetThrough /\ WithinAllowance /\ Talking
  BY DEF SpendInv, Inv
<1>3. \A m \in Models : ledger[m] \in Seq(Answer) /\ ledger[m]' = Aged(m) /\ Aged(m) \in Seq(Answer)
  BY <1>1, <1>2, AgedRows DEF Ledgers
<1>4. Ledgers'
  BY <1>1, <1>3 DEF Ledgers
<1>5. ASSUME NEW m \in Models, NEW i \in DOMAIN Limits[m],
             Used(m, Limits[m][i]) < Limits[m][i].cap
      PROVE  Used(m, Limits[m][i])' < Limits[m][i].cap
  <2> DEFINE rows == ledger[m]
             aged == Aged(m)
             limit == Limits[m][i]
  <2>1. PICK lapsed \in Nat :
           /\ lapsed <= Len(rows) /\ Len(aged) = Len(rows) - lapsed
           /\ \A k \in 1..Len(aged) : /\ aged[k].age = rows[k + lapsed].age + 1
                                       /\ aged[k].tokens = rows[k + lapsed].tokens
    BY <1>2, AgedRows
  <2>2. rows \in Seq(Answer) /\ aged \in Seq(Answer) /\ limit.span \in Nat /\ limit.cap \in Nat
    BY <1>3, CallsAssumption
  <2>3. Used(m, limit)' = Sum(aged, limit, Len(aged)) /\ Used(m, limit) = Sum(rows, limit, Len(rows))
    BY <1>3, SpentIsSum, SpentIsSumNext
  <2> HIDE DEF rows, aged, limit
  <2>4. /\ Len(aged) \in 0..Len(aged) /\ Len(aged) + lapsed = Len(rows) /\ Len(rows) \in 0..Len(rows)
        /\ Len(aged) + lapsed <= Len(rows)
    BY <2>1, <2>2
  <2>5. Sum(aged, limit, Len(aged)) <= Sum(rows, limit, Len(aged) + lapsed)
    BY <2>1, <2>2, <2>4, AgedLess
  <2>6. Sum(aged, limit, Len(aged)) \in Nat /\ Sum(rows, limit, Len(rows)) \in Nat
    BY <2>2, <2>4, SumCounts
  <2>7. Sum(rows, limit, Len(rows)) < limit.cap
    BY <1>5, <2>3 DEF limit
  <2>8. Sum(aged, limit, Len(aged)) <= Sum(rows, limit, Len(rows))
    BY <2>4, <2>5
  <2>9. Sum(aged, limit, Len(aged)) < limit.cap
    BY <2>2, <2>6, <2>7, <2>8
  <2> QED
    BY <2>3, <2>9 DEF limit
<1>6. LetThrough'
  <2> SUFFICES ASSUME pc \in {"flight", "resend"}, NEW i \in DOMAIN Limits[ModelOf[role]]
               PROVE  Used(ModelOf[role], Limits[ModelOf[role]][i])' < Limits[ModelOf[role]][i].cap
    BY <1>1 DEF LetThrough
  <2>1. ModelOf[role] \in Models
    BY <1>2, CallsAssumption DEF Talking
  <2> QED
    BY <1>1, <1>2, <1>5, <2>1 DEF LetThrough
<1>7. ASSUME NEW m \in Models, NEW i \in DOMAIN Limits[m], NEW k \in DOMAIN Aged(m),
             Aged(m)[k].age <= Limits[m][i].span
      PROVE  Spent(m, Limits[m][i], k - 1)' < Limits[m][i].cap
  <2> DEFINE rows == ledger[m]
             aged == Aged(m)
             limit == Limits[m][i]
  <2>1. PICK lapsed \in Nat :
           /\ lapsed <= Len(rows) /\ Len(aged) = Len(rows) - lapsed
           /\ \A j \in 1..Len(aged) : /\ j + lapsed \in 1..Len(rows)
                                       /\ aged[j].age = rows[j + lapsed].age + 1
                                       /\ aged[j].tokens = rows[j + lapsed].tokens
    BY <1>2, AgedRows
  <2>2. rows \in Seq(Answer) /\ aged \in Seq(Answer) /\ limit.span \in Nat /\ limit.cap \in Nat
    BY <1>3, CallsAssumption
  <2>3. Spent(m, limit, k - 1)' = Sum(aged, limit, k - 1)
    BY <1>3, SpentIsSumNext
  <2>4. \A j \in DOMAIN rows : rows[j].age <= limit.span => Sum(rows, limit, j - 1) < limit.cap
    BY <1>2, SpentIsSum DEF WithinAllowance
  <2>5. k \in DOMAIN aged /\ aged[k].age <= limit.span
    BY <1>7
  <2> HIDE DEF rows, aged, limit
  <2>6. k \in 1..Len(aged) /\ DOMAIN rows = 1..Len(rows) /\ Len(rows) \in Nat
    BY <2>2, <2>5
  <2>7. PICK j \in 1..Len(rows) : j = k + lapsed
    BY <2>1, <2>6
  <2>8. rows[j] \in Answer /\ aged[k].age = rows[j].age + 1
    BY <2>1, <2>2, <2>6, <2>7
  <2>9. rows[j].age <= limit.span
    <3>1. rows[j].age \in Nat
      BY <2>8 DEF Answer
    <3> QED
      BY <2>2, <2>5, <2>8, <3>1
  <2>10. Sum(rows, limit, j - 1) < limit.cap
    BY <2>4, <2>6, <2>9
  <2>11. k - 1 \in 0..Len(aged) /\ (k - 1) + lapsed = j - 1 /\ j - 1 \in 0..Len(rows) /\ j - 1 <= Len(rows)
    BY <2>6, <2>7
  <2>12. Sum(aged, limit, k - 1) <= Sum(rows, limit, (k - 1) + lapsed)
    BY <2>1, <2>2, <2>11, AgedLess
  <2>13. Sum(aged, limit, k - 1) \in Nat /\ Sum(rows, limit, j - 1) \in Nat
    BY <2>2, <2>11, SumCounts
  <2>14. Sum(aged, limit, k - 1) <= Sum(rows, limit, j - 1)
    BY <2>11, <2>12
  <2>15. Sum(aged, limit, k - 1) < limit.cap
    BY <2>2, <2>10, <2>13, <2>14
  <2> QED
    BY <2>3, <2>15 DEF limit
<1>8. WithinAllowance'
  BY <1>3, <1>7 DEF WithinAllowance
<1> QED
  BY <1>4, <1>6, <1>8

\* An answer is entered last, and what came before it was let through.
LEMMA RecordWithin ==
    ASSUME SpendInv, pc \in {"flight", "resend"}, NEW size \in AnswerSizes, Record(size)
    PROVE  Ledgers' /\ WithinAllowance'
<1> DEFINE cost == (Carried(sent) + size) * (IF pc = "resend" THEN 2 ELSE 1)
           row == [age |-> 0, tokens |-> cost]
<1>1. PICK m \in Models : m = ModelOf[role]
  BY CallsAssumption DEF SpendInv, Inv, Talking
<1>2. ledger' = [ledger EXCEPT ![m] = Recorded(m, cost)]
  BY <1>1 DEF Record
<1>3. cost \in Nat
  <2>1. Carried(sent) \in Nat /\ size \in Nat
    BY CarriedCounts, CallsAssumption DEF SpendInv
  <2> QED
    BY <2>1
<1> HIDE DEF cost
<1>4. row \in Answer
  BY <1>3 DEF Answer
<1>5. Ledgers /\ WithinAllowance
  BY DEF SpendInv
<1>6. /\ \A n \in Models : ledger[n] \in Seq(Answer)
      /\ \A n \in Models : n # m => ledger[n]' = ledger[n]
      /\ ledger[m]' = ledger[m] \/ ledger[m]' = Append(ledger[m], row)
  BY <1>2, <1>5 DEF Ledgers, Recorded
<1>7. Ledgers'
  <2>1. Recorded(m, cost) \in Seq(Answer)
    BY <1>4, <1>6 DEF Recorded
  <2> QED
    BY <1>2, <1>5, <2>1 DEF Ledgers
<1>8. ASSUME NEW n \in Models, NEW i \in DOMAIN Limits[n], NEW k \in DOMAIN ledger[n]',
             ledger[n]'[k].age <= Limits[n][i].span
      PROVE  Spent(n, Limits[n][i], k - 1)' < Limits[n][i].cap
  <2> DEFINE limit == Limits[n][i]
  <2>1. Spent(n, limit, k - 1)' = Sum(ledger[n]', limit, k - 1)
    BY SpentIsSumNext
  <2>2. \A j \in DOMAIN ledger[n] : ledger[n][j].age <= limit.span
            => Sum(ledger[n], limit, j - 1) < limit.cap
    BY <1>5, SpentIsSum DEF WithinAllowance
  <2>3. CASE ledger[n]' = ledger[n]
    BY <1>8, <2>1, <2>2, <2>3
  <2>4. CASE n = m /\ ledger[m]' = Append(ledger[m], row)
    <3> DEFINE rows == ledger[n]
    <3>1. rows \in Seq(Answer) /\ ledger[n]' = Append(rows, row)
      BY <1>6, <2>4
    <3>2. Sum(rows, limit, Len(rows)) < limit.cap
      BY <1>1, <2>4, SpentIsSum DEF SpendInv, LetThrough
    <3>3. k \in 1..(Len(rows) + 1) /\ Len(rows) \in Nat /\ DOMAIN rows = 1..Len(rows)
      BY <1>8, <3>1
    <3>4. \A j \in 1..Len(rows) : Append(rows, row)[j] = rows[j]
      BY <3>1
    <3>5. k - 1 \in Nat /\ \A j \in 1..(k - 1) : j \in 1..Len(rows)
      BY <3>3
    <3>6. Sum(Append(rows, row), limit, k - 1) = Sum(rows, limit, k - 1)
      BY <3>4, <3>5 DEF Sum
    <3>7. Sum(rows, limit, k - 1) < limit.cap
      <4>1. CASE k \in 1..Len(rows)
        BY <1>8, <2>2, <3>1, <3>3, <3>4, <4>1
      <4>2. CASE k - 1 = Len(rows)
        BY <3>2, <4>2
      <4> QED
        BY <3>3, <4>1, <4>2
    <3> QED
      BY <2>1, <3>1, <3>6, <3>7
  <2> QED
    BY <1>6, <2>3, <2>4
<1>9. WithinAllowance'
  BY <1>8 DEF WithinAllowance
<1> QED
  BY <1>7, <1>9

\* What leaves the ledger alone, and has nothing under way that was not.
LEMMA LedgerUntouched ==
    ASSUME SpendInv, UNCHANGED ledger,
           pc' \in {"flight", "resend"} => pc \in {"flight", "resend"} /\ UNCHANGED role
    PROVE  Ledgers' /\ LetThrough' /\ WithinAllowance'
<1>1. Ledgers /\ LetThrough /\ WithinAllowance
  BY DEF SpendInv
<1>2. /\ \A m, limit, n : Spent(m, limit, n)' = Spent(m, limit, n)
      /\ \A m, limit : Used(m, limit)' = Used(m, limit)
  BY SpentIsSum, SpentIsSumNext
<1>3. Ledgers'
  BY <1>1 DEF Ledgers
<1>4. WithinAllowance'
  BY <1>1, <1>2 DEF WithinAllowance
<1>5. LetThrough'
  BY <1>1, <1>2 DEF LetThrough
<1> QED
  BY <1>3, <1>4, <1>5

LEMMA SpendStep == SpendInv /\ [Next]_vars => SpendInv'
<1> SUFFICES ASSUME SpendInv, [Next]_vars PROVE SpendInv'
  OBVIOUS
<1> DEFINE Kept == Ledgers' /\ LetThrough' /\ WithinAllowance'
<1>1. SUFFICES Kept
  BY InvStep DEF SpendInv
<1>2. ASSUME NEW r \in Roles, Begins(r) PROVE Kept
  BY <1>2, LedgerUntouched DEF Begins
<1>3. CASE Overflows \/ Stops \/ Fails \/ Refuses \/ LimitedAgain \/ Breaks
  BY <1>3, LedgerUntouched DEF Overflows, Stops, Fails, Refuses, LimitedAgain, Breaks, Ends
<1>4. CASE Fits \/ Waits \/ Wakes
  BY <1>4, LedgerUntouched DEF Fits, Waits, Wakes
<1>5. CASE Sends
  <2>1. Ledgers /\ WithinAllowance
    BY DEF SpendInv
  <2>2. LetThrough'
    BY <1>5, <2>1, SendsWithin DEF SpendInv
  <2>3. \A m, limit, n : Spent(m, limit, n)' = Spent(m, limit, n)
    BY <1>5, SpentIsSum, SpentIsSumNext DEF Sends
  <2>4. Ledgers' /\ WithinAllowance'
    BY <1>5, <2>1, <2>3 DEF Sends, Ledgers, WithinAllowance
  <2> QED
    BY <2>2, <2>4
<1>6. CASE Tick
  BY <1>6, TickWithin
<1>7. ASSUME NEW header \in Headers, Limited(header) PROVE Kept
  BY <1>7, LedgerUntouched DEF Limited
<1>8. CASE Thinks
  <2>1. UNCHANGED ledger
    BY <1>8 DEF Thinks
  <2>2. pc' \in {"flight", "resend"} => pc \in {"flight", "resend"} /\ UNCHANGED role
    BY <1>8 DEF Thinks, Ends, talk
  <2> QED
    BY <2>1, <2>2, LedgerUntouched
<1>9. CASE Replies
  <2>1. PICK size \in AnswerSizes :
           Answers(size) \/ Spells(size) \/ \E calls \in Requested : Calls(size, calls)
    BY <1>9 DEF Replies
  <2>2. /\ pc \in {"flight", "resend"} /\ Record(size)
        /\ pc' \in {"idle", "fit"}
    BY <2>1 DEF Answers, Spells, Calls, Ends, Another
  <2>3. Ledgers' /\ WithinAllowance'
    BY <2>2, RecordWithin
  <2> QED
    BY <2>2, <2>3 DEF LetThrough
<1>10. CASE UNCHANGED vars
  BY <1>10, LedgerUntouched DEF vars, talk
<1> QED
  BY <1>2, <1>3, <1>4, <1>5, <1>6, <1>7, <1>8, <1>9, <1>10 DEF Next, Own, Comes

LEMMA SpendInit == Init => SpendInv
BY InvInit DEF Init, SpendInv, Ledgers, LetThrough, WithinAllowance

\* No more than an allowance is used in its time, but for the last answer, whose
\* cost is not known before it is sent (`check_rate_limit`, `record`), however
\* long an answer takes and whatever else draws on the same account between.
THEOREM AllowanceHolds == Spec => []WithinAllowance
<1>1. SpendInv => WithinAllowance
  BY DEF SpendInv
<1> QED
  BY <1>1, SpendInit, SpendStep, PTL DEF Spec
=============================================================================
