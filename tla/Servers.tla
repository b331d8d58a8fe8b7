------------------------------- MODULE Servers -------------------------------
(***************************************************************************)
(* The model servers a run depends on: `Supervisor` of src/forge/servers.py *)
(* and who uses it, the `forge go` that brings servers up, keeps them and   *)
(* takes them down (src/forge/run_servers.py) and the commands that start,  *)
(* stop and look at one (src/forge/cli.py).                                 *)
(*                                                                         *)
(* Servers outlive the process that started them, and all that is known of  *)
(* them is a file of process numbers that every process of forge rewrites.  *)
(* A read of it and the write that follows at once are one step; whatever   *)
(* waits, for a process to end or a port to answer, is a step of its own.   *)
(***************************************************************************)
EXTENDS Integers, FiniteSets

CONSTANTS
    Names,      \* the kinds of server
    Leased,     \* those restarted to give the graphics card back
    Pids,       \* the process numbers of the machine
    Zombies,    \* whether a dead process keeps its number until it is collected
    Weather,    \* what may happen besides: see WeatherTypes
    Beside,     \* the commands given while `forge go` is up
    MaxPreset   \* bound: times the configuration of a server changes

WeatherTypes == {"dies", "deaf", "outside", "edit", "killed", "killedAtSpawn",
                 "stubborn", "reuse"}
Commands == {"start", "stop", "status"}

ASSUME ServersAssumption ==
    /\ Names # {} /\ Leased \subseteq Names /\ Pids \subseteq Nat
    /\ Zombies \in BOOLEAN
    /\ Weather \subseteq WeatherTypes /\ Beside \subseteq Commands
    /\ MaxPreset \in Nat

VARIABLES
    proc,    \* the processes of the machine
    file,    \* servers.json
    preset,  \* the configuration of each server, as a version
    agent    \* the processes of forge: a run and a command

vars == <<proc, file, preset, agent>>

Agents == {"run", "hand"}
Versions == 0..MaxPreset
Presets == [Names -> Versions]
Nobody == [pid |-> -1, owner |-> "nobody", preset |-> 0]
Entries == [pid: Pids, owner: {"run", "cli"}, preset: Versions] \cup {Nobody}

\* A process was started by somebody; what a daemon leaves behind is init's.
Processes == [state: {"free", "coming", "up", "deaf", "zombie", "gone"},
              by: Agents \cup {"init", "other"}, name: Names]
Living == {"coming", "up", "deaf"}
Lives(p) == proc[p].state \in Living
Forges(p) == proc[p].by # "other"

\* `pid_alive`: the number is in use.
Alive(p) == proc[p].state \in Living \cup {"zombie"}
\* `port_open`: whoever listens on the port of a server.
Listening(n) == \E p \in Pids : proc[p].state = "up" /\ proc[p].name = n

Idle == {"off", "served", "failed", "ended", "refused", "dead"}
Active == {"look", "port", "spawn", "bind", "wait", "kill", "forget", "work", "stop"}
Purposes == {"start", "keep", "lease", "command"}
Afters == {"nothing", "port", "spawn", "fail", "look", "stop", "leave"}

\* A process of forge: where it is, the server and the process number in hand,
\* what for, what follows a kill, what it wants served and is still to see to,
\* and the servers it restarted.
Agency == [pc: Idle \cup Active, name: Names, pid: Pids \cup {-1}, purpose: Purposes,
           after: Afters, want: Presets, specs: SUBSET Names, todo: SUBSET Names,
           restarted: SUBSET Names, command: Commands \cup {"go"}]

SomeName == CHOOSE n \in Names : TRUE
Asleep(pc) == [pc |-> pc, name |-> SomeName, pid |-> -1, purpose |-> "start",
               after |-> "nothing", want |-> [n \in Names |-> 0], specs |-> {},
               todo |-> {}, restarted |-> {}, command |-> "go"]

Init ==
    /\ proc = [p \in Pids |-> [state |-> "free", by |-> "other", name |-> SomeName]]
    /\ file = [n \in Names |-> Nobody]
    /\ preset = [n \in Names |-> 0]
    /\ agent = [a \in Agents |-> Asleep("off")]

(***************************************************************************)
(* What the steps of the supervisor are made of.                           *)
(***************************************************************************)
Me(a) == agent[a]
Becomes(a, self) == agent' = [agent EXCEPT ![a] = self]
Goes(a, pc) == Becomes(a, [Me(a) EXCEPT !.pc = pc])

\* `record`: what the file says of a server, unless its process is gone.
Mine(n) == file[n] # Nobody /\ Alive(file[n].pid)
Forgotten(n) == [file EXCEPT ![n] = Nobody]
Dropped(n) == IF Mine(n) THEN file ELSE Forgotten(n)

\* The children of a process that ends are init's, which collects the dead ones.
Orphaned(a, procs) ==
    [p \in Pids |->
        IF procs[p].by # a THEN procs[p]
        ELSE [procs[p] EXCEPT !.by = "init",
                              !.state = IF @ = "zombie" THEN "gone" ELSE @]]

\* A process that ends is a zombie until its parent collects it, and the parent
\* keeps its number until then.
Corpse(p, collector) ==
    LET parent == proc[p].by \in Agents \ {collector} IN
    [proc[p] EXCEPT !.state = IF Zombies /\ parent THEN "zombie" ELSE "gone",
                    !.by = IF parent \/ @ = "other" THEN @ ELSE "init"]

Leaves(a, how, procs) == Becomes(a, Asleep(how)) /\ proc' = Orphaned(a, procs)

\* Back between two tickets.
Works(a) == Becomes(a, [Me(a) EXCEPT !.pc = "work", !.purpose = "keep", !.todo = {},
                                     !.pid = -1, !.after = "nothing"])

\* A server is up, whoever serves it.
Serves(a) ==
    LET rest == Me(a).todo \ {Me(a).name} IN
    \/ /\ Me(a).purpose = "command" /\ Leaves(a, "served", proc)
    \/ /\ Me(a).purpose = "start" /\ UNCHANGED proc
       /\ \E n \in rest : Becomes(a, [Me(a) EXCEPT !.pc = "look", !.name = n,
                                                   !.pid = -1, !.todo = rest])
    \/ /\ Me(a).purpose # "command" /\ UNCHANGED proc
       /\ Me(a).purpose = "start" => rest = {}
       /\ Works(a)

\* `stop_owned`: the servers the file says a run started.
Stops(a) == Becomes(a, [Me(a) EXCEPT !.pc = "stop", !.pid = -1,
                                     !.todo = {n \in Names : file'[n].owner = "run"}])

\* `ServerError`: a queue that has begun is ended, and one that has not is refused.
Fails(a, procs) ==
    \/ Me(a).purpose = "command" /\ Leaves(a, "failed", procs)
    \/ Me(a).purpose = "start" /\ Leaves(a, "refused", procs)
    \/ Me(a).purpose \in {"keep", "lease"} /\ Stops(a) /\ proc' = procs

Kills(a, pid, after) ==
    Becomes(a, [Me(a) EXCEPT !.pc = "kill", !.pid = pid, !.after = after])

(***************************************************************************)
(* `ensure`, `_start` and `_kill`.                                         *)
(***************************************************************************)

\* The port answers: whoever it is serves what is asked for, or does not.
Answered(a) == Serves(a) \/ Fails(a, proc)

\* (mutant) what answers is written down as ours
LookAdopts(a) ==
    LET n == Me(a).name IN
    /\ Me(a).pc = "look" /\ ~Mine(n) /\ Listening(n)
    /\ \E p \in Pids :
          /\ proc[p].state = "up" /\ proc[p].name = n
          /\ file' = [file EXCEPT ![n] = [pid |-> p, owner |-> "run", preset |-> preset[n]]]
    /\ Answered(a)
    /\ UNCHANGED preset

LookElsewhere(a) ==
    /\ Me(a).pc = "look" /\ ~Mine(Me(a).name) /\ Listening(Me(a).name)
    /\ file' = Dropped(Me(a).name)
    /\ Answered(a)
    /\ UNCHANGED preset

\* Nobody is there; or whoever was hung has been killed.
LookAtNothing(a) ==
    /\ Me(a).pc \in {"look", "port"} /\ ~Listening(Me(a).name)
    /\ Me(a).pc = "look" => ~Mine(Me(a).name)
    /\ file' = IF Me(a).pc = "look" THEN Dropped(Me(a).name) ELSE file
    /\ Goes(a, "spawn")
    /\ UNCHANGED <<proc, preset>>

LookAgain(a) ==
    /\ Me(a).pc = "port" /\ Listening(Me(a).name)
    /\ UNCHANGED <<file, preset>>
    /\ Answered(a)

\* (mutant) a second copy is started beside one that hangs
LookPast(a) ==
    LET n == Me(a).name IN
    /\ Me(a).pc = "look" /\ Mine(n) /\ UNCHANGED <<file, preset>>
    /\ \/ ~Listening(n) /\ Goes(a, "spawn") /\ UNCHANGED proc
       \/ /\ Listening(n) /\ file[n].preset # Me(a).want[n]
          /\ Kills(a, file[n].pid, "spawn") /\ UNCHANGED proc
       \/ Listening(n) /\ file[n].preset = Me(a).want[n] /\ Answered(a)

\* Ours: one that hangs or serves something else is replaced.
LookAtMine(a) ==
    LET n == Me(a).name IN
    /\ Me(a).pc = "look" /\ Mine(n) /\ UNCHANGED <<file, preset>>
    /\ \/ ~Listening(n) /\ Kills(a, file[n].pid, "port") /\ UNCHANGED proc
       \/ /\ Listening(n) /\ file[n].preset # Me(a).want[n]
          /\ Kills(a, file[n].pid, "spawn") /\ UNCHANGED proc
       \/ Listening(n) /\ file[n].preset = Me(a).want[n] /\ Answered(a)

Spent(p) == proc[p].state = "gone" /\ proc[p].by \notin Agents

\* The number of a new process: one that is free, or that another had.
NewPids ==
    LET free == {p \in Pids : proc[p].state = "free"} IN
    {p \in free : \A q \in free : p <= q}
        \cup {p \in Pids : "reuse" \in Weather /\ Spent(p)}

Spawn(a) ==
    /\ Me(a).pc = "spawn"
    /\ \E p \in NewPids :
          /\ proc' = [proc EXCEPT ![p] = [state |-> "coming", by |-> a,
                                          name |-> Me(a).name]]
          /\ Becomes(a, [Me(a) EXCEPT !.pc = "bind", !.pid = p])
    /\ UNCHANGED <<file, preset>>

SpawnFails(a) ==
    /\ Me(a).pc = "spawn" /\ UNCHANGED file
    /\ Fails(a, proc)
    /\ UNCHANGED preset

\* (mutant) a server is written down under the process that started it
OwnerNamed(a) == a

Owner(a) == IF a = "run" THEN "run" ELSE "cli"

WriteDown(a) ==
    LET n == Me(a).name IN
    /\ Me(a).pc = "bind"
    /\ file' = [file EXCEPT ![n] = [pid |-> Me(a).pid, owner |-> Owner(a),
                                    preset |-> Me(a).want[n]]]
    /\ Goes(a, "wait")
    /\ UNCHANGED <<proc, preset>>

\* `poll`: the server ended while it was starting.
Exited(a) ==
    LET p == Me(a).pid IN
    /\ Me(a).pc = "wait" /\ ~Lives(p)
    /\ file' = Forgotten(Me(a).name)
    /\ Fails(a, [proc EXCEPT ![p].state = "gone", ![p].by = "init"])
    /\ UNCHANGED preset

\* The port answers, and what answers is ready.
Ready(a) ==
    /\ Me(a).pc = "wait" /\ Lives(Me(a).pid) /\ Listening(Me(a).name)
    /\ Serves(a)
    /\ UNCHANGED <<file, preset>>

\* (mutant) a server that is not ready in time is left as it is
TooLongLeaves(a) ==
    /\ Me(a).pc = "wait"
    /\ file' = Forgotten(Me(a).name)
    /\ Fails(a, proc)
    /\ UNCHANGED preset

\* (mutant) the time to start is only looked at once the server answers
TooLongAfterAll(a) ==
    /\ Me(a).pc = "wait" /\ Listening(Me(a).name)
    /\ Kills(a, Me(a).pid, "fail")
    /\ UNCHANGED <<proc, file, preset>>

TooLong(a) ==
    /\ Me(a).pc = "wait"
    /\ Kills(a, Me(a).pid, "fail")
    /\ UNCHANGED <<proc, file, preset>>


Kill(a) ==
    LET p == Me(a).pid IN
    /\ Me(a).pc = "kill"
    /\ proc' = IF Alive(p) THEN [proc EXCEPT ![p] = Corpse(p, a)] ELSE proc
    /\ Goes(a, "forget")
    /\ UNCHANGED <<file, preset>>

\* The kill was not delivered, or the process does not go in time.
KillMisses(a) ==
    /\ "stubborn" \in Weather /\ Me(a).pc = "kill"
    /\ Goes(a, "forget")
    /\ UNCHANGED <<proc, file, preset>>

Forget(a) ==
    /\ Me(a).pc = "forget"
    /\ file' = Forgotten(Me(a).name)
    /\ \/ /\ Me(a).after \in {"port", "spawn", "look"} /\ Goes(a, Me(a).after)
          /\ UNCHANGED proc
       \/ Me(a).after = "fail" /\ Fails(a, proc)
       \/ Me(a).after = "stop" /\ Goes(a, "stop") /\ UNCHANGED proc
       \/ Me(a).after = "leave" /\ Leaves(a, "off", proc)
    /\ UNCHANGED preset

(***************************************************************************)
(* `forge go`: `start`, `keep`, the lease's `restart`, and `stop`.         *)
(***************************************************************************)
Free(a) == Me(a).pc \in Idle
Alone(command) == Free("run") \/ command \in Beside

Go ==
    /\ Free("run") /\ (Free("hand") \/ Me("hand").command \in Beside)
    /\ \E S \in SUBSET Names : \E n \in S :
          Becomes("run", [Asleep("look") EXCEPT !.name = n, !.want = preset,
                                                !.specs = S, !.todo = S])
    /\ UNCHANGED <<proc, file, preset>>

\* (mutant) what has died is only forgotten
CheckForgets(n) ==
    /\ Me("run").pc = "work" /\ n \in Me("run").specs
    /\ file[n] # Nobody /\ ~Alive(file[n].pid)
    /\ file' = Forgotten(n)
    /\ UNCHANGED <<proc, preset, agent>>

\* `check`: what has died is started again, once.
Check(n) ==
    /\ Me("run").pc = "work" /\ n \in Me("run").specs
    /\ file[n] # Nobody /\ ~Alive(file[n].pid)
    /\ file' = Forgotten(n)
    /\ \/ n \in Me("run").restarted /\ Stops("run")
       \/ /\ n \notin Me("run").restarted
          /\ Becomes("run", [Me("run") EXCEPT !.pc = "spawn", !.name = n,
                                              !.restarted = @ \cup {n}])
    /\ UNCHANGED <<proc, preset>>

\* A server that will not give the card back is restarted, if it is ours.
Lease(n) ==
    /\ Me("run").pc = "work" /\ n \in Me("run").specs \cap Leased
    /\ file' = Dropped(n)
    /\ IF Mine(n)
       THEN Becomes("run", [Me("run") EXCEPT !.pc = "kill", !.name = n, !.after = "look",
                                             !.pid = file[n].pid, !.purpose = "lease"])
       ELSE UNCHANGED agent
    /\ UNCHANGED <<proc, preset>>

\* (mutant) a queue takes down the servers it brought up
FinishOwn ==
    /\ Me("run").pc = "work" /\ UNCHANGED <<proc, file, preset>>
    /\ Becomes("run", [Me("run") EXCEPT
          !.pc = "stop", !.todo = {n \in Me("run").specs : file[n].owner = "run"}])

Finish ==
    /\ Me("run").pc = "work" /\ UNCHANGED <<proc, file, preset>>
    /\ Stops("run")

StopNext ==
    /\ Me("run").pc = "stop" /\ UNCHANGED preset
    /\ \/ Me("run").todo = {} /\ Leaves("run", "ended", proc) /\ UNCHANGED file
       \/ \E n \in Me("run").todo :
             LET rest == [Me("run") EXCEPT !.todo = @ \ {n}] IN
             /\ file' = Dropped(n) /\ UNCHANGED proc
             /\ IF Mine(n)
                THEN Becomes("run", [rest EXCEPT !.pc = "kill", !.name = n,
                                                 !.after = "stop", !.pid = file[n].pid])
                ELSE Becomes("run", rest)

(***************************************************************************)
(* `forge llama` and `forge comfy`: start, stop and status.                *)
(***************************************************************************)
Start(n) ==
    /\ Free("hand") /\ Alone("start")
    /\ Becomes("hand", [Asleep("look") EXCEPT !.name = n, !.want = preset, !.todo = {n},
                                              !.purpose = "command", !.command = "start"])
    /\ UNCHANGED <<proc, file, preset>>

Stop(n) ==
    /\ Free("hand") /\ Alone("stop")
    /\ file' = Dropped(n)
    /\ Becomes("hand",
          IF ~Mine(n) THEN Asleep("off")
          ELSE [Asleep("kill") EXCEPT !.name = n, !.pid = file[n].pid, !.after = "leave",
                                      !.purpose = "command", !.command = "stop"])
    /\ UNCHANGED <<proc, preset>>

\* Looking drops what has died from the record.
Status(n) ==
    /\ Free("hand") /\ Alone("status")
    /\ file' = Dropped(n)
    /\ UNCHANGED <<proc, preset, agent>>

\* A process of forge is killed outright.
Killed(a) ==
    /\ ~Free(a)
    /\ "killedAtSpawn" \in Weather \/ ("killed" \in Weather /\ Me(a).pc # "bind")
    /\ Leaves(a, "dead", proc)
    /\ UNCHANGED <<file, preset>>

(***************************************************************************)
(* The machine, and what people do on it.                                  *)
(***************************************************************************)
Turns(p, state) == proc' = [proc EXCEPT ![p].state = state] /\ UNCHANGED <<file, preset, agent>>
Dead(p) == proc' = [proc EXCEPT ![p] = Corpse(p, "init")] /\ UNCHANGED <<file, preset, agent>>

\* A server takes its port, or ends because somebody has it.
Comes(p) ==
    /\ proc[p].state = "coming"
    /\ \/ ~Listening(proc[p].name) /\ Turns(p, "up")
       \/ Listening(proc[p].name) /\ Dead(p)

Dies(p) == "dies" \in Weather /\ Lives(p) /\ Dead(p)
Deafens(p) == "deaf" \in Weather /\ proc[p].state = "up" /\ Forges(p) /\ Turns(p, "deaf")

Other(p, state, n) ==
    /\ proc' = [proc EXCEPT ![p] = [state |-> state, by |-> "other", name |-> n]]
    /\ UNCHANGED <<file, preset, agent>>

\* Somebody runs a server of their own, or the number goes to something else.
Outside(n) ==
    /\ "outside" \in Weather /\ ~Listening(n)
    /\ \E p \in NewPids : Other(p, "up", n)
Reuse(p) == "reuse" \in Weather /\ Spent(p) /\ Other(p, "deaf", SomeName)

\* The configuration is read when a command begins, and a change made while one
\* is up is one made after it.
Edit(n) ==
    /\ "edit" \in Weather /\ preset[n] < MaxPreset
    /\ Free("run") /\ Free("hand")
    /\ preset' = [preset EXCEPT ![n] = @ + 1]
    /\ UNCHANGED <<proc, file, agent>>

Steps(a) ==
    \/ LookElsewhere(a) \/ LookAtNothing(a) \/ LookAgain(a) \/ LookAtMine(a)
    \/ Spawn(a) \/ SpawnFails(a) \/ WriteDown(a)
    \/ Exited(a) \/ Ready(a) \/ TooLong(a)
    \/ Kill(a) \/ KillMisses(a) \/ Forget(a)

Next ==
    \/ \E a \in Agents : Steps(a) \/ Killed(a)
    \/ Go \/ Finish \/ StopNext
    \/ \E n \in Names : Check(n) \/ Lease(n) \/ Start(n) \/ Stop(n) \/ Status(n)
                          \/ Outside(n) \/ Edit(n)
    \/ \E p \in Pids : Comes(p) \/ Dies(p) \/ Deafens(p) \/ Reuse(p)

Spec == Init /\ [][Next]_vars

\* A run that is up goes on, and looks after its servers between tickets: it
\* comes back to each of them however often it is busy with another.
FairSpec ==
    /\ Spec
    /\ \A a \in Agents : WF_vars(Steps(a))
    /\ WF_vars(StopNext)
    /\ \A n \in Names : SF_vars(Check(n))

-----------------------------------------------------------------------------
(***************************************************************************)
(* Properties.                                                             *)
(***************************************************************************)

\* Every variable has its type: in particular a server on record belongs to a
\* run or to a person.
TypeOK ==
    /\ proc \in [Pids -> Processes]
    /\ file \in [Names -> Entries]
    /\ preset \in Presets
    /\ agent \in [Agents -> Agency]

\* Forge only stops what it started: a server it adopted, or another process,
\* is never killed, whoever died and whatever was forgotten before.
OnlyItsOwn == \A a \in Agents : Me(a).pc = "kill" => Forges(Me(a).pid)

\* Every server of forge that lives is on record, or is about to be by the
\* process that just started it: none is left holding the card unknown to all.
WrittenDown ==
    \A p \in Pids :
        Lives(p) /\ Forges(p) =>
            \/ \E n \in Names : file[n].pid = p
            \/ \E a \in Agents : Me(a).pc = "bind" /\ Me(a).pid = p

\* No second copy of a server is started beside one of forge's that lives,
\* hung or half started by a process that is gone included.
OneCopy ==
    \A p, q \in Pids :
        /\ Lives(p) /\ Forges(p) /\ Lives(q) /\ Forges(q)
        /\ proc[p].name = proc[q].name
        => p = q

\* When a queue ends, no server that runs started lives on, those of a `forge go`
\* that was killed included: what is left is a person's or was adopted.
RunTakesItsServersDown ==
    Me("run").pc = "ended" =>
        \A n \in Names : file[n].owner = "run" => ~Lives(file[n].pid)

\* A server of the run that died while the run works is up again in the end, or
\* the run is over; those that a lease restarts are not promised it.
Died(n) ==
    /\ Me("run").pc = "work" /\ n \in Me("run").specs
    /\ file[n] # Nobody /\ ~Lives(file[n].pid)
KeptIsRestarted == \A n \in Names \ Leased : Died(n) ~> Listening(n) \/ Free("run")

\* Starting, replacing and stopping come to an end, whatever hangs, will not die
\* or is stopped by somebody else meanwhile.
Settled == Idle \cup {"work"}
Returns == \A a \in Agents : Me(a).pc \notin Settled ~> Me(a).pc \in Settled

\* A run never ends the server a person asked for: only the person's command
\* does. The code does not keep this.
RunSparesPersons ==
    Me("run").pc = "kill" =>
        \A n \in Names : file[n].pid = Me("run").pid => file[n].owner = "run"
=============================================================================
