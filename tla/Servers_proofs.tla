---------------------------- MODULE Servers_proofs ----------------------------
(***************************************************************************)
(* Proofs about the servers of a run, for every set of servers, process     *)
(* numbers and configurations.                                             *)
(***************************************************************************)
EXTENDS Servers, TLAPS

\* A name there is.
LEMMA SomeNameType == SomeName \in Names
BY ServersAssumption DEF SomeName

\* The fields of a process of forge.
LEMMA MeType ==
    ASSUME TypeOK, NEW a \in Agents
    PROVE  /\ Me(a) \in Agency
           /\ Me(a).pc \in Idle \cup Active /\ Me(a).name \in Names
           /\ Me(a).pid \in Pids \cup {-1} /\ Me(a).want \in Presets
           /\ Me(a).todo \subseteq Names /\ Me(a).specs \subseteq Names
           /\ Me(a).restarted \subseteq Names
BY DEF TypeOK, Agency, Me

\* What a process becomes is all that changes of them.
LEMMA BecomesType ==
    ASSUME TypeOK, NEW a \in Agents, NEW self \in Agency, Becomes(a, self)
    PROVE  /\ agent' \in [Agents -> Agency] /\ agent'[a] = self
           /\ \A b \in Agents \ {a} : agent'[b] = agent[b]
BY DEF TypeOK, Becomes

\* A process that is not at work is one.
LEMMA AsleepType ==
    ASSUME NEW pc \in Idle \cup Active
    PROVE  Asleep(pc) \in Agency
BY SomeNameType, ServersAssumption DEF Asleep, Agency, Purposes, Afters, Presets, Versions, Commands

\* What is left of a process is one.
LEMMA CorpseType ==
    ASSUME TypeOK, NEW p \in Pids, NEW c \in Agents \cup {"init"}
    PROVE  Corpse(p, c) \in Processes /\ Corpse(p, c).state \in {"zombie", "gone"}
           /\ Corpse(p, c).name = proc[p].name
           /\ (Corpse(p, c).by = "other" <=> proc[p].by = "other")
BY DEF TypeOK, Corpse, Processes, Agents

\* A process that leaves hands its children over and changes nothing of them
\* that lives.
LEMMA OrphanedType ==
    ASSUME NEW a \in Agents, NEW procs \in [Pids -> Processes]
    PROVE  /\ Orphaned(a, procs) \in [Pids -> Processes]
           /\ \A p \in Pids :
                 /\ Orphaned(a, procs)[p].name = procs[p].name
                 /\ Orphaned(a, procs)[p].by = "other" <=> procs[p].by = "other"
                 /\ Orphaned(a, procs)[p].state # procs[p].state =>
                       Orphaned(a, procs)[p].state = "gone" /\ procs[p].state = "zombie"
BY DEF Orphaned, Processes, Agents

-----------------------------------------------------------------------------
(***************************************************************************)
(* What the steps are made of.                                             *)
(***************************************************************************)

\* The processes are those of procs, but for what init has collected.
Alike(procs) ==
    /\ proc' \in [Pids -> Processes]
    /\ \A p \in Pids :
          /\ proc'[p].name = procs[p].name
          /\ proc'[p].by = "other" <=> procs[p].by = "other"
          /\ proc'[p].state \in Living <=> procs[p].state \in Living
          /\ proc'[p].state = "free" <=> procs[p].state = "free"

\* One process of forge takes a step, and is where it says.
Moves(a, pcs) ==
    /\ agent' \in [Agents -> Agency]
    /\ \A b \in Agents \ {a} : agent'[b] = agent[b]
    /\ agent'[a].pc \in pcs

\* Going on leaves everything else in hand.
LEMMA Going ==
    ASSUME TypeOK, NEW a \in Agents, NEW pc \in Active, Goes(a, pc)
    PROVE  /\ Moves(a, {pc}) /\ agent'[a].name = Me(a).name /\ agent'[a].pid = Me(a).pid
           /\ agent'[a].after = Me(a).after /\ agent'[a].todo = Me(a).todo
<1> DEFINE self == [Me(a) EXCEPT !.pc = pc]
<1>1. /\ self \in Agency /\ self.pc = pc /\ self.name = Me(a).name /\ self.pid = Me(a).pid
      /\ self.after = Me(a).after /\ self.todo = Me(a).todo
  BY MeType DEF Agency
<1> QED
  BY <1>1, BecomesType DEF Goes, Moves

\* A process to kill is taken in hand.
LEMMA Killing ==
    ASSUME TypeOK, NEW a \in Agents, NEW pid \in Pids, NEW after \in Afters,
           Kills(a, pid, after)
    PROVE  /\ Moves(a, {"kill"}) /\ agent'[a].name = Me(a).name
           /\ agent'[a].pid = pid /\ agent'[a].after = after
<1> DEFINE self == [Me(a) EXCEPT !.pc = "kill", !.pid = pid, !.after = after]
<1>1. /\ self \in Agency /\ self.pc = "kill" /\ self.name = Me(a).name
      /\ self.pid = pid /\ self.after = after
  BY MeType DEF Agency, Active
<1> QED
  BY <1>1, BecomesType DEF Kills, Moves

\* Processes that did not change are alike.
LEMMA Unchanged ==
    ASSUME TypeOK, UNCHANGED proc
    PROVE  Alike(proc)
BY DEF TypeOK, Alike

\* A process that leaves forgets everything.
LEMMA Leaving ==
    ASSUME TypeOK, NEW a \in Agents, NEW how \in Idle,
           NEW procs \in [Pids -> Processes], Leaves(a, how, procs)
    PROVE  Moves(a, {how}) /\ Alike(procs)
<1>1. Asleep(how) \in Agency /\ Asleep(how).pc = how
  BY AsleepType DEF Asleep
<1>2. Moves(a, {how})
  BY <1>1, BecomesType DEF Leaves, Moves
<1>3. Alike(procs)
  BY OrphanedType DEF Leaves, Alike, Living
<1> QED
  BY <1>2, <1>3

\* A run that stops is to see to every server that runs started.
LEMMA Stopped ==
    ASSUME TypeOK, NEW a \in Agents, Stops(a)
    PROVE  Moves(a, {"stop"}) /\ agent'[a].todo = {n \in Names : file'[n].owner = "run"}
<1> DEFINE self == [Me(a) EXCEPT !.pc = "stop", !.pid = -1,
                                 !.todo = {n \in Names : file'[n].owner = "run"}]
<1>1. /\ self \in Agency /\ self.pc = "stop"
      /\ self.todo = {n \in Names : file'[n].owner = "run"}
  BY MeType DEF Agency, Active
<1> QED
  BY <1>1, BecomesType DEF Stops, Moves

\* Once a server is served a process goes to the next one, to work or away.
LEMMA Serving ==
    ASSUME TypeOK, NEW a \in Agents, Serves(a)
    PROVE  Moves(a, {"served", "look", "work"}) /\ Alike(proc)
<1>1. CASE Leaves(a, "served", proc)
  <2>1. "served" \in Idle /\ proc \in [Pids -> Processes]
    BY DEF Idle, TypeOK
  <2> QED
    BY <1>1, <2>1, Leaving DEF Moves
<1>2. CASE /\ UNCHANGED proc
           /\ \E n \in Me(a).todo \ {Me(a).name} :
                 Becomes(a, [Me(a) EXCEPT !.pc = "look", !.name = n, !.pid = -1,
                                          !.todo = Me(a).todo \ {Me(a).name}])
  <2>1. PICK n \in Names :
          Becomes(a, [Me(a) EXCEPT !.pc = "look", !.name = n, !.pid = -1,
                                   !.todo = Me(a).todo \ {Me(a).name}])
    BY <1>2, MeType
  <2> DEFINE self == [Me(a) EXCEPT !.pc = "look", !.name = n, !.pid = -1,
                                   !.todo = Me(a).todo \ {Me(a).name}]
  <2>2. self \in Agency /\ self.pc = "look"
    BY MeType DEF Agency, Active
  <2>3. Moves(a, {"look"})
    BY <2>1, <2>2, BecomesType DEF Moves
  <2> QED
    BY <1>2, <2>3, Unchanged DEF Moves
<1>3. CASE UNCHANGED proc /\ Works(a)
  <2> DEFINE self == [Me(a) EXCEPT !.pc = "work", !.purpose = "keep", !.todo = {},
                                   !.pid = -1, !.after = "nothing"]
  <2>1. self \in Agency /\ self.pc = "work"
    BY MeType DEF Agency, Active, Purposes, Afters
  <2>2. Moves(a, {"work"})
    BY <1>3, <2>1, BecomesType DEF Works, Moves
  <2> QED
    BY <1>3, <2>2, Unchanged DEF Moves
<1> QED
  BY <1>1, <1>2, <1>3 DEF Serves

\* A process that fails leaves, or takes its servers down.
LEMMA Failing ==
    ASSUME TypeOK, NEW a \in Agents, NEW procs \in [Pids -> Processes], Fails(a, procs)
    PROVE  /\ Moves(a, {"failed", "refused", "stop"}) /\ Alike(procs)
           /\ agent'[a].pc = "stop" =>
                 agent'[a].todo = {n \in Names : file'[n].owner = "run"}
<1>1. CASE Leaves(a, "failed", procs) \/ Leaves(a, "refused", procs)
  <2>1. "failed" \in Idle /\ "refused" \in Idle
    BY DEF Idle
  <2>2. Alike(procs) /\ (Moves(a, {"failed"}) \/ Moves(a, {"refused"}))
    BY <1>1, <2>1, Leaving
  <2> QED
    BY <2>2 DEF Moves
<1>2. CASE Stops(a) /\ proc' = procs
  BY <1>2, Stopped DEF Moves, Alike
<1> QED
  BY <1>1, <1>2 DEF Fails

-----------------------------------------------------------------------------
(***************************************************************************)
(* Types.                                                                  *)
(***************************************************************************)

\* Striking a server off the record leaves a record.
LEMMA FileType ==
    ASSUME TypeOK, NEW n \in Names
    PROVE  /\ Forgotten(n) \in [Names -> Entries] /\ Dropped(n) \in [Names -> Entries]
           /\ file[n] # Nobody => file[n].pid \in Pids
           /\ Mine(n) => file[n].pid \in Pids /\ Dropped(n) = file
BY DEF TypeOK, Entries, Forgotten, Dropped, Mine

\* A process that starts, awaits or kills a server has its number.
Numbered == \A a \in Agents : Me(a).pc \in {"bind", "wait", "kill"} => Me(a).pid \in Pids

\* A step of one process keeps the numbers when that process has one.
LEMMA NumberedStep ==
    ASSUME Numbered, NEW a \in Agents, NEW pcs, Moves(a, pcs),
           \/ pcs \cap {"bind", "wait", "kill"} = {}
           \/ agent'[a].pid \in Pids
    PROVE  Numbered' /\ agent' \in [Agents -> Agency]
BY DEF Numbered, Moves, Me

\* The steps of the supervisor keep the types.
LEMMA StepsType ==
    ASSUME TypeOK, Numbered, NEW a \in Agents, Steps(a)
    PROVE  TypeOK' /\ Numbered'
<1> USE DEF Active, Afters
<1> DEFINE Agreed == agent' \in [Agents -> Agency] /\ Numbered'
           Procs == proc' \in [Pids -> Processes]
<1>f. Forgotten(Me(a).name) \in [Names -> Entries] /\ Dropped(Me(a).name) \in [Names -> Entries]
      /\ (Mine(Me(a).name) => file[Me(a).name].pid \in Pids)
  BY FileType, MeType
<1>p. proc \in [Pids -> Processes]
  BY DEF TypeOK
<1>s. ASSUME Serves(a) PROVE Agreed /\ Procs
  BY <1>s, Serving, NumberedStep DEF Alike
<1>e. ASSUME NEW procs \in [Pids -> Processes], Fails(a, procs) PROVE Agreed /\ Procs
  BY <1>e, Failing, NumberedStep DEF Alike
<1>a. ASSUME Answered(a) PROVE Agreed /\ Procs
  BY <1>a, <1>s, <1>e, <1>p DEF Answered
<1>k. ASSUME NEW pid \in Pids, NEW after \in Afters, Kills(a, pid, after) PROVE Agreed
  BY <1>k, Killing, NumberedStep
<1>g. ASSUME NEW pc \in Active, Goes(a, pc), Me(a).pid \in Pids \/ pc \notin {"bind", "wait", "kill"}
      PROVE  Agreed
  BY <1>g, Going, NumberedStep
<1>1. CASE LookElsewhere(a)
  BY <1>1, <1>a, <1>f DEF LookElsewhere, TypeOK
<1>2. CASE LookAtNothing(a)
  BY <1>2, <1>f, <1>g DEF LookAtNothing, TypeOK
<1>3. CASE LookAgain(a)
  BY <1>3, <1>a DEF LookAgain, TypeOK
<1>4. CASE LookAtMine(a)
  BY <1>4, <1>a, <1>f, <1>k DEF LookAtMine, TypeOK
<1>5. CASE Spawn(a)
  <2>1. PICK p \in Pids :
          /\ proc' = [proc EXCEPT ![p] = [state |-> "coming", by |-> a, name |-> Me(a).name]]
          /\ Becomes(a, [Me(a) EXCEPT !.pc = "bind", !.pid = p])
    BY <1>5 DEF Spawn, NewPids
  <2> DEFINE self == [Me(a) EXCEPT !.pc = "bind", !.pid = p]
  <2>2. self \in Agency /\ self.pid = p /\ self.pc = "bind"
    BY MeType DEF Agency
  <2>3. [state |-> "coming", by |-> a, name |-> Me(a).name] \in Processes
    BY MeType DEF Processes
  <2>4. Moves(a, {"bind"}) /\ agent'[a].pid = p
    BY <2>1, <2>2, BecomesType DEF Moves
  <2> QED
    BY <1>5, <2>1, <2>3, <2>4, NumberedStep DEF Spawn, TypeOK
<1>6. CASE SpawnFails(a)
  BY <1>6, <1>e, <1>p DEF SpawnFails, TypeOK
<1>7. CASE WriteDown(a)
  <2>1. Me(a).pid \in Pids
    BY <1>7 DEF WriteDown, Numbered
  <2>2. [pid |-> Me(a).pid, owner |-> Owner(a), preset |-> Me(a).want[Me(a).name]] \in Entries
    BY <2>1, MeType DEF Entries, Owner, Presets
  <2> QED
    BY <1>7, <2>1, <2>2, <1>g DEF WriteDown, TypeOK
<1>8. CASE Exited(a)
  <2>1. [proc EXCEPT ![Me(a).pid].state = "gone", ![Me(a).pid].by = "init"] \in [Pids -> Processes]
    BY <1>p DEF Processes
  <2> QED
    BY <1>8, <2>1, <1>e, <1>f DEF Exited, TypeOK
<1>9. CASE Ready(a)
  BY <1>9, <1>s DEF Ready, TypeOK
<1>10. CASE TooLong(a)
  <2>1. Me(a).pid \in Pids
    BY <1>10 DEF TooLong, Numbered
  <2> QED
    BY <1>10, <2>1, <1>k DEF TooLong, TypeOK
<1>11. CASE Kill(a)
  BY <1>11, <1>g, CorpseType DEF Kill, TypeOK
<1>12. CASE KillMisses(a)
  BY <1>12, <1>g DEF KillMisses, TypeOK
<1>13. CASE Forget(a)
  <2>1. Agreed /\ Procs
    <3>1. CASE Me(a).after \in {"port", "spawn", "look"} /\ Goes(a, Me(a).after) /\ UNCHANGED proc
      BY <3>1, <1>g, <1>p
    <3>2. CASE Fails(a, proc)
      BY <3>2, <1>e, <1>p
    <3>3. CASE Goes(a, "stop") /\ UNCHANGED proc
      BY <3>3, <1>g, <1>p
    <3>4. CASE Leaves(a, "off", proc)
      <4>1. Moves(a, {"off"}) /\ Alike(proc)
        BY <3>4, <1>p, Leaving DEF Idle
      <4> QED
        BY <4>1, NumberedStep DEF Alike
    <3> QED
      BY <1>13, <3>1, <3>2, <3>3, <3>4 DEF Forget
  <2> QED
    BY <1>13, <2>1, <1>f DEF Forget, TypeOK
<1> QED
  BY <1>1, <1>2, <1>3, <1>4, <1>5, <1>6, <1>7, <1>8, <1>9, <1>10, <1>11, <1>12, <1>13 DEF Steps

\* A run begins by looking for its first server.
LEMMA Beginning ==
    ASSUME TypeOK, Go
    PROVE  Moves("run", {"look"})
<1>1. PICK S \in SUBSET Names, n \in Names :
        Becomes("run", [Asleep("look") EXCEPT !.name = n, !.want = preset,
                                              !.specs = S, !.todo = S])
  BY DEF Go
<1> DEFINE self == [Asleep("look") EXCEPT !.name = n, !.want = preset, !.specs = S, !.todo = S]
<1>2. self \in Agency /\ self.pc = "look"
  <2>1. Asleep("look") \in Agency /\ Asleep("look").pc = "look"
    BY AsleepType DEF Asleep, Active
  <2> QED
    BY <2>1 DEF Agency, TypeOK
<1> QED
  BY <1>1, <1>2, BecomesType DEF Moves, Agents

\* A command to start begins by looking for its server.
LEMMA Starting ==
    ASSUME TypeOK, NEW n \in Names, Start(n)
    PROVE  Moves("hand", {"look"})
<1> DEFINE self == [Asleep("look") EXCEPT !.name = n, !.want = preset, !.todo = {n},
                                          !.purpose = "command", !.command = "start"]
<1>1. self \in Agency /\ self.pc = "look"
  <2>1. Asleep("look") \in Agency /\ Asleep("look").pc = "look"
    BY AsleepType DEF Asleep, Active
  <2> QED
    BY <2>1 DEF Agency, TypeOK, Purposes, Commands
<1> QED
  BY <1>1, BecomesType DEF Start, Moves, Agents

\* A run that finds a server dead starts it again or takes all of them down.
LEMMA Checking ==
    ASSUME TypeOK, NEW n \in Names, Check(n)
    PROVE  \/ Moves("run", {"stop"}) /\ agent'["run"].todo = {m \in Names : file'[m].owner = "run"}
           \/ Moves("run", {"spawn"}) /\ agent'["run"].name = n
<1>1. CASE Stops("run")
  BY <1>1, Stopped DEF Agents
<1>2. CASE Becomes("run", [Me("run") EXCEPT !.pc = "spawn", !.name = n, !.restarted = @ \cup {n}])
  <2> DEFINE self == [Me("run") EXCEPT !.pc = "spawn", !.name = n, !.restarted = @ \cup {n}]
  <2>1. self \in Agency /\ self.pc = "spawn" /\ self.name = n
    BY MeType DEF Agency, Active, Agents
  <2> QED
    BY <1>2, <2>1, BecomesType DEF Moves, Agents
<1> QED
  BY <1>1, <1>2 DEF Check

\* The lease takes the server in hand that it restarts.
LEMMA Leasing ==
    ASSUME TypeOK, NEW n \in Names, Lease(n), Mine(n)
    PROVE  /\ Moves("run", {"kill"}) /\ agent'["run"].name = n
           /\ agent'["run"].pid = file[n].pid /\ agent'["run"].after = "look"
<1> DEFINE self == [Me("run") EXCEPT !.pc = "kill", !.name = n, !.after = "look",
                                     !.pid = file[n].pid, !.purpose = "lease"]
<1>1. /\ self \in Agency /\ self.pc = "kill" /\ self.name = n
      /\ self.pid = file[n].pid /\ self.after = "look"
  BY MeType, FileType DEF Agency, Active, Agents, Afters, Purposes
<1> QED
  BY <1>1, BecomesType DEF Lease, Moves, Agents

\* A run that takes its servers down ends, or sees to one of them.
LEMMA StoppingNext ==
    ASSUME TypeOK, StopNext
    PROVE  \/ /\ Me("run").todo = {} /\ Moves("run", {"ended"}) /\ Alike(proc) /\ UNCHANGED file
           \/ \E n \in Names :
                 /\ agent'["run"].todo = Me("run").todo \ {n}
                 /\ file' = Dropped(n) /\ UNCHANGED proc
                 /\ \/ /\ Mine(n) /\ Moves("run", {"kill"}) /\ agent'["run"].name = n
                       /\ agent'["run"].pid = file[n].pid /\ agent'["run"].after = "stop"
                    \/ ~Mine(n) /\ Moves("run", {"stop"})
<1>1. CASE Me("run").todo = {} /\ Leaves("run", "ended", proc) /\ UNCHANGED file
  <2>1. "run" \in Agents /\ "ended" \in Idle /\ proc \in [Pids -> Processes]
    BY DEF Agents, Idle, TypeOK
  <2> QED
    BY <1>1, <2>1, Leaving
<1>2. ASSUME NEW n \in Me("run").todo, file' = Dropped(n), UNCHANGED proc,
             IF Mine(n)
             THEN Becomes("run", [[Me("run") EXCEPT !.todo = @ \ {n}] EXCEPT
                                    !.pc = "kill", !.name = n, !.after = "stop",
                                    !.pid = file[n].pid])
             ELSE Becomes("run", [Me("run") EXCEPT !.todo = @ \ {n}]),
             Me("run").pc = "stop"
      PROVE  /\ agent'["run"].todo = Me("run").todo \ {n} /\ n \in Names
             /\ \/ /\ Mine(n) /\ Moves("run", {"kill"}) /\ agent'["run"].name = n
                   /\ agent'["run"].pid = file[n].pid /\ agent'["run"].after = "stop"
                \/ ~Mine(n) /\ Moves("run", {"stop"})
  <2> DEFINE rest == [Me("run") EXCEPT !.todo = @ \ {n}]
             self == [rest EXCEPT !.pc = "kill", !.name = n, !.after = "stop",
                                  !.pid = file[n].pid]
  <2>1. /\ rest \in Agency /\ rest.todo = Me("run").todo \ {n} /\ rest.pc = "stop"
        /\ n \in Names
    BY <1>2, MeType DEF Agency, Agents
  <2>2. Mine(n) => /\ self \in Agency /\ self.pc = "kill" /\ self.name = n
                   /\ self.pid = file[n].pid /\ self.after = "stop" /\ self.todo = rest.todo
    BY <2>1, FileType DEF Agency, Active, Afters
  <2>3. CASE Mine(n)
    BY <1>2, <2>1, <2>2, <2>3, BecomesType DEF Moves, Agents
  <2>4. CASE ~Mine(n)
    BY <1>2, <2>1, <2>4, BecomesType DEF Moves, Agents
  <2> QED
    BY <2>1, <2>3, <2>4
<1> QED
  BY <1>1, <1>2 DEF StopNext

\* A command to stop takes a server in hand that is on record.
LEMMA StoppingByHand ==
    ASSUME TypeOK, NEW n \in Names, Stop(n)
    PROVE  \/ /\ Mine(n) /\ Moves("hand", {"kill"}) /\ agent'["hand"].name = n
              /\ agent'["hand"].pid = file[n].pid /\ agent'["hand"].after = "leave"
           \/ ~Mine(n) /\ Moves("hand", {"off"})
<1> DEFINE self == [Asleep("kill") EXCEPT !.name = n, !.pid = file[n].pid, !.after = "leave",
                                          !.purpose = "command", !.command = "stop"]
<1>1. Asleep("kill") \in Agency /\ Asleep("kill").pc = "kill"
      /\ Asleep("off") \in Agency /\ Asleep("off").pc = "off"
  BY AsleepType DEF Asleep, Active, Idle
<1>2. Mine(n) => /\ self \in Agency /\ self.pc = "kill" /\ self.name = n
                 /\ self.pid = file[n].pid /\ self.after = "leave"
  BY <1>1, FileType DEF Agency, Afters, Purposes, Commands
<1>3. CASE Mine(n)
  BY <1>2, <1>3, BecomesType DEF Stop, Moves, Agents
<1>4. CASE ~Mine(n)
  BY <1>1, <1>4, BecomesType DEF Stop, Moves, Agents
<1> QED
  BY <1>3, <1>4

\* Striking a server that is not ours any more off the record.
LEMMA Dropping ==
    ASSUME TypeOK, NEW n \in Names
    PROVE  Dropped(n) \in [Names -> Entries]
           /\ \A m \in Names : Dropped(n)[m] = file[m] \/ Dropped(n)[m] = Nobody
BY FileType DEF Dropped, Forgotten, TypeOK

\* What the machine and the people do besides.
Besides ==
    \/ \E n \in Names : Outside(n) \/ Edit(n)
    \/ \E p \in Pids : Comes(p) \/ Dies(p) \/ Deafens(p) \/ Reuse(p)

\* What happens besides keeps the types and leaves the record and forge alone.
LEMMA BesidesType ==
    ASSUME TypeOK, Besides
    PROVE  TypeOK' /\ UNCHANGED <<file, agent>>
<1>1. ASSUME NEW p \in Pids, NEW state \in {"up", "deaf"}, Turns(p, state)
      PROVE  TypeOK' /\ UNCHANGED <<file, agent>>
  BY <1>1 DEF Turns, TypeOK, Processes
<1>2. ASSUME NEW p \in Pids, Dead(p)
      PROVE  TypeOK' /\ UNCHANGED <<file, agent>>
  BY <1>2, CorpseType DEF Dead, TypeOK
<1>3. ASSUME NEW p \in Pids, NEW state \in {"up", "deaf"}, NEW n \in Names, Other(p, state, n)
      PROVE  TypeOK' /\ UNCHANGED <<file, agent>>
  BY <1>3 DEF Other, TypeOK, Processes
<1>4. ASSUME NEW n \in Names, Edit(n)
      PROVE  TypeOK' /\ UNCHANGED <<file, agent>>
  <2>1. preset[n] + 1 \in Versions
    BY <1>4, ServersAssumption DEF Edit, TypeOK, Presets, Versions
  <2> QED
    BY <1>4, <2>1 DEF Edit, TypeOK, Presets
<1>5. ASSUME NEW n \in Names, Outside(n)
      PROVE  TypeOK' /\ UNCHANGED <<file, agent>>
  BY <1>3, <1>5 DEF Outside, NewPids
<1> QED
  BY <1>1, <1>2, <1>3, <1>4, <1>5, SomeNameType DEF Besides, Comes, Dies, Deafens, Reuse

\* Every step keeps the types.
LEMMA TypeStep ==
    ASSUME TypeOK, Numbered, [Next]_vars
    PROVE  TypeOK' /\ Numbered'
<1> USE DEF Agents
<1>1. CASE \E a \in Agents : Steps(a)
  BY <1>1, StepsType
<1>2. CASE \E a \in Agents : Killed(a)
  <2>1. PICK a \in Agents : Leaves(a, "dead", proc) /\ UNCHANGED <<file, preset>>
    BY <1>2 DEF Killed
  <2>2. Moves(a, {"dead"}) /\ Alike(proc)
    BY <2>1, Leaving DEF Idle, TypeOK
  <2> QED
    BY <2>1, <2>2, NumberedStep DEF TypeOK, Alike
<1>3. CASE Go
  BY <1>3, Beginning, NumberedStep DEF Go, TypeOK
<1>4. CASE Finish
  BY <1>4, Stopped, NumberedStep DEF Finish, TypeOK
<1>5. CASE StopNext
  BY <1>5, StoppingNext, NumberedStep, FileType DEF StopNext, TypeOK, Alike
<1>6. CASE \E n \in Names : Check(n)
  BY <1>6, Checking, NumberedStep, FileType DEF Check, TypeOK
<1>7. CASE \E n \in Names : Lease(n)
  <2>1. PICK n \in Names : Lease(n)
    BY <1>7
  <2>2. agent' \in [Agents -> Agency] /\ Numbered'
    <3>1. CASE Mine(n)
      BY <2>1, <3>1, Leasing, NumberedStep, FileType
    <3>2. CASE ~Mine(n)
      BY <2>1, <3>2 DEF Lease, TypeOK, Numbered, Me
    <3> QED
      BY <3>1, <3>2
  <2> QED
    BY <2>1, <2>2, FileType DEF Lease, TypeOK
<1>8. CASE \E n \in Names : Start(n)
  BY <1>8, Starting, NumberedStep DEF Start, TypeOK
<1>9. CASE \E n \in Names : Stop(n)
  BY <1>9, StoppingByHand, NumberedStep, FileType DEF Stop, TypeOK
<1>10. CASE \E n \in Names : Status(n)
  BY <1>10, FileType DEF Status, TypeOK, Numbered, Me
<1>11. CASE Besides
  BY <1>11, BesidesType DEF Numbered, Me
<1>12. CASE UNCHANGED vars
  BY <1>12 DEF vars, TypeOK, Numbered, Me
<1> QED
  BY <1>1, <1>2, <1>3, <1>4, <1>5, <1>6, <1>7, <1>8, <1>9, <1>10, <1>11, <1>12
  DEF Next, Besides

LEMMA TypeInit ==
    ASSUME Init
    PROVE  TypeOK /\ Numbered
<1>1. Asleep("off") \in Agency /\ Asleep("off").pc = "off"
  BY AsleepType DEF Asleep, Idle
<1> QED
  BY <1>1, SomeNameType, ServersAssumption
  DEF Init, TypeOK, Numbered, Processes, Entries, Presets, Versions, Me, Agents

\* Every variable has its type in every behaviour, whatever the weather and
\* however many commands at once.
THEOREM TypeCorrect == Spec => []TypeOK
<1>1. Spec => [](TypeOK /\ Numbered)
  BY TypeInit, TypeStep, PTL DEF Spec
<1> QED
  BY <1>1, PTL

-----------------------------------------------------------------------------
(***************************************************************************)
(* Forge only stops what it started, where no number is given out twice.   *)
(***************************************************************************)

\* A number that forge gave to a server.
Given(p) == Forges(p) /\ proc[p].state # "free"

\* Forge started what the record names and what a process of it has in hand.
Started ==
    /\ \A n \in Names : file[n] # Nobody => Given(file[n].pid)
    /\ \A a \in Agents : Me(a).pc \in {"bind", "wait", "kill"} => Given(Me(a).pid)

\* A number that was given stays given.
Kept == \A p \in Pids : Given(p) => Given(p)'

\* What is taken in hand or put on record was given.
LEMMA Holding ==
    ASSUME TypeOK, Numbered, Started, Kept,
           \A n \in Names :
              \/ file'[n] \in {file[n], Nobody}
              \/ \E p \in Pids : file'[n].pid = p /\ Given(p),
           \A a \in Agents :
              \/ agent'[a] = agent[a] \/ agent'[a].pc \notin {"bind", "wait", "kill"}
              \/ \E p \in Pids : agent'[a].pid = p /\ (Given(p) \/ Given(p)')
    PROVE  Started'
<1>1. ASSUME NEW n \in Names, file'[n] # Nobody PROVE Given(file[n].pid)' 
  <2>1. PICK p \in Pids : file'[n].pid = p /\ Given(p)
    <3>1. file'[n] = file[n] => file[n].pid \in Pids /\ Given(file[n].pid)
      BY <1>1, FileType DEF Started
    <3> QED
      BY <1>1, <3>1
  <2>2. Given(p)'
    BY <2>1 DEF Kept
  <2> QED
    BY <2>1, <2>2 DEF Given, Forges
<1>2. ASSUME NEW a \in Agents, agent'[a].pc \in {"bind", "wait", "kill"}
      PROVE  Given(agent[a].pid)'
  <2>1. PICK p \in Pids : agent'[a].pid = p /\ (Given(p) \/ Given(p)')
    <3>1. agent'[a] = agent[a] => agent[a].pid \in Pids /\ Given(agent[a].pid)
      BY <1>2 DEF Started, Numbered, Me
    <3> QED
      BY <1>2, <3>1
  <2>2. Given(p)'
    BY <2>1 DEF Kept
  <2> QED
    BY <2>1, <2>2 DEF Given, Forges
<1> QED
  BY <1>1, <1>2 DEF Started, Me

\* Processes that are alike, and one that died, keep their numbers.
LEMMA KeptAlike ==
    ASSUME TypeOK
    PROVE  /\ Alike(proc) => Kept
           /\ UNCHANGED proc => Kept
           /\ \A p \in Pids : Alike([proc EXCEPT ![p].state = "gone", ![p].by = "init"]) /\ Forges(p)
                                => Kept
BY DEF TypeOK, Processes, Alike, Kept, Given, Forges

\* The steps of the supervisor take in hand only what forge started.
LEMMA StepsStarted ==
    ASSUME TypeOK, Numbered, Started, "reuse" \notin Weather, NEW a \in Agents, Steps(a)
    PROVE  Started'
<1> DEFINE n == Me(a).name
<1>p. n \in Names /\ proc \in [Pids -> Processes] /\ file \in [Names -> Entries]
  BY MeType DEF TypeOK
<1>f. \A m \in Names : Dropped(n)[m] \in {file[m], Nobody} /\ Forgotten(n)[m] \in {file[m], Nobody}
  BY <1>p, Dropping DEF Forgotten
<1>m. Mine(n) => file[n].pid \in Pids /\ Given(file[n].pid)
  BY <1>p, FileType DEF Mine, Started
<1>s. ASSUME Serves(a), \A m \in Names : file'[m] \in {file[m], Nobody} PROVE Started'
  BY <1>s, Serving, Holding, KeptAlike DEF Moves
<1>e. ASSUME NEW procs \in [Pids -> Processes], Fails(a, procs), Alike(procs) => Kept,
             \A m \in Names : file'[m] \in {file[m], Nobody}
      PROVE  Started'
  BY <1>e, Failing, Holding DEF Moves
<1>a. ASSUME Answered(a), \A m \in Names : file'[m] \in {file[m], Nobody} PROVE Started'
  BY <1>a, <1>s, <1>e, <1>p, KeptAlike DEF Answered
<1>k. ASSUME NEW pid \in Pids, NEW after \in Afters, Kills(a, pid, after), Given(pid),
             UNCHANGED <<proc, file>>
      PROVE  Started'
  BY <1>k, Killing, Holding, KeptAlike DEF Moves
<1>g. ASSUME NEW pc \in Active \ {"bind", "wait", "kill"}, Goes(a, pc), Kept,
             \A m \in Names : file'[m] \in {file[m], Nobody}
      PROVE  Started'
  BY <1>g, Going, Holding DEF Moves
<1> USE DEF Active, Afters
<1>1. CASE LookElsewhere(a)
  BY <1>1, <1>a, <1>f DEF LookElsewhere
<1>2. CASE LookAtNothing(a)
  BY <1>2, <1>f, <1>g, KeptAlike DEF LookAtNothing
<1>3. CASE LookAgain(a)
  BY <1>3, <1>a DEF LookAgain
<1>4. CASE LookAtMine(a)
  BY <1>4, <1>a, <1>k, <1>m DEF LookAtMine
<1>5. CASE Spawn(a)
  <2>1. PICK p \in Pids :
          /\ proc[p].state = "free"
          /\ proc' = [proc EXCEPT ![p] = [state |-> "coming", by |-> a, name |-> n]]
          /\ Becomes(a, [Me(a) EXCEPT !.pc = "bind", !.pid = p])
    BY <1>5 DEF Spawn, NewPids
  <2> DEFINE self == [Me(a) EXCEPT !.pc = "bind", !.pid = p]
  <2>2. self \in Agency /\ self.pid = p
    BY MeType DEF Agency
  <2>3. agent'[a].pid = p /\ \A b \in Agents \ {a} : agent'[b] = agent[b]
    BY <2>1, <2>2, BecomesType
  <2>4. Given(p)' /\ Kept
    BY <2>1, <1>p DEF Given, Forges, Kept, Agents
  <2> QED
    BY <1>5, <2>3, <2>4, Holding DEF Spawn
<1>6. CASE SpawnFails(a)
  BY <1>6, <1>e, <1>p, KeptAlike DEF SpawnFails
<1>7. CASE WriteDown(a)
  <2>1. Me(a).pid \in Pids /\ Given(Me(a).pid)
    BY <1>7 DEF WriteDown, Numbered, Started
  <2>2. Moves(a, {"wait"}) /\ agent'[a].pid = Me(a).pid
    BY <1>7, Going DEF WriteDown
  <2>3. \A m \in Names : file'[m] = file[m] \/ file'[m].pid = Me(a).pid
    BY <1>7, <1>p DEF WriteDown
  <2> QED
    BY <1>7, <2>1, <2>2, <2>3, Holding, KeptAlike DEF WriteDown, Moves
<1>8. CASE Exited(a)
  <2>1. [proc EXCEPT ![Me(a).pid].state = "gone", ![Me(a).pid].by = "init"] \in [Pids -> Processes]
    BY <1>p DEF Processes
  <2>2. Me(a).pid \in Pids /\ Forges(Me(a).pid)
    BY <1>8 DEF Exited, Numbered, Started, Given
  <2> QED
    BY <1>8, <2>1, <2>2, <1>e, <1>f, KeptAlike DEF Exited
<1>9. CASE Ready(a)
  BY <1>9, <1>s DEF Ready
<1>10. CASE TooLong(a)
  <2>1. Me(a).pid \in Pids /\ Given(Me(a).pid)
    BY <1>10 DEF TooLong, Numbered, Started
  <2> QED
    BY <1>10, <2>1, <1>k DEF TooLong
<1>11. CASE Kill(a)
  <2>1. Kept
    BY <1>11, <1>p, CorpseType DEF Kill, Kept, Given, Forges
  <2> QED
    BY <1>11, <2>1, <1>g DEF Kill
<1>12. CASE KillMisses(a)
  BY <1>12, <1>g, KeptAlike DEF KillMisses
<1>13. CASE Forget(a)
  <2>1. CASE \E pc \in {"port", "spawn", "look", "stop"} : Goes(a, pc) /\ UNCHANGED proc
    BY <1>13, <2>1, <1>f, <1>g, KeptAlike DEF Forget
  <2>2. CASE Fails(a, proc)
    BY <1>13, <2>2, <1>e, <1>f, <1>p, KeptAlike DEF Forget
  <2>3. CASE Leaves(a, "off", proc)
    <3>1. Moves(a, {"off"}) /\ Alike(proc)
      BY <2>3, <1>p, Leaving DEF Idle
    <3> QED
      BY <1>13, <3>1, <1>f, Holding, KeptAlike DEF Forget, Moves
  <2> QED
    BY <1>13, <2>1, <2>2, <2>3 DEF Forget
<1> QED
  BY <1>1, <1>2, <1>3, <1>4, <1>5, <1>6, <1>7, <1>8, <1>9, <1>10, <1>11, <1>12, <1>13 DEF Steps

\* What happens besides gives no number of forge's away.
LEMMA BesidesKept ==
    ASSUME TypeOK, "reuse" \notin Weather, Besides
    PROVE  Kept
<1> USE DEF TypeOK, Processes, Kept, Given, Forges
<1>1. ASSUME NEW p \in Pids, NEW state \in {"up", "deaf"}, Turns(p, state) PROVE Kept
  BY <1>1 DEF Turns
<1>2. ASSUME NEW p \in Pids, Dead(p) PROVE Kept
  BY <1>2, CorpseType DEF Dead
<1>3. ASSUME NEW n \in Names, Outside(n) PROVE Kept
  BY <1>3 DEF Outside, NewPids, Other
<1>4. ASSUME NEW n \in Names, Edit(n) PROVE Kept
  BY <1>4 DEF Edit
<1> QED
  BY <1>1, <1>2, <1>3, <1>4 DEF Besides, Comes, Dies, Deafens, Reuse

\* Nor does any step.
LEMMA StartedStep ==
    ASSUME TypeOK, Numbered, Started, "reuse" \notin Weather, [Next]_vars
    PROVE  Started'
<1> USE DEF Agents
<1>m. \A n \in Names : Mine(n) => file[n].pid \in Pids /\ Given(file[n].pid)
  BY FileType DEF Mine, Started
<1>d. \A n, m \in Names : Dropped(n)[m] \in {file[m], Nobody} /\ Forgotten(n)[m] \in {file[m], Nobody}
  BY Dropping DEF Forgotten, TypeOK
<1>1. CASE \E a \in Agents : Steps(a)
  BY <1>1, StepsStarted
<1>2. CASE \E a \in Agents : Killed(a)
  <2>1. PICK a \in Agents : Leaves(a, "dead", proc) /\ UNCHANGED <<file, preset>>
    BY <1>2 DEF Killed
  <2>2. Moves(a, {"dead"}) /\ Alike(proc)
    BY <2>1, Leaving DEF Idle, TypeOK
  <2> QED
    BY <2>1, <2>2, Holding, KeptAlike DEF Moves
<1>3. CASE Go
  BY <1>3, Beginning, Holding, KeptAlike DEF Go, Moves
<1>4. CASE Finish
  BY <1>4, Stopped, Holding, KeptAlike DEF Finish, Moves
<1>5. CASE StopNext
  <2>1. CASE Moves("run", {"ended"}) /\ Alike(proc) /\ UNCHANGED file
    BY <2>1, Holding, KeptAlike DEF Moves
  <2>2. CASE \E n \in Names :
                /\ file' = Dropped(n) /\ UNCHANGED proc
                /\ \/ Mine(n) /\ Moves("run", {"kill"}) /\ agent'["run"].pid = file[n].pid
                   \/ ~Mine(n) /\ Moves("run", {"stop"})
    BY <2>2, <1>m, <1>d, Holding, KeptAlike DEF Moves
  <2> QED
    BY <1>5, <2>1, <2>2, StoppingNext
<1>6. CASE \E n \in Names : Check(n)
  BY <1>6, <1>d, Checking, Holding, KeptAlike DEF Check, Moves
<1>7. CASE \E n \in Names : Lease(n)
  <2>1. PICK n \in Names : Lease(n)
    BY <1>7
  <2>2. CASE Mine(n)
    BY <2>1, <2>2, <1>m, <1>d, Leasing, Holding, KeptAlike DEF Lease, Moves
  <2>3. CASE ~Mine(n)
    BY <2>1, <2>3, <1>d, Holding, KeptAlike DEF Lease
  <2> QED
    BY <2>2, <2>3
<1>8. CASE \E n \in Names : Start(n)
  BY <1>8, Starting, Holding, KeptAlike DEF Start, Moves
<1>9. CASE \E n \in Names : Stop(n)
  BY <1>9, <1>m, <1>d, StoppingByHand, Holding, KeptAlike DEF Stop, Moves
<1>10. CASE \E n \in Names : Status(n)
  BY <1>10, <1>d, Holding, KeptAlike DEF Status
<1>11. CASE Besides
  BY <1>11, BesidesType, BesidesKept, Holding
<1>12. CASE UNCHANGED vars
  BY <1>12, Holding, KeptAlike DEF vars
<1> QED
  BY <1>1, <1>2, <1>3, <1>4, <1>5, <1>6, <1>7, <1>8, <1>9, <1>10, <1>11, <1>12
  DEF Next, Besides

\* Where no number is given to a second process, forge never kills a process it
\* did not start: neither a server it adopted nor anything else, whatever dies or
\* hangs, whatever is killed, and however many commands run beside each other.
THEOREM KillsItsOwn ==
    ASSUME "reuse" \notin Weather
    PROVE  Spec => []OnlyItsOwn
<1>1. Init => Started
  BY AsleepType DEF Init, Started, Me, Agents, Asleep
<1>2. Spec => [](TypeOK /\ Numbered /\ Started)
  BY <1>1, TypeInit, TypeStep, StartedStep, PTL DEF Spec
<1>3. Started => OnlyItsOwn
  BY DEF Started, OnlyItsOwn, Given
<1> QED
  BY <1>2, <1>3, PTL

-----------------------------------------------------------------------------
(***************************************************************************)
(* One copy of each server, on record, and down with its run: where one    *)
(* process of forge runs at a time, a kill is delivered, and none falls    *)
(* between starting a server and writing it down.                          *)
(***************************************************************************)
Calm == Beside = {} /\ Weather \cap {"reuse", "stubborn", "killedAtSpawn"} = {}

Solo == Free("run") \/ Free("hand")

\* A server of forge that lives.
Ours(p, n) == Lives(p) /\ Forges(p) /\ proc[p].name = n

\* It is on record under its name, or about to be.
Known ==
    \A p \in Pids, n \in Names :
        Ours(p, n) =>
            \/ file[n].pid = p
            \/ \E a \in Agents : Me(a).pc = "bind" /\ Me(a).pid = p /\ Me(a).name = n

\* What a process of forge may rely on where it is: nothing of the name lives
\* when it starts one, the record names what it waits for or kills, and what it
\* strikes off the record is dead.
Grip(a) ==
    /\ Me(a).pc \in {"spawn", "bind"} =>
          \A p \in Pids : Ours(p, Me(a).name) => Me(a).pc = "bind" /\ p = Me(a).pid
    /\ Me(a).pc \in {"wait", "kill", "forget"} =>
          Me(a).pid \in Pids /\ file[Me(a).name].pid = Me(a).pid
    /\ Me(a).pc = "forget" => ~Lives(Me(a).pid)
    /\ Me(a).pc = "port" => file[Me(a).name] = Nobody

\* A run that takes its servers down has seen to those that are not to do.
TakesDown ==
    \/ Me("run").pc \in {"stop", "ended"}
    \/ Me("run").pc \in {"kill", "forget"} /\ Me("run").after = "stop"
Stopping ==
    TakesDown =>
        \A n \in Names :
            file[n].owner = "run" /\ Lives(file[n].pid) =>
                \/ Me("run").pc # "ended" /\ n \in Me("run").todo
                \/ Me("run").pc = "kill" /\ n = Me("run").name

Tended == Solo /\ Known /\ (\A a \in Agents : Grip(a)) /\ Stopping
Sound == TypeOK /\ Numbered /\ Started /\ Tended

\* No server of forge comes to life.
Older == Kept /\ \A p \in Pids, n \in Names : Ours(p, n)' => Ours(p, n)

\* What is struck off the record is dead.
Struck ==
    \A n \in Names :
        \/ file'[n] = file[n]
        \/ file'[n] = Nobody /\ (file[n] # Nobody => ~Lives(file[n].pid))

\* Processes that are alike, and one that ended, are no younger.
LEMMA OlderAlike ==
    ASSUME TypeOK
    PROVE  /\ Alike(proc) => Older
           /\ UNCHANGED proc => Older
           /\ \A p \in Pids : Alike([proc EXCEPT ![p].state = "gone", ![p].by = "init"]) /\ Forges(p)
                                => Older
<1>1. /\ Alike(proc) => Kept
      /\ UNCHANGED proc => Kept
      /\ \A p \in Pids : Alike([proc EXCEPT ![p].state = "gone", ![p].by = "init"]) /\ Forges(p)
                           => Kept
  BY KeptAlike
<1> QED
  BY <1>1 DEF TypeOK, Processes, Alike, Older, Ours, Lives, Living, Forges

\* What is dead on record stays dead.
LEMMA DeadStays ==
    ASSUME TypeOK, TypeOK', Started, Older, NEW n \in Names, file[n] # Nobody
    PROVE  /\ file[n].pid \in Pids
           /\ proc'[file[n].pid].state \in Living => Lives(file[n].pid)
<1>1. file[n].pid \in Pids /\ Given(file[n].pid)
  BY FileType DEF Started
<1>2. PICK p \in Pids : p = file[n].pid
  BY <1>1
<1>3. Given(p)'
  BY <1>1, <1>2 DEF Older, Kept
<1>4. PICK m \in Names : proc'[p].name = m
  BY DEF TypeOK, Processes
<1>5. proc'[p].state \in Living => Ours(p, m)'
  BY <1>3, <1>4 DEF Ours, Given, Lives
<1> QED
  BY <1>2, <1>4, <1>5 DEF Older, Ours

\* What stopping a run needs survives every step in which no server comes to
\* life, if the run does nothing about it, or begins or goes on to stop.
LEMMA StoppingStays ==
    ASSUME TypeOK, TypeOK', Started, Stopping, Older, Struck,
           \/ agent'["run"] = agent["run"]
           \/ ~TakesDown'
           \/ agent'["run"].pc = "stop" /\ agent'["run"].todo = {n \in Names : file'[n].owner = "run"}
    PROVE  Stopping'
<1>1. ASSUME NEW n \in Names, file'[n].owner = "run", proc'[file'[n].pid].state \in Living
      PROVE  file[n].owner = "run" /\ Lives(file[n].pid)
  <2>1. file'[n] # Nobody /\ file'[n] = file[n]
    BY <1>1 DEF Nobody, Struck
  <2> QED
    BY <1>1, <2>1, DeadStays
<1>2. CASE agent'["run"] = agent["run"]
  BY <1>1, <1>2 DEF Stopping, TakesDown, Me, Lives
<1>3. CASE ~TakesDown'
  BY <1>3 DEF Stopping
<1>4. CASE agent'["run"].pc = "stop" /\ agent'["run"].todo = {n \in Names : file'[n].owner = "run"}
  BY <1>4 DEF Stopping, Me
<1> QED
  BY <1>2, <1>3, <1>4

\* One process steps, beside none, and no server comes to life.
LEMMA Tending ==
    ASSUME Sound, TypeOK', NEW a \in Agents, Older, Struck,
           \A b \in Agents \ {a} : agent'[b] = agent[b] /\ Free(b),
           Me(a).pc = "bind" => agent'[a] = agent[a],
           Grip(a)', Stopping'
    PROVE  Tended'
<1> USE DEF Sound, Tended
<1>1. Solo'
  BY DEF Solo, Free, Me, Agents
<1>2. ASSUME NEW b \in Agents \ {a} PROVE Grip(b)'
  BY <1>2 DEF Grip, Free, Me, Idle
<1>3. Known'
  <2>1. ASSUME NEW p \in Pids, NEW n \in Names, Ours(p, n)'
        PROVE  \/ file'[n].pid = p
               \/ \E b \in Agents : agent'[b].pc = "bind" /\ agent'[b].pid = p /\ agent'[b].name = n
    <3>1. Ours(p, n)
      BY <2>1 DEF Older
    <3>2. CASE file[n].pid = p
      <4>1. file[n] # Nobody
        BY <3>2, ServersAssumption DEF Nobody
      <4>2. Lives(p)
        BY <3>1 DEF Ours
      <4> QED
        BY <3>2, <4>1, <4>2 DEF Struck
    <3>3. CASE \E b \in Agents : Me(b).pc = "bind" /\ Me(b).pid = p /\ Me(b).name = n
      BY <3>3 DEF Me, Free, Idle
    <3> QED
      BY <3>1, <3>2, <3>3 DEF Known
  <2> QED
    BY <2>1 DEF Known, Me
<1> QED
  BY <1>1, <1>2, <1>3

\* One process is where nothing is asked of it.
LEMMA Resting ==
    ASSUME Sound, TypeOK', NEW a \in Agents, NEW pcs, Moves(a, pcs), Older, Struck,
           \A b \in Agents \ {a} : Free(b), Me(a).pc # "bind",
           pcs \subseteq (Idle \ {"ended"}) \cup {"look", "work", "stop"},
           agent'[a].pc = "stop" => agent'[a].todo = {n \in Names : file'[n].owner = "run"}
    PROVE  Tended'
<1>1. Grip(a)'
  BY DEF Moves, Grip, Idle, Me
<1>2. Stopping'
  <2>1. CASE a = "run"
    BY <2>1, StoppingStays DEF Sound, Tended, Moves, TakesDown, Me, Idle
  <2>2. CASE a # "run"
    BY <2>2, StoppingStays DEF Sound, Tended, Moves, Agents
  <2> QED
    BY <2>1, <2>2
<1> QED
  BY <1>1, <1>2, Tending DEF Moves

\* One process goes on to what is asked something of, other than to start a
\* server, and not to stop the run.
LEMMA GoingOn ==
    ASSUME Sound, TypeOK', NEW a \in Agents, NEW pcs, Moves(a, pcs), Older, Struck,
           \A b \in Agents \ {a} : Free(b), Me(a).pc # "bind",
           pcs \subseteq {"spawn", "kill", "forget", "port"},
           agent'[a].after # "stop" \/ pcs \subseteq {"spawn", "port"} \/ a # "run",
           Grip(a)'
    PROVE  Tended'
<1>1. Stopping'
  <2>1. CASE a = "run"
    BY <2>1, StoppingStays DEF Sound, Tended, Moves, TakesDown, Me
  <2>2. CASE a # "run"
    BY <2>2, StoppingStays DEF Sound, Tended, Moves, Agents
  <2> QED
    BY <2>1, <2>2
<1> QED
  BY <1>1, Tending DEF Moves

\* Where one process is up, every other one is not.
LEMMA OthersAreFree ==
    ASSUME Solo, NEW a \in Agents, Me(a).pc \in Active
    PROVE  \A b \in Agents \ {a} : Free(b)
BY DEF Solo, Agents, Free, Active, Idle

\* A server that is not ours any more is dead on record, and no other of the name
\* lives.
LEMMA NotOurs ==
    ASSUME Sound, NEW n \in Names, ~Mine(n), \A a \in Agents : Me(a).pc # "bind"
    PROVE  \A p \in Pids : ~Ours(p, n)
<1>1. ASSUME NEW p \in Pids, Ours(p, n) PROVE FALSE
  <2>1. file[n].pid = p /\ file[n] # Nobody
    BY <1>1, ServersAssumption DEF Sound, Tended, Known, Nobody
  <2> QED
    BY <1>1, <2>1 DEF Ours, Lives, Living, Mine, Alive
<1> QED
  BY <1>1

\* Dropping a server strikes off a dead one only.
LEMMA StruckDropped ==
    ASSUME TypeOK, NEW n \in Names
    PROVE  /\ file' = Dropped(n) => Struck
           /\ file' = Forgotten(n) /\ (file[n] # Nobody => ~Lives(file[n].pid)) => Struck
           /\ UNCHANGED file => Struck
BY DEF TypeOK, Struck, Dropped, Forgotten, Mine, Alive, Lives, Living

\* The steps of the supervisor keep one copy of each server, on record.
LEMMA StepsTended ==
    ASSUME Sound, TypeOK', Calm, NEW a \in Agents, Steps(a)
    PROVE  Tended'
<1> DEFINE n == Me(a).name
<1> USE DEF Active, Afters
<1>t. TypeOK /\ Numbered /\ Started /\ Grip(a) /\ Solo /\ Known /\ Stopping
  BY DEF Sound, Tended
<1>p. n \in Names /\ proc \in [Pids -> Processes] /\ file \in [Names -> Entries]
  BY <1>t, MeType DEF TypeOK
<1>o. \A b \in Agents \ {a} : Free(b)
  BY <1>t, OthersAreFree DEF Steps, LookElsewhere, LookAtNothing, LookAgain, LookAtMine, Spawn, SpawnFails,
     WriteDown, Exited, Ready, TooLong, Kill, KillMisses, Forget
<1>m. Mine(n) => file[n].pid \in Pids
  BY <1>p, <1>t, FileType
<1>s. ASSUME Serves(a), Struck, Me(a).pc # "bind" PROVE Tended'
  <2>1. Moves(a, {"served", "look", "work"}) /\ Older
    BY <1>s, <1>t, Serving, OlderAlike
  <2> QED
    BY <2>1, <1>s, <1>o, Resting DEF Idle, Moves
<1>e. ASSUME NEW procs \in [Pids -> Processes], Fails(a, procs), Alike(procs) => Older, Struck,
             Me(a).pc # "bind"
      PROVE  Tended'
  <2>1. Moves(a, {"failed", "refused", "stop"}) /\ Older
        /\ (agent'[a].pc = "stop" => agent'[a].todo = {m \in Names : file'[m].owner = "run"})
    BY <1>e, <1>t, Failing
  <2> QED
    BY <2>1, <1>e, <1>o, Resting DEF Idle
<1>a. ASSUME Answered(a), Struck, Me(a).pc # "bind" PROVE Tended'
  <2>1. Alike(proc) => Older
    BY <1>t, OlderAlike
  <2> QED
    BY <2>1, <1>a, <1>s, <1>e, <1>p DEF Answered
<1>k. ASSUME NEW after \in Afters \ {"stop"}, Kills(a, file[n].pid, after), file[n].pid \in Pids,
             UNCHANGED <<proc, file>>, Me(a).pc # "bind"
      PROVE  Tended'
  <2>1. Moves(a, {"kill"}) /\ agent'[a].name = n /\ agent'[a].pid = file[n].pid /\ agent'[a].after # "stop"
    BY <1>k, <1>t, Killing
  <2>2. Grip(a)'
    BY <2>1, <1>k DEF Grip, Me, Moves
  <2>3. Older /\ Struck
    BY <1>k, <1>t, <1>p, OlderAlike, StruckDropped
  <2> QED
    BY <2>1, <2>2, <2>3, <1>k, <1>o, GoingOn
<1>1. CASE LookElsewhere(a)
  BY <1>1, <1>a, <1>t, <1>p, StruckDropped DEF LookElsewhere
<1>2. CASE LookAtNothing(a)
  <2>1. Moves(a, {"spawn"}) /\ agent'[a].name = n
    BY <1>2, <1>t, Going DEF LookAtNothing
  <2>2. Older /\ Struck
    BY <1>2, <1>t, <1>p, OlderAlike, StruckDropped DEF LookAtNothing
  <2>3. \A p \in Pids : ~Ours(p, n)
    <3>1. ~Mine(n)
      BY <1>2, <1>t DEF LookAtNothing, Grip, Mine
    <3>2. \A b \in Agents : Me(b).pc # "bind"
      BY <1>2, <1>o DEF LookAtNothing, Free, Idle
    <3> QED
      BY <3>1, <3>2, <1>p, NotOurs
  <2>4. Grip(a)'
    BY <2>1, <2>2, <2>3, <1>p DEF Grip, Me, Moves, Older
  <2> QED
    BY <2>1, <2>2, <2>4, <1>2, <1>o, GoingOn DEF LookAtNothing
<1>3. CASE LookAgain(a)
  BY <1>3, <1>a, <1>t, <1>p, StruckDropped DEF LookAgain
<1>4. CASE LookAtMine(a)
  <2>1. Struck /\ Me(a).pc # "bind" /\ file[n].pid \in Pids
    BY <1>4, <1>t, <1>p, <1>m, StruckDropped DEF LookAtMine
  <2> QED
    BY <2>1, <1>4, <1>a, <1>k DEF LookAtMine
<1>5. CASE Spawn(a)
  <2>1. PICK p \in Pids :
          /\ proc[p].state = "free"
          /\ proc' = [proc EXCEPT ![p] = [state |-> "coming", by |-> a, name |-> n]]
          /\ Becomes(a, [Me(a) EXCEPT !.pc = "bind", !.pid = p])
    BY <1>5 DEF Spawn, NewPids, Calm
  <2> DEFINE self == [Me(a) EXCEPT !.pc = "bind", !.pid = p]
  <2>2. self \in Agency /\ self.pid = p /\ self.pc = "bind" /\ self.name = n
    BY <1>t, MeType DEF Agency
  <2>3. /\ agent'[a].pid = p /\ agent'[a].pc = "bind" /\ agent'[a].name = n
        /\ \A b \in Agents \ {a} : agent'[b] = agent[b]
    BY <2>1, <2>2, <1>t, BecomesType
  <2>4. \A q \in Pids, m \in Names : Ours(q, m)' => Ours(q, m) \/ (q = p /\ m = n)
    BY <2>1, <1>p DEF Ours, Lives, Forges
  <2>5. Solo'
    BY <2>3, <1>o DEF Solo, Free, Me, Agents
  <2>6. Known'
    <3>1. ASSUME NEW q \in Pids, NEW m \in Names, Ours(q, m)'
          PROVE  \/ file'[m].pid = q
                 \/ \E b \in Agents : agent'[b].pc = "bind" /\ agent'[b].pid = q /\ agent'[b].name = m
      <4>1. CASE q = p /\ m = n
        BY <4>1, <2>3
      <4>2. CASE Ours(q, m)
        <5>1. file[m].pid = q
          BY <4>2, <1>5, <1>t, <1>o DEF Known, Spawn, Free, Idle
        <5> QED
          BY <5>1, <1>5 DEF Spawn
      <4> QED
        BY <3>1, <4>1, <4>2, <2>4
    <3> QED
      BY <3>1 DEF Known, Me
  <2>7. Grip(a)'
    <3>1. \A q \in Pids : ~Ours(q, n)
      BY <1>5, <1>t DEF Spawn, Grip
    <3> QED
      BY <3>1, <2>3, <2>4, <1>p DEF Grip, Me
  <2>8. ASSUME NEW b \in Agents \ {a} PROVE Grip(b)'
    BY <2>3, <2>8, <1>o DEF Grip, Free, Me, Idle
  <2>9. Stopping'
    <3>1. CASE a = "run"
      BY <3>1, <2>3 DEF Stopping, TakesDown, Me
    <3>2. CASE a # "run"
      <4>1. agent'["run"] = agent["run"] /\ file' = file
        BY <3>2, <2>3, <1>5 DEF Agents, Spawn
      <4>2. ASSUME NEW m \in Names, file[m].owner = "run", proc'[file[m].pid].state \in Living
            PROVE  Lives(file[m].pid)
        <5>1. file[m] # Nobody
          BY <4>2 DEF Nobody
        <5>2. file[m].pid # p /\ file[m].pid \in Pids
          BY <5>1, <2>1, <1>t, FileType DEF Started, Given
        <5> QED
          BY <5>2, <4>2, <2>1, <1>p DEF Lives
      <4> QED
        BY <4>1, <4>2, <1>t DEF Stopping, TakesDown, Me, Lives
    <3> QED
      BY <3>1, <3>2
  <2> QED
    BY <2>5, <2>6, <2>7, <2>8, <2>9 DEF Tended
<1>6. CASE SpawnFails(a)
  <2>1. Alike(proc) => Older
    BY <1>t, OlderAlike
  <2> QED
    BY <2>1, <1>6, <1>e, <1>t, <1>p, StruckDropped DEF SpawnFails
<1>9. CASE Ready(a)
  BY <1>9, <1>s, <1>t, <1>p, StruckDropped DEF Ready
<1>10. CASE TooLong(a)
  <2>1. Me(a).pid = file[n].pid /\ file[n].pid \in Pids
    BY <1>10, <1>t DEF TooLong, Grip
  <2> QED
    BY <2>1, <1>10, <1>k DEF TooLong
<1>12. CASE KillMisses(a)
  BY <1>12 DEF KillMisses, Calm
<1>7. CASE WriteDown(a)
  <2> DEFINE p == Me(a).pid
  <2>1. p \in Pids /\ Given(p)
    BY <1>7, <1>t DEF WriteDown, Numbered, Started
  <2>2. Moves(a, {"wait"}) /\ agent'[a].pid = p /\ agent'[a].name = n
    BY <1>7, <1>t, Going DEF WriteDown
  <2>3. /\ file'[n].pid = p /\ file'[n].owner = Owner(a) /\ proc' = proc
        /\ \A m \in Names \ {n} : file'[m] = file[m]
    BY <1>7, <1>p DEF WriteDown
  <2>4. Solo'
    BY <2>2, <1>o DEF Solo, Free, Me, Agents, Moves
  <2>5. Known'
    <3>1. ASSUME NEW q \in Pids, NEW m \in Names, Ours(q, m) PROVE file'[m].pid = q
      <4>1. CASE m = n
        BY <3>1, <4>1, <2>3, <1>7, <1>t DEF WriteDown, Grip
      <4>2. CASE m # n
        <5>1. file[m].pid = q
          BY <3>1, <4>2, <1>7, <1>t, <1>o DEF Known, Free, Idle
        <5> QED
          BY <5>1, <4>2, <2>3
      <4> QED
        BY <4>1, <4>2
    <3> QED
      BY <3>1, <2>3 DEF Known, Ours, Lives, Forges
  <2>6. Grip(a)'
    BY <2>1, <2>2, <2>3 DEF Grip, Me, Moves
  <2>7. ASSUME NEW b \in Agents \ {a} PROVE Grip(b)'
    BY <2>2, <2>7, <1>o DEF Grip, Free, Me, Idle, Moves
  <2>8. Stopping'
    <3>1. CASE a = "run"
      BY <3>1, <2>2 DEF Stopping, TakesDown, Me, Moves
    <3>2. CASE a # "run"
      <4>1. agent'["run"] = agent["run"] /\ file'[n].owner = "cli"
        BY <3>2, <2>2, <2>3 DEF Agents, Moves, Owner
      <4> QED
        BY <4>1, <2>3, <1>t DEF Stopping, TakesDown, Me, Lives
    <3> QED
      BY <3>1, <3>2
  <2> QED
    BY <2>4, <2>5, <2>6, <2>7, <2>8 DEF Tended
<1>8. CASE Exited(a)
  <2> DEFINE procs == [proc EXCEPT ![Me(a).pid].state = "gone", ![Me(a).pid].by = "init"]
  <2>1. procs \in [Pids -> Processes]
    BY <1>p DEF Processes
  <2>2. Me(a).pid \in Pids /\ Forges(Me(a).pid) /\ file[n].pid = Me(a).pid
    BY <1>8, <1>t DEF Exited, Numbered, Started, Given, Grip
  <2>3. Struck
    BY <2>2, <1>8, <1>t, <1>p, StruckDropped DEF Exited
  <2>4. Alike(procs) => Older
    BY <2>2, <1>t, OlderAlike
  <2> QED
    BY <2>1, <2>3, <2>4, <1>8, <1>e DEF Exited
<1>11. CASE Kill(a)
  <2> DEFINE p == Me(a).pid
  <2>1. p \in Pids /\ Given(p) /\ file[n].pid = p
    BY <1>11, <1>t DEF Kill, Numbered, Started, Grip
  <2>2. Moves(a, {"forget"}) /\ agent'[a].pid = p /\ agent'[a].name = n
        /\ agent'[a].after = Me(a).after /\ agent'[a].todo = Me(a).todo
    BY <1>11, <1>t, Going DEF Kill
  <2>3. /\ \A q \in Pids \ {p} : proc'[q] = proc[q]
        /\ proc'[p].state \notin Living
        /\ proc'[p].state = "free" => proc[p].state = "free"
        /\ proc'[p].by = "other" <=> proc[p].by = "other"
    BY <2>1, <1>11, <1>p, <1>t, CorpseType DEF Kill, Alive, Living
  <2>4. Older
    BY <2>3 DEF Older, Kept, Given, Ours, Lives, Forges
  <2>5. Struck
    BY <1>11, <1>t, <1>p, StruckDropped DEF Kill
  <2>6. Grip(a)'
    BY <2>1, <2>2, <2>3, <1>11 DEF Kill, Grip, Me, Moves, Lives
  <2>7. Stopping'
    <3>1. CASE a = "run" /\ Me(a).after = "stop"
      <4>1. ASSUME NEW m \in Names, file[m].owner = "run", proc'[file[m].pid].state \in Living
            PROVE  m # n /\ Lives(file[m].pid)
        <5>1. m # n /\ file[m] # Nobody
          BY <4>1, <2>1, <2>3 DEF Nobody
        <5> QED
          BY <5>1, <4>1, <2>4, <1>t, DeadStays
      <4>2. ASSUME NEW m \in Names, file[m].owner = "run", Lives(file[m].pid), m # n
            PROVE  m \in Me("run").todo
        BY <4>2, <3>1, <1>11, <1>t DEF Stopping, TakesDown, Kill
      <4> QED
        BY <4>1, <4>2, <3>1, <2>2, <1>11 DEF Stopping, Kill, Me, Lives, Moves
    <3>2. CASE a = "run" /\ Me(a).after # "stop"
      BY <3>2, <2>2 DEF Stopping, TakesDown, Me, Moves
    <3>3. CASE a # "run"
      BY <3>3, <2>2, <2>4, <2>5, <1>t, StoppingStays DEF Agents, Moves
    <3> QED
      BY <3>1, <3>2, <3>3
  <2> QED
    BY <2>2, <2>4, <2>5, <2>6, <2>7, <1>o, <1>11, Tending DEF Moves, Kill
<1>13. CASE Forget(a)
  <2>1. file[n].pid = Me(a).pid /\ ~Lives(Me(a).pid) /\ Me(a).pid \in Pids /\ Me(a).pc # "bind"
        /\ file' = Forgotten(n)
    BY <1>13, <1>t DEF Forget, Grip
  <2>2. Struck /\ file'[n] = Nobody
    BY <2>1, <1>t, <1>p, StruckDropped DEF Forgotten
  <2>3. \A p \in Pids : ~Ours(p, n)
    BY <2>1, <1>o, <1>t, <1>p DEF Known, Ours, Free, Idle
  <2>4. CASE Goes(a, Me(a).after) /\ Me(a).after \in {"port", "spawn"} /\ UNCHANGED proc
    <3>1. Moves(a, {Me(a).after}) /\ agent'[a].name = n
      BY <2>4, <1>t, Going
    <3>2. Older
      BY <2>4, <1>t, OlderAlike
    <3>3. Grip(a)'
      BY <3>1, <3>2, <2>2, <2>3, <2>4, <1>p DEF Grip, Me, Moves, Older
    <3> QED
      BY <3>1, <3>2, <3>3, <2>1, <2>2, <2>4, <1>o, GoingOn
  <2>5. CASE Goes(a, "look") /\ UNCHANGED proc
    <3>1. Moves(a, {"look"}) /\ Older
      BY <2>5, <1>t, Going, OlderAlike
    <3> QED
      BY <3>1, <2>1, <2>2, <1>o, Resting DEF Moves
  <2>6. CASE Me(a).after = "stop" /\ Goes(a, "stop") /\ UNCHANGED proc
    <3>1. Moves(a, {"stop"}) /\ agent'[a].todo = Me(a).todo /\ Older
      BY <2>6, <1>t, Going, OlderAlike
    <3>2. Grip(a)'
      BY <3>1 DEF Grip, Me, Moves
    <3>3. Stopping'
      <4>1. CASE a = "run"
        <5>1. ASSUME NEW m \in Names, file'[m].owner = "run", proc'[file'[m].pid].state \in Living
              PROVE  file[m].owner = "run" /\ Lives(file[m].pid)
          BY <5>1, <2>2, <2>6 DEF Struck, Lives, Nobody
        <5> QED
          BY <4>1, <5>1, <3>1, <2>6, <1>13, <1>t DEF Stopping, TakesDown, Forget, Me, Moves, Lives
      <4>2. CASE a # "run"
        BY <4>2, <3>1, <2>2, <1>t, StoppingStays DEF Agents, Moves
      <4> QED
        BY <4>1, <4>2
    <3> QED
      BY <3>1, <3>2, <3>3, <2>1, <2>2, <1>o, Tending DEF Moves
  <2>7. CASE Fails(a, proc)
    <3>1. Alike(proc) => Older
      BY <1>t, OlderAlike
    <3> QED
      BY <3>1, <2>1, <2>2, <2>7, <1>e, <1>p
  <2>8. CASE Leaves(a, "off", proc)
    <3>1. Moves(a, {"off"}) /\ Older
      BY <2>8, <1>t, <1>p, Leaving, OlderAlike DEF Idle
    <3> QED
      BY <3>1, <2>1, <2>2, <1>o, Resting DEF Idle, Moves
  <2> QED
    BY <1>13, <2>4, <2>5, <2>6, <2>7, <2>8 DEF Forget
<1> QED
  BY <1>1, <1>2, <1>3, <1>4, <1>5, <1>6, <1>7, <1>8, <1>9, <1>10, <1>11, <1>12, <1>13 DEF Steps

\* What happens besides brings no server of forge to life.
LEMMA BesidesOlder ==
    ASSUME TypeOK, Calm, Besides
    PROVE  Older
<1>k. Kept
  BY BesidesKept DEF Calm
<1> USE <1>k DEF TypeOK, Processes, Older, Ours, Lives, Living, Forges
<1>1. ASSUME NEW p \in Pids, NEW state \in {"up", "deaf"}, Lives(p), Turns(p, state) PROVE Older
  BY <1>1 DEF Turns
<1>2. ASSUME NEW p \in Pids, Dead(p) PROVE Older
  BY <1>2, CorpseType DEF Dead
<1>3. ASSUME NEW n \in Names, Outside(n) PROVE Older
  BY <1>3 DEF Outside, Other
<1>4. ASSUME NEW n \in Names, Edit(n) PROVE Older
  BY <1>4 DEF Edit
<1> QED
  BY <1>1, <1>2, <1>3, <1>4 DEF Besides, Comes, Dies, Deafens, Reuse, Calm

\* Where nobody of forge does anything, everything stays tended.
LEMMA NobodyMoves ==
    ASSUME Sound, TypeOK', Older, Struck, UNCHANGED agent,
           UNCHANGED file \/ \A a \in Agents : Me(a).pc \in Idle \cup {"work"}
    PROVE  Tended'
<1>1. PICK a \in Agents : \A b \in Agents \ {a} : Free(b)
  BY DEF Sound, Tended, Solo, Agents
<1>2. Grip(a)'
  <2>1. CASE Me(a).pc \in Idle \cup {"work"}
    BY <2>1 DEF Grip, Me, Idle
  <2>2. CASE UNCHANGED file
    <3>1. Grip(a)
      BY DEF Sound, Tended
    <3>2. Me(a).name \in Names
      BY MeType DEF Sound
    <3>3. Me(a).pc = "forget" => proc'[Me(a).pid].state \notin Living
      BY <3>1, <3>2, DeadStays, ServersAssumption DEF Sound, Grip, Nobody
    <3> QED
      BY <3>1, <3>2, <3>3, <2>2 DEF Grip, Me, Older, Lives
  <2> QED
    BY <2>1, <2>2
<1>3. Stopping'
  BY StoppingStays DEF Sound, Tended
<1> QED
  BY <1>1, <1>2, <1>3, Tending

\* Every step keeps one copy of each server, on record.
LEMMA TendedStep ==
    ASSUME Sound, TypeOK', Calm, [Next]_vars
    PROVE  Tended'
<1> USE DEF Agents
<1>t. /\ TypeOK /\ Numbered /\ Started /\ Solo /\ Known /\ Stopping
      /\ file \in [Names -> Entries] /\ proc \in [Pids -> Processes]
  BY DEF Sound, Tended, TypeOK
<1>r. Me("run").pc \in Active => Free("hand")
  BY <1>t, OthersAreFree
<1>u. UNCHANGED proc => Older
  BY <1>t, OlderAlike
<1>d. \A n \in Names : file' = Dropped(n) => Struck
  BY <1>t, StruckDropped
<1>v. UNCHANGED file => Struck
  BY DEF Struck
<1>1. CASE \E a \in Agents : Steps(a)
  BY <1>1, StepsTended
<1>2. CASE \E a \in Agents : Killed(a)
  <2>1. PICK a \in Agents : /\ Leaves(a, "dead", proc) /\ UNCHANGED <<file, preset>>
                           /\ Me(a).pc # "bind" /\ ~Free(a)
    BY <1>2 DEF Killed, Calm
  <2>2. Moves(a, {"dead"}) /\ Older
    BY <2>1, <1>t, Leaving, OlderAlike DEF Idle
  <2>3. \A b \in Agents \ {a} : Free(b)
    BY <2>1, <1>t DEF Solo
  <2> QED
    BY <2>1, <2>2, <2>3, <1>v, Resting DEF Idle, Moves
<1>3. CASE Go
  <2>1. Moves("run", {"look"}) /\ Free("hand") /\ Me("run").pc # "bind" /\ UNCHANGED <<proc, file>>
    BY <1>3, <1>t, Beginning DEF Go, Calm, Free, Idle
  <2> QED
    BY <2>1, <1>u, <1>v, Resting DEF Moves
<1>4. CASE Finish
  <2>1. /\ Moves("run", {"stop"}) /\ Free("hand") /\ Me("run").pc # "bind" /\ UNCHANGED <<proc, file>>
        /\ agent'["run"].todo = {n \in Names : file'[n].owner = "run"}
    BY <1>4, <1>t, <1>r, Stopped DEF Finish, Active
  <2> QED
    BY <2>1, <1>u, <1>v, Resting
<1>5. CASE StopNext
  <2>1. Me("run").pc = "stop" /\ Free("hand")
    BY <1>5, <1>r DEF StopNext, Active
  <2>2. CASE Me("run").todo = {} /\ Moves("run", {"ended"}) /\ Alike(proc) /\ UNCHANGED file
    <3>1. Older
      BY <2>2, <1>t, OlderAlike
    <3>2. Grip("run")'
      BY <2>2 DEF Grip, Me, Moves
    <3>3. ASSUME NEW n \in Names, file[n].owner = "run" PROVE proc'[file[n].pid].state \notin Living
      <4>1. ~Lives(file[n].pid)
        BY <2>1, <2>2, <3>3, <1>t DEF Stopping, TakesDown
      <4>2. file[n] # Nobody
        BY <3>3 DEF Nobody
      <4> QED
        BY <4>1, <4>2, <3>1, <1>t, DeadStays
    <3>4. Stopping'
      BY <3>3, <2>2 DEF Stopping, Lives
    <3> QED
      BY <2>1, <2>2, <3>1, <3>2, <3>4, <1>v, Tending DEF Moves
  <2>3. ASSUME NEW n \in Names,
               agent'["run"].todo = Me("run").todo \ {n}, file' = Dropped(n), UNCHANGED proc,
               \/ /\ Mine(n) /\ Moves("run", {"kill"}) /\ agent'["run"].name = n
                  /\ agent'["run"].pid = file[n].pid /\ agent'["run"].after = "stop"
               \/ ~Mine(n) /\ Moves("run", {"stop"})
        PROVE  Tended'
    <3>1. \A m \in Names : file[m].owner = "run" /\ Lives(file[m].pid) => m \in Me("run").todo
      BY <2>1, <1>t DEF Stopping, TakesDown
    <3>2. Older /\ Struck
      BY <2>3, <1>u, <1>d
    <3>3. Grip("run")'
      BY <2>3, <1>t, FileType DEF Grip, Me, Moves
    <3>4. ASSUME NEW m \in Names, file'[m].owner = "run", proc'[file'[m].pid].state \in Living
          PROVE  m \in Me("run").todo /\ (m = n => Mine(n))
      <4>1. file'[m] = file[m] /\ file[m] # Nobody
        BY <3>4, <3>2 DEF Struck, Nobody
      <4> QED
        BY <4>1, <3>1, <3>4, <2>3 DEF Lives, Mine, Alive
    <3>5. Stopping'
      BY <3>4, <2>3 DEF Stopping, Me, Moves, Lives
    <3> QED
      BY <2>1, <2>3, <3>2, <3>3, <3>5, Tending DEF Moves
  <2> QED
    BY <1>5, <1>t, <2>2, <2>3, StoppingNext
<1>6. CASE \E n \in Names : Check(n)
  <2>1. PICK n \in Names : Check(n)
    BY <1>6
  <2>2. /\ Me("run").pc = "work" /\ Free("hand") /\ ~Mine(n) /\ file' = Dropped(n)
        /\ UNCHANGED proc
    BY <2>1, <1>r DEF Check, Active, Mine, Dropped
  <2>3. Older /\ Struck
    BY <2>2, <1>u, <1>d
  <2>4. CASE Moves("run", {"stop"}) /\ agent'["run"].todo = {m \in Names : file'[m].owner = "run"}
    BY <2>2, <2>3, <2>4, Resting
  <2>5. CASE Moves("run", {"spawn"}) /\ agent'["run"].name = n
    <3>1. \A p \in Pids : ~Ours(p, n)
      BY <2>2, NotOurs DEF Free, Idle
    <3>2. Grip("run")'
      BY <3>1, <2>3, <2>5 DEF Grip, Me, Moves, Older
    <3> QED
      BY <2>2, <2>3, <2>5, <3>2, GoingOn
  <2> QED
    BY <2>1, <2>4, <2>5, <1>t, Checking
<1>7. CASE \E n \in Names : Lease(n)
  <2>1. PICK n \in Names : Lease(n)
    BY <1>7
  <2>2. Me("run").pc = "work" /\ Free("hand") /\ file' = Dropped(n) /\ UNCHANGED proc
    BY <2>1, <1>r DEF Lease, Active
  <2>3. Older /\ Struck
    BY <2>2, <1>u, <1>d
  <2>4. CASE Mine(n)
    <3>1. /\ Moves("run", {"kill"}) /\ agent'["run"].name = n /\ agent'["run"].pid = file[n].pid
          /\ agent'["run"].after = "look" /\ file[n].pid \in Pids /\ file' = file
      BY <2>1, <2>2, <2>4, <1>t, Leasing, FileType
    <3>2. Grip("run")'
      BY <3>1 DEF Grip, Me, Moves
    <3> QED
      BY <2>2, <2>3, <3>1, <3>2, GoingOn
  <2>5. CASE ~Mine(n)
    BY <2>1, <2>2, <2>3, <2>5, NobodyMoves DEF Lease, Free
  <2> QED
    BY <2>4, <2>5
<1>8. CASE \E n \in Names : Start(n)
  <2>1. Moves("hand", {"look"}) /\ Free("run") /\ Me("hand").pc # "bind" /\ UNCHANGED <<proc, file>>
    BY <1>8, <1>t, Starting DEF Start, Calm, Alone, Free, Idle
  <2> QED
    BY <2>1, <1>u, <1>v, Resting DEF Moves
<1>9. CASE \E n \in Names : Stop(n)
  <2>1. PICK n \in Names : Stop(n)
    BY <1>9
  <2>2. Free("run") /\ Me("hand").pc # "bind" /\ file' = Dropped(n) /\ UNCHANGED proc
    BY <2>1 DEF Stop, Calm, Alone, Free, Idle
  <2>3. Older /\ Struck
    BY <2>2, <1>u, <1>d
  <2>4. CASE /\ Mine(n) /\ Moves("hand", {"kill"}) /\ agent'["hand"].name = n
             /\ agent'["hand"].pid = file[n].pid
    <3>1. file[n].pid \in Pids /\ file' = file
      BY <2>2, <2>4, <1>t, FileType
    <3>2. Grip("hand")'
      BY <2>4, <3>1 DEF Grip, Me, Moves
    <3> QED
      BY <2>2, <2>3, <2>4, <3>2, GoingOn
  <2>5. CASE Moves("hand", {"off"})
    BY <2>2, <2>3, <2>5, Resting DEF Idle, Moves
  <2> QED
    BY <2>1, <2>4, <2>5, <1>t, StoppingByHand
<1>10. CASE \E n \in Names : Status(n)
  <2>1. /\ Free("run") /\ Free("hand") /\ UNCHANGED <<proc, agent>>
        /\ \E n \in Names : file' = Dropped(n)
    BY <1>10 DEF Status, Calm, Alone
  <2> QED
    BY <2>1, <1>u, <1>d, NobodyMoves DEF Free
<1>11. CASE Besides
  BY <1>11, <1>t, <1>v, BesidesType, BesidesOlder, NobodyMoves
<1>12. CASE UNCHANGED vars
  BY <1>12, <1>u, <1>v, NobodyMoves DEF vars
<1> QED
  BY <1>1, <1>2, <1>3, <1>4, <1>5, <1>6, <1>7, <1>8, <1>9, <1>10, <1>11, <1>12
  DEF Next, Besides

\* All of it holds in every behaviour.
LEMMA Soundness ==
    ASSUME Calm
    PROVE  Spec => []Sound
<1>1. Init => Sound
  <2>1. ASSUME Init PROVE Tended
    BY <2>1, AsleepType
    DEF Init, Tended, Solo, Free, Known, Grip, Stopping, TakesDown, Me, Agents, Asleep, Idle,
        Ours, Lives, Living, Nobody
  <2>2. Init => Started
    BY AsleepType DEF Init, Started, Me, Agents, Asleep
  <2> QED
    BY <2>1, <2>2, TypeInit DEF Sound
<1>2. Sound /\ [Next]_vars => Sound'
  <2>1. ASSUME Sound, [Next]_vars PROVE Sound'
    <3>1. TypeOK' /\ Numbered' /\ Started'
      BY <2>1, TypeStep, StartedStep DEF Sound, Calm
    <3> QED
      BY <2>1, <3>1, TendedStep DEF Sound
  <2> QED
    BY <2>1
<1> QED
  BY <1>1, <1>2, PTL DEF Spec

\* Every server of forge that lives is on record or about to be.
THEOREM Recorded ==
    ASSUME Calm
    PROVE  Spec => []WrittenDown
<1>1. Sound => WrittenDown
  BY DEF Sound, Tended, Known, WrittenDown, Ours, Lives, TypeOK, Processes
<1> QED
  BY <1>1, Soundness, PTL

\* Forge never has two servers of one kind alive.
THEOREM Single ==
    ASSUME Calm
    PROVE  Spec => []OneCopy
<1>1. ASSUME Sound, NEW p \in Pids, NEW q \in Pids, NEW n \in Names, Ours(p, n), Ours(q, n)
      PROVE  p = q
  <2>1. CASE \E a \in Agents : Me(a).pc = "bind" /\ Me(a).name = n
    BY <1>1, <2>1 DEF Sound, Tended, Grip
  <2>2. CASE ~ \E a \in Agents : Me(a).pc = "bind" /\ Me(a).name = n
    BY <1>1, <2>2 DEF Sound, Tended, Known
  <2> QED
    BY <2>1, <2>2
<1>2. Sound => OneCopy
  <2>1. ASSUME Sound, NEW p \in Pids PROVE proc[p].name \in Names
    BY <2>1 DEF Sound, TypeOK, Processes
  <2> QED
    BY <1>1, <2>1 DEF OneCopy, Ours
<1> QED
  BY <1>2, Soundness, PTL

\* When a queue ends, nothing that runs started lives on.
THEOREM RunLeavesNothing ==
    ASSUME Calm
    PROVE  Spec => []RunTakesItsServersDown
<1>1. Sound => RunTakesItsServersDown
  BY DEF Sound, Tended, Stopping, TakesDown, RunTakesItsServersDown
<1> QED
  BY <1>1, Soundness, PTL

=============================================================================
