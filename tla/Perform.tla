------------------------------ MODULE Perform ------------------------------
(***************************************************************************)
(* The operations of perform/docker_run.go, run by several eris processes  *)
(* against one Docker daemon.                                              *)
(*                                                                         *)
(* Every eris command is a process of its own.  It takes no lock: it asks  *)
(* the daemon what exists, decides, and acts with further calls, so other  *)
(* processes, exiting containers and a kill come in between any two calls. *)
(* One action is one call to the daemon together with the decision the     *)
(* code takes on its answer.  The daemon is external: it keeps names       *)
(* unique, and its containers, volumes and links behave as the code relies *)
(* on.                                                                     *)
(***************************************************************************)
EXTENDS ContainerNames, Sequences

CONSTANTS
  Procs,            \* eris processes
  Invocations,      \* the commands they may run
  MaxInvocations,   \* bound: commands begun in a behaviour
  Faults,           \* TRUE: a call to the daemon may fail without effect
  Kills             \* TRUE: an eris process may be killed between two calls

Kinds == {"createData", "runData", "run", "exec", "rebuild", "stop", "remove", "rename"}

\* The flags of a command: AutoData of the definition, --data, --vol, --pull
\* and ops.Remove.
Flags == {"auto", "data", "vol", "pull", "rm"}

PlainName == {n \in ContainerName : n.type \in ErisTypes}

Invocation == [kind : Kinds, name : PlainName, to : PlainName, flags : SUBSET Flags]

\* Data commands name a data container, the others a service or a chain;
\* only a rename may name either.
PerformAssumption ==
  /\ Invocations \subseteq Invocation
  /\ \A i \in Invocations :
       /\ i.kind \in {"createData", "runData"} => i.name.type = TypeData
       /\ i.kind \notin {"createData", "runData", "rename"} => i.name.type # TypeData
       /\ i.to.type = i.name.type
  /\ MaxInvocations \in Nat
  /\ Faults \in BOOLEAN
  /\ Kills \in BOOLEAN

ASSUME PerformAssumption

VARIABLES
  cont,      \* the daemon's container of each name, or NoContainer
  volumes,   \* the volumes that have not been deleted
  nextId,    \* the next container or volume id; ids are never reused
  cli,       \* the state of each eris process
  begun      \* commands begun so far

daemon == <<cont, volumes, nextId>>
vars == <<cont, volumes, nextId, cli, begun>>

\* vol is what is mounted at /home/eris/.eris; from names the container the
\* volume was taken from (VolumesFrom), if any.
Container == [id : Nat, running : BOOLEAN, vol : Nat, from : ContainerName \cup {NoName}]
NoContainer == [id |-> 0, running |-> FALSE, vol |-> 0, from |-> NoName]

NoInvocation == [kind |-> "none", name |-> NoName, to |-> NoName, flags |-> {}]

Results == {"none", "ok", "err", "killed"}

Labels == {"idle",
           "createData", "createDataCall",
           "run", "runData", "runDataCreate", "runExists", "runCreate", "runStart", "runRemove",
           "execData", "execDataCreate", "execCreate", "execStart", "execWait", "execRemove",
           "stop", "stopCall",
           "remove", "removeCall", "removeData", "removeDataCall",
           "rebuild", "rebuildRunning", "rebuildRemove", "rebuildCreate", "rebuildStart",
           "pull", "pullRunning", "pullRemove", "pullImage",
           "rename", "renameTo", "renameRunning", "renameStop", "renameRemove",
           "renameVolumes", "renameCreate", "renameStart"}

\* What a caller needs again when the function it called returns.
Frame == [back : {"rebuildRemove", "rebuildCreate", "pullRemove"}, id : Nat, was : BOOLEAN]

\* A process: where it is, the command it runs, the data container name loaded
\* with the definition, the container id and wasRunning of the innermost call,
\* the frames of its callers, the VolumesFrom a rename carries over, the id of
\* the throw-away container it created, whether its work failed before the
\* deferred removal, and the result of its last command.
Process == [pc : Labels, inv : Invocation \cup {NoInvocation}, data : ContainerName \cup {NoName},
            id : Nat, was : BOOLEAN, stk : Seq(Frame), src : ContainerName \cup {NoName},
            made : Nat, failed : BOOLEAN, res : Results]

Idle(r) == [pc |-> "idle", inv |-> NoInvocation, data |-> NoName, id |-> 0, was |-> FALSE,
            stk |-> <<>>, src |-> NoName, made |-> 0, failed |-> FALSE, res |-> r]

TypeOK ==
  /\ cont \in [ContainerName -> Container]
  /\ volumes \subseteq Nat
  /\ nextId \in Nat \ {0}
  /\ cli \in [Procs -> Process]
  /\ begun \in Nat

Init ==
  /\ cont = [n \in ContainerName |-> NoContainer]
  /\ volumes = {}
  /\ nextId = 1
  /\ cli = [p \in Procs |-> Idle("none")]
  /\ begun = 0

-----------------------------------------------------------------------------
\* The daemon.

Exists(n) == cont[n].id # 0
Existing == {n \in ContainerName : Exists(n)}

\* Faulty variant: listContainers filters nothing out.
CandidatesOfAnyType(n, all) ==
  {m \in Existing : (all \/ cont[m].running) /\ Answers(n, m, Existing)}

\* Containers that ParseContainers(n, all) may return: the first match in the
\* order of the daemon's list, which the code does not control.
Candidates(n, all) ==
  {m \in Existing : /\ m.type \in ErisTypes
                    /\ all \/ cont[m].running
                    /\ Answers(n, m, Existing)}

\* The ids it may answer with; 0 when there is none, or when listing failed
\* and listContainers dropped the error.
Lookup(n, all) ==
  {cont[m].id : m \in Candidates(n, all)}
    \cup (IF Faults \/ Candidates(n, all) = {} THEN {0} ELSE {})

CanCreate(n, from) ==
  /\ ~Exists(n)
  /\ from = NoName \/ from \in Existing
  /\ LinkedTo(n) \subseteq Existing

Create(n, from) ==
  LET vol == IF from \in Existing THEN cont[from].vol ELSE nextId IN
  /\ cont' = [cont EXCEPT ![n] = [id |-> nextId, running |-> FALSE, vol |-> vol, from |-> from]]
  /\ volumes' = volumes \cup {vol}
  /\ nextId' = nextId + 1

\* A link needs its target running when the container starts.
CanStart(n) ==
  /\ Exists(n)
  /\ ~cont[n].running
  /\ \A m \in LinkedTo(n) : cont[m].running

SetRunning(n, b) ==
  /\ cont' = [cont EXCEPT ![n] = [@ EXCEPT !.running = b]]
  /\ UNCHANGED <<volumes, nextId>>

\* With vol the volume goes too, unless another container still mounts it.
Remove(n, vol) ==
  /\ cont' = [cont EXCEPT ![n] = NoContainer]
  /\ volumes' = IF vol /\ \A m \in Existing \ {n} : cont[m].vol # cont[n].vol
                THEN volumes \ {cont[n].vol}
                ELSE volumes
  /\ UNCHANGED nextId

-----------------------------------------------------------------------------
\* A process.

At(p, l) == cli[p].pc = l
Has(p, flag) == flag \in cli[p].inv.flags
Name(p) == cli[p].inv.name

\* The states a process moves on to: the next line l; out of every caller with
\* an error; back to the caller, if any, with nil; into the function at l, to
\* continue at back with the caller's id and was.
Moved(p, l) == [cli[p] EXCEPT !.pc = l]

Failed == Idle("err")

Returned(p) ==
  IF cli[p].stk = <<>>
  THEN Idle("ok")
  ELSE LET f == Head(cli[p].stk) IN
       [cli[p] EXCEPT !.pc = f.back, !.id = f.id, !.was = f.was, !.stk = Tail(@)]

Called(p, l, back, was) ==
  [cli[p] EXCEPT !.pc = l,
                 !.stk = <<[back |-> back, id |-> cli[p].id, was |-> was]>> \o @]

Become(p, r) == cli' = [cli EXCEPT ![p] = r] /\ UNCHANGED begun
Goto(p, l) == Become(p, Moved(p, l))
Fail(p) == Become(p, Failed)
Return(p) == Become(p, Returned(p))

\* A call the daemon refuses or that does not get through.
Refused(p, can) ==
  /\ Faults \/ ~can
  /\ Fail(p)
  /\ UNCHANGED daemon

Entry(i) ==
  CASE i.kind = "exec"    -> IF "auto" \in i.flags THEN "execData" ELSE "execCreate"
    [] i.kind = "runData" -> "execCreate"
    [] OTHER              -> i.kind

\* The data container name the loaders leave in the operation: a service that
\* does not manage data and whose container is found gets none at all.
DataNames(i) ==
  IF i.name.type # TypeService \/ "auto" \in i.flags \/ ~Exists(i.name)
  THEN {ToDataContainer(i.name)}
  ELSE {NoName} \cup (IF Faults THEN {ToDataContainer(i.name)} ELSE {})

\* A command starts: its definition is loaded.
Begin(p) ==
  /\ At(p, "idle")
  /\ begun < MaxInvocations
  /\ begun' = begun + 1
  /\ \E i \in Invocations : \E d \in DataNames(i) :
       cli' = [cli EXCEPT ![p] = [Idle("none") EXCEPT !.pc = Entry(i), !.inv = i, !.data = d]]
  /\ UNCHANGED daemon

\* The process is killed: nothing deferred runs.
Kill(p) ==
  /\ Kills
  /\ ~At(p, "idle")
  /\ Become(p, Idle("killed"))
  /\ UNCHANGED daemon

\* The program in a container ends by itself.
Exit(n) ==
  /\ cont[n].running
  /\ SetRunning(n, FALSE)
  /\ UNCHANGED <<cli, begun>>

-----------------------------------------------------------------------------
\* DockerCreateData

CreateData(p) ==
  /\ At(p, "createData")
  /\ \E id \in Lookup(Name(p), TRUE) :
       IF id # 0 THEN Fail(p) ELSE Goto(p, "createDataCall")
  /\ UNCHANGED daemon

CreateDataCall(p) ==
  /\ At(p, "createDataCall")
  /\ \/ CanCreate(cli[p].data, NoName) /\ Create(cli[p].data, NoName) /\ Return(p)
     \/ Refused(p, CanCreate(cli[p].data, NoName))

-----------------------------------------------------------------------------
\* DockerRunService

\* Faulty variant: a container that exists counts as running, as in DockerStop.
RunUnlessExists(p) ==
  /\ At(p, "run")
  /\ \E id \in Lookup(Name(p), TRUE) :
       IF id # 0 THEN Return(p)
       ELSE Goto(p, IF Has(p, "auto") THEN "runData" ELSE "runExists")
  /\ UNCHANGED daemon

Run(p) ==
  /\ At(p, "run")
  /\ \E id \in Lookup(Name(p), FALSE) :
       IF id # 0 THEN Return(p)
       ELSE Goto(p, IF Has(p, "auto") THEN "runData" ELSE "runExists")
  /\ UNCHANGED daemon

\* The data container is made if it cannot be found; DockerExecService begins
\* with the same lines.
EnsureData(p, here, create, next) ==
  /\ At(p, here)
  /\ \E id \in Lookup(cli[p].data, TRUE) : Goto(p, IF id # 0 THEN next ELSE create)
  /\ UNCHANGED daemon

EnsureDataCall(p, create, next) ==
  /\ At(p, create)
  /\ \/ CanCreate(cli[p].data, NoName) /\ Create(cli[p].data, NoName) /\ Goto(p, next)
     \/ Refused(p, CanCreate(cli[p].data, NoName))

RunData(p) == EnsureData(p, "runData", "runDataCreate", "runExists")
RunDataCreate(p) == EnsureDataCall(p, "runDataCreate", "runExists")

\* Faulty variant: creates without looking.
RunExistsNot(p) == At(p, "runExists") /\ Goto(p, "runCreate") /\ UNCHANGED daemon

RunExists(p) ==
  /\ At(p, "runExists")
  /\ \E id \in Lookup(Name(p), TRUE) : Goto(p, IF id # 0 THEN "runStart" ELSE "runCreate")
  /\ UNCHANGED daemon

\* Faulty variant: configureDataContainer is not given the service's options.
DataSourceMissing(p) == NoName

\* Where a container made from the definition takes its volume from.
DataSource(p) == IF Has(p, "auto") THEN cli[p].data ELSE NoName

RunCreate(p) ==
  /\ At(p, "runCreate")
  /\ \/ CanCreate(Name(p), DataSource(p)) /\ Create(Name(p), DataSource(p)) /\ Goto(p, "runStart")
     \/ Refused(p, CanCreate(Name(p), DataSource(p)))

RunStart(p) ==
  /\ At(p, "runStart")
  /\ \/ /\ CanStart(Name(p))
        /\ SetRunning(Name(p), TRUE)
        /\ IF Has(p, "rm") THEN Goto(p, "runRemove") ELSE Return(p)
     \/ Refused(p, CanStart(Name(p)))

\* Not forced: the daemon refuses while the container still runs.
RunRemove(p) ==
  LET can == Exists(Name(p)) /\ ~cont[Name(p)].running IN
  /\ At(p, "runRemove")
  /\ \/ can /\ Remove(Name(p), FALSE) /\ Return(p)
     \/ Refused(p, can)

-----------------------------------------------------------------------------
\* DockerRunData, DockerExecData and DockerExecService: a throw-away container
\* is created, started, waited for and removed.

IsService(p) == cli[p].inv.kind = "exec"

Temp(p) == IF IsService(p) THEN InteractiveContainer(Name(p)) ELSE ExecContainer(cli[p].data)

TempSource(p) == IF IsService(p) THEN DataSource(p) ELSE cli[p].data

ExecData(p) == EnsureData(p, "execData", "execDataCreate", "execCreate")
ExecDataCreate(p) == EnsureDataCall(p, "execDataCreate", "execCreate")

\* Faulty variant: like DockerRunService, goes on with a container it finds.
ExecCreateReusing(p) ==
  /\ At(p, "execCreate")
  /\ \/ /\ CanCreate(Temp(p), TempSource(p))
        /\ Create(Temp(p), TempSource(p))
        /\ Become(p, [cli[p] EXCEPT !.pc = "execStart", !.made = nextId])
     \/ Exists(Temp(p)) /\ Goto(p, "execStart") /\ UNCHANGED daemon

\* The removal is deferred only once the creation has succeeded.
ExecCreate(p) ==
  /\ At(p, "execCreate")
  /\ \/ /\ CanCreate(Temp(p), TempSource(p))
        /\ Create(Temp(p), TempSource(p))
        /\ Become(p, [cli[p] EXCEPT !.pc = "execStart", !.made = nextId])
     \/ Refused(p, CanCreate(Temp(p), TempSource(p)))

\* Faulty variant: the removal is deferred only once the start has succeeded.
ExecStartLeaking(p) ==
  /\ At(p, "execStart")
  /\ \/ CanStart(Temp(p)) /\ SetRunning(Temp(p), TRUE) /\ Goto(p, "execWait")
     \/ Refused(p, CanStart(Temp(p)))

ExecStart(p) ==
  /\ At(p, "execStart")
  /\ \/ CanStart(Temp(p)) /\ SetRunning(Temp(p), TRUE) /\ Goto(p, "execWait")
     \/ /\ Faults \/ ~CanStart(Temp(p))
        /\ Become(p, [cli[p] EXCEPT !.pc = "execRemove", !.failed = TRUE])
        /\ UNCHANGED daemon

\* Faulty variant: a bad exit code returns before the removal.
ExecWaitLeaking(p) ==
  /\ At(p, "execWait")
  /\ ~cont[Temp(p)].running
  /\ Goto(p, "execRemove") \/ Fail(p)
  /\ UNCHANGED daemon

\* Faulty variant: waits for the container to go rather than to end.
ExecWaitGone(p) ==
  /\ At(p, "execWait")
  /\ ~Exists(Temp(p))
  /\ Goto(p, "execRemove")
  /\ UNCHANGED daemon

\* Returns when the container has ended, with any exit code.
ExecWait(p) ==
  /\ At(p, "execWait")
  /\ Faults \/ ~cont[Temp(p)].running
  /\ \E bad \in BOOLEAN : Become(p, [cli[p] EXCEPT !.pc = "execRemove", !.failed = bad])
  /\ UNCHANGED daemon

\* The deferred removal. A data command reports that it failed, an exec on a
\* service does not.
ExecRemove(p) ==
  LET can == Exists(Temp(p)) /\ ~cont[Temp(p)].running
      End(bad) == IF bad THEN Fail(p) ELSE Return(p)
  IN
  /\ At(p, "execRemove")
  /\ \/ can /\ Remove(Temp(p), ~IsService(p)) /\ End(cli[p].failed)
     \/ (Faults \/ ~can) /\ UNCHANGED daemon /\ End(cli[p].failed \/ ~IsService(p))

-----------------------------------------------------------------------------
\* DockerStop. "running" in the code is what ContainerExists answers: the
\* container may well be stopped, and then the daemon refuses.

\* Some existing container has the id; n is its name.
Identified(n, id) == n \in Existing /\ cont[n].id = id

Gone(id) == \A n \in Existing : cont[n].id # id

Stop(p) ==
  /\ At(p, "stop")
  /\ \E id \in Lookup(Name(p), TRUE) :
       IF id # 0 THEN Become(p, [cli[p] EXCEPT !.pc = "stopCall", !.id = id]) ELSE Return(p)
  /\ UNCHANGED daemon

StopCall(p) ==
  LET can(n) == Identified(n, cli[p].id) /\ cont[n].running IN
  /\ At(p, "stopCall")
  /\ \/ \E n \in ContainerName : can(n) /\ SetRunning(n, FALSE) /\ Return(p)
     \/ Refused(p, \E n \in ContainerName : can(n))

-----------------------------------------------------------------------------
\* removeContainer by the id a lookup answered with, not forced; then the
\* process becomes r.

CanRemove(n, id) == Identified(n, id) /\ ~cont[n].running

RemoveFound(p, vol, r) ==
  \/ \E n \in ContainerName : CanRemove(n, cli[p].id) /\ Remove(n, vol) /\ Become(p, r)
  \/ Refused(p, \E n \in ContainerName : CanRemove(n, cli[p].id))

-----------------------------------------------------------------------------
\* DockerRemove

RemoveService(p) ==
  /\ At(p, "remove")
  /\ \E id \in Lookup(Name(p), TRUE) :
       IF id # 0 THEN Become(p, [cli[p] EXCEPT !.pc = "removeCall", !.id = id]) ELSE Return(p)
  /\ UNCHANGED daemon

RemoveCall(p) ==
  /\ At(p, "removeCall")
  /\ RemoveFound(p, Has(p, "vol"),
                 IF Has(p, "data") THEN Moved(p, "removeData") ELSE Returned(p))

\* An empty data container name is looked up like any other.
RemoveData(p) ==
  /\ At(p, "removeData")
  /\ \E id \in Lookup(cli[p].data, TRUE) :
       IF id # 0 THEN Become(p, [cli[p] EXCEPT !.pc = "removeDataCall", !.id = id]) ELSE Return(p)
  /\ UNCHANGED daemon

RemoveDataCall(p) ==
  /\ At(p, "removeDataCall")
  /\ RemoveFound(p, Has(p, "vol"), Returned(p))

-----------------------------------------------------------------------------
\* DockerRebuild

Rebuild(p) ==
  /\ At(p, "rebuild")
  /\ \E id \in Lookup(Name(p), TRUE) :
       IF id # 0 THEN Become(p, [cli[p] EXCEPT !.pc = "rebuildRunning", !.id = id]) ELSE Return(p)
  /\ UNCHANGED daemon

\* Faulty variant: goes back to the first line after the stop.
RebuildRunningAgain(p) ==
  /\ At(p, "rebuildRunning")
  /\ \E id \in Lookup(Name(p), FALSE) :
       IF id # 0 THEN Become(p, Called(p, "stop", "rebuild", TRUE))
       ELSE Become(p, [cli[p] EXCEPT !.pc = "rebuildRemove", !.was = FALSE])
  /\ UNCHANGED daemon

RebuildRunning(p) ==
  /\ At(p, "rebuildRunning")
  /\ \E id \in Lookup(Name(p), FALSE) :
       IF id # 0 THEN Become(p, Called(p, "stop", "rebuildRemove", TRUE))
       ELSE Become(p, [cli[p] EXCEPT !.pc = "rebuildRemove", !.was = FALSE])
  /\ UNCHANGED daemon

RebuildRemove(p) ==
  /\ At(p, "rebuildRemove")
  /\ RemoveFound(p, TRUE, IF Has(p, "pull") THEN Called(p, "pull", "rebuildCreate", cli[p].was)
                          ELSE Moved(p, "rebuildCreate"))

\* Faulty variant: starts the new container whatever the old one did.
RebuildCreateStarting(p) ==
  /\ At(p, "rebuildCreate")
  /\ \/ CanCreate(Name(p), NoName) /\ Create(Name(p), NoName) /\ Goto(p, "rebuildStart")
     \/ Refused(p, CanCreate(Name(p), NoName))

\* Only the service container is configured again, without the data container.
RebuildCreate(p) ==
  /\ At(p, "rebuildCreate")
  /\ \/ /\ CanCreate(Name(p), NoName)
        /\ Create(Name(p), NoName)
        /\ IF cli[p].was THEN Goto(p, "rebuildStart") ELSE Return(p)
     \/ Refused(p, CanCreate(Name(p), NoName))

RebuildStart(p) ==
  /\ At(p, "rebuildStart")
  /\ \/ CanStart(Name(p)) /\ SetRunning(Name(p), TRUE) /\ Return(p)
     \/ Refused(p, CanStart(Name(p)))

-----------------------------------------------------------------------------
\* DockerPull

Pull(p) ==
  /\ At(p, "pull")
  /\ \E id \in Lookup(Name(p), TRUE) :
       IF id # 0 THEN Become(p, [cli[p] EXCEPT !.pc = "pullRunning", !.id = id])
       ELSE Become(p, [cli[p] EXCEPT !.pc = "pullImage", !.was = FALSE])
  /\ UNCHANGED daemon

PullRunning(p) ==
  /\ At(p, "pullRunning")
  /\ \E id \in Lookup(Name(p), FALSE) :
       IF id # 0 THEN Become(p, Called(p, "stop", "pullRemove", TRUE))
       ELSE Become(p, [cli[p] EXCEPT !.pc = "pullRemove", !.was = FALSE])
  /\ UNCHANGED daemon

PullRemove(p) ==
  /\ At(p, "pullRemove")
  /\ RemoveFound(p, FALSE, Moved(p, "pullImage"))

\* The registry may fail at any time, not only under Faults.
PullImage(p) ==
  /\ At(p, "pullImage")
  /\ \/ IF cli[p].was THEN Goto(p, "run") ELSE Return(p)
     \/ Fail(p)
  /\ UNCHANGED daemon

-----------------------------------------------------------------------------
\* DockerRename: inspected by the exact names, removed and created again.

Rename(p) ==
  /\ At(p, "rename")
  /\ \/ /\ Exists(Name(p))
        /\ Become(p, [cli[p] EXCEPT !.pc = "renameTo", !.id = cont[Name(p)].id,
                                    !.src = cont[Name(p)].from])
        /\ UNCHANGED daemon
     \/ Refused(p, Exists(Name(p)))

\* Any error of this inspection is taken to mean that the new name is free.
RenameTo(p) ==
  /\ At(p, "renameTo")
  /\ \/ Exists(cli[p].inv.to) /\ Fail(p)
     \/ (Faults \/ ~Exists(cli[p].inv.to)) /\ Goto(p, "renameRunning")
  /\ UNCHANGED daemon

RenameRunning(p) ==
  /\ At(p, "renameRunning")
  /\ \E id \in Lookup(Name(p), FALSE) :
       Become(p, [cli[p] EXCEPT !.pc = IF id # 0 THEN "renameStop" ELSE "renameRemove",
                                !.was = (id # 0)])
  /\ UNCHANGED daemon

\* An error is ignored.
RenameStop(p) ==
  /\ At(p, "renameStop")
  /\ \/ \E n \in ContainerName : Identified(n, cli[p].id) /\ SetRunning(n, FALSE)
     \/ (Faults \/ Gone(cli[p].id)) /\ UNCHANGED daemon
  /\ Goto(p, "renameRemove")

\* Faulty variant: an error is ignored, like that of the stop before.
RenameRemoveIgnoring(p) ==
  /\ At(p, "renameRemove")
  /\ \/ \E n \in ContainerName : Identified(n, cli[p].id) /\ Remove(n, TRUE)
     \/ (Faults \/ Gone(cli[p].id)) /\ UNCHANGED daemon
  /\ Goto(p, "renameVolumes")

\* Forced: a running container goes as well.
RenameRemove(p) ==
  /\ At(p, "renameRemove")
  /\ \/ \E n \in ContainerName :
          Identified(n, cli[p].id) /\ Remove(n, TRUE) /\ Goto(p, "renameVolumes")
     \/ Refused(p, ~Gone(cli[p].id))

\* VolumesFrom entries whose container cannot be inspected are dropped.
RenameVolumes(p) ==
  /\ At(p, "renameVolumes")
  /\ \/ cli[p].src \in Existing /\ Goto(p, "renameCreate")
     \/ /\ Faults \/ cli[p].src \notin Existing
        /\ Become(p, [cli[p] EXCEPT !.pc = "renameCreate", !.src = NoName])
  /\ UNCHANGED daemon

RenameCreate(p) ==
  /\ At(p, "renameCreate")
  /\ \/ /\ CanCreate(cli[p].inv.to, cli[p].src)
        /\ Create(cli[p].inv.to, cli[p].src)
        /\ IF cli[p].was THEN Become(p, [cli[p] EXCEPT !.pc = "renameStart", !.id = nextId])
           ELSE Return(p)
     \/ Refused(p, CanCreate(cli[p].inv.to, cli[p].src))

\* An error is ignored.
RenameStart(p) ==
  LET can(n) == Identified(n, cli[p].id) /\ CanStart(n) IN
  /\ At(p, "renameStart")
  /\ \/ \E n \in ContainerName : can(n) /\ SetRunning(n, TRUE)
     \/ (Faults \/ ~\E n \in ContainerName : can(n)) /\ UNCHANGED daemon
  /\ Return(p)

-----------------------------------------------------------------------------
Step(p) ==
  \/ CreateData(p) \/ CreateDataCall(p)
  \/ Run(p) \/ RunData(p) \/ RunDataCreate(p) \/ RunExists(p) \/ RunCreate(p)
  \/ RunStart(p) \/ RunRemove(p)
  \/ ExecData(p) \/ ExecDataCreate(p) \/ ExecCreate(p) \/ ExecStart(p) \/ ExecWait(p)
  \/ ExecRemove(p)
  \/ Stop(p) \/ StopCall(p)
  \/ RemoveService(p) \/ RemoveCall(p) \/ RemoveData(p) \/ RemoveDataCall(p)
  \/ Rebuild(p) \/ RebuildRunning(p) \/ RebuildRemove(p) \/ RebuildCreate(p) \/ RebuildStart(p)
  \/ Pull(p) \/ PullRunning(p) \/ PullRemove(p) \/ PullImage(p)
  \/ Rename(p) \/ RenameTo(p) \/ RenameRunning(p) \/ RenameStop(p) \/ RenameRemove(p)
  \/ RenameVolumes(p) \/ RenameCreate(p) \/ RenameStart(p)

Next ==
  \/ \E p \in Procs : Begin(p) \/ Step(p) \/ Kill(p)
  \/ \E n \in ContainerName : Exit(n)

Spec == Init /\ [][Next]_vars

-----------------------------------------------------------------------------
\* Properties

\* The process is inside the life of the throw-away container it created.
Holding(p) == cli[p].pc \in {"execStart", "execWait", "execRemove"}

\* While a process starts, waits for and removes its throw-away container by
\* name, the container under that name is the very one it created: no rename,
\* update, removal or second exec can slip another one in.
TempOwned == \A p \in Procs : Holding(p) => Exists(Temp(p)) /\ cont[Temp(p)].id = cli[p].made

\* Two processes never work in the same throw-away container.
TempExclusive ==
  \A p, q \in Procs : p # q /\ Holding(p) /\ Holding(q) => Temp(p) # Temp(q)

\* Unless a process is killed or the daemon fails, every throw-away container
\* has a process that is going to remove it.
TempHasOwner ==
  \A n \in Existing : n.type \in TempTypes => \E p \in Procs : Holding(p) /\ Temp(p) = n

\* A throw-away container disappears only in the deferred removal of the
\* process that created it.
TempDiesWithOwner ==
  [][\A n \in ContainerName :
       n.type \in TempTypes /\ Exists(n) /\ cont'[n].id # cont[n].id
         => \E p \in Procs : /\ cli[p].pc = "execRemove"
                             /\ cli[p].made = cont[n].id
                             /\ cli'[p].pc = "idle"]_vars

\* Also when the start or the wait fails, a process leaves its throw-away
\* container behind only if it is killed, or if the removal it tries is refused.
RemovalTried ==
  [][\A p \in Procs : Holding(p) /\ cli'[p].pc = "idle" /\ cont'[Temp(p)] # NoContainer =>
       At(p, "execRemove") \/ cli'[p].res = "killed"]_vars

\* The containers a command is about.
Scope(p) == {Name(p), ToDataContainer(Name(p)), Temp(p)}

\* The container named n is removed or stopped in this step.
Loses(n) == Exists(n) /\ (cont'[n].id # cont[n].id \/ (cont[n].running /\ ~cont'[n].running))

\* A command stops or removes no container but the ones it was given.
NoCollateral ==
  [][\A n \in ContainerName, p \in Procs :
       cli'[p] # cli[p] /\ Loses(n) => n \in Scope(p)]_vars

\* p's command ends in this step with the result r.
Ends(p, r) == ~At(p, "idle") /\ cli'[p].pc = "idle" /\ cli'[p].res = r

\* What the user is told is so: after a successful start the container runs,
\* after a successful stop it does not, after a removal it is gone, after the
\* creation of a data container that one exists, and a throw-away container
\* is not left behind.
OkIsTrue ==
  [][\A p \in Procs : Ends(p, "ok") =>
       CASE cli[p].inv.kind = "run"        -> Has(p, "rm") \/ cont'[Name(p)].running
         [] cli[p].inv.kind = "stop"       -> ~cont'[Name(p)].running
         [] cli[p].inv.kind = "remove"     -> Has(p, "data") \/ cont'[Name(p)] = NoContainer
         [] cli[p].inv.kind = "createData" -> cont'[Name(p)] # NoContainer
         [] cli[p].inv.kind \in {"exec", "runData"} -> cont'[Temp(p)] = NoContainer
         [] OTHER -> TRUE]_vars

\* Errors that are dropped (of a listing, which then reads as an empty one) or
\* ignored (of the stop and the restart of a rename) let no start and no rename
\* report a false success: the started container runs, and a renamed one is there
\* under its new name, made only when the old one was gone.
OkDespiteErrors ==
  [][\A p \in Procs : Ends(p, "ok") =>
       CASE cli[p].inv.kind = "run"    -> Has(p, "rm") \/ cont'[Name(p)].running
         [] cli[p].inv.kind = "rename" -> /\ cont'[cli[p].inv.to] # NoContainer
                                          /\ At(p, "renameCreate") => Gone(cli[p].id)
         [] OTHER -> TRUE]_vars

\* The services and chains whose definition asks for a data container.
AutoNames == {i.name : i \in {j \in Invocations : j.kind = "run" /\ "auto" \in j.flags}}

DataAttached ==
  \A n \in AutoNames :
    Exists(n) /\ Exists(ToDataContainer(n)) => cont[n].vol = cont[ToDataContainer(n)].vol

\* A service that manages data works on the volume of its data container, and
\* goes on doing so whatever several processes do, except through an update.
StaysAttached ==
  [][DataAttached => DataAttached' \/ \E p \in Procs : At(p, "rebuildCreate") /\ cli'[p] # cli[p]]_vars

\* The volume of a data container stays, and stays with it, through starts,
\* stops, updates, execs and removals that do not ask for the data.
DataKept ==
  [][\A n \in Existing : n.type = TypeData =>
       cont'[n].vol = cont[n].vol /\ cont[n].vol \in volumes']_vars

\* Whatever killed commands left behind, starting the service again works.
StartRecovers == [][\A p \in Procs : cli[p].inv.kind = "run" => ~Ends(p, "err")]_vars

\* A running process gets its answers from the daemon, and the programs in
\* throw-away containers end.
Fairness ==
  /\ \A p \in Procs : WF_vars(Step(p))
  /\ \A n \in ContainerName : n.type \in TempTypes => WF_vars(Exit(n))

FairSpec == Spec /\ Fairness

\* Every command comes to an end.
CommandsEnd == \A p \in Procs : ~At(p, "idle") ~> At(p, "idle")
=============================================================================
