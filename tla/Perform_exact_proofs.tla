------------------------ MODULE Perform_exact_proofs ------------------------
(***************************************************************************)
(* What the commands of several processes do to the containers and report  *)
(* of them, for any number of processes and commands.                      *)
(*                                                                         *)
(* The operations act on ids that a lookup answered with, and a lookup is  *)
(* a match of names.  So most of what a user expects holds only where a    *)
(* name answers to itself alone (ExactNames): then every id a process or a *)
(* caller in its frames holds is that of the container it works on, or of  *)
(* none that exists any more (FitInv), whatever other processes have done  *)
(* since the lookup.                                                       *)
(***************************************************************************)
EXTENDS Perform_proofs

\* There are no links, and no number begins with the digits of another.
ExactNames ==
  /\ Links = {}
  /\ \A x, y \in Numbers : DigitPrefix(x, y) <=> x = y

\* A definition that manages no data is not removed with its data: its data
\* container name may be empty, and the empty name answers to any container.
DataRemovalsNamed ==
  \A i \in Invocations :
    i.kind = "remove" /\ "data" \in i.flags => "auto" \in i.flags \/ i.name.type # TypeService

\* Commands that leave data containers alone but for making them.
DataLeftAlone ==
  \A i \in Invocations :
    /\ i.kind = "remove" => "data" \notin i.flags
    /\ i.kind = "rename" => i.name.type # TypeData

NoRenames == \A i \in Invocations : i.kind # "rename"

\* AutoData is a property of the definition, the same in all its commands.
AutoOfDefinition ==
  \A i, j \in Invocations : i.name = j.name => ("auto" \in i.flags <=> "auto" \in j.flags)

OneProcess == \A p, q \in Procs : p = q

\* Starts of containers that are not to be removed when they end.
NoSelfRemovals == \A i \in Invocations : i.kind = "run" => "rm" \notin i.flags

RunLabels    == {"run", "runData", "runDataCreate", "runExists", "runCreate", "runStart", "runRemove"}
StopLabels   == {"stop", "stopCall"}
RemoveLabels == {"remove", "removeCall", "removeData", "removeDataCall"}
CreateLabels == {"createData", "createDataCall"}
RenameLabels == {"rename", "renameTo", "renameRunning", "renameStop", "renameRemove", "renameVolumes",
                 "renameCreate", "renameStart"}
UpdateLabels == {"rebuild", "rebuildRunning", "rebuildRemove", "rebuildCreate", "rebuildStart",
                 "pull", "pullRunning", "pullRemove", "pullImage"}

\* The update has found the container.
ReplaceLabels == UpdateLabels \ {"rebuild", "rebuildStart"}

\* The commands that may be at the line l: an update calls DockerStop and
\* DockerPull, which may call DockerRunService.
KindAt(k, l) ==
  /\ l \in RunLabels    => k \in {"run", "rebuild"}
  /\ l \in StopLabels   => k \in {"stop", "rebuild"}
  /\ l \in RemoveLabels => k = "remove"
  /\ l \in CreateLabels => k = "createData"
  /\ l \in RenameLabels => k = "rename"
  /\ l \in UpdateLabels => k = "rebuild"

\* For each name the ids that no container of another name has, or will get.
Owns ==
  [n \in ContainerName |->
     {i \in Nat : i < nextId /\ \A m \in ContainerName : Exists(m) /\ cont[m].id = i => m = n}]

\* The container whose id a process in state r holds.
Subject(r) ==
  IF r.pc = "removeDataCall" THEN ToDataContainer(r.inv.name)
  ELSE IF r.pc = "renameStart" THEN r.inv.to
  ELSE r.inv.name

\* A process state with ids of its own containers only; O is Owns.
Fits(r, O) ==
  r.pc # "idle" =>
    /\ r.stk \in Seq(FrameOver(O[r.inv.name]))
    /\ r.id \in O[Subject(r)]
    /\ \/ r.data = ToDataContainer(r.inv.name)
       \/ r.data = NoName /\ r.inv.name.type = TypeService /\ "auto" \notin r.inv.flags
    /\ KindAt(r.inv.kind, r.pc)
    /\ r.inv.kind # "rebuild" => r.stk = <<>>
    /\ r.pc \in {"removeData", "removeDataCall"} => "data" \in r.inv.flags
    /\ r.pc = "runRemove" => "rm" \in r.inv.flags

\* A name without a container has no traces of one, and a volume in use is
\* not deleted.
Tidy ==
  /\ \A n \in ContainerName : ~Exists(n) => cont[n] = NoContainer
  /\ \A n \in Existing : cont[n].vol \in volumes

FitInv == IInv /\ Tidy /\ \A p \in Procs : Fits(cli[p], Owns)

\* While its process is not waiting for it, a throw-away container is at rest.
Asleep == \A p \in Procs : cli[p].pc \in {"execStart", "execRemove"} => ~cont[Temp(p)].running

\* The process replaces, or is about to start, a container it has found.
Replacing(p) == cli[p].pc # "idle" /\ (cli[p].pc \in ReplaceLabels \/ cli[p].stk # <<>>)

\* The data containers of the services that manage data are there as long as
\* the services, and while one of them is made again.
AttachInv ==
  /\ \A n \in AutoNames : Exists(n) => Exists(ToDataContainer(n))
  /\ \A p \in Procs : Replacing(p) /\ Name(p) \in AutoNames => Exists(ToDataContainer(Name(p)))

\* A single process on its way to start a container.
StartInv ==
  \A p \in Procs : cli[p].inv.kind = "run" =>
    /\ cli[p].pc \in {"runData", "runDataCreate"} => Has(p, "auto")
    /\ cli[p].pc = "runDataCreate" => ~Exists(cli[p].data)
    /\ cli[p].pc \in {"runExists", "runCreate"} /\ Has(p, "auto") => Exists(cli[p].data)
    /\ cli[p].pc = "runCreate" => ~Exists(Name(p))
    /\ cli[p].pc \in {"runData", "runDataCreate", "runExists", "runCreate", "runStart"} =>
         ~cont[Name(p)].running
    /\ cli[p].pc = "runStart" => Exists(Name(p))

-----------------------------------------------------------------------------
\* What a step does to the daemon.

\* The container named n may be removed, or made, by p's next step.
Drops(p, n) ==
  \/ /\ cli[p].pc \in {"removeCall", "removeDataCall", "rebuildRemove", "pullRemove", "renameRemove"}
     /\ Identified(n, cli[p].id)
  \/ cli[p].pc = "runRemove" /\ n = Name(p)
  \/ cli[p].pc = "execRemove" /\ n = Temp(p)

Makes(p, n, from) ==
  \/ cli[p].pc \in {"createDataCall", "runDataCreate", "execDataCreate"} /\ n = cli[p].data /\ from = NoName
  \/ cli[p].pc = "runCreate" /\ n = Name(p) /\ from = DataSource(p)
  \/ cli[p].pc = "rebuildCreate" /\ n = Name(p) /\ from = NoName
  \/ cli[p].pc = "renameCreate" /\ n = cli[p].inv.to /\ from = cli[p].src
  \/ cli[p].pc = "execCreate" /\ n = Temp(p) /\ from = TempSource(p)

Starts(p) ==
  \E n \in ContainerName : /\ SetRunning(n, TRUE)
                           /\ Exists(n)
                           /\ ~IsTemp(n) \/ (cli[p].pc = "execStart" /\ n = Temp(p))

Halts(p) ==
  \E n \in ContainerName : /\ SetRunning(n, FALSE)
                           /\ cli[p].pc \in {"stopCall", "renameStop"}
                           /\ Identified(n, cli[p].id)

Removes(p) == \E n \in ContainerName, vol \in BOOLEAN : Remove(n, vol) /\ Drops(p, n)

Creates(p) ==
  \E n, from \in ContainerName \cup {NoName} :
    CanCreate(n, from) /\ Create(n, from) /\ Makes(p, n, from)

Effect(p) == UNCHANGED daemon \/ Starts(p) \/ Halts(p) \/ Removes(p) \/ Creates(p)

LEMMA RemovesFound ==
  ASSUME NEW p \in Procs, NEW vol \in BOOLEAN, NEW r, RemoveFound(p, vol, r),
         cli[p].pc \in {"removeCall", "removeDataCall", "rebuildRemove", "pullRemove"}
  PROVE  Effect(p)
  BY DEF RemoveFound, Refused, CanRemove, Effect, Removes, Drops

LEMMA PlainEffects ==
  ASSUME IInv, NEW p \in Procs,
         \/ CreateData(p) \/ Run(p) \/ RunData(p) \/ RunExists(p) \/ ExecData(p) \/ ExecWait(p)
         \/ Stop(p) \/ RemoveService(p) \/ RemoveData(p) \/ Rebuild(p) \/ RebuildRunning(p)
         \/ Pull(p) \/ PullRunning(p) \/ PullImage(p)
         \/ Rename(p) \/ RenameTo(p) \/ RenameRunning(p) \/ RenameVolumes(p)
  PROVE  UNCHANGED daemon
  BY DEF CreateData, Run, RunData, RunExists, ExecData, EnsureData, ExecWait, Stop, RemoveService,
         RemoveData, Rebuild, RebuildRunning, Pull, PullRunning, PullImage, Rename, RenameTo,
         RenameRunning, RenameVolumes, Refused

LEMMA CreateEffects ==
  ASSUME IInv, NEW p \in Procs,
         \/ CreateDataCall(p) \/ RunDataCreate(p) \/ ExecDataCreate(p)
         \/ RunCreate(p) \/ RebuildCreate(p) \/ RenameCreate(p) \/ ExecCreate(p)
  PROVE  UNCHANGED daemon \/ Creates(p)
  <1>1. cli[p].pc # "idle"
    BY DEF CreateDataCall, RunDataCreate, ExecDataCreate, EnsureDataCall, RunCreate, RebuildCreate,
           RenameCreate, ExecCreate, At
  <1>2. /\ cli[p].data \in ContainerName \cup {NoName}
        /\ Name(p) \in ContainerName /\ cli[p].inv.to \in ContainerName
        /\ cli[p].src \in ContainerName \cup {NoName}
        /\ DataSource(p) \in ContainerName \cup {NoName}
    BY <1>1, WorkingFacts
  <1>3. TempSource(p) \in ContainerName \cup {NoName}
    BY <1>2 DEF TempSource
  <1>4. CASE CreateDataCall(p)
    BY <1>2, <1>4 DEF CreateDataCall, At, Refused, Creates, Makes
  <1>5. CASE RunDataCreate(p) \/ ExecDataCreate(p)
    BY <1>2, <1>5 DEF RunDataCreate, ExecDataCreate, EnsureDataCall, At, Refused, Creates, Makes
  <1>6. CASE RunCreate(p)
    BY <1>2, <1>6 DEF RunCreate, At, Refused, Creates, Makes
  <1>7. CASE RebuildCreate(p)
    BY <1>2, <1>7 DEF RebuildCreate, At, Refused, Creates, Makes
  <1>8. CASE RenameCreate(p)
    BY <1>2, <1>8 DEF RenameCreate, At, Refused, Creates, Makes
  <1>9. CASE ExecCreate(p)
    <2>1. Temp(p) \in ContainerName
      BY <1>9, TempIsTemp DEF ExecCreate, At, ExecLabels
    <2>2. QED
      BY <1>3, <1>9, <2>1 DEF ExecCreate, At, Refused, Creates, Makes
  <1>10. QED
    BY <1>4, <1>5, <1>6, <1>7, <1>8, <1>9

LEMMA RemoveEffects ==
  ASSUME IInv, NEW p \in Procs,
         \/ RunRemove(p) \/ ExecRemove(p) \/ RemoveCall(p) \/ RemoveDataCall(p)
         \/ RebuildRemove(p) \/ PullRemove(p) \/ RenameRemove(p)
  PROVE  Effect(p)
  <1>1. CASE RunRemove(p)
    <2>1. Name(p) \in ContainerName
      BY <1>1, WorkingFacts DEF RunRemove, At
    <2>2. QED
      BY <1>1, <2>1 DEF RunRemove, At, Refused, Effect, Removes, Drops
  <1>2. CASE ExecRemove(p)
    <2>1. Temp(p) \in ContainerName
      BY <1>2, TempIsTemp DEF ExecRemove, At, ExecLabels
    <2>2. IsService(p) \in BOOLEAN
      BY DEF IsService
    <2>3. QED
      BY <1>2, <2>1, <2>2 DEF ExecRemove, At, Effect, Removes, Drops
  <1>3. CASE RemoveCall(p) \/ RemoveDataCall(p)
    <2>1. Has(p, "vol") \in BOOLEAN
      BY DEF Has
    <2>2. \E r : RemoveFound(p, Has(p, "vol"), r) /\ cli[p].pc \in {"removeCall", "removeDataCall"}
      BY <1>3 DEF RemoveCall, RemoveDataCall, At
    <2>3. QED
      BY <2>1, <2>2, RemovesFound
  <1>4. CASE RebuildRemove(p) \/ PullRemove(p)
    BY <1>4, RemovesFound DEF RebuildRemove, PullRemove, At
  <1>5. CASE RenameRemove(p)
    BY <1>5 DEF RenameRemove, At, Refused, Effect, Removes, Drops
  <1>6. QED
    BY <1>1, <1>2, <1>3, <1>4, <1>5

LEMMA RunningEffects ==
  ASSUME IInv, NEW p \in Procs,
         RunStart(p) \/ ExecStart(p) \/ StopCall(p) \/ RebuildStart(p) \/ RenameStop(p) \/ RenameStart(p)
  PROVE  Effect(p)
  <1>1. CASE RunStart(p) \/ RebuildStart(p)
    <2>1. Name(p) \in ContainerName /\ ~IsTemp(Name(p))
      BY <1>1, WorkingFacts DEF RunStart, RebuildStart, At
    <2>2. QED
      BY <1>1, <2>1 DEF RunStart, RebuildStart, CanStart, Refused, Effect, Starts
  <1>2. CASE ExecStart(p)
    <2>1. Temp(p) \in ContainerName
      BY <1>2, TempIsTemp DEF ExecStart, At, ExecLabels
    <2>2. QED
      BY <1>2, <2>1 DEF ExecStart, CanStart, At, Effect, Starts
  <1>3. CASE StopCall(p)
    BY <1>3 DEF StopCall, At, Refused, Effect, Halts
  <1>4. CASE RenameStop(p)
    BY <1>4 DEF RenameStop, At, Effect, Halts
  <1>5. CASE RenameStart(p)
    BY <1>5, FoundNotTemp DEF RenameStart, CanStart, Effect, Starts
  <1>6. QED
    BY <1>1, <1>2, <1>3, <1>4, <1>5

LEMMA StepEffect ==
  ASSUME IInv, NEW p \in Procs, Step(p)
  PROVE  Effect(p)
  BY PlainEffects, CreateEffects, RemoveEffects, RunningEffects DEF Step, Effect


-----------------------------------------------------------------------------
\* The daemon's calls, container by container.

LEMMA SetRunningFacts ==
  ASSUME IInv, NEW n \in ContainerName, NEW b \in BOOLEAN, SetRunning(n, b)
  PROVE  /\ cont'[n] = [cont[n] EXCEPT !.running = b]
         /\ cont'[n].running = b
         /\ \A m \in ContainerName : m # n => cont'[m] = cont[m]
         /\ \A m \in ContainerName : cont'[m].id = cont[m].id /\ cont'[m].vol = cont[m].vol
         /\ volumes' = volumes /\ nextId' = nextId
  BY DEF IInv, DaemonOK, SetRunning, Container

LEMMA RemoveFacts ==
  ASSUME IInv, NEW n \in ContainerName, NEW vol \in BOOLEAN, Remove(n, vol)
  PROVE  /\ cont'[n] = NoContainer /\ ~Exists(n)'
         /\ \A m \in ContainerName : m # n => cont'[m] = cont[m]
         /\ \A v \in volumes : v = cont[n].vol \/ v \in volumes'
         /\ \A m \in Existing : m # n /\ cont[m].vol \in volumes => cont[m].vol \in volumes'
         /\ nextId' = nextId
  <1>1. cont' = [cont EXCEPT ![n] = NoContainer] /\ cont \in [ContainerName -> Container] /\ nextId' = nextId
    BY DEF IInv, DaemonOK, Remove
  <1>2. cont'[n] = NoContainer /\ \A m \in ContainerName : m # n => cont'[m] = cont[m]
    BY <1>1
  <1>3. ~Exists(n)'
    BY <1>2 DEF Exists, NoContainer
  <1>4. \A v \in volumes : v = cont[n].vol \/ v \in volumes'
    BY DEF Remove
  <1>5. \A m \in Existing : m # n /\ cont[m].vol \in volumes => cont[m].vol \in volumes'
    BY DEF Remove
  <1>6. QED
    BY <1>1, <1>2, <1>3, <1>4, <1>5

LEMMA CreateFacts ==
  ASSUME IInv, NEW n, NEW from \in ContainerName \cup {NoName}, Create(n, from)
  PROVE  /\ n \in ContainerName =>
              /\ cont'[n].id = nextId /\ ~cont'[n].running /\ Exists(n)'
              /\ from \in Existing => cont'[n].vol = cont[from].vol
              /\ cont'[n].vol \in volumes'
         /\ \A m \in ContainerName : m # n => cont'[m] = cont[m]
         /\ volumes \subseteq volumes'
         /\ nextId' = nextId + 1 /\ nextId \in Nat \ {0}
  <1> DEFINE vol == IF from \in Existing THEN cont[from].vol ELSE nextId
             c   == [id |-> nextId, running |-> FALSE, vol |-> vol, from |-> from]
  <1>1. /\ cont' = [cont EXCEPT ![n] = c] /\ cont \in [ContainerName -> Container]
        /\ volumes' = volumes \cup {vol}
        /\ nextId' = nextId + 1 /\ nextId \in Nat \ {0}
    BY DEF IInv, DaemonOK, Create
  <1>2. c.id = nextId /\ c.running = FALSE /\ c.vol = vol /\ (from \in Existing => vol = cont[from].vol)
    OBVIOUS
  <1> HIDE DEF c, vol
  <1>3. n \in ContainerName => cont'[n] = c
    BY <1>1
  <1>4. \A m \in ContainerName : m # n => cont'[m] = cont[m]
    BY <1>1
  <1>5. QED
    BY <1>1, <1>2, <1>3, <1>4 DEF Exists

LEMMA OwnsGrow ==
  ASSUME IInv,
         nextId' \in Nat, nextId <= nextId',
         \A m \in ContainerName : cont'[m].id \in {0, cont[m].id, nextId}
  PROVE  \A n \in ContainerName : Owns[n] \subseteq Owns'[n]
  <1> SUFFICES ASSUME NEW n \in ContainerName, NEW i \in Owns[n]  PROVE i \in Owns'[n]
    OBVIOUS
  <1>1. i \in Nat /\ i < nextId /\ \A m \in ContainerName : Exists(m) /\ cont[m].id = i => m = n
    BY DEF Owns
  <1>2. nextId \in Nat
    BY DEF IInv, DaemonOK
  <1>3. ASSUME NEW m \in ContainerName, Exists(m)', cont'[m].id = i  PROVE m = n
    BY <1>1, <1>2, <1>3 DEF Exists
  <1>4. i < nextId'
    BY <1>1, <1>2
  <1>5. QED
    BY <1>1, <1>3, <1>4 DEF Owns

\* Ids are given once, and traces and volumes are kept in order.
LEMMA EffectKeeps ==
  ASSUME IInv, Tidy, NEW p \in Procs, Effect(p)
  PROVE  Tidy' /\ \A n \in ContainerName : Owns[n] \subseteq Owns'[n]
  <1>0. nextId \in Nat \ {0} /\ \A m \in ContainerName : cont[m] \in Container
    BY DEF IInv, DaemonOK
  <1>1. CASE UNCHANGED daemon
    <2>1. cont' = cont /\ nextId' = nextId /\ volumes' = volumes
      BY <1>1 DEF daemon
    <2>2. QED
      BY <1>0, <2>1, OwnsGrow DEF Tidy, Existing, Exists
  <1>2. ASSUME NEW n \in ContainerName, NEW b \in BOOLEAN, SetRunning(n, b), Exists(n)
        PROVE  Tidy' /\ \A m \in ContainerName : Owns[m] \subseteq Owns'[m]
    <2>1. Tidy'
      BY <1>2, SetRunningFacts DEF Tidy, Existing, Exists
    <2>2. nextId' = nextId /\ \A m \in ContainerName : cont'[m].id = cont[m].id
      BY <1>2, SetRunningFacts
    <2>3. QED
      BY <1>0, <2>1, <2>2, OwnsGrow
  <1>3. ASSUME NEW n \in ContainerName, NEW vol \in BOOLEAN, Remove(n, vol)
        PROVE  Tidy' /\ \A m \in ContainerName : Owns[m] \subseteq Owns'[m]
    <2>1. Tidy'
      BY <1>3, RemoveFacts DEF Tidy, Existing, Exists
    <2>2. cont'[n].id = 0
      BY <1>3, RemoveFacts DEF NoContainer
    <2>3. QED
      BY <1>0, <1>3, <2>1, <2>2, RemoveFacts, OwnsGrow
  <1>4. ASSUME NEW n, NEW from \in ContainerName \cup {NoName}, Create(n, from)
        PROVE  Tidy' /\ \A m \in ContainerName : Owns[m] \subseteq Owns'[m]
    <2>1. Tidy'
      BY <1>4, CreateFacts DEF Tidy, Existing, Exists
    <2>2. \A m \in ContainerName : cont'[m].id \in {0, cont[m].id, nextId}
      BY <1>4, CreateFacts
    <2>3. QED
      BY <1>4, <2>1, <2>2, CreateFacts, OwnsGrow
  <1>5. QED
    BY <1>1, <1>2, <1>3, <1>4 DEF Effect, Starts, Halts, Removes, Creates, Identified, Existing


-----------------------------------------------------------------------------
\* Lookups.

LEMMA NothingLinked ==
  ASSUME ExactNames
  PROVE  \A n : LinkedTo(n) = {}
  BY DEF ExactNames, LinkedTo

LEMMA AnswersItself ==
  ASSUME ExactNames, NEW n \in PlainName, NEW m \in Existing, m.type \in ErisTypes
  PROVE  Answers(n, m, Existing) <=> m = n
  <1>1. m \in PlainName /\ PlainName \subseteq ContainerName
    BY DEF Existing, PlainName
  <1>2. Plain(m) = m /\ n # NoName
    <2>1. Plain(m) = m
      BY DEF Plain, Existing, ContainerName, ErisTypes, TypeService, TypeChain, TypeData
    <2>2. QED
      BY <1>1, <2>1, NameFacts
  <1>3. Matches(n, m) <=> n.type = m.type /\ n.short = m.short /\ n.number = m.number
    BY <1>1, <1>2 DEF Matches, ExactNames, PlainName, ContainerName
  <1>4. n.type = m.type /\ n.short = m.short /\ n.number = m.number <=> m = n
    BY <1>1 DEF PlainName, ContainerName
  <1>5. QED
    BY <1>3, <1>4, NothingLinked DEF Answers

\* A lookup answers with the id of the container of that very name or with 0,
\* which without failures means that there is none.
LEMMA LookupExact ==
  ASSUME ExactNames, IInv, NEW n \in PlainName, NEW all \in BOOLEAN, NEW id \in Lookup(n, all)
  PROVE  /\ id \in Owns[n]
         /\ id # 0 => Exists(n) /\ id = cont[n].id /\ (all \/ cont[n].running)
         /\ id = 0 /\ ~Faults => ~Exists(n) \/ (~all /\ ~cont[n].running)
  <1>1. n \in ContainerName /\ n.type \in ErisTypes
    BY DEF PlainName
  <1>2. Candidates(n, all) = IF Exists(n) /\ (all \/ cont[n].running) THEN {n} ELSE {}
    BY <1>1, AnswersItself DEF Candidates, Existing
  <1>3. /\ id # 0 => Exists(n) /\ id = cont[n].id /\ (all \/ cont[n].running)
        /\ id = 0 /\ ~Faults => ~Exists(n) \/ (~all /\ ~cont[n].running)
    BY <1>2 DEF Lookup, Exists
  <1>4. /\ nextId \in Nat \ {0}
        /\ \A m \in ContainerName : cont[m].id \in Nat /\ cont[m].id < nextId
        /\ \A m, k \in Existing : cont[m].id = cont[k].id => m = k
    BY DEF IInv, DaemonOK, Container
  <1>5. id \in Nat /\ id < nextId
    BY <1>1, <1>3, <1>4
  <1>6. \A m \in ContainerName : Exists(m) /\ cont[m].id = id => m = n
    BY <1>1, <1>3, <1>4 DEF Existing, Exists
  <1>7. QED
    BY <1>1, <1>3, <1>5, <1>6 DEF Owns

LEMMA OwnsFacts ==
  ASSUME IInv, NEW n \in ContainerName
  PROVE  /\ 0 \in Owns[n] /\ Owns[n] \subseteq Nat
         /\ cont[n].id \in Owns[n]
         /\ \A m \in ContainerName, i \in Owns[n] : Identified(m, i) => m = n
  BY DEF IInv, DaemonOK, Container, Owns, Existing, Exists, Identified

-----------------------------------------------------------------------------
\* Process states that fit.

LEMMA IdleFits ==
  ASSUME NEW x, NEW O
  PROVE  Fits(Idle(x), O)
  BY DEF Fits, Idle

LEMMA FitsGrow ==
  ASSUME NEW O, NEW Q, NEW r, Fits(r, O),
         r.pc # "idle" => r.inv.name \in ContainerName /\ Subject(r) \in ContainerName,
         \A n \in ContainerName : O[n] \subseteq Q[n]
  PROVE  Fits(r, Q)
  <1>1. CASE r.pc = "idle"
    BY <1>1 DEF Fits
  <1>2. CASE r.pc # "idle"
    <2>1. FrameOver(O[r.inv.name]) \subseteq FrameOver(Q[r.inv.name])
      BY <1>2 DEF FrameOver
    <2>2. r.stk \in Seq(FrameOver(O[r.inv.name]))
      BY <1>2 DEF Fits
    <2>3. r.stk \in Seq(FrameOver(Q[r.inv.name]))
      BY <2>1, <2>2, SMT
    <2>4. r.id \in Q[Subject(r)]
      BY <1>2 DEF Fits
    <2>5. QED
      BY <1>2, <2>3, <2>4 DEF Fits
  <1>3. QED
    BY <1>1, <1>2

\* The names of a process at work.
LEMMA FitNames ==
  ASSUME IInv, NEW p \in Procs, cli[p].pc # "idle"
  PROVE  /\ cli[p].inv \in Invocations /\ cli[p] \in ProcessOver(SafeIds)
         /\ Name(p) = cli[p].inv.name
         /\ Name(p) \in PlainName /\ Name(p) \in ContainerName
         /\ cli[p].inv.to \in PlainName /\ cli[p].inv.to \in ContainerName
         /\ ToDataContainer(Name(p)) \in PlainName /\ ToDataContainer(Name(p)) \in ContainerName
         /\ Subject(cli[p]) \in ContainerName
  <1>1. cli[p].inv \in Invocations /\ cli[p] \in ProcessOver(SafeIds)
    BY DEF IInv, CliOK
  <1>2. cli[p].inv.name \in PlainName /\ cli[p].inv.to \in PlainName
    BY <1>1, InvocationFacts DEF Invocation
  <1>3. \A n \in PlainName : n \in ContainerName /\ ToDataContainer(n) \in PlainName
    BY DEF PlainName, ContainerName, ToDataContainer, ErisTypes, TypeService, TypeChain, TypeData
  <1>4. QED
    BY <1>1, <1>2, <1>3 DEF Name, Subject

\* A process moves on to the line l of the same command.
LEMMA MovesFit ==
  ASSUME FitInv, NEW p \in Procs, cli[p].pc # "idle",
         NEW r, NEW l, r.pc = l,
         r.inv = cli[p].inv, r.data = cli[p].data, r.stk = cli[p].stk,
         KindAt(cli[p].inv.kind, l),
         l \in {"removeData", "removeDataCall"} => Has(p, "data"),
         l = "runRemove" => Has(p, "rm"),
         r.id \in Owns[Subject(r)]
  PROVE  Fits(r, Owns)
  BY DEF FitInv, Fits, Has

LEMMA SameIdFits ==
  ASSUME FitInv, NEW p \in Procs, cli[p].pc \notin {"idle", "removeDataCall", "renameStart"}
  PROVE  cli[p].id \in Owns[Name(p)]
  BY DEF FitInv, Fits, Subject, Name

\* The shapes a line gives to the process state.
LEMMA MovedFits ==
  ASSUME FitInv, NEW p \in Procs, cli[p].pc \notin {"idle", "removeDataCall", "renameStart"},
         NEW l, l \notin {"removeDataCall", "renameStart"}, KindAt(cli[p].inv.kind, l),
         l = "removeData" => Has(p, "data"),
         l = "runRemove" => Has(p, "rm")
  PROVE  /\ Fits(Moved(p, l), Owns)
         /\ \A i \in Owns[Name(p)] : Fits([cli[p] EXCEPT !.pc = l, !.id = i], Owns)
         /\ \A w \in BOOLEAN : Fits([cli[p] EXCEPT !.pc = l, !.was = w], Owns)
         /\ \A s : Fits([cli[p] EXCEPT !.pc = l, !.src = s], Owns)
         /\ \A b : Fits([cli[p] EXCEPT !.pc = l, !.failed = b], Owns)
         /\ \A m : Fits([cli[p] EXCEPT !.pc = l, !.made = m], Owns)
         /\ \A i \in Owns[Name(p)] : \A s : Fits([cli[p] EXCEPT !.pc = l, !.id = i, !.src = s], Owns)
  <1>1. cli[p] \in ProcessOver(SafeIds) /\ cli[p].id \in Owns[Name(p)]
    BY SameIdFits DEF FitInv, IInv, CliOK
  <1>2. ASSUME NEW r, r.pc = l, r.inv = cli[p].inv, r.data = cli[p].data, r.stk = cli[p].stk,
               r.id \in Owns[Name(p)]
        PROVE  Fits(r, Owns)
    BY <1>2, MovesFit DEF Subject, Name
  <1>3. QED
    BY <1>1, <1>2 DEF ProcessOver, Moved


LEMMA ReturnedFits ==
  ASSUME FitInv, NEW p \in Procs, cli[p].pc # "idle"
  PROVE  Fits(Returned(p), Owns)
  <1>1. CASE cli[p].stk = <<>>
    BY <1>1, IdleFits DEF Returned
  <1>2. CASE cli[p].stk # <<>>
    <2>1. cli[p].stk \in Seq(FrameOver(Owns[Name(p)])) /\ cli[p] \in ProcessOver(SafeIds)
      BY FitNames DEF FitInv, Fits, Name
    <2>2. /\ Head(cli[p].stk) \in FrameOver(Owns[Name(p)])
          /\ Tail(cli[p].stk) \in Seq(FrameOver(Owns[Name(p)]))
      BY <1>2, <2>1, HeadTailProperties
    <2> DEFINE h == Head(cli[p].stk)
               t == Tail(cli[p].stk)
               r == [cli[p] EXCEPT !.pc = h.back, !.id = h.id, !.was = h.was, !.stk = t]
    <2>3. Returned(p) = r
      BY <1>2 DEF Returned
    <2>4. h.back \in {"rebuildRemove", "rebuildCreate", "pullRemove"} /\ h.id \in Owns[Name(p)]
      BY <2>2 DEF FrameOver
    <2> HIDE DEF h, t
    <2>5. r.pc = h.back /\ r.id = h.id /\ r.stk = t /\ r.inv = cli[p].inv /\ r.data = cli[p].data
      BY <2>1 DEF ProcessOver
    <2>6. cli[p].inv.kind = "rebuild"
      BY <1>2 DEF FitInv, Fits
    <2>7. KindAt(cli[p].inv.kind, h.back)
      BY <2>4, <2>6 DEF KindAt, RunLabels, StopLabels, RemoveLabels, CreateLabels, RenameLabels
    <2>8. Subject(r) = Name(p)
      BY <2>4, <2>5 DEF Subject, Name
    <2>9. t \in Seq(FrameOver(Owns[r.inv.name]))
      BY <2>2, <2>5 DEF t, Name
    <2> HIDE DEF r
    <2>10. Fits(r, Owns)
      BY <2>4, <2>5, <2>6, <2>7, <2>8, <2>9 DEF FitInv, Fits
    <2>11. QED
      BY <2>3, <2>10
  <1>3. QED
    BY <1>1, <1>2

LEMMA CalledFits ==
  ASSUME FitInv, NEW p \in Procs, cli[p].pc \in UpdateLabels,
         NEW l \in {"stop", "pull"}, NEW b \in {"rebuildRemove", "rebuildCreate", "pullRemove"},
         NEW w \in BOOLEAN
  PROVE  Fits(Called(p, l, b, w), Owns)
  <1>1. cli[p].pc \notin {"idle", "removeDataCall", "renameStart"}
    BY DEF UpdateLabels
  <1>2. cli[p].stk \in Seq(FrameOver(Owns[Name(p)])) /\ cli[p] \in ProcessOver(SafeIds)
    BY <1>1, FitNames DEF FitInv, Fits, Name
  <1> DEFINE f == [back |-> b, id |-> cli[p].id, was |-> w]
             t == <<f>> \o cli[p].stk
             r == [cli[p] EXCEPT !.pc = l, !.stk = t]
  <1>3. f \in FrameOver(Owns[Name(p)])
    BY <1>1, SameIdFits DEF FrameOver
  <1>4. <<f>> \in Seq(FrameOver(Owns[Name(p)]))
    BY <1>3
  <1>5. t \in Seq(FrameOver(Owns[Name(p)]))
    BY <1>2, <1>4, ConcatProperties
  <1>6. Called(p, l, b, w) = r
    BY DEF Called
  <1> HIDE DEF f, t
  <1>7. r.pc = l /\ r.id = cli[p].id /\ r.stk = t /\ r.inv = cli[p].inv /\ r.data = cli[p].data
    BY <1>2 DEF ProcessOver
  <1>8. cli[p].inv.kind = "rebuild"
    BY <1>1 DEF FitInv, Fits, KindAt
  <1>9. KindAt(cli[p].inv.kind, l)
    BY <1>8 DEF KindAt, RunLabels, RemoveLabels, CreateLabels, RenameLabels
  <1>10. Subject(r) = Name(p) /\ cli[p].id \in Owns[Name(p)]
    BY <1>1, <1>7, SameIdFits DEF Subject, Name
  <1>11. t \in Seq(FrameOver(Owns[r.inv.name]))
    BY <1>5, <1>7 DEF Name
  <1> HIDE DEF r
  <1>12. Fits(r, Owns)
    BY <1>1, <1>7, <1>8, <1>9, <1>10, <1>11 DEF FitInv, Fits
  <1>13. QED
    BY <1>6, <1>12

-----------------------------------------------------------------------------
\* Every step leads to a process state that fits.

Advances(p) == \E r : Fits(r, Owns) /\ Become(p, r)

LEMMA FailsFit ==
  ASSUME NEW p, NEW can, Refused(p, can) \/ Fail(p)
  PROVE  Advances(p)
  BY IdleFits DEF Refused, Fail, Failed, Advances

LEMMA ReturnsFit ==
  ASSUME FitInv, NEW p \in Procs, cli[p].pc # "idle", Return(p)
  PROVE  Advances(p)
  BY ReturnedFits DEF Return, Advances

LEMMA RemovalsFit ==
  ASSUME NEW p, NEW vol, NEW r, RemoveFound(p, vol, r), Fits(r, Owns)
  PROVE  Advances(p)
  BY FailsFit DEF RemoveFound, Advances

LEMMA GoesFit ==
  ASSUME FitInv, NEW p \in Procs, cli[p].pc \notin {"idle", "removeDataCall", "renameStart"},
         NEW l, l \notin {"removeDataCall", "renameStart"}, KindAt(cli[p].inv.kind, l),
         l = "removeData" => Has(p, "data"),
         l = "runRemove" => Has(p, "rm"),
         Goto(p, l)
  PROVE  Advances(p)
  BY MovedFits DEF Goto, Advances

\* Lines within one operation.
LEMMA SameKind ==
  ASSUME FitInv, NEW p \in Procs, cli[p].pc # "idle", NEW l
  PROVE  /\ cli[p].pc \in RunLabels /\ l \in RunLabels => KindAt(cli[p].inv.kind, l)
         /\ cli[p].pc \in StopLabels /\ l \in StopLabels => KindAt(cli[p].inv.kind, l)
         /\ cli[p].pc \in RemoveLabels /\ l \in RemoveLabels => KindAt(cli[p].inv.kind, l)
         /\ cli[p].pc \in CreateLabels /\ l \in CreateLabels => KindAt(cli[p].inv.kind, l)
         /\ cli[p].pc \in RenameLabels /\ l \in RenameLabels => KindAt(cli[p].inv.kind, l)
         /\ cli[p].pc \in UpdateLabels /\ l \in UpdateLabels \cup RunLabels =>
              KindAt(cli[p].inv.kind, l)
         /\ l \in ExecLabels => KindAt(cli[p].inv.kind, l)
  <1>1. KindAt(cli[p].inv.kind, cli[p].pc)
    BY DEF FitInv, Fits
  <1>2. QED
    BY <1>1 DEF KindAt, RunLabels, StopLabels, RemoveLabels, CreateLabels, RenameLabels, UpdateLabels,
                ExecLabels


LEMMA CreateDataFits ==
  ASSUME FitInv, NEW p \in Procs, CreateData(p) \/ CreateDataCall(p)
  PROVE  Advances(p)
  <1>1. cli[p].pc \in CreateLabels /\ cli[p].pc \notin {"idle", "removeDataCall", "renameStart"}
    BY DEF CreateData, CreateDataCall, At, CreateLabels
  <1>2. Goto(p, "createDataCall") => Advances(p)
    BY <1>1, SameKind, GoesFit DEF CreateLabels
  <1>3. QED
    BY <1>1, <1>2, FailsFit, ReturnsFit DEF CreateData, CreateDataCall

LEMMA RunFits ==
  ASSUME FitInv, NEW p \in Procs,
         \/ Run(p) \/ RunData(p) \/ RunDataCreate(p) \/ RunExists(p) \/ RunCreate(p)
         \/ RunStart(p) \/ RunRemove(p)
  PROVE  Advances(p)
  <1>1. cli[p].pc \in RunLabels /\ cli[p].pc \notin {"idle", "removeDataCall", "renameStart"}
    BY DEF Run, RunData, RunDataCreate, RunExists, RunCreate, RunStart, RunRemove, EnsureData,
           EnsureDataCall, At, RunLabels
  <1>2. ASSUME NEW l \in RunLabels, Goto(p, l), l = "runRemove" => Has(p, "rm")
        PROVE  Advances(p)
    BY <1>1, <1>2, SameKind, GoesFit DEF RunLabels
  <1>3. Return(p) => Advances(p)
    BY <1>1, ReturnsFit
  <1>4. CASE Run(p)
    BY <1>2, <1>3, <1>4 DEF Run, RunLabels
  <1>5. CASE RunData(p)
    BY <1>2, <1>5 DEF RunData, EnsureData, RunLabels
  <1>6. CASE RunDataCreate(p)
    BY <1>2, <1>6, FailsFit DEF RunDataCreate, EnsureDataCall, RunLabels
  <1>7. CASE RunExists(p)
    BY <1>2, <1>7 DEF RunExists, RunLabels
  <1>8. CASE RunCreate(p)
    BY <1>2, <1>8, FailsFit DEF RunCreate, RunLabels
  <1>9. CASE RunStart(p)
    BY <1>2, <1>3, <1>9, FailsFit DEF RunStart, RunLabels
  <1>10. CASE RunRemove(p)
    BY <1>3, <1>10, FailsFit DEF RunRemove
  <1>11. QED
    BY <1>4, <1>5, <1>6, <1>7, <1>8, <1>9, <1>10

LEMMA ExecFits ==
  ASSUME FitInv, NEW p \in Procs,
         \/ ExecData(p) \/ ExecDataCreate(p) \/ ExecCreate(p) \/ ExecStart(p) \/ ExecWait(p)
         \/ ExecRemove(p)
  PROVE  Advances(p)
  <1>1. cli[p].pc \in ExecLabels /\ cli[p].pc \notin {"idle", "removeDataCall", "renameStart"}
    BY DEF ExecData, ExecDataCreate, ExecCreate, ExecStart, ExecWait, ExecRemove, EnsureData,
           EnsureDataCall, At, ExecLabels
  <1>2. ASSUME NEW l \in ExecLabels, Goto(p, l)  PROVE Advances(p)
    BY <1>1, <1>2, SameKind, GoesFit DEF ExecLabels
  <1>3. \A b : Fits([cli[p] EXCEPT !.pc = "execRemove", !.failed = b], Owns)
    BY <1>1, SameKind, MovedFits DEF ExecLabels
  <1>4. CASE ExecData(p) \/ ExecDataCreate(p)
    BY <1>2, <1>4, FailsFit DEF ExecData, ExecDataCreate, EnsureData, EnsureDataCall, ExecLabels
  <1>5. CASE ExecCreate(p)
    <2> DEFINE r == [cli[p] EXCEPT !.pc = "execStart", !.made = nextId]
    <2>1. cli[p] \in ProcessOver(SafeIds)
      BY <1>1, FitNames DEF FitInv
    <2>2. /\ r.pc = "execStart" /\ r.inv = cli[p].inv /\ r.data = cli[p].data /\ r.stk = cli[p].stk
          /\ r.id = cli[p].id
      BY <2>1 DEF ProcessOver
    <2>3. Become(p, r) \/ Refused(p, CanCreate(Temp(p), TempSource(p)))
      BY <1>5 DEF ExecCreate
    <2> HIDE DEF r
    <2>4. KindAt(cli[p].inv.kind, "execStart")
      BY <1>1, SameKind DEF ExecLabels
    <2>5. Fits(r, Owns)
      BY <1>1, <2>2, <2>4, SameIdFits, MovesFit DEF Subject, Name
    <2>6. QED
      BY <2>3, <2>5, FailsFit DEF Advances
  <1>6. CASE ExecStart(p) \/ ExecWait(p)
    BY <1>2, <1>3, <1>6 DEF ExecStart, ExecWait, ExecLabels, Advances
  <1>7. CASE ExecRemove(p)
    BY <1>1, <1>7, FailsFit, ReturnsFit DEF ExecRemove
  <1>8. QED
    BY <1>4, <1>5, <1>6, <1>7

LEMMA StopFits ==
  ASSUME ExactNames, FitInv, NEW p \in Procs, Stop(p) \/ StopCall(p)
  PROVE  Advances(p)
  <1>1. cli[p].pc \in StopLabels /\ cli[p].pc \notin {"idle", "removeDataCall", "renameStart"}
    BY DEF Stop, StopCall, At, StopLabels
  <1>2. CASE Stop(p)
    <2>1. Lookup(Name(p), TRUE) \subseteq Owns[Name(p)]
      BY <1>1, FitNames, LookupExact DEF FitInv
    <2>2. \A i \in Owns[Name(p)] : Fits([cli[p] EXCEPT !.pc = "stopCall", !.id = i], Owns)
      BY <1>1, SameKind, MovedFits DEF StopLabels
    <2>3. QED
      BY <1>1, <1>2, <2>1, <2>2, ReturnsFit DEF Stop, Advances
  <1>3. CASE StopCall(p)
    BY <1>1, <1>3, FailsFit, ReturnsFit DEF StopCall
  <1>4. QED
    BY <1>2, <1>3

LEMMA RemoveFits ==
  ASSUME ExactNames, DataRemovalsNamed, FitInv, NEW p \in Procs,
         RemoveService(p) \/ RemoveCall(p) \/ RemoveData(p) \/ RemoveDataCall(p)
  PROVE  Advances(p)
  <1>1. cli[p].pc \in RemoveLabels /\ cli[p].pc # "idle"
    BY DEF RemoveService, RemoveCall, RemoveData, RemoveDataCall, At, RemoveLabels
  <1>2. Fits(Returned(p), Owns) /\ (Return(p) => Advances(p))
    BY <1>1, ReturnedFits, ReturnsFit
  <1>3. CASE RemoveService(p)
    <2>1. cli[p].pc = "remove"
      BY <1>3 DEF RemoveService, At
    <2>2. Lookup(Name(p), TRUE) \subseteq Owns[Name(p)]
      BY <1>1, FitNames, LookupExact DEF FitInv
    <2>3. \A i \in Owns[Name(p)] : Fits([cli[p] EXCEPT !.pc = "removeCall", !.id = i], Owns)
      BY <2>1, SameKind, MovedFits DEF RemoveLabels
    <2>4. QED
      BY <1>2, <1>3, <2>2, <2>3 DEF RemoveService, Advances
  <1>4. CASE RemoveCall(p)
    <2>1. cli[p].pc = "removeCall"
      BY <1>4 DEF RemoveCall, At
    <2>2. Has(p, "data") => Fits(Moved(p, "removeData"), Owns)
      BY <2>1, SameKind, MovedFits DEF RemoveLabels
    <2>3. QED
      BY <1>2, <1>4, <2>2, RemovalsFit DEF RemoveCall
  <1>5. CASE RemoveData(p)
    <2>1. cli[p].pc = "removeData"
      BY <1>5 DEF RemoveData, At
    <2>2. Has(p, "data") /\ cli[p].inv.kind = "remove" /\ cli[p].inv \in Invocations
      BY <1>1, <2>1, FitNames DEF FitInv, Fits, KindAt, Has
    <2>3. cli[p].data = ToDataContainer(Name(p))
      BY <1>1, <2>2, FitNames DEF FitInv, Fits, DataRemovalsNamed, Has
    <2>4. Lookup(cli[p].data, TRUE) \subseteq Owns[ToDataContainer(Name(p))]
      BY <1>1, <2>3, FitNames, LookupExact DEF FitInv
    <2>5. ASSUME NEW i \in Owns[ToDataContainer(Name(p))]
          PROVE  Fits([cli[p] EXCEPT !.pc = "removeDataCall", !.id = i], Owns)
      <3> DEFINE r == [cli[p] EXCEPT !.pc = "removeDataCall", !.id = i]
      <3>1. cli[p] \in ProcessOver(SafeIds)
        BY <1>1, FitNames DEF FitInv
      <3>2. /\ r.pc = "removeDataCall" /\ r.inv = cli[p].inv /\ r.data = cli[p].data
            /\ r.stk = cli[p].stk /\ r.id = i
        BY <3>1 DEF ProcessOver
      <3> HIDE DEF r
      <3>3. KindAt(cli[p].inv.kind, "removeDataCall")
        BY <1>1, SameKind DEF RemoveLabels
      <3>4. Fits(r, Owns)
        BY <1>1, <2>2, <3>2, <3>3, MovesFit DEF Subject, Name
      <3>5. QED
        BY <3>4 DEF r
    <2>6. QED
      BY <1>2, <1>5, <2>4, <2>5 DEF RemoveData, Advances
  <1>6. CASE RemoveDataCall(p)
    BY <1>2, <1>6, RemovalsFit DEF RemoveDataCall
  <1>7. QED
    BY <1>3, <1>4, <1>5, <1>6


LEMMA UpdateFits ==
  ASSUME ExactNames, FitInv, NEW p \in Procs,
         \/ Rebuild(p) \/ RebuildRunning(p) \/ RebuildRemove(p) \/ RebuildCreate(p) \/ RebuildStart(p)
         \/ Pull(p) \/ PullRunning(p) \/ PullRemove(p) \/ PullImage(p)
  PROVE  Advances(p)
  <1>1. cli[p].pc \in UpdateLabels /\ cli[p].pc \notin {"idle", "removeDataCall", "renameStart"}
    BY DEF Rebuild, RebuildRunning, RebuildRemove, RebuildCreate, RebuildStart, Pull, PullRunning,
           PullRemove, PullImage, At, UpdateLabels
  <1>2. Fits(Returned(p), Owns) /\ (Return(p) => Advances(p)) /\ (Fail(p) => Advances(p))
    BY <1>1, ReturnedFits, ReturnsFit, FailsFit
  <1>3. Lookup(Name(p), TRUE) \subseteq Owns[Name(p)]
    BY <1>1, FitNames, LookupExact DEF FitInv
  <1>4. ASSUME NEW l \in UpdateLabels \cup {"run"}
        PROVE  /\ Fits(Moved(p, l), Owns) /\ (Goto(p, l) => Advances(p))
               /\ \A i \in Owns[Name(p)] : Fits([cli[p] EXCEPT !.pc = l, !.id = i], Owns)
               /\ \A w \in BOOLEAN : Fits([cli[p] EXCEPT !.pc = l, !.was = w], Owns)
    BY <1>1, SameKind, MovedFits, GoesFit DEF UpdateLabels, RunLabels
  <1>5. ASSUME NEW w \in BOOLEAN
        PROVE  /\ Fits(Called(p, "stop", "rebuildRemove", w), Owns)
               /\ Fits(Called(p, "stop", "pullRemove", w), Owns)
               /\ Fits(Called(p, "pull", "rebuildCreate", w), Owns)
    BY <1>1, CalledFits
  <1>6. CASE Rebuild(p)
    BY <1>2, <1>3, <1>4, <1>6 DEF Rebuild, UpdateLabels, Advances
  <1>7. CASE RebuildRunning(p)
    BY <1>4, <1>5, <1>7 DEF RebuildRunning, UpdateLabels, Advances
  <1>8. CASE RebuildRemove(p)
    <2>1. cli[p].was \in BOOLEAN
      BY <1>1, WorkingFacts DEF FitInv
    <2>2. Fits(Called(p, "pull", "rebuildCreate", cli[p].was), Owns)
      BY <1>5, <2>1
    <2>3. Fits(Moved(p, "rebuildCreate"), Owns)
      BY <1>4 DEF UpdateLabels
    <2>4. QED
      BY <1>8, <2>2, <2>3, RemovalsFit DEF RebuildRemove
  <1>9. CASE RebuildCreate(p)
    BY <1>2, <1>4, <1>9, FailsFit DEF RebuildCreate, UpdateLabels
  <1>10. CASE RebuildStart(p)
    BY <1>2, <1>10, FailsFit DEF RebuildStart
  <1>11. CASE Pull(p)
    BY <1>3, <1>4, <1>11 DEF Pull, UpdateLabels, Advances
  <1>12. CASE PullRunning(p)
    BY <1>4, <1>5, <1>12 DEF PullRunning, UpdateLabels, Advances
  <1>13. CASE PullRemove(p)
    <2>1. Fits(Moved(p, "pullImage"), Owns)
      BY <1>4 DEF UpdateLabels
    <2>2. QED
      BY <1>13, <2>1, RemovalsFit DEF PullRemove
  <1>14. CASE PullImage(p)
    BY <1>2, <1>4, <1>14 DEF PullImage
  <1>15. QED
    BY <1>6, <1>7, <1>8, <1>9, <1>10, <1>11, <1>12, <1>13, <1>14

LEMMA RenameFits ==
  ASSUME ExactNames, FitInv, NEW p \in Procs,
         \/ Rename(p) \/ RenameTo(p) \/ RenameRunning(p) \/ RenameStop(p) \/ RenameRemove(p)
         \/ RenameVolumes(p) \/ RenameStart(p)
  PROVE  Advances(p)
  <1>1. CASE RenameStart(p)
    <2>1. cli[p].pc # "idle" /\ Return(p)
      BY <1>1 DEF RenameStart, At
    <2>2. QED
      BY <2>1, ReturnsFit
  <1>2. CASE ~RenameStart(p)
    <2>1. cli[p].pc \in RenameLabels /\ cli[p].pc \notin {"idle", "removeDataCall", "renameStart"}
      BY <1>2 DEF Rename, RenameTo, RenameRunning, RenameStop, RenameRemove, RenameVolumes, At, RenameLabels
    <2>2. ASSUME NEW l \in RenameLabels \ {"renameStart"}
          PROVE  /\ Fits(Moved(p, l), Owns) /\ (Goto(p, l) => Advances(p))
                 /\ \A w \in BOOLEAN : Fits([cli[p] EXCEPT !.pc = l, !.was = w], Owns)
                 /\ \A s : Fits([cli[p] EXCEPT !.pc = l, !.src = s], Owns)
                 /\ \A i \in Owns[Name(p)] : \A s : Fits([cli[p] EXCEPT !.pc = l, !.id = i, !.src = s], Owns)
      BY <2>1, SameKind, MovedFits, GoesFit DEF RenameLabels
    <2>3. cont[Name(p)].id \in Owns[Name(p)]
      BY <2>1, FitNames, OwnsFacts DEF FitInv
    <2>4. CASE Rename(p)
      <3> DEFINE c == cont[Name(p)].id
                 f == cont[Name(p)].from
                 r == [cli[p] EXCEPT !.pc = "renameTo", !.id = c, !.src = f]
      <3>1. Become(p, r) \/ Refused(p, Exists(Name(p)))
        BY <2>4 DEF Rename
      <3>2. c \in Owns[Name(p)]
        BY <2>3
      <3> HIDE DEF c, f
      <3>3. Fits(r, Owns)
        BY <2>2, <3>2 DEF RenameLabels
      <3> HIDE DEF r
      <3>4. QED
        BY <3>1, <3>3, FailsFit DEF Advances
    <2>5. CASE RenameTo(p)
      BY <2>2, <2>5, FailsFit DEF RenameTo, RenameLabels
    <2>6. CASE RenameRunning(p)
      BY <2>2, <2>6 DEF RenameRunning, RenameLabels, Advances
    <2>7. CASE RenameStop(p) \/ RenameRemove(p)
      BY <2>2, <2>7, FailsFit DEF RenameStop, RenameRemove, RenameLabels
    <2>8. CASE RenameVolumes(p)
      BY <2>2, <2>8 DEF RenameVolumes, RenameLabels, Advances
    <2>9. QED
      BY <1>2, <2>4, <2>5, <2>6, <2>7, <2>8
  <1>3. QED
    BY <1>1, <1>2

\* A process that advanced, and the others, still fit.
LEMMA AdvanceFits ==
  ASSUME FitInv, IInv', NEW p \in Procs, Advances(p),
         \A n \in ContainerName : Owns[n] \subseteq Owns'[n]
  PROVE  \A q \in Procs : Fits(cli[q], Owns)'
  <1>1. PICK r : Fits(r, Owns) /\ cli' = [cli EXCEPT ![p] = r]
    BY DEF Advances, Become
  <1>2. cli'[p] = r /\ \A q \in Procs : q # p => cli'[q] = cli[q]
    BY <1>1 DEF FitInv, IInv, CliOK
  <1>3. ASSUME NEW q \in Procs, cli'[q].pc # "idle"
        PROVE  cli'[q].inv.name \in ContainerName /\ Subject(cli'[q]) \in ContainerName
    <2>1. cli'[q].inv \in Invocations
      BY <1>3 DEF IInv, CliOK
    <2>2. cli'[q].inv.name \in ContainerName /\ cli'[q].inv.to \in ContainerName
      BY <2>1, InvocationFacts
    <2>3. QED
      BY <2>2, NameFacts DEF Subject
  <1>4. \A q \in Procs : Fits(cli'[q], Owns)
    BY <1>1, <1>2 DEF FitInv
  <1>5. \A q \in Procs : Fits(cli'[q], Owns')
    BY <1>3, <1>4, FitsGrow
  <1>6. QED
    BY <1>5


LEMMA RenameCreateFits ==
  ASSUME FitInv, IInv', NEW p \in Procs, RenameCreate(p),
         \A n \in ContainerName : Owns[n] \subseteq Owns'[n]
  PROVE  \A q \in Procs : Fits(cli[q], Owns)'
  <1>1. cli[p].pc = "renameCreate"
    BY DEF RenameCreate, At
  <1> DEFINE to == cli[p].inv.to
             r  == [cli[p] EXCEPT !.pc = "renameStart", !.id = nextId]
  <1>2. CASE Return(p) \/ Refused(p, CanCreate(to, cli[p].src))
    BY <1>1, <1>2, FailsFit, ReturnsFit, AdvanceFits
  <1>3. CASE Create(to, cli[p].src) /\ Become(p, r)
    <2>1. to \in ContainerName /\ cli[p] \in ProcessOver(SafeIds) /\ Name(p) \in ContainerName
          /\ cli[p].src \in ContainerName \cup {NoName}
      BY <1>1, FitNames, WorkingFacts DEF FitInv
    <2>2. /\ r.pc = "renameStart" /\ r.id = nextId
          /\ r.inv = cli[p].inv /\ r.data = cli[p].data /\ r.stk = cli[p].stk
      BY <2>1 DEF ProcessOver
    <2>3. nextId \in Owns'[to]
      <3>1. /\ cont'[to].id = nextId /\ nextId' = nextId + 1 /\ nextId \in Nat \ {0}
            /\ \A m \in ContainerName : m # to => cont'[m] = cont[m]
        BY <1>3, <2>1, CreateFacts DEF FitInv
      <3>2. \A m \in ContainerName : cont[m].id \in Nat /\ cont[m].id < nextId
        BY DEF FitInv, IInv, DaemonOK, Container
      <3>3. \A m \in ContainerName : Exists(m)' /\ cont'[m].id = nextId => m = to
        BY <3>1, <3>2
      <3>4. QED
        BY <2>1, <3>1, <3>3 DEF Owns
    <2>4. cli' = [cli EXCEPT ![p] = r]
      BY <1>3 DEF Become
    <2> HIDE DEF r
    <2>5. cli'[p] = r /\ \A q \in Procs : q # p => cli'[q] = cli[q]
      BY <2>4 DEF FitInv, IInv, CliOK
    <2>6. Fits(cli'[p], Owns')
      <3>1. r.stk = <<>> /\ KindAt(r.inv.kind, r.pc)
        BY <1>1, <2>2 DEF FitInv, Fits, KindAt, RunLabels, StopLabels, RemoveLabels, CreateLabels,
                          RenameLabels, UpdateLabels
      <3>2. r.stk \in Seq(FrameOver(Owns'[r.inv.name]))
        BY <3>1, EmptySeq
      <3>3. r.id \in Owns'[Subject(r)]
        BY <2>2, <2>3 DEF Subject
      <3>4. QED
        BY <1>1, <2>2, <2>5, <3>1, <3>2, <3>3 DEF FitInv, Fits
    <2>7. ASSUME NEW q \in Procs, q # p  PROVE Fits(cli'[q], Owns')
      <3>1. cli[q].pc # "idle" => cli[q].inv.name \in ContainerName /\ Subject(cli[q]) \in ContainerName
        BY FitNames DEF FitInv, Name
      <3>2. Fits(cli[q], Owns')
        BY <3>1, FitsGrow DEF FitInv
      <3>3. QED
        BY <2>5, <2>7, <3>2
    <2>8. QED
      BY <2>6, <2>7
  <1>4. QED
    BY <1>2, <1>3 DEF RenameCreate

LEMMA StepFits ==
  ASSUME ExactNames, DataRemovalsNamed, FitInv, NEW p \in Procs, Step(p)
  PROVE  FitInv'
  <1>1. IInv'
    BY StepSafe DEF FitInv
  <1>2. Tidy' /\ \A n \in ContainerName : Owns[n] \subseteq Owns'[n]
    BY StepEffect, EffectKeeps DEF FitInv
  <1>3. CASE RenameCreate(p)
    BY <1>1, <1>2, <1>3, RenameCreateFits DEF FitInv
  <1>4. CASE ~RenameCreate(p)
    <2>1. Advances(p)
      BY <1>4, CreateDataFits, RunFits, ExecFits, StopFits, RemoveFits, UpdateFits, RenameFits DEF Step
    <2>2. QED
      BY <1>1, <1>2, <2>1, AdvanceFits DEF FitInv
  <1>5. QED
    BY <1>3, <1>4

\* The state in which a command starts.
LEMMA BeginFacts ==
  ASSUME IInv, NEW p \in Procs, Begin(p)
  PROVE  \E i \in Invocations : \E d \in DataNames(i) :
           /\ \A q \in Procs : q # p => cli'[q] = cli[q]
           /\ cli'[p].pc = Entry(i) /\ cli'[p].inv = i /\ cli'[p].data = d
           /\ cli'[p].id = 0 /\ cli'[p].stk = <<>>
           /\ UNCHANGED <<cont, volumes, nextId>>
  <1>1. PICK i \in Invocations : \E d \in DataNames(i) :
          cli' = [cli EXCEPT ![p] = [Idle("none") EXCEPT !.pc = Entry(i), !.inv = i, !.data = d]]
    BY DEF Begin
  <1>2. PICK d \in DataNames(i) :
          cli' = [cli EXCEPT ![p] = [Idle("none") EXCEPT !.pc = Entry(i), !.inv = i, !.data = d]]
    BY <1>1
  <1> DEFINE r == [Idle("none") EXCEPT !.pc = Entry(i), !.inv = i, !.data = d]
  <1>3. r.pc = Entry(i) /\ r.inv = i /\ r.data = d /\ r.id = 0 /\ r.stk = <<>>
    BY DEF Idle
  <1>4. cli' = [cli EXCEPT ![p] = r]
    BY <1>2
  <1> HIDE DEF r
  <1>5. cli'[p] = r /\ \A q \in Procs : q # p => cli'[q] = cli[q]
    BY <1>4 DEF IInv, CliOK
  <1>6. UNCHANGED <<cont, volumes, nextId>>
    BY DEF Begin, daemon
  <1>7. QED
    BY <1>3, <1>5, <1>6

LEMMA BeginFits ==
  ASSUME FitInv, NEW p \in Procs, Begin(p)
  PROVE  FitInv'
  <1>1. IInv'
    BY BeginSafe DEF FitInv
  <1>2. PICK i \in Invocations : \E d \in DataNames(i) :
           /\ \A q \in Procs : q # p => cli'[q] = cli[q]
           /\ cli'[p].pc = Entry(i) /\ cli'[p].inv = i /\ cli'[p].data = d
           /\ cli'[p].id = 0 /\ cli'[p].stk = <<>>
           /\ UNCHANGED <<cont, volumes, nextId>>
    BY BeginFacts DEF FitInv
  <1>3. PICK d \in DataNames(i) :
           /\ \A q \in Procs : q # p => cli'[q] = cli[q]
           /\ cli'[p].pc = Entry(i) /\ cli'[p].inv = i /\ cli'[p].data = d
           /\ cli'[p].id = 0 /\ cli'[p].stk = <<>>
           /\ UNCHANGED <<cont, volumes, nextId>>
    BY <1>2
  <1>4. Owns' = Owns /\ Tidy'
    BY <1>3 DEF Owns, Exists, FitInv, Tidy, Existing
  <1>5. i.kind \in Kinds /\ i.name \in ContainerName
    BY InvocationFacts
  <1>6. KindAt(i.kind, Entry(i)) /\ Entry(i) \notin {"removeData", "removeDataCall", "renameStart", "runRemove"}
    BY <1>5 DEF Kinds, Entry, KindAt, RunLabels, StopLabels, RemoveLabels, CreateLabels, RenameLabels,
                UpdateLabels
  <1>7. \/ d = ToDataContainer(i.name)
        \/ d = NoName /\ i.name.type = TypeService /\ "auto" \notin i.flags
    BY <1>3 DEF DataNames
  <1>8. 0 \in Owns[i.name]
    BY <1>5, OwnsFacts DEF FitInv
  <1>9. <<>> \in Seq(FrameOver(Owns[i.name]))
    BY EmptySeq
  <1>10. Fits(cli'[p], Owns)
    BY <1>3, <1>6, <1>7, <1>8, <1>9 DEF Fits, Subject
  <1>11. \A q \in Procs : Fits(cli'[q], Owns)
    BY <1>3, <1>10 DEF FitInv
  <1>12. QED
    BY <1>1, <1>4, <1>11 DEF FitInv

LEMMA KillFits ==
  ASSUME FitInv, NEW p \in Procs, Kill(p)
  PROVE  FitInv'
  <1>1. IInv'
    BY KillSafe DEF FitInv
  <1>2. Advances(p)
    BY IdleFits DEF Kill, Advances
  <1>3. Effect(p)
    BY DEF Kill, Effect
  <1>4. QED
    BY <1>1, <1>2, <1>3, EffectKeeps, AdvanceFits DEF FitInv

LEMMA ExitFits ==
  ASSUME FitInv, NEW n \in ContainerName, Exit(n)
  PROVE  FitInv'
  <1>1. IInv'
    BY ExitSafe DEF FitInv
  <1>2. cli' = cli /\ SetRunning(n, FALSE) /\ cont[n].running
    BY DEF Exit
  <1>3. Exists(n)
    BY <1>2 DEF FitInv, Tidy, NoContainer
  <1>4. /\ \A m \in ContainerName : cont'[m].id = cont[m].id /\ cont'[m].vol = cont[m].vol
        /\ \A m \in ContainerName : m # n => cont'[m] = cont[m]
        /\ volumes' = volumes /\ nextId' = nextId
    BY <1>2, SetRunningFacts DEF FitInv
  <1>5. Tidy' /\ Owns' = Owns
    BY <1>3, <1>4 DEF FitInv, Tidy, Owns, Existing, Exists
  <1>6. QED
    BY <1>1, <1>2, <1>5 DEF FitInv

LEMMA FitInvariance ==
  ASSUME ExactNames, DataRemovalsNamed
  PROVE  Spec => []FitInv
  <1>1. Init => FitInv
    <2>1. Init => Tidy
      BY DEF Init, Tidy, Existing, Exists, NoContainer
    <2>2. Init => \A p \in Procs : Fits(cli[p], Owns)
      BY IdleFits DEF Init
    <2>3. QED
      BY <2>1, <2>2, InitSafe DEF FitInv
  <1>2. FitInv /\ [Next]_vars => FitInv'
    <2>1. CASE UNCHANGED vars
      <3>1. FitInv => IInv'
        BY <2>1, NextSafe DEF FitInv
      <3>2. QED
        BY <2>1, <3>1 DEF vars, FitInv, Tidy, Owns, Existing, Exists
    <2>2. QED
      BY <2>1, BeginFits, StepFits, KillFits, ExitFits DEF Next
  <1>3. QED
    BY <1>1, <1>2, PTL DEF Spec


-----------------------------------------------------------------------------
\* What becomes of the process itself.

\* A step is a step of one process.
LEMMA OthersStay ==
  ASSUME IInv, NEW p \in Procs, Step(p)
  PROVE  \A q \in Procs : q # p => cli'[q] = cli[q]
  <1>1. ASSUME NEW r, Become(p, r)  PROVE \A q \in Procs : q # p => cli'[q] = cli[q]
    BY <1>1 DEF Become, IInv, CliOK
  <1>2. CASE ExecCreate(p)
    BY <1>1, <1>2 DEF ExecCreate, Refused, Fail
  <1>3. CASE ExecRemove(p)
    BY <1>1, <1>3 DEF ExecRemove, Fail, Return
  <1>4. CASE ~ExecCreate(p) /\ ~ExecRemove(p)
    <2>1. Advance(p)
      BY <1>4, DataActions, EnsureDataActions, RunActions, ExecActions, StopActions, RemoveActions,
         RebuildActions, PullActions, RenameLooks, RenameActs, RenameCreates DEF Step
    <2>2. QED
      BY <1>1, <2>1 DEF Advance
  <1>5. QED
    BY <1>2, <1>3, <1>4

\* The ways a line ends: at the next line l, with an error, or with nil.
Continues(p, l) == cli'[p].pc = l /\ cli'[p].stk = cli[p].stk /\ cli'[p].inv = cli[p].inv

Errs(p) == cli'[p].pc = "idle" /\ cli'[p].res = "err" /\ cli'[p].stk = <<>> /\ cli'[p].inv = NoInvocation

LEMMA Lines ==
  ASSUME IInv, NEW p \in Procs, NEW l
  PROVE  /\ Goto(p, l) => Continues(p, l)
         /\ \A i : Become(p, [cli[p] EXCEPT !.pc = l, !.id = i]) => Continues(p, l)
         /\ \A w : Become(p, [cli[p] EXCEPT !.pc = l, !.was = w]) => Continues(p, l)
         /\ \A s : Become(p, [cli[p] EXCEPT !.pc = l, !.src = s]) => Continues(p, l)
         /\ \A b : Become(p, [cli[p] EXCEPT !.pc = l, !.failed = b]) => Continues(p, l)
         /\ \A m : Become(p, [cli[p] EXCEPT !.pc = l, !.made = m]) => Continues(p, l)
         /\ \A i : \A s : Become(p, [cli[p] EXCEPT !.pc = l, !.id = i, !.src = s]) => Continues(p, l)
  <1>1. cli[p] \in ProcessOver(SafeIds) /\ cli \in [Procs -> ProcessOver(SafeIds)]
    BY DEF IInv, CliOK
  <1>2. ASSUME NEW r, Become(p, r)  PROVE cli'[p] = r
    BY <1>1, <1>2 DEF Become
  <1>3. ASSUME NEW r, Become(p, r), r.pc = l, r.stk = cli[p].stk, r.inv = cli[p].inv
        PROVE  Continues(p, l)
    BY <1>2, <1>3 DEF Continues
  <1>4. QED
    BY <1>1, <1>3 DEF ProcessOver, Goto, Moved

LEMMA Endings ==
  ASSUME IInv, NEW p \in Procs
  PROVE  /\ Fail(p) => Errs(p)
         /\ Return(p) /\ cli[p].stk = <<>> => cli'[p] = Idle("ok") /\ cli'[p].pc = "idle"
  <1>1. ASSUME NEW r, Become(p, r)  PROVE cli'[p] = r
    BY <1>1 DEF Become, IInv, CliOK
  <1>2. Fail(p) => Errs(p)
    BY <1>1 DEF Fail, Failed, Idle, Errs
  <1>3. Return(p) /\ cli[p].stk = <<>> => cli'[p] = Idle("ok")
    BY <1>1 DEF Return, Returned
  <1>4. QED
    BY <1>2, <1>3 DEF Idle

-----------------------------------------------------------------------------
\* Throw-away containers have owners.

\* Only its own process starts or makes a throw-away container.
LEMMA TempsLeftAlone ==
  ASSUME IInv, NEW p \in Procs, Step(p), NEW n \in ContainerName, IsTemp(n),
         ~(cli[p].pc = "execStart" /\ n = Temp(p)),
         Exists(n) \/ ~(cli[p].pc = "execCreate" /\ n = Temp(p))
  PROVE  /\ Exists(n)' => Exists(n)
         /\ cont'[n].running => cont[n].running
  <1>1. Effect(p)
    BY StepEffect
  <1>2. CASE UNCHANGED daemon
    BY <1>2 DEF daemon, Exists
  <1>3. CASE Starts(p)
    <2>1. PICK m \in ContainerName : SetRunning(m, TRUE) /\ m # n
      BY <1>3 DEF Starts
    <2>2. QED
      BY <2>1, SetRunningFacts DEF Exists
  <1>4. CASE Halts(p)
    <2>1. PICK m \in ContainerName : SetRunning(m, FALSE)
      BY <1>4 DEF Halts
    <2>2. QED
      BY <2>1, SetRunningFacts DEF Exists
  <1>5. CASE Removes(p)
    <2>1. PICK m \in ContainerName : \E vol \in BOOLEAN : Remove(m, vol)
      BY <1>5 DEF Removes
    <2>2. QED
      BY <2>1, RemoveFacts DEF Exists, NoContainer
  <1>6. CASE Creates(p)
    <2>1. PICK m \in ContainerName \cup {NoName} :
            \E from \in ContainerName \cup {NoName} :
              CanCreate(m, from) /\ Create(m, from) /\ Makes(p, m, from)
      BY <1>6 DEF Creates
    <2>2. m # n
      BY <2>1, WorkingFacts DEF Makes, CanCreate
    <2>3. QED
      BY <2>1, <2>2, CreateFacts DEF Exists
  <1>7. QED
    BY <1>1, <1>2, <1>3, <1>4, <1>5, <1>6 DEF Effect

\* The container a working process uses is its own, and at rest before the
\* start and after the wait.
LEMMA RemovalSucceeds ==
  ASSUME ~Faults, IInv, Asleep, NEW p \in Procs, ExecRemove(p)
  PROVE  Remove(Temp(p), ~IsService(p)) /\ Temp(p) \in ContainerName
  <1>1. cli[p].pc = "execRemove" /\ Holding(p)
    BY DEF ExecRemove, At, Holding
  <1>2. Exists(Temp(p)) /\ ~cont[Temp(p)].running
    BY <1>1 DEF IInv, TempOwned, Asleep
  <1>3. Temp(p) \in ContainerName
    BY <1>1, TempIsTemp DEF ExecLabels
  <1>4. QED
    BY <1>2, <1>3 DEF ExecRemove

LEMMA HeldSteps ==
  ASSUME NEW p \in Procs, Step(p), cli[p].pc \in HeldLabels
  PROVE  ExecStart(p) \/ ExecWait(p) \/ ExecRemove(p)
  BY DEF HeldLabels, Step, CreateData, CreateDataCall, Run, RunData, RunDataCreate, RunExists, RunCreate,
         RunStart, RunRemove, ExecData, ExecDataCreate, ExecCreate, ExecStart, ExecWait, ExecRemove,
         Stop, StopCall, RemoveService, RemoveCall, RemoveData, RemoveDataCall,
         Rebuild, RebuildRunning, RebuildRemove, RebuildCreate, RebuildStart,
         Pull, PullRunning, PullRemove, PullImage, Rename, RenameTo, RenameRunning, RenameStop,
         RenameRemove, RenameVolumes, RenameCreate, RenameStart, EnsureData, EnsureDataCall, At

\* A process in the life of its container came there by the creation.
LEMMA HeldBefore ==
  ASSUME IInv, NEW p \in Procs, Step(p), cli'[p].pc \in HeldLabels
  PROVE  /\ ExecCreate(p) \/ ExecStart(p) \/ ExecWait(p)
         /\ Temp(p)' = Temp(p)
  <1>1. CASE ExecCreate(p)
    <2>2. cli[p] \in ProcessOver(SafeIds) /\ cli \in [Procs -> ProcessOver(SafeIds)]
      BY DEF IInv, CliOK
    <2>3. Become(p, [cli[p] EXCEPT !.pc = "execStart", !.made = nextId]) \/ Errs(p)
      BY <1>1, Endings DEF ExecCreate, Refused
    <2>4. ~Errs(p)
      BY DEF Errs, HeldLabels
    <2>5. cli'[p] = [cli[p] EXCEPT !.pc = "execStart", !.made = nextId]
      BY <2>2, <2>3, <2>4 DEF Become
    <2>6. cli'[p].inv = cli[p].inv /\ cli'[p].data = cli[p].data
      BY <2>2, <2>5 DEF ProcessOver
    <2>7. QED
      BY <1>1, <2>6 DEF Temp, IsService, Name
  <1>2. CASE ExecRemove(p)
    <2>1. cli[p].stk = <<>>
      BY <1>2 DEF ExecRemove, At, IInv, CliOK, ExecLabels
    <2>2. Fail(p) \/ Return(p)
      BY <1>2 DEF ExecRemove
    <2>3. cli'[p].pc = "idle"
      BY <2>1, <2>2, Endings DEF Errs
    <2>4. QED
      BY <2>3 DEF HeldLabels
  <1>3. CASE ~ExecCreate(p) /\ ~ExecRemove(p)
    <2>1. Advance(p)
      BY <1>3, DataActions, EnsureDataActions, RunActions, ExecActions, StopActions, RemoveActions,
         RebuildActions, PullActions, RenameLooks, RenameActs, RenameCreates DEF Step
    <2>2. PICK r : Keeps(p, r) /\ cli' = [cli EXCEPT ![p] = r]
      BY <2>1 DEF Advance, Become
    <2>3. cli'[p] = r
      BY <2>2 DEF IInv, CliOK
    <2>4. r.pc \in HeldLabels /\ r.inv = cli[p].inv /\ r.data = cli[p].data /\ cli[p].pc \in HeldLabels
      BY <2>2, <2>3 DEF Keeps, Idle, HeldLabels
    <2>5. QED
      BY <1>3, <2>3, <2>4, HeldSteps DEF Temp, IsService, Name
  <1>4. QED
    BY <1>1, <1>2, <1>3

LEMMA StepAsleep ==
  ASSUME ~Faults, IInv, Asleep, NEW p \in Procs, Step(p)
  PROVE  Asleep'
  <1> SUFFICES ASSUME NEW q \in Procs, cli'[q].pc \in {"execStart", "execRemove"}
               PROVE  ~cont'[Temp(q)'].running
    BY DEF Asleep
  <1>1. CASE q # p
    <2>1. cli'[q] = cli[q]
      BY <1>1, OthersStay
    <2>2. Temp(q)' = Temp(q) /\ Holding(q) /\ cli[q].pc \in {"execStart", "execRemove"}
      BY <2>1 DEF Temp, IsService, Name, Holding
    <2>3. Temp(q) \in ContainerName /\ IsTemp(Temp(q)) /\ ~cont[Temp(q)].running
      BY <2>2, TempIsTemp DEF ExecLabels, Asleep
    <2>4. ~(cli[p].pc = "execStart" /\ Temp(q) = Temp(p)) /\ Exists(Temp(q))
      BY <1>1, <2>2 DEF IInv, MadeDistinct, TempOwned, Holding
    <2>5. QED
      BY <2>2, <2>3, <2>4, TempsLeftAlone
  <1>2. CASE q = p
    <2>1. ExecCreate(p) \/ ExecStart(p) \/ ExecWait(p)
      BY <1>2, HeldBefore DEF HeldLabels
    <2>2. Temp(p)' = Temp(p)
      BY <1>2, HeldBefore DEF HeldLabels
    <2>3. CASE ExecCreate(p)
      <3>1. Temp(p) \in ContainerName /\ TempSource(p) \in ContainerName \cup {NoName}
        BY <2>3, TempIsTemp, WorkingFacts DEF ExecCreate, At, ExecLabels, TempSource
      <3>2. Create(Temp(p), TempSource(p)) \/ Errs(p)
        BY <2>3, Endings DEF ExecCreate, Refused
      <3>3. QED
        BY <1>2, <2>2, <3>1, <3>2, CreateFacts DEF Errs
    <2>4. CASE ExecStart(p)
      <3>1. Goto(p, "execWait") => cli'[p].pc = "execWait"
        BY Lines DEF Continues
      <3>2. UNCHANGED daemon
        BY <1>2, <2>4, <3>1 DEF ExecStart
      <3>3. ~cont[Temp(p)].running
        BY <2>4 DEF ExecStart, At, Asleep
      <3>4. QED
        BY <1>2, <2>2, <3>2, <3>3 DEF daemon
    <2>5. CASE ExecWait(p)
      BY <1>2, <2>2, <2>5 DEF ExecWait, daemon
    <2>6. QED
      BY <2>1, <2>3, <2>4, <2>5
  <1>3. QED
    BY <1>1, <1>2

LEMMA StepOwners ==
  ASSUME ~Faults, IInv, Asleep, TempHasOwner, NEW p \in Procs, Step(p)
  PROVE  TempHasOwner'
  <1> SUFFICES ASSUME NEW n \in ContainerName, Exists(n)', IsTemp(n)
               PROVE  \E q \in Procs : Holding(q)' /\ Temp(q)' = n
    BY DEF TempHasOwner, Existing, IsTemp
  <1>1. ASSUME NEW q \in Procs, q # p, Holding(q), Temp(q) = n
        PROVE  Holding(q)' /\ Temp(q)' = n
    BY <1>1, OthersStay DEF Holding, Temp, IsService, Name
  <1>2. CASE Exists(n)
    <2>1. PICK q \in Procs : Holding(q) /\ Temp(q) = n
      BY <1>2 DEF TempHasOwner, Existing, IsTemp
    <2>2. CASE q # p
      BY <1>1, <2>1, <2>2
    <2>3. CASE q = p
      <3>1. ExecStart(p) \/ ExecWait(p) \/ ExecRemove(p)
        BY <2>1, <2>3, HeldSteps DEF Holding, HeldLabels
      <3>2. CASE ExecRemove(p)
        <4>1. cont'[Temp(p)] = NoContainer
          <5>1. Remove(Temp(p), ~IsService(p)) /\ Temp(p) \in ContainerName
            BY <3>2, RemovalSucceeds
          <5>2. (~IsService(p)) \in BOOLEAN
            BY DEF IsService
          <5>3. QED
            BY <5>1, <5>2, RemoveFacts
        <4>2. QED
          BY <2>1, <2>3, <4>1 DEF Exists, NoContainer
      <3>3. CASE ExecStart(p) \/ ExecWait(p)
        <4>1. cli'[p].pc \in {"execWait", "execRemove"}
          BY <3>3, Lines DEF ExecStart, ExecWait, Continues
        <4>2. Holding(p)' /\ Temp(p)' = Temp(p)
          BY <4>1, HeldBefore DEF Holding, HeldLabels
        <4>3. QED
          BY <2>1, <2>3, <4>2
      <3>4. QED
        BY <3>1, <3>2, <3>3
    <2>4. QED
      BY <2>2, <2>3
  <1>3. CASE ~Exists(n)
    <2>1. ~(cli[p].pc = "execStart" /\ n = Temp(p))
      BY <1>3 DEF IInv, TempOwned, Holding
    <2>2. cli[p].pc = "execCreate" /\ n = Temp(p)
      BY <1>3, <2>1, TempsLeftAlone
    <2>3. ExecCreate(p) \/ UNCHANGED daemon
      <3>1. ~IsTemp(Name(p)) /\ ~IsTemp(cli[p].data)
        BY <2>2, WorkingFacts
      <3>2. QED
        BY <2>2, PlainEffects, CreateEffects DEF Step, RunStart, RunRemove, ExecStart, ExecRemove,
           StopCall, RemoveCall, RemoveDataCall, RebuildRemove, RebuildStart, PullRemove, RenameStop,
           RenameRemove, RenameStart, At, CreateDataCall, RunDataCreate, ExecDataCreate, EnsureDataCall,
           RunCreate, RebuildCreate, RenameCreate
    <2>4. ExecCreate(p) /\ ~Refused(p, CanCreate(Temp(p), TempSource(p)))
      BY <1>3, <2>3 DEF daemon, Exists, Refused
    <2>5. cli'[p].pc = "execStart"
      BY <2>4, Lines DEF ExecCreate, Continues
    <2>6. Holding(p)' /\ Temp(p)' = n
      BY <2>2, <2>5, HeldBefore DEF Holding, HeldLabels
    <2>7. QED
      BY <2>6
  <1>4. QED
    BY <1>2, <1>3

LEMMA AsleepInvariance ==
  ASSUME ~Faults
  PROVE  Spec => [](IInv /\ Asleep)
  <1>1. Init => IInv /\ Asleep
    BY InitSafe DEF Init, Asleep, Idle
  <1>2. ASSUME IInv, Asleep, NEW p \in Procs, Begin(p)  PROVE Asleep'
    <2>1. PICK i \in Invocations :
            /\ cli'[p].pc = Entry(i)
            /\ \A q \in Procs : q # p => cli'[q] = cli[q]
            /\ UNCHANGED <<cont, volumes, nextId>>
      BY <1>2, BeginFacts
    <2>2. cli'[p].pc \notin HeldLabels
      BY <2>1, InvocationFacts DEF Entry, Kinds, HeldLabels
    <2>3. QED
      BY <1>2, <2>1, <2>2 DEF Asleep, Temp, IsService, Name, HeldLabels
  <1>3. ASSUME IInv, Asleep, NEW p \in Procs, Kill(p)  PROVE Asleep'
    <2>1. cli'[p] = Idle("killed") /\ \A q \in Procs : q # p => cli'[q] = cli[q]
      BY <1>3 DEF Kill, Become, IInv, CliOK
    <2>2. QED
      BY <1>3, <2>1 DEF Kill, daemon, Idle, Asleep, Temp, IsService, Name
  <1>4. ASSUME IInv, Asleep, NEW n \in ContainerName, Exit(n)  PROVE Asleep'
    <2>1. cli' = cli /\ \A m \in ContainerName : cont'[m].running => cont[m].running
      BY <1>4, SetRunningFacts DEF Exit
    <2>2. \A q \in Procs : cli[q].pc \in ExecLabels => Temp(q) \in ContainerName
      BY <1>4, TempIsTemp
    <2>3. QED
      BY <1>4, <2>1, <2>2 DEF Asleep, Temp, IsService, Name, ExecLabels
  <1>5. IInv /\ Asleep /\ [Next]_vars => (IInv /\ Asleep)'
    <2>1. ASSUME IInv, Asleep, UNCHANGED vars  PROVE Asleep'
      BY <2>1 DEF vars, Asleep, Temp, IsService, Name
    <2>2. QED
      BY <1>2, <1>3, <1>4, <2>1, NextSafe, StepAsleep DEF Next
  <1>6. QED
    BY <1>1, <1>5, PTL DEF Spec

LEMMA OwnersBegin ==
  ASSUME IInv, TempHasOwner, NEW p \in Procs, Begin(p)
  PROVE  TempHasOwner'
  <1>1. /\ \A q \in Procs : q # p => cli'[q] = cli[q]
        /\ UNCHANGED <<cont, volumes, nextId>>
        /\ cli[p].pc = "idle"
    BY BeginFacts DEF Begin, At
  <1>2. QED
    BY <1>1 DEF TempHasOwner, Existing, Exists, Holding, Temp, IsService, Name

LEMMA OwnersExit ==
  ASSUME IInv, TempHasOwner, NEW n \in ContainerName, Exit(n)
  PROVE  TempHasOwner'
  <1>1. cli' = cli /\ \A m \in ContainerName : cont'[m].id = cont[m].id
    BY SetRunningFacts DEF Exit
  <1>2. QED
    BY <1>1 DEF TempHasOwner, Existing, Exists, Holding, Temp, IsService, Name

\* Unless a call fails or a process is killed, every throw-away container has a
\* process that is going to remove it: none is left behind, however the commands
\* interleave and whatever else they do to the service and its data.
THEOREM TempsHaveOwners ==
  ASSUME ~Faults, ~Kills
  PROVE  Spec => []TempHasOwner
  <1>1. Init => TempHasOwner
    BY DEF Init, TempHasOwner, Existing, Exists, NoContainer
  <1>2. IInv /\ Asleep /\ TempHasOwner /\ [Next]_vars => TempHasOwner'
    <2>1. ASSUME TempHasOwner, UNCHANGED vars  PROVE TempHasOwner'
      BY <2>1 DEF vars, TempHasOwner, Existing, Exists, Holding, Temp, IsService, Name
    <2>2. QED
      BY <2>1, OwnersBegin, OwnersExit, StepOwners DEF Next, Kill
  <1>3. QED
    BY <1>1, <1>2, AsleepInvariance, PTL DEF Spec


-----------------------------------------------------------------------------
\* Commands harm only what is theirs.

LEMMA LostIsOwn ==
  ASSUME FitInv, NEW p \in Procs, Step(p), NEW n \in ContainerName, Loses(n)
  PROVE  \/ n = Name(p) /\ cli[p].pc \in {"stopCall", "renameStop", "removeCall", "rebuildRemove",
                                          "pullRemove", "renameRemove", "runRemove"}
         \/ n = ToDataContainer(Name(p)) /\ cli[p].pc = "removeDataCall"
         \/ n = Temp(p) /\ cli[p].pc = "execRemove"
  <1>1. Effect(p) /\ IInv
    BY StepEffect DEF FitInv
  <1>2. ASSUME cli[p].pc # "idle", Identified(n, cli[p].id)
        PROVE  n = Subject(cli[p])
    BY <1>1, <1>2, FitNames, OwnsFacts DEF FitInv, Fits
  <1>3. CASE UNCHANGED daemon
    BY <1>3 DEF daemon, Loses
  <1>4. CASE Starts(p)
    <2>1. PICK m \in ContainerName : SetRunning(m, TRUE)
      BY <1>4 DEF Starts
    <2>2. cont'[n].id = cont[n].id /\ (n = m => cont'[n].running) /\ (n # m => cont'[n] = cont[n])
      BY <1>1, <2>1, SetRunningFacts
    <2>3. QED
      BY <2>2 DEF Loses
  <1>5. CASE Halts(p)
    <2>1. PICK m \in ContainerName :
            SetRunning(m, FALSE) /\ cli[p].pc \in {"stopCall", "renameStop"} /\ Identified(m, cli[p].id)
      BY <1>5 DEF Halts
    <2>2. n # m => cont'[n] = cont[n]
      BY <1>1, <2>1, SetRunningFacts
    <2>3. n = m
      BY <2>2 DEF Loses
    <2>4. QED
      BY <1>2, <2>1, <2>3 DEF Subject, Name
  <1>6. CASE Removes(p)
    <2>1. PICK m \in ContainerName : \E vol \in BOOLEAN : Remove(m, vol) /\ Drops(p, m)
      BY <1>6 DEF Removes
    <2>2. n # m => cont'[n] = cont[n]
      BY <1>1, <2>1, RemoveFacts
    <2>3. n = m
      BY <2>2 DEF Loses
    <2>4. QED
      BY <1>2, <2>1, <2>3 DEF Drops, Subject, Name
  <1>7. CASE Creates(p)
    <2>1. PICK m \in ContainerName \cup {NoName} :
            \E from \in ContainerName \cup {NoName} : CanCreate(m, from) /\ Create(m, from)
      BY <1>7 DEF Creates
    <2>2. n # m => cont'[n] = cont[n]
      BY <1>1, <2>1, CreateFacts
    <2>3. QED
      BY <2>1, <2>2 DEF Loses, CanCreate
  <1>8. QED
    BY <1>1, <1>3, <1>4, <1>5, <1>6, <1>7 DEF Effect

\* However many processes act on the answers of lookups that others have long
\* made stale: the step of a command stops or removes no container but the ones
\* the command was given, if a name answers to itself alone and no data container
\* goes by the empty name.  Calls may fail and processes be killed.
THEOREM NothingElseHarmed ==
  ASSUME ExactNames, DataRemovalsNamed
  PROVE  Spec => NoCollateral
  <1> DEFINE Spares ==
        \A n \in ContainerName, p \in Procs : cli'[p] # cli[p] /\ Loses(n) => n \in Scope(p)
  <1>1. FitInv /\ [Next]_vars => [Spares]_vars
    <2> SUFFICES ASSUME FitInv, Next  PROVE Spares
      OBVIOUS
    <2>1. ASSUME NEW p \in Procs, Step(p)  PROVE Spares
      <3>1. \A q \in Procs : q # p => cli'[q] = cli[q]
        BY <2>1, OthersStay DEF FitInv
      <3>2. \A n \in ContainerName : Loses(n) => n \in Scope(p)
        BY <2>1, LostIsOwn DEF Scope
      <3>3. QED
        BY <3>1, <3>2
    <2>2. ASSUME NEW p \in Procs, Begin(p) \/ Kill(p)  PROVE Spares
      BY <2>2 DEF Begin, Kill, daemon, Loses
    <2>3. ASSUME NEW n \in ContainerName, Exit(n)  PROVE Spares
      BY <2>3 DEF Exit
    <2>4. QED
      BY <2>1, <2>2, <2>3 DEF Next
  <1>2. QED
    BY <1>1, FitInvariance, PTL DEF Spec, NoCollateral

-----------------------------------------------------------------------------
\* Data containers stay.

LEMMA DataStays ==
  ASSUME DataLeftAlone, FitInv, NEW p \in Procs, Step(p),
         NEW n \in Existing, n.type = TypeData
  PROVE  Exists(n)' /\ cont'[n].vol = cont[n].vol /\ cont[n].vol \in volumes'
  <1>1. Effect(p) /\ IInv /\ n \in ContainerName /\ Exists(n) /\ cont[n].vol \in volumes
    BY StepEffect DEF FitInv, Existing, Tidy
  <1>2. ~Loses(n) \/ cont'[n].id = cont[n].id
    <2>1. SUFFICES ASSUME Loses(n), cont'[n].id # cont[n].id  PROVE FALSE
      OBVIOUS
    <2>2. cli[p].pc # "idle"
      BY <2>1, LostIsOwn, <1>1
    <2>3. /\ cli[p].inv \in Invocations
          /\ KindAt(cli[p].inv.kind, cli[p].pc)
          /\ cli[p].pc = "removeDataCall" => "data" \in cli[p].inv.flags
      BY <1>1, <2>2, FitNames DEF FitInv, Fits
    <2>4. cli[p].pc # "removeDataCall"
      BY <2>3 DEF KindAt, RemoveLabels, DataLeftAlone
    <2>5. ~(cli[p].pc = "execRemove" /\ n = Temp(p))
      BY <1>1, TempIsTemp DEF ExecLabels, IsTemp, TempTypes, TypeData
    <2>6. n = cli[p].inv.name /\ cli[p].pc \in {"stopCall", "renameStop", "removeCall", "rebuildRemove",
                                                "pullRemove", "renameRemove", "runRemove"}
      BY <1>1, <2>1, <2>4, <2>5, LostIsOwn DEF Name
    <2>7. cli[p].inv.kind \in {"run", "rebuild", "stop", "remove", "rename"}
      BY <2>3, <2>6 DEF KindAt, RunLabels, StopLabels, RemoveLabels, RenameLabels, UpdateLabels
    <2>8. cli[p].inv.name.type # TypeData
      BY <2>3, <2>7, PerformAssumption DEF PerformAssumption, DataLeftAlone
    <2>9. QED
      BY <2>6, <2>8
  <1>3. cont'[n].id = cont[n].id
    BY <1>1, <1>2 DEF Loses
  <1>4. CASE UNCHANGED daemon
    BY <1>1, <1>4 DEF daemon, Exists
  <1>5. ASSUME NEW m \in ContainerName, NEW b \in BOOLEAN, SetRunning(m, b)
        PROVE  Exists(n)' /\ cont'[n].vol = cont[n].vol /\ cont[n].vol \in volumes'
    <2>1. cont'[n].vol = cont[n].vol /\ volumes' = volumes
      BY <1>1, <1>5, SetRunningFacts
    <2>2. QED
      BY <1>1, <1>3, <2>1 DEF Exists
  <1>6. CASE Removes(p)
    <2>1. PICK m \in ContainerName : \E vol \in BOOLEAN : Remove(m, vol)
      BY <1>6 DEF Removes
    <2>2. m # n
      BY <1>1, <1>3, <2>1, RemoveFacts DEF NoContainer, Exists
    <2>3. cont'[n] = cont[n] /\ cont[n].vol \in volumes'
      BY <1>1, <2>1, <2>2, RemoveFacts
    <2>4. QED
      BY <1>1, <2>3 DEF Exists
  <1>7. CASE Creates(p)
    <2>1. PICK m \in ContainerName \cup {NoName} :
            \E from \in ContainerName \cup {NoName} : CanCreate(m, from) /\ Create(m, from)
      BY <1>7 DEF Creates
    <2>2. n # m
      BY <1>1, <2>1 DEF CanCreate
    <2>3. cont'[n] = cont[n] /\ volumes \subseteq volumes'
      BY <1>1, <2>1, <2>2, CreateFacts
    <2>4. QED
      BY <1>1, <2>3 DEF Exists
  <1>8. QED
    BY <1>1, <1>4, <1>5, <1>6, <1>7 DEF Effect, Starts, Halts

LEMMA DataLeftNamed ==
  ASSUME DataLeftAlone
  PROVE  DataRemovalsNamed
  BY DEF DataLeftAlone, DataRemovalsNamed

\* A data container keeps its volume and the volume is kept, through starts,
\* stops, updates, execs and removals of services and chains by any number of
\* processes, failed calls and kills.
THEOREM DataIsKept ==
  ASSUME ExactNames, DataLeftAlone
  PROVE  Spec => DataKept
  <1> DEFINE Keeping ==
        \A n \in Existing : n.type = TypeData =>
          cont'[n].vol = cont[n].vol /\ cont[n].vol \in volumes'
  <1>1. FitInv /\ [Next]_vars => [Keeping]_vars
    <2> SUFFICES ASSUME FitInv, Next  PROVE Keeping
      OBVIOUS
    <2>1. ASSUME NEW p \in Procs, Step(p)  PROVE Keeping
      BY <2>1, DataStays
    <2>2. ASSUME NEW p \in Procs, Begin(p) \/ Kill(p)  PROVE Keeping
      BY <2>2 DEF Begin, Kill, daemon, FitInv, Tidy
    <2>3. ASSUME NEW n \in ContainerName, Exit(n)  PROVE Keeping
      <3>1. volumes' = volumes /\ \A m \in ContainerName : cont'[m].vol = cont[m].vol
        BY <2>3, SetRunningFacts DEF Exit, FitInv
      <3>2. QED
        BY <3>1 DEF Existing, FitInv, Tidy
    <2>4. QED
      BY <2>1, <2>2, <2>3 DEF Next
  <1>2. QED
    BY <1>1, DataLeftNamed, FitInvariance, PTL DEF Spec, DataKept


-----------------------------------------------------------------------------
\* What the user is told is so.

\* The outcome that goes with "ok".
Told(p) ==
  CASE cli[p].inv.kind = "run"        -> Has(p, "rm") \/ cont'[Name(p)].running
    [] cli[p].inv.kind = "stop"       -> ~cont'[Name(p)].running
    [] cli[p].inv.kind = "remove"     -> Has(p, "data") \/ cont'[Name(p)] = NoContainer
    [] cli[p].inv.kind = "createData" -> cont'[Name(p)] # NoContainer
    [] cli[p].inv.kind \in {"exec", "runData"} -> cont'[Temp(p)] = NoContainer
    [] OTHER -> TRUE

LEMMA NotOk ==
  ASSUME NEW p \in Procs, Errs(p) \/ (\E l \in Labels \ {"idle"} : Continues(p, l))
  PROVE  ~Ends(p, "ok")
  BY DEF Errs, Continues, Ends

\* An update or a rename is told to have succeeded in any case.
LEMMA OtherKinds ==
  ASSUME NEW p, cli[p].inv.kind \in {"rebuild", "rename"}
  PROVE  Told(p)
  BY DEF Told

LEMMA RunTold ==
  ASSUME ~Faults, ExactNames, FitInv, NEW p \in Procs,
         \/ Run(p) \/ RunData(p) \/ RunDataCreate(p) \/ RunExists(p) \/ RunCreate(p)
         \/ RunStart(p) \/ RunRemove(p),
         Ends(p, "ok")
  PROVE  Told(p)
  <1>1. IInv /\ cli[p].pc \in RunLabels /\ cli[p].pc # "idle"
    BY DEF FitInv, Run, RunData, RunDataCreate, RunExists, RunCreate, RunStart, RunRemove, EnsureData,
           EnsureDataCall, At, RunLabels
  <1>2. cli[p].inv.kind \in {"run", "rebuild"} /\ Name(p) \in PlainName /\ Name(p) \in ContainerName
    BY <1>1, FitNames DEF FitInv, Fits, KindAt
  <1>3. SUFFICES ASSUME cli[p].inv.kind = "run"  PROVE Has(p, "rm") \/ cont'[Name(p)].running
    BY <1>2, OtherKinds DEF Told
  <1>4. ~Fail(p)
    BY <1>1, Endings, NotOk
  <1>5. \A l \in Labels \ {"idle"} : ~Goto(p, l)
    BY <1>1, Lines, NotOk
  <1>6. CASE Run(p)
    <2>1. PICK id \in Lookup(Name(p), FALSE) : id # 0 /\ UNCHANGED daemon
      BY <1>5, <1>6 DEF Run, Labels
    <2>2. cont[Name(p)].running
      BY <1>1, <1>2, <2>1, LookupExact
    <2>3. QED
      BY <2>1, <2>2 DEF daemon
  <1>7. CASE RunStart(p)
    <2>1. SetRunning(Name(p), TRUE)
      BY <1>4, <1>7 DEF RunStart, Refused
    <2>2. QED
      BY <1>1, <1>2, <2>1, SetRunningFacts
  <1>8. CASE RunRemove(p)
    BY <1>8 DEF RunRemove, At, FitInv, Fits, Has
  <1>9. ~RunData(p) /\ ~RunDataCreate(p) /\ ~RunExists(p) /\ ~RunCreate(p)
    BY <1>4, <1>5 DEF RunData, EnsureData, RunDataCreate, EnsureDataCall, RunExists, RunCreate, Refused,
                      Labels
  <1>10. QED
    BY <1>6, <1>7, <1>8, <1>9

LEMMA CreateDataTold ==
  ASSUME FitInv, NEW p \in Procs, CreateData(p) \/ CreateDataCall(p), Ends(p, "ok")
  PROVE  Told(p)
  <1>1. IInv /\ cli[p].pc \in CreateLabels /\ cli[p].pc # "idle"
    BY DEF FitInv, CreateData, CreateDataCall, At, CreateLabels
  <1>2. /\ cli[p].inv.kind = "createData" /\ Name(p) \in ContainerName /\ Name(p) = cli[p].inv.name
        /\ cli[p].inv \in Invocations
    BY <1>1, FitNames DEF FitInv, Fits, KindAt
  <1>3. Name(p).type = TypeData
    BY <1>2, InvocationFacts
  <1>4. cli[p].data = Name(p)
    <2>1. ToDataContainer(Name(p)) = Name(p)
      BY <1>2, <1>3 DEF ToDataContainer, ContainerName
    <2>2. Name(p).type # TypeService
      BY <1>3 DEF TypeData, TypeService
    <2>3. QED
      BY <1>1, <1>2, <2>1, <2>2 DEF FitInv, Fits
  <1>5. ~Fail(p)
    BY <1>1, Endings, NotOk
  <1>6. ~Goto(p, "createDataCall")
    BY <1>1, Lines, NotOk DEF Labels
  <1>7. Create(Name(p), NoName)
    BY <1>4, <1>5, <1>6 DEF CreateData, CreateDataCall, Refused
  <1>8. cont'[Name(p)].id # 0
    BY <1>1, <1>2, <1>7, CreateFacts
  <1>9. QED
    BY <1>2, <1>8 DEF Told, NoContainer

LEMMA ExecTold ==
  ASSUME ~Faults, FitInv, Asleep, NEW p \in Procs,
         \/ ExecData(p) \/ ExecDataCreate(p) \/ ExecCreate(p) \/ ExecStart(p) \/ ExecWait(p)
         \/ ExecRemove(p),
         Ends(p, "ok")
  PROVE  Told(p)
  <1>1. IInv /\ cli[p].pc \in ExecLabels /\ cli[p].pc # "idle"
    BY DEF FitInv, ExecData, ExecDataCreate, ExecCreate, ExecStart, ExecWait, ExecRemove, EnsureData,
           EnsureDataCall, At, ExecLabels
  <1>2. cli[p].inv.kind \in {"exec", "runData"}
    BY <1>1 DEF IInv, CliOK
  <1>3. ~Fail(p)
    BY <1>1, Endings, NotOk
  <1>4. \A l \in Labels \ {"idle"} : ~Goto(p, l)
    BY <1>1, Lines, NotOk
  <1>5. /\ \A b : ~Become(p, [cli[p] EXCEPT !.pc = "execRemove", !.failed = b])
        /\ \A m : ~Become(p, [cli[p] EXCEPT !.pc = "execStart", !.made = m])
    BY <1>1, Lines, NotOk DEF Labels
  <1>6. ExecRemove(p)
    BY <1>3, <1>4, <1>5 DEF ExecData, ExecDataCreate, ExecCreate, ExecStart, ExecWait, EnsureData,
                            EnsureDataCall, Refused, Labels
  <1>7. Remove(Temp(p), ~IsService(p)) /\ Temp(p) \in ContainerName
    BY <1>1, <1>6, RemovalSucceeds
  <1>8. (~IsService(p)) \in BOOLEAN
    BY DEF IsService
  <1>9. cont'[Temp(p)] = NoContainer
    BY <1>1, <1>7, <1>8, RemoveFacts
  <1>10. QED
    BY <1>2, <1>9 DEF Told


LEMMA StopTold ==
  ASSUME ~Faults, ExactNames, FitInv, NEW p \in Procs, Stop(p) \/ StopCall(p), Ends(p, "ok")
  PROVE  Told(p)
  <1>1. IInv /\ Tidy /\ cli[p].pc \in StopLabels /\ cli[p].pc # "idle"
    BY DEF FitInv, Stop, StopCall, At, StopLabels
  <1>2. cli[p].inv.kind \in {"stop", "rebuild"} /\ Name(p) \in PlainName /\ Name(p) \in ContainerName
    BY <1>1, FitNames DEF FitInv, Fits, KindAt
  <1>3. SUFFICES ASSUME cli[p].inv.kind = "stop"  PROVE ~cont'[Name(p)].running
    BY <1>2, OtherKinds DEF Told
  <1>4. ~Fail(p)
    BY <1>1, Endings, NotOk
  <1>5. CASE Stop(p)
    <2>1. \A i : ~Become(p, [cli[p] EXCEPT !.pc = "stopCall", !.id = i])
      BY <1>1, Lines, NotOk DEF Labels
    <2>2. PICK id \in Lookup(Name(p), TRUE) : id = 0 /\ UNCHANGED daemon
      BY <1>5, <2>1 DEF Stop
    <2>3. ~Exists(Name(p))
      BY <1>1, <1>2, <2>2, LookupExact
    <2>4. QED
      BY <1>1, <1>2, <2>2, <2>3 DEF daemon, Tidy, NoContainer
  <1>6. CASE StopCall(p)
    <2>1. PICK n \in ContainerName : Identified(n, cli[p].id) /\ SetRunning(n, FALSE)
      BY <1>4, <1>6 DEF StopCall, Refused
    <2>2. cli[p].id \in Owns[Name(p)]
      BY <1>1, <1>6, SameIdFits DEF StopCall, At
    <2>3. n = Name(p)
      BY <1>1, <1>2, <2>1, <2>2, OwnsFacts
    <2>4. QED
      BY <1>1, <2>1, <2>3, SetRunningFacts
  <1>7. QED
    BY <1>5, <1>6

LEMMA RemoveTold ==
  ASSUME ~Faults, ExactNames, FitInv, NEW p \in Procs,
         RemoveService(p) \/ RemoveCall(p) \/ RemoveData(p) \/ RemoveDataCall(p), Ends(p, "ok")
  PROVE  Told(p)
  <1>1. IInv /\ Tidy /\ cli[p].pc \in RemoveLabels /\ cli[p].pc # "idle"
    BY DEF FitInv, RemoveService, RemoveCall, RemoveData, RemoveDataCall, At, RemoveLabels
  <1>2. cli[p].inv.kind = "remove" /\ Name(p) \in PlainName /\ Name(p) \in ContainerName
    BY <1>1, FitNames DEF FitInv, Fits, KindAt
  <1>3. SUFFICES Has(p, "data") \/ cont'[Name(p)] = NoContainer
    BY <1>2 DEF Told
  <1>4. ~Fail(p)
    BY <1>1, Endings, NotOk
  <1>5. CASE RemoveService(p)
    <2>1. \A i : ~Become(p, [cli[p] EXCEPT !.pc = "removeCall", !.id = i])
      BY <1>1, Lines, NotOk DEF Labels
    <2>2. PICK id \in Lookup(Name(p), TRUE) : id = 0 /\ UNCHANGED daemon
      BY <1>5, <2>1 DEF RemoveService
    <2>3. ~Exists(Name(p))
      BY <1>1, <1>2, <2>2, LookupExact
    <2>4. QED
      BY <1>1, <1>2, <2>2, <2>3 DEF daemon, Tidy
  <1>6. CASE RemoveCall(p)
    <2>1. PICK n \in ContainerName : Identified(n, cli[p].id) /\ Remove(n, Has(p, "vol"))
      BY <1>4, <1>6 DEF RemoveCall, RemoveFound, Refused, CanRemove
    <2>2. cli[p].id \in Owns[Name(p)]
      BY <1>1, <1>6, SameIdFits DEF RemoveCall, At
    <2>3. n = Name(p)
      BY <1>1, <1>2, <2>1, <2>2, OwnsFacts
    <2>4. Has(p, "vol") \in BOOLEAN
      BY DEF Has
    <2>5. QED
      BY <1>1, <2>1, <2>3, <2>4, RemoveFacts
  <1>7. CASE RemoveData(p) \/ RemoveDataCall(p)
    BY <1>1, <1>7 DEF RemoveData, RemoveDataCall, At, FitInv, Fits, Has
  <1>8. QED
    BY <1>5, <1>6, <1>7

LEMMA UpdateTold ==
  ASSUME FitInv, NEW p \in Procs,
         \/ Rebuild(p) \/ RebuildRunning(p) \/ RebuildRemove(p) \/ RebuildCreate(p) \/ RebuildStart(p)
         \/ Pull(p) \/ PullRunning(p) \/ PullRemove(p) \/ PullImage(p)
         \/ Rename(p) \/ RenameTo(p) \/ RenameRunning(p) \/ RenameStop(p) \/ RenameRemove(p)
         \/ RenameVolumes(p) \/ RenameCreate(p) \/ RenameStart(p)
  PROVE  Told(p)
  <1>1. cli[p].pc \in UpdateLabels \cup RenameLabels /\ cli[p].pc # "idle"
    BY DEF Rebuild, RebuildRunning, RebuildRemove, RebuildCreate, RebuildStart, Pull, PullRunning,
           PullRemove, PullImage, Rename, RenameTo, RenameRunning, RenameStop, RenameRemove,
           RenameVolumes, RenameCreate, RenameStart, At, UpdateLabels, RenameLabels
  <1>2. cli[p].inv.kind \in {"rebuild", "rename"}
    BY <1>1 DEF FitInv, Fits, KindAt
  <1>3. QED
    BY <1>2, OtherKinds

\* "ok" means what it says: after a start the container runs, after a stop it
\* does not, after a removal it is gone, and so on - at the very step at which the
\* command reports it, whatever other processes have done since its lookups and
\* whoever was killed, if no call fails without effect and names are exact.
THEOREM OkMeansDone ==
  ASSUME ~Faults, ExactNames, DataRemovalsNamed
  PROVE  Spec => OkIsTrue
  <1> DEFINE Tells == \A p \in Procs : Ends(p, "ok") => Told(p)
  <1>1. FitInv /\ Asleep /\ [Next]_vars => [Tells]_vars
    <2> SUFFICES ASSUME FitInv, Asleep, Next  PROVE Tells
      OBVIOUS
    <2>1. ASSUME NEW p \in Procs, Step(p)  PROVE Tells
      <3>1. \A q \in Procs : q # p => cli'[q] = cli[q]
        BY <2>1, OthersStay DEF FitInv
      <3>2. Ends(p, "ok") => Told(p)
        BY <2>1, RunTold, CreateDataTold, ExecTold, StopTold, RemoveTold, UpdateTold DEF Step
      <3>3. \A q \in Procs : q # p => ~Ends(q, "ok")
        BY <3>1 DEF Ends, At
      <3>4. QED
        BY <3>2, <3>3
    <2>2. ASSUME NEW p \in Procs, Begin(p) \/ Kill(p)  PROVE Tells
      <3>1. \A q \in Procs : q # p => cli'[q] = cli[q]
        BY <2>2, BeginFacts DEF Kill, Become, FitInv, IInv, CliOK
      <3>2. At(p, "idle") \/ cli'[p] = Idle("killed")
        BY <2>2 DEF Begin, Kill, Become, FitInv, IInv, CliOK
      <3>3. \A q \in Procs : ~Ends(q, "ok")
        BY <3>1, <3>2 DEF Ends, At, Idle
      <3>4. QED
        BY <3>3
    <2>3. ASSUME NEW n \in ContainerName, Exit(n)  PROVE Tells
      BY <2>3 DEF Exit, Ends, At
    <2>4. QED
      BY <2>1, <2>2, <2>3 DEF Next
  <1>2. QED
    BY <1>1, FitInvariance, AsleepInvariance, PTL DEF Spec, OkIsTrue, Told


-----------------------------------------------------------------------------
\* Services stay on their data containers.

\* A process that replaces a container has found the container in the step that made it one.
LEMMA ReplacingBegins ==
  ASSUME ExactNames, FitInv, NEW p \in Procs, Step(p), ~Replacing(p), Replacing(p)'
  PROVE  Exists(Name(p)) /\ cli'[p].inv = cli[p].inv /\ UNCHANGED daemon
  <1>0. IInv
    BY DEF FitInv
  <1>1. /\ ~Errs(p) /\ cli'[p] # Idle("ok")
        /\ \A l \in Labels \ ReplaceLabels : Continues(p, l) => cli[p].pc = "idle"
    BY DEF Replacing, Errs, Continues, Idle
  <1>2. ASSUME cli[p].pc # "idle"
        PROVE  /\ cli[p].stk = <<>> /\ cli[p].pc \notin ReplaceLabels
               /\ ~Fail(p) /\ ~Return(p)
               /\ \A can : ~Refused(p, can)
    BY <1>0, <1>1, <1>2, Endings DEF Replacing, Refused
  <1>3. ASSUME cli[p].pc # "idle", NEW l \in Labels \ ReplaceLabels
        PROVE  /\ ~Goto(p, l)
               /\ \A i : ~Become(p, [cli[p] EXCEPT !.pc = l, !.id = i])
               /\ \A w : ~Become(p, [cli[p] EXCEPT !.pc = l, !.was = w])
               /\ \A s : ~Become(p, [cli[p] EXCEPT !.pc = l, !.src = s])
               /\ \A b : ~Become(p, [cli[p] EXCEPT !.pc = l, !.failed = b])
               /\ \A m : ~Become(p, [cli[p] EXCEPT !.pc = l, !.made = m])
               /\ \A i : \A s : ~Become(p, [cli[p] EXCEPT !.pc = l, !.id = i, !.src = s])
    BY <1>0, <1>1, <1>3, Lines
  <1>4. RunLabels \cup StopLabels \cup RemoveLabels \cup CreateLabels \cup RenameLabels \cup ExecLabels
          \subseteq Labels \ ReplaceLabels
    BY DEF RunLabels, StopLabels, RemoveLabels, CreateLabels, RenameLabels, ExecLabels, UpdateLabels,
           ReplaceLabels, Labels
  <1>5. CASE Rebuild(p)
    <2>1. cli[p].pc = "rebuild"
      BY <1>5 DEF Rebuild, At
    <2>2. PICK id \in Lookup(Name(p), TRUE) :
            id # 0 /\ Become(p, [cli[p] EXCEPT !.pc = "rebuildRunning", !.id = id]) /\ UNCHANGED daemon
      BY <1>2, <1>5, <2>1 DEF Rebuild
    <2>3. Exists(Name(p))
      BY <1>0, <2>1, <2>2, FitNames, LookupExact
    <2>4. Continues(p, "rebuildRunning")
      BY <1>0, <2>2, Lines
    <2>5. QED
      BY <2>2, <2>3, <2>4 DEF Continues
  <1>6. ~CreateData(p) /\ ~CreateDataCall(p)
    BY <1>2, <1>3, <1>4 DEF CreateData, CreateDataCall, At, CreateLabels
  <1>7. ~Run(p) /\ ~RunData(p) /\ ~RunDataCreate(p) /\ ~RunExists(p) /\ ~RunCreate(p) /\ ~RunStart(p)
        /\ ~RunRemove(p)
    BY <1>2, <1>3, <1>4 DEF Run, RunData, RunDataCreate, RunExists, RunCreate, RunStart, RunRemove,
       EnsureData, EnsureDataCall, At, RunLabels
  <1>8. ~ExecData(p) /\ ~ExecDataCreate(p) /\ ~ExecCreate(p) /\ ~ExecStart(p) /\ ~ExecWait(p)
        /\ ~ExecRemove(p)
    BY <1>2, <1>3, <1>4 DEF ExecData, ExecDataCreate, ExecCreate, ExecStart, ExecWait, ExecRemove,
       EnsureData, EnsureDataCall, At, ExecLabels
  <1>9. ~Stop(p) /\ ~StopCall(p)
    BY <1>2, <1>3, <1>4 DEF Stop, StopCall, At, StopLabels
  <1>10. ~RemoveService(p) /\ ~RemoveData(p)
    BY <1>2, <1>3, <1>4 DEF RemoveService, RemoveData, At, RemoveLabels
  <1>11. ~RemoveCall(p) /\ ~RemoveDataCall(p)
    BY <1>2, <1>3, <1>4 DEF RemoveCall, RemoveDataCall, RemoveFound, Return, Goto, At, RemoveLabels
  <1>12. /\ ~RebuildRunning(p) /\ ~RebuildRemove(p) /\ ~RebuildCreate(p)
         /\ ~Pull(p) /\ ~PullRunning(p) /\ ~PullRemove(p) /\ ~PullImage(p)
    BY <1>2 DEF RebuildRunning, RebuildRemove, RebuildCreate, Pull, PullRunning, PullRemove,
       PullImage, At, ReplaceLabels, UpdateLabels
  <1>13. ~RebuildStart(p)
    BY <1>2 DEF RebuildStart, At
  <1>14. ~Rename(p) /\ ~RenameTo(p) /\ ~RenameRunning(p) /\ ~RenameStop(p) /\ ~RenameRemove(p)
    BY <1>2, <1>3, <1>4 DEF Rename, RenameTo, RenameRunning, RenameStop, RenameRemove, At, RenameLabels
  <1>15. ~RenameVolumes(p) /\ ~RenameCreate(p) /\ ~RenameStart(p)
    BY <1>2, <1>3, <1>4 DEF RenameVolumes, RenameCreate, RenameStart, At, RenameLabels
  <1>16. QED
    BY <1>5, <1>6, <1>7, <1>8, <1>9, <1>10, <1>11, <1>12, <1>13, <1>14, <1>15 DEF Step


LEMMA NamesStay ==
  ASSUME IInv, NEW p \in Procs, Step(p), cli'[p].pc # "idle"
  PROVE  cli'[p].inv = cli[p].inv /\ cli'[p].data = cli[p].data /\ cli[p].pc # "idle"
  <1>1. CASE ExecCreate(p) \/ ExecRemove(p)
    <2>1. cli[p].pc \in ExecLabels /\ cli[p].stk = <<>> /\ cli[p].pc # "idle"
      BY <1>1 DEF ExecCreate, ExecRemove, At, IInv, CliOK, ExecLabels
    <2>2. CASE ExecRemove(p)
      <3>1. Fail(p) \/ Return(p)
        BY <2>2 DEF ExecRemove
      <3>2. QED
        BY <2>1, <3>1, Endings DEF Errs
    <2>3. CASE ExecCreate(p)
      <3>1. Become(p, [cli[p] EXCEPT !.pc = "execStart", !.made = nextId])
        BY <2>3, Endings DEF ExecCreate, Refused, Errs
      <3>2. cli'[p] = [cli[p] EXCEPT !.pc = "execStart", !.made = nextId]
        BY <3>1 DEF Become, IInv, CliOK
      <3>3. cli[p] \in ProcessOver(SafeIds)
        BY DEF IInv, CliOK
      <3>4. QED
        BY <2>1, <3>2, <3>3 DEF ProcessOver
    <2>4. QED
      BY <1>1, <2>2, <2>3
  <1>2. CASE ~ExecCreate(p) /\ ~ExecRemove(p)
    <2>1. Advance(p)
      BY <1>2, DataActions, EnsureDataActions, RunActions, ExecActions, StopActions, RemoveActions,
         RebuildActions, PullActions, RenameLooks, RenameActs, RenameCreates DEF Step
    <2>2. PICK r : Keeps(p, r) /\ cli' = [cli EXCEPT ![p] = r]
      BY <2>1 DEF Advance, Become
    <2>3. cli'[p] = r
      BY <2>2 DEF IInv, CliOK
    <2>4. QED
      BY <2>2, <2>3 DEF Keeps, Idle
  <1>3. QED
    BY <1>1, <1>2

\* A service that manages data has a data container of its own.
LEMMA AutoFacts ==
  ASSUME AutoOfDefinition, FitInv, NEW n \in AutoNames
  PROVE  /\ n \in ContainerName /\ n \in PlainName /\ n.type # TypeData
         /\ ToDataContainer(n) \in ContainerName /\ ToDataContainer(n).type = TypeData
         /\ ToDataContainer(n) # n
         /\ \A p \in Procs : cli[p].pc # "idle" /\ Name(p) = n =>
              DataSource(p) = ToDataContainer(n)
  <1>1. PICK i \in Invocations : i.kind = "run" /\ "auto" \in i.flags /\ n = i.name
    BY DEF AutoNames
  <1>2. n \in PlainName /\ n.type # TypeData
    BY <1>1, PerformAssumption DEF PerformAssumption, Invocation
  <1>3. n \in ContainerName /\ ToDataContainer(n) \in ContainerName
    BY <1>2, NameFacts DEF PlainName
  <1>4. ToDataContainer(n).type = TypeData
    BY DEF ToDataContainer
  <1>5. ASSUME NEW p \in Procs, cli[p].pc # "idle", Name(p) = n
        PROVE  DataSource(p) = ToDataContainer(n)
    <2>1. cli[p].inv \in Invocations /\ cli[p].inv.name = n
      BY <1>5, FitNames DEF FitInv
    <2>2. "auto" \in cli[p].inv.flags
      BY <1>1, <2>1 DEF AutoOfDefinition
    <2>3. cli[p].data = ToDataContainer(n)
      BY <1>5, <2>1, <2>2 DEF FitInv, Fits
    <2>4. QED
      BY <2>2, <2>3 DEF DataSource, Has
  <1>6. QED
    BY <1>2, <1>3, <1>4, <1>5

\* It is made by a start or an update of its own.
LEMMA MadeFromDefinition ==
  ASSUME AutoOfDefinition, NoRenames, FitInv, NEW n \in AutoNames,
         NEW p \in Procs, NEW from, Makes(p, n, from)
  PROVE  /\ cli[p].pc # "idle" /\ Name(p) = n
         /\ cli[p].pc = "rebuildCreate" \/ from = ToDataContainer(n)
  <1>1. IInv /\ cli[p].pc # "idle"
    BY DEF FitInv, Makes
  <1>2. n # NoName /\ n.type # TypeData /\ ~IsTemp(n)
    BY AutoFacts, NameFacts DEF PlainName
  <1>3. n # cli[p].data
    <2>1. cli[p].data = ToDataContainer(cli[p].inv.name) \/ cli[p].data = NoName
      BY <1>1 DEF FitInv, Fits
    <2>2. cli[p].inv.name \in ContainerName
      BY <1>1, FitNames
    <2>3. ToDataContainer(cli[p].inv.name).type = TypeData
      BY <2>2 DEF ToDataContainer, ContainerName
    <2>4. QED
      BY <1>2, <2>1, <2>3
  <1>4. cli[p].pc # "renameCreate"
    <2>1. cli[p].inv \in Invocations /\ KindAt(cli[p].inv.kind, cli[p].pc)
      BY <1>1, FitNames DEF FitInv, Fits
    <2>2. QED
      BY <2>1 DEF KindAt, RenameLabels, NoRenames
  <1>5. ~(cli[p].pc = "execCreate" /\ n = Temp(p))
    BY <1>1, <1>2, TempIsTemp DEF ExecLabels
  <1>6. Name(p) = n /\ (cli[p].pc = "rebuildCreate" \/ from = DataSource(p))
    BY <1>3, <1>4, <1>5 DEF Makes
  <1>7. QED
    BY <1>1, <1>6, AutoFacts

\* The name that a step takes for the first time.
LEMMA NewlyMade ==
  ASSUME FitInv, NEW p \in Procs, Step(p), NEW n \in ContainerName, ~Exists(n), Exists(n)'
  PROVE  \E from \in ContainerName \cup {NoName} :
           CanCreate(n, from) /\ Create(n, from) /\ Makes(p, n, from)
  <1>1. Effect(p) /\ IInv
    BY StepEffect DEF FitInv
  <1>2. ~UNCHANGED daemon
    BY DEF daemon, Exists
  <1>3. ~Starts(p) /\ ~Halts(p)
    BY <1>1, SetRunningFacts DEF Starts, Halts, Exists
  <1>4. ~Removes(p)
    BY <1>1, RemoveFacts DEF Removes, Exists, NoContainer
  <1>5. PICK m \in ContainerName \cup {NoName} :
          \E from \in ContainerName \cup {NoName} :
            CanCreate(m, from) /\ Create(m, from) /\ Makes(p, m, from)
    BY <1>1, <1>2, <1>3, <1>4 DEF Effect, Creates
  <1>6. m = n
    BY <1>1, <1>5, CreateFacts DEF Exists
  <1>7. QED
    BY <1>5, <1>6

LEMMA StepAttach ==
  ASSUME ExactNames, DataLeftAlone, NoRenames, AutoOfDefinition,
         FitInv, AttachInv, NEW p \in Procs, Step(p)
  PROVE  AttachInv'
  <1>1. ASSUME NEW n \in AutoNames, Exists(ToDataContainer(n))
        PROVE  Exists(ToDataContainer(n))'
    <2>1. ToDataContainer(n) \in Existing /\ ToDataContainer(n).type = TypeData
      BY <1>1, AutoFacts DEF Existing
    <2>2. QED
      BY <2>1, DataStays
  <1>2. ASSUME NEW n \in AutoNames, Exists(n)'
        PROVE  Exists(ToDataContainer(n))
    <2>1. CASE Exists(n)
      BY <2>1 DEF AttachInv
    <2>2. CASE ~Exists(n)
      <3>1. n \in ContainerName
        BY AutoFacts
      <3>2. PICK from \in ContainerName \cup {NoName} :
              CanCreate(n, from) /\ Create(n, from) /\ Makes(p, n, from)
        BY <1>2, <2>2, <3>1, NewlyMade
      <3>3. /\ cli[p].pc # "idle" /\ Name(p) = n
            /\ cli[p].pc = "rebuildCreate" \/ from = ToDataContainer(n)
        BY <3>2, MadeFromDefinition
      <3>4. CASE cli[p].pc = "rebuildCreate"
        BY <3>3, <3>4 DEF AttachInv, Replacing, ReplaceLabels, UpdateLabels
      <3>5. CASE from = ToDataContainer(n)
        BY <3>2, <3>5, AutoFacts, NameFacts DEF CanCreate, Existing
      <3>6. QED
        BY <3>3, <3>4, <3>5
    <2>3. QED
      BY <2>1, <2>2
  <1>3. ASSUME NEW q \in Procs, Replacing(q)', cli'[q].inv.name \in AutoNames
        PROVE  Exists(ToDataContainer(cli'[q].inv.name))
    <2>1. CASE q # p
      <3>1. cli'[q] = cli[q]
        BY <2>1, OthersStay DEF FitInv
      <3>2. QED
        BY <1>3, <3>1 DEF AttachInv, Replacing, Name
    <2>2. CASE q = p /\ Replacing(p)
      <3>1. cli'[p].inv = cli[p].inv
        BY <1>3, <2>2, NamesStay DEF Replacing, FitInv
      <3>2. QED
        BY <1>3, <2>2, <3>1 DEF AttachInv, Name
    <2>3. CASE q = p /\ ~Replacing(p)
      <3>1. Exists(cli[p].inv.name) /\ cli'[p].inv = cli[p].inv
        BY <1>3, <2>3, ReplacingBegins DEF Name
      <3>2. QED
        BY <1>3, <2>3, <3>1 DEF AttachInv
    <2>4. QED
      BY <2>1, <2>2, <2>3
  <1>4. \A n \in AutoNames : Exists(n)' => Exists(ToDataContainer(n))'
    BY <1>1, <1>2
  <1>5. \A q \in Procs : Replacing(q)' /\ cli'[q].inv.name \in AutoNames =>
          Exists(ToDataContainer(cli'[q].inv.name)) /\ cont'[ToDataContainer(cli'[q].inv.name)].id # 0
    BY <1>1, <1>3 DEF Exists
  <1>6. QED
    BY <1>4, <1>5 DEF AttachInv, Name, Exists


\* Commands begin without having found anything, and nothing else makes or
\* removes a container.
LEMMA AttachInvariance ==
  ASSUME ExactNames, DataLeftAlone, NoRenames, AutoOfDefinition
  PROVE  Spec => [](FitInv /\ AttachInv)
  <1>1. Init => AttachInv
    <2>1. \A n \in AutoNames : n \in ContainerName
      BY InvocationFacts DEF AutoNames
    <2>2. QED
      BY <2>1 DEF Init, AttachInv, Exists, NoContainer, Replacing, Idle
  <1>2. FitInv /\ AttachInv /\ [Next]_vars => AttachInv'
    <2> SUFFICES ASSUME FitInv, AttachInv, [Next]_vars  PROVE AttachInv'
      OBVIOUS
    <2>1. ASSUME NEW p \in Procs, Begin(p)  PROVE AttachInv'
      <3>1. PICK i \in Invocations : \E d \in DataNames(i) :
               /\ \A q \in Procs : q # p => cli'[q] = cli[q]
               /\ cli'[p].pc = Entry(i) /\ cli'[p].inv = i /\ cli'[p].data = d
               /\ cli'[p].id = 0 /\ cli'[p].stk = <<>>
               /\ UNCHANGED <<cont, volumes, nextId>>
        BY <2>1, BeginFacts DEF FitInv
      <3>2. Entry(i) \notin ReplaceLabels
        <4>1. i.kind \in Kinds
          BY InvocationFacts
        <4>2. QED
          BY <4>1 DEF Kinds, Entry, ReplaceLabels, UpdateLabels
      <3>3. cont' = cont /\ ~Replacing(p)' /\ \A q \in Procs : q # p => cli'[q] = cli[q]
        BY <3>1, <3>2 DEF Replacing
      <3>4. QED
        BY <3>3 DEF AttachInv, Exists, Replacing, Name
    <2>2. ASSUME NEW p \in Procs, Kill(p)  PROVE AttachInv'
      <3>1. cont' = cont /\ cli'[p] = Idle("killed") /\ \A q \in Procs : q # p => cli'[q] = cli[q]
        BY <2>2 DEF Kill, Become, daemon, FitInv, IInv, CliOK
      <3>2. QED
        BY <3>1 DEF AttachInv, Exists, Replacing, Name, Idle
    <2>3. ASSUME NEW n \in ContainerName, Exit(n)  PROVE AttachInv'
      <3>1. cli' = cli /\ \A m \in ContainerName : cont'[m].id = cont[m].id
        BY <2>3, SetRunningFacts DEF Exit, FitInv
      <3>2. \A m \in AutoNames : m \in ContainerName /\ ToDataContainer(m) \in ContainerName
        BY AutoFacts
      <3>3. QED
        BY <3>1, <3>2 DEF AttachInv, Exists, Replacing, Name
    <2>4. CASE UNCHANGED vars
      BY <2>4 DEF vars, AttachInv, Exists, Replacing, Name
    <2>5. QED
      BY <2>1, <2>2, <2>3, <2>4, StepAttach DEF Next
  <1>3. QED
    BY <1>1, <1>2, DataLeftNamed, FitInvariance, PTL DEF Spec

\* What a step does to the volume of a container that exists.
LEMMA VolumesStay ==
  ASSUME FitInv, NEW p \in Procs, Step(p), NEW n \in ContainerName, Exists(n), Exists(n)'
  PROVE  cont'[n].vol = cont[n].vol
  <1>1. Effect(p) /\ IInv
    BY StepEffect DEF FitInv
  <1>2. CASE UNCHANGED daemon
    BY <1>2 DEF daemon
  <1>3. CASE Starts(p) \/ Halts(p)
    BY <1>1, <1>3, SetRunningFacts DEF Starts, Halts
  <1>4. CASE Removes(p)
    BY <1>1, <1>4, RemoveFacts DEF Removes
  <1>5. CASE Creates(p)
    <2>1. PICK m \in ContainerName \cup {NoName} :
            \E from \in ContainerName \cup {NoName} : CanCreate(m, from) /\ Create(m, from)
      BY <1>5 DEF Creates
    <2>2. m # n
      BY <2>1 DEF CanCreate
    <2>3. QED
      BY <1>1, <2>1, <2>2, CreateFacts
  <1>6. QED
    BY <1>1, <1>2, <1>3, <1>4, <1>5 DEF Effect

\* A container that is made from the definition is on the volume of the data
\* container, and the data container of one that exists is not made again.
LEMMA StepAttached ==
  ASSUME ExactNames, DataLeftAlone, NoRenames, AutoOfDefinition,
         FitInv, AttachInv, DataAttached, NEW p \in Procs, Step(p), ~At(p, "rebuildCreate")
  PROVE  DataAttached'
  <1>1. SUFFICES ASSUME NEW n \in AutoNames, Exists(n)', Exists(ToDataContainer(n))'
                 PROVE  cont'[n].vol = cont'[ToDataContainer(n)].vol
    BY DEF DataAttached, Exists
  <1> DEFINE d == ToDataContainer(n)
  <1>2. n \in ContainerName /\ d \in ContainerName /\ d # n
    BY AutoFacts
  <1>3. CASE Exists(n)
    <2>1. Exists(d)
      BY <1>3 DEF AttachInv
    <2>2. cont'[n].vol = cont[n].vol /\ cont'[d].vol = cont[d].vol
      BY <1>1, <1>2, <1>3, <2>1, VolumesStay
    <2>3. QED
      BY <1>3, <2>1, <2>2 DEF DataAttached
  <1>4. CASE ~Exists(n)
    <2>1. PICK from \in ContainerName \cup {NoName} :
            CanCreate(n, from) /\ Create(n, from) /\ Makes(p, n, from)
      BY <1>1, <1>2, <1>4, NewlyMade
    <2>2. from = d
      BY <2>1, MadeFromDefinition DEF At
    <2>3. from \in Existing
      BY <1>2, <2>1, <2>2, NameFacts DEF CanCreate
    <2>4. cont'[n].vol = cont[d].vol /\ cont'[d] = cont[d]
      BY <1>2, <2>1, <2>2, <2>3, CreateFacts DEF FitInv
    <2>5. QED
      BY <2>4
  <1>5. QED
    BY <1>3, <1>4

\* An update that has come to make the container again goes on from there.
LEMMA MadeAgain ==
  ASSUME IInv, NEW p \in Procs, Step(p), At(p, "rebuildCreate")
  PROVE  cli'[p] # cli[p]
  <1>1. RebuildCreate(p)
    BY DEF Step, CreateData, CreateDataCall, Run, RunData, RunDataCreate, RunExists, RunCreate,
       RunStart, RunRemove, ExecData, ExecDataCreate, ExecCreate, ExecStart, ExecWait, ExecRemove,
       Stop, StopCall, RemoveService, RemoveCall, RemoveData, RemoveDataCall,
       Rebuild, RebuildRunning, RebuildRemove, RebuildCreate, RebuildStart,
       Pull, PullRunning, PullRemove, PullImage, Rename, RenameTo, RenameRunning, RenameStop,
       RenameRemove, RenameVolumes, RenameCreate, RenameStart, EnsureData, EnsureDataCall, At
  <1>2. CASE Fail(p) \/ Goto(p, "rebuildStart")
    <2>1. Errs(p) \/ Continues(p, "rebuildStart")
      BY <1>2, Endings, Lines
    <2>2. QED
      BY <2>1 DEF At, Errs, Continues
  <1>3. CASE Return(p)
    <2>1. cli'[p] = Returned(p) /\ cli[p] \in ProcessOver(SafeIds)
      BY <1>3 DEF Return, Become, IInv, CliOK
    <2>2. CASE cli[p].stk = <<>>
      BY <1>3, <2>2, Endings DEF At
    <2>3. CASE cli[p].stk # <<>>
      <3>1. cli'[p].stk = Tail(cli[p].stk)
        BY <2>1, <2>3 DEF Returned, ProcessOver
      <3>2. cli[p].stk \in Seq(FrameOver(SafeIds))
        BY <2>1 DEF ProcessOver
      <3>3. Tail(cli[p].stk) # cli[p].stk
        <4>1. Len(Tail(cli[p].stk)) = Len(cli[p].stk) - 1
          BY <2>3, <3>2, HeadTailProperties
        <4>2. Len(cli[p].stk) \in Nat
          BY <3>2, LenProperties
        <4>3. \A k \in Nat : k - 1 # k
          OBVIOUS
        <4>4. Len(cli[p].stk) - 1 # Len(cli[p].stk)
          BY <4>2, <4>3
        <4>5. Len(Tail(cli[p].stk)) # Len(cli[p].stk)
          BY <4>1, <4>4
        <4>6. QED
          BY <4>5, Zenon
      <3>4. QED
        BY <3>1, <3>3
    <2>4. QED
      BY <2>2, <2>3
  <1>4. QED
    BY <1>1, <1>2, <1>3 DEF RebuildCreate, Refused

\* A service that manages data works on the volume of its data container, and
\* goes on doing so through the starts, stops, execs and removals of any number
\* of processes, failed calls and kills, until an update makes it again.
THEOREM DataStaysAttached ==
  ASSUME ExactNames, DataLeftAlone, NoRenames, AutoOfDefinition
  PROVE  Spec => StaysAttached
  <1> DEFINE Attached ==
        DataAttached => DataAttached' \/ \E p \in Procs : At(p, "rebuildCreate") /\ cli'[p] # cli[p]
  <1>1. FitInv /\ AttachInv /\ [Next]_vars => [Attached]_vars
    <2> SUFFICES ASSUME FitInv, AttachInv, Next, DataAttached  PROVE Attached
      OBVIOUS
    <2>1. ASSUME NEW p \in Procs, Step(p)  PROVE Attached
      <3>1. CASE At(p, "rebuildCreate")
        BY <2>1, <3>1, MadeAgain DEF FitInv
      <3>2. CASE ~At(p, "rebuildCreate")
        BY <2>1, <3>2, StepAttached
      <3>3. QED
        BY <3>1, <3>2
    <2>2. ASSUME NEW p \in Procs, Begin(p) \/ Kill(p)  PROVE Attached
      BY <2>2 DEF Begin, Kill, daemon, DataAttached, Exists
    <2>3. ASSUME NEW n \in ContainerName, Exit(n)  PROVE Attached
      <3>1. \A m \in ContainerName : cont'[m].id = cont[m].id /\ cont'[m].vol = cont[m].vol
        BY <2>3, SetRunningFacts DEF Exit, FitInv
      <3>2. \A m \in AutoNames : m \in ContainerName /\ ToDataContainer(m) \in ContainerName
        BY AutoFacts
      <3>3. QED
        BY <3>1, <3>2 DEF DataAttached, Exists
    <2>4. QED
      BY <2>1, <2>2, <2>3 DEF Next
  <1>2. QED
    BY <1>1, AttachInvariance, PTL DEF Spec, StaysAttached



-----------------------------------------------------------------------------
\* Starting works.

LEMMA RunLines ==
  ASSUME FitInv, NEW p \in Procs, Step(p), cli[p].inv.kind = "run"
  PROVE  /\ cli[p].pc \in RunLabels /\ cli[p].stk = <<>>
         /\ \/ Run(p) \/ RunData(p) \/ RunDataCreate(p) \/ RunExists(p) \/ RunCreate(p)
            \/ RunStart(p) \/ RunRemove(p)
  <1>1. cli[p].pc # "idle" => cli[p].stk = <<>> /\ KindAt("run", cli[p].pc)
    BY DEF FitInv, Fits
  <1>2. cli[p].pc \notin StopLabels \cup RemoveLabels \cup CreateLabels \cup RenameLabels \cup UpdateLabels
    BY <1>1 DEF KindAt, StopLabels, RemoveLabels, CreateLabels, RenameLabels, UpdateLabels
  <1>3. cli[p].pc \notin ExecLabels
    BY DEF FitInv, IInv, CliOK
  <1>4. ~CreateData(p) /\ ~CreateDataCall(p) /\ ~Stop(p) /\ ~StopCall(p)
    BY <1>2 DEF CreateData, CreateDataCall, Stop, StopCall, At, CreateLabels, StopLabels
  <1>5. ~RemoveService(p) /\ ~RemoveCall(p) /\ ~RemoveData(p) /\ ~RemoveDataCall(p)
    BY <1>2 DEF RemoveService, RemoveCall, RemoveData, RemoveDataCall, At, RemoveLabels
  <1>6. /\ ~ExecData(p) /\ ~ExecDataCreate(p) /\ ~ExecCreate(p) /\ ~ExecStart(p) /\ ~ExecWait(p)
        /\ ~ExecRemove(p)
    BY <1>3 DEF ExecData, ExecDataCreate, ExecCreate, ExecStart, ExecWait, ExecRemove, EnsureData,
       EnsureDataCall, At, ExecLabels
  <1>7. /\ ~Rebuild(p) /\ ~RebuildRunning(p) /\ ~RebuildRemove(p) /\ ~RebuildCreate(p) /\ ~RebuildStart(p)
        /\ ~Pull(p) /\ ~PullRunning(p) /\ ~PullRemove(p) /\ ~PullImage(p)
    BY <1>2 DEF Rebuild, RebuildRunning, RebuildRemove, RebuildCreate, RebuildStart, Pull, PullRunning,
       PullRemove, PullImage, At, UpdateLabels
  <1>8. /\ ~Rename(p) /\ ~RenameTo(p) /\ ~RenameRunning(p) /\ ~RenameStop(p) /\ ~RenameRemove(p)
        /\ ~RenameVolumes(p) /\ ~RenameCreate(p) /\ ~RenameStart(p)
    BY <1>2 DEF Rename, RenameTo, RenameRunning, RenameStop, RenameRemove, RenameVolumes, RenameCreate,
       RenameStart, At, RenameLabels
  <1>9. \/ Run(p) \/ RunData(p) \/ RunDataCreate(p) \/ RunExists(p) \/ RunCreate(p)
        \/ RunStart(p) \/ RunRemove(p)
    BY <1>4, <1>5, <1>6, <1>7, <1>8 DEF Step
  <1>10. cli[p].pc \in RunLabels
    BY <1>9 DEF Run, RunData, RunDataCreate, RunExists, RunCreate, RunStart, RunRemove, EnsureData,
       EnsureDataCall, At, RunLabels
  <1>11. QED
    BY <1>1, <1>9, <1>10 DEF RunLabels

LEMMA RunNames ==
  ASSUME FitInv, NEW p \in Procs, cli[p].pc # "idle", cli[p].inv.kind = "run"
  PROVE  /\ Name(p) \in PlainName /\ Name(p) \in ContainerName
         /\ Has(p, "auto") => /\ cli[p].data \in PlainName /\ cli[p].data \in ContainerName
                              /\ cli[p].data # Name(p) /\ cli[p].data # NoName
  <1>1. Name(p) \in PlainName /\ Name(p) \in ContainerName /\ cli[p].inv \in Invocations
        /\ ToDataContainer(Name(p)) \in PlainName /\ ToDataContainer(Name(p)) \in ContainerName
        /\ Name(p) = cli[p].inv.name
    BY FitNames DEF FitInv
  <1>2. Name(p).type # TypeData
    BY <1>1, PerformAssumption DEF PerformAssumption
  <1>3. ToDataContainer(Name(p)).type = TypeData
    BY <1>1 DEF ToDataContainer, ContainerName
  <1>4. Has(p, "auto") => cli[p].data = ToDataContainer(Name(p))
    BY <1>1 DEF FitInv, Fits, Has
  <1>5. QED
    BY <1>1, <1>2, <1>3, <1>4, NameFacts

\* A line on the way to the start leaves the next one what it needs, and none
\* of them fails.
LEMMA StepStart ==
  ASSUME ~Faults, ExactNames, NoSelfRemovals, FitInv, StartInv,
         NEW p \in Procs, Step(p), cli[p].inv.kind = "run"
  PROVE  /\ ~Ends(p, "err")
         /\ cli'[p].pc \in {"runData", "runDataCreate"} => Has(p, "auto")
         /\ cli'[p].pc = "runDataCreate" => ~(cont'[cli[p].data].id # 0)
         /\ cli'[p].pc \in {"runExists", "runCreate"} /\ Has(p, "auto") => cont'[cli[p].data].id # 0
         /\ cli'[p].pc = "runCreate" => ~(cont'[Name(p)].id # 0)
         /\ cli'[p].pc \in {"runData", "runDataCreate", "runExists", "runCreate", "runStart"} =>
              ~cont'[Name(p)].running
         /\ cli'[p].pc = "runStart" => cont'[Name(p)].id # 0
  <1> DEFINE n == Name(p)
             d == cli[p].data
             After(l) ==
               /\ l \in {"runData", "runDataCreate"} => Has(p, "auto")
               /\ l = "runDataCreate" => ~(cont'[d].id # 0)
               /\ l \in {"runExists", "runCreate"} /\ Has(p, "auto") => cont'[d].id # 0
               /\ l = "runCreate" => ~(cont'[n].id # 0)
               /\ l \in {"runData", "runDataCreate", "runExists", "runCreate", "runStart"} =>
                    ~cont'[n].running
               /\ l = "runStart" => cont'[n].id # 0
  <1>1. IInv /\ cli[p].pc \in RunLabels /\ cli[p].pc # "idle" /\ cli[p].stk = <<>>
    BY RunLines DEF FitInv, RunLabels
  <1>2. /\ n \in PlainName /\ n \in ContainerName
        /\ Has(p, "auto") => d \in PlainName /\ d \in ContainerName /\ d # n /\ d # NoName
    BY <1>1, RunNames
  <1>3. Return(p) => ~Ends(p, "err") /\ After(cli'[p].pc)
    <2>1. Return(p) => cli'[p] = Idle("ok")
      BY <1>1, Endings
    <2>2. QED
      BY <2>1 DEF Idle, Ends
  <1>4. ASSUME NEW l \in RunLabels, Goto(p, l)
        PROVE  cli'[p].pc = l /\ ~Ends(p, "err")
    BY <1>1, <1>4, Lines DEF Continues, Ends, RunLabels
  <1>5. ~Exists(n) => ~cont[n].running
    BY <1>2 DEF FitInv, Tidy, NoContainer
  <1> SUFFICES ~Ends(p, "err") /\ After(cli'[p].pc)
    OBVIOUS
  <1>6. CASE Run(p)
    <2>1. PICK id \in Lookup(n, FALSE) :
            IF id # 0 THEN Return(p) ELSE Goto(p, IF Has(p, "auto") THEN "runData" ELSE "runExists")
      BY <1>6 DEF Run
    <2>2. cont' = cont
      BY <1>6 DEF Run, daemon
    <2>3. id = 0 => ~cont[n].running
      BY <1>1, <1>2, <1>5, <2>1, LookupExact
    <2>4. CASE id = 0 /\ Has(p, "auto")
      BY <1>4, <2>1, <2>2, <2>3, <2>4 DEF RunLabels
    <2>5. CASE id = 0 /\ ~Has(p, "auto")
      BY <1>4, <2>1, <2>2, <2>3, <2>5 DEF RunLabels
    <2>6. QED
      BY <1>3, <2>1, <2>4, <2>5
  <1>7. CASE RunData(p)
    <2>1. cli[p].pc = "runData"
      BY <1>7 DEF RunData, EnsureData, At
    <2>2. Has(p, "auto") /\ ~cont[n].running
      BY <2>1 DEF StartInv
    <2>3. PICK id \in Lookup(d, TRUE) : Goto(p, IF id # 0 THEN "runExists" ELSE "runDataCreate")
      BY <1>7 DEF RunData, EnsureData
    <2>4. cont' = cont
      BY <1>7 DEF RunData, EnsureData, daemon
    <2>5. (id = 0 <=> ~(cont[d].id # 0))
      BY <1>1, <1>2, <2>2, <2>3, LookupExact DEF Exists
    <2>6. CASE id = 0
      BY <1>4, <2>2, <2>3, <2>4, <2>5, <2>6 DEF RunLabels
    <2>7. CASE id # 0
      BY <1>4, <2>2, <2>3, <2>4, <2>5, <2>7 DEF RunLabels
    <2>8. QED
      BY <2>6, <2>7
  <1>8. CASE RunDataCreate(p)
    <2>1. cli[p].pc = "runDataCreate"
      BY <1>8 DEF RunDataCreate, EnsureDataCall, At
    <2>2. Has(p, "auto") /\ ~cont[n].running /\ ~Exists(d)
      BY <2>1 DEF StartInv
    <2>3. CanCreate(d, NoName)
      BY <2>2, NothingLinked DEF CanCreate
    <2>4. Create(d, NoName) /\ Goto(p, "runExists")
      BY <1>8, <2>3 DEF RunDataCreate, EnsureDataCall, Refused
    <2>5. cont'[d].id # 0 /\ cont'[n] = cont[n]
      BY <1>1, <1>2, <2>2, <2>4, CreateFacts
    <2>6. cli'[p].pc = "runExists" /\ ~Ends(p, "err")
      BY <1>4, <2>4 DEF RunLabels
    <2>7. QED
      BY <2>2, <2>5, <2>6
  <1>9. CASE RunExists(p)
    <2>1. cli[p].pc = "runExists"
      BY <1>9 DEF RunExists, At
    <2>2. ~cont[n].running /\ (Has(p, "auto") => cont[d].id # 0)
      BY <2>1 DEF StartInv, Exists
    <2>3. PICK id \in Lookup(n, TRUE) : Goto(p, IF id # 0 THEN "runStart" ELSE "runCreate")
      BY <1>9 DEF RunExists
    <2>4. cont' = cont
      BY <1>9 DEF RunExists, daemon
    <2>5. (id = 0 <=> ~(cont[n].id # 0))
      BY <1>1, <1>2, <2>3, LookupExact DEF Exists
    <2>6. CASE id = 0
      BY <1>4, <2>2, <2>3, <2>4, <2>5, <2>6 DEF RunLabels
    <2>7. CASE id # 0
      BY <1>4, <2>2, <2>3, <2>4, <2>5, <2>7 DEF RunLabels
    <2>8. QED
      BY <2>6, <2>7
  <1>10. CASE RunCreate(p)
    <2>1. cli[p].pc = "runCreate"
      BY <1>10 DEF RunCreate, At
    <2>2. ~Exists(n) /\ (Has(p, "auto") => Exists(d))
      BY <2>1 DEF StartInv
    <2>3. DataSource(p) = NoName \/ DataSource(p) \in Existing
      BY <1>2, <2>2 DEF DataSource, Existing
    <2>4. CanCreate(n, DataSource(p)) /\ DataSource(p) \in ContainerName \cup {NoName}
      BY <2>2, <2>3, NothingLinked DEF CanCreate, Existing
    <2>5. Create(n, DataSource(p)) /\ Goto(p, "runStart")
      BY <1>10, <2>4 DEF RunCreate, Refused
    <2>6. cont'[n].id = nextId /\ ~cont'[n].running /\ nextId \in Nat \ {0}
      BY <1>1, <1>2, <2>4, <2>5, CreateFacts
    <2>7. cli'[p].pc = "runStart" /\ ~Ends(p, "err")
      BY <1>4, <2>5 DEF RunLabels
    <2>8. QED
      BY <2>6, <2>7
  <1>11. CASE RunStart(p)
    <2>1. cli[p].pc = "runStart"
      BY <1>11 DEF RunStart, At
    <2>2. CanStart(n)
      BY <2>1, NothingLinked DEF StartInv, CanStart
    <2>3. ~Has(p, "rm")
      BY <1>1, FitNames DEF FitInv, NoSelfRemovals, Has
    <2>4. Return(p)
      BY <1>11, <2>2, <2>3 DEF RunStart, Refused
    <2>5. QED
      BY <1>3, <2>4
  <1>12. ~RunRemove(p)
    <2>1. ~Has(p, "rm")
      BY <1>1, FitNames DEF FitInv, NoSelfRemovals, Has
    <2>2. QED
      BY <2>1 DEF FitInv, Fits, RunRemove, At, Has
  <1>13. QED
    BY <1>6, <1>7, <1>8, <1>9, <1>10, <1>11, <1>12, RunLines

\* While one process works, no other interferes; programs may end.
LEMMA StartInvariance ==
  ASSUME OneProcess, ~Faults, ExactNames, DataRemovalsNamed, NoSelfRemovals
  PROVE  Spec => [](FitInv /\ StartInv)
  <1>1. Init => StartInv
    BY DEF Init, StartInv, Idle, NoInvocation
  <1>2. FitInv /\ StartInv /\ [Next]_vars => StartInv'
    <2> SUFFICES ASSUME FitInv, StartInv, [Next]_vars  PROVE StartInv'
      OBVIOUS
    <2>1. ASSUME NEW p \in Procs, Step(p)  PROVE StartInv'
      <3>1. SUFFICES ASSUME cli'[p].inv.kind = "run"
                     PROVE  /\ cli'[p].pc \in {"runData", "runDataCreate"} => Has(p, "auto")'
                            /\ cli'[p].pc = "runDataCreate" => ~(cont'[cli'[p].data].id # 0)
                            /\ cli'[p].pc \in {"runExists", "runCreate"} /\ Has(p, "auto")'
                                 => cont'[cli'[p].data].id # 0
                            /\ cli'[p].pc = "runCreate" => ~(cont'[cli'[p].inv.name].id # 0)
                            /\ cli'[p].pc \in {"runData", "runDataCreate", "runExists", "runCreate",
                                               "runStart"} => ~cont'[cli'[p].inv.name].running
                            /\ cli'[p].pc = "runStart" => cont'[cli'[p].inv.name].id # 0
        BY DEF OneProcess, StartInv, Exists, Name
      <3>2. CASE cli'[p].pc = "idle"
        BY <3>2
      <3>3. CASE cli'[p].pc # "idle"
        <4>1. cli'[p].inv = cli[p].inv /\ cli'[p].data = cli[p].data
          BY <2>1, <3>3, NamesStay DEF FitInv
        <4>2. cli[p].inv.kind = "run"
          BY <3>1, <4>1
        <4>3. QED
          BY <2>1, <4>1, <4>2, StepStart DEF Has, Name
      <3>4. QED
        BY <3>2, <3>3
    <2>2. ASSUME NEW p \in Procs, Begin(p)  PROVE StartInv'
      <3>1. PICK i \in Invocations : cli'[p].pc = Entry(i) /\ cli'[p].inv = i
        BY <2>2, BeginFacts DEF FitInv
      <3>2. cli'[p].inv.kind = "run" => cli'[p].pc = "run"
        BY <3>1 DEF Entry
      <3>3. QED
        BY <3>2 DEF StartInv, OneProcess
    <2>3. ASSUME NEW p \in Procs, Kill(p)  PROVE StartInv'
      <3>1. cli'[p].pc = "idle"
        BY <2>3 DEF Kill, Become, FitInv, IInv, CliOK, Idle
      <3>2. QED
        BY <3>1 DEF StartInv, OneProcess
    <2>4. ASSUME NEW n \in ContainerName, Exit(n)  PROVE StartInv'
      <3>1. /\ cli' = cli
            /\ \A m \in ContainerName : cont'[m].id = cont[m].id /\ (cont'[m].running => cont[m].running)
        BY <2>4, SetRunningFacts DEF Exit, FitInv
      <3>2. \A p \in Procs : cli[p].inv.kind = "run" /\ cli[p].pc # "idle" =>
              Name(p) \in ContainerName /\ (Has(p, "auto") => cli[p].data \in ContainerName)
        BY RunNames
      <3>3. QED
        BY <3>1, <3>2 DEF StartInv, Exists, Name, Has
    <2>5. CASE UNCHANGED vars
      BY <2>5 DEF vars, StartInv, Exists, Name, Has
    <2>6. QED
      BY <2>1, <2>2, <2>3, <2>4, <2>5 DEF Next
  <1>3. QED
    BY <1>1, <1>2, FitInvariance, PTL DEF Spec

\* Whatever a killed command left behind - data without its service, a service
\* that was removed and not made again, a container that was never started - the
\* next start succeeds, if no other process works at the same time and no call
\* fails.
THEOREM StartAfterKills ==
  ASSUME OneProcess, ~Faults, ExactNames, DataRemovalsNamed, NoSelfRemovals
  PROVE  Spec => StartRecovers
  <1> DEFINE Recovers == \A p \in Procs : cli[p].inv.kind = "run" => ~Ends(p, "err")
  <1>1. FitInv /\ StartInv /\ [Next]_vars => [Recovers]_vars
    <2> SUFFICES ASSUME FitInv, StartInv, Next, NEW p \in Procs, cli[p].inv.kind = "run"
                 PROVE  ~Ends(p, "err")
      OBVIOUS
    <2>1. ASSUME NEW q \in Procs, Begin(q) \/ Step(q) \/ Kill(q)  PROVE ~Ends(p, "err")
      <3>1. p = q
        BY DEF OneProcess
      <3>2. CASE Kill(p)
        BY <3>2 DEF Kill, Become, FitInv, IInv, CliOK, Idle, Ends
      <3>3. QED
        BY <2>1, <3>1, <3>2, StepStart DEF Begin, Ends
    <2>2. ASSUME NEW n \in ContainerName, Exit(n)  PROVE ~Ends(p, "err")
      BY <2>2 DEF Exit, Ends, At
    <2>3. QED
      BY <2>1, <2>2 DEF Next
  <1>2. QED
    BY <1>1, StartInvariance, PTL DEF Spec, StartRecovers

=============================================================================
