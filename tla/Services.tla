------------------------------ MODULE Services ------------------------------
(***************************************************************************)
(* The commands of package services.  A definition file names the services *)
(* a service depends on and the chain it works with; BuildServicesGroup    *)
(* follows the dependencies, loading one definition after the other, and   *)
(* the group it returns is started, or stopped and removed, in its order.  *)
(* Groups are started for actions and contract packages as well            *)
(* (Packages.tla, which has the specification).                            *)
(*                                                                         *)
(* One action loads a definition, changes a file or is one operation of    *)
(* package perform (Operations.tla), with the decision taken on its result.*)
(***************************************************************************)
EXTENDS Operations, Sequences

CONSTANTS
  ServiceNames,  \* names of services
  ChainNames,    \* names of chains
  Keys,          \* the service all chains depend on
  InitDefs,      \* the definition files in the beginning
  Drafts,        \* the definitions a user may write into a file or import
  Procs,         \* eris processes
  Commands,      \* the commands each process may run
  MaxCommands,   \* bound: commands begun in a behaviour
  MaxDepth       \* calls of BuildServicesGroup that fit on Go's stack

Blank     == ""
HeadChain == "$chain"

Kinds == {"start", "stop", "exec", "new", "edit", "import", "rename", "rm", "update",
          "checkout", "package", "action"}

\* --rm, --data and --file; --rm and --rm-data of contracts are "rm" and "data"
\* too.  "notask": the package has no task of the kind asked for.
Flags == {"rm", "data", "file", "notask"}

Command == [kind : Kinds, args : Seq(ServiceNames), to : ServiceNames \cup {Blank},
            chain : ChainNames \cup {Blank}, flags : SUBSET Flags]

\* A definition file: bad if it cannot be read; the services the definition
\* depends on, those of them it links to, its chain, and whether it has a data
\* container.
Definition == [file : {"none", "bad", "good"}, deps : Seq(ServiceNames),
               linked : SUBSET ServiceNames, chain : ChainNames \cup {Blank, HeadChain},
               data : BOOLEAN]

NoFile  == [file |-> "none", deps |-> <<>>, linked |-> {}, chain |-> Blank, data |-> FALSE]
BadFile == [NoFile EXCEPT !.file = "bad"]

\* What "new" writes.
NewFile == [NoFile EXCEPT !.file = "good", !.data = TRUE]

\* What the command line accepts: most commands are given a service at least.
\* An empty string for the new name, which ArgCheck counts too, is left out.
Accepted ==
  {c \in Command : /\ c.kind \notin {"package", "action", "checkout"} => c.args # <<>>
                   /\ c.kind = "rename" => c.to # Blank}

ServicesAssumption ==
  /\ ServiceNames \cup ChainNames \subseteq Shorts
  /\ ServiceNames \cap ChainNames = {}
  /\ Blank \notin Shorts /\ HeadChain \notin Shorts
  /\ Keys \in ServiceNames
  /\ Numbers = {1}
  /\ InitDefs \in [ServiceNames -> Definition]
  /\ Drafts \in [ServiceNames -> SUBSET {d \in Definition : d.file = "good"}]
  /\ \A p \in Procs : Commands[p] \subseteq Accepted
  /\ MaxCommands \in Nat
  /\ MaxDepth \in Nat

ASSUME ServicesAssumption

VARIABLES
  containers,   \* the state of each container
  defs,         \* the definition file of each service
  chains,       \* the chains with a definition file
  head,         \* the first line of the HEAD file
  cli,          \* the eris processes
  begun         \* commands begun so far

disk == <<defs, chains, head>>

Running(n) == containers[n] = "running"

Labels == {"idle", "build", "connect", "run", "kill", "killStop", "killRemove", "exec", "execRun", "new", "edit",
           "import", "rename", "renameContainer", "renameWrite", "renameData", "renameFile",
           "rm", "rmRemove", "update", "updateRebuild", "checkout"}

\* overflow: Go's stack was exhausted and the process is gone.
Results == {"none", "ok", "err", "overflow"}

\* A definition as loaded: the container it is for, whether the operation has a
\* name for its data container, and the links its container is given.
Member == [of : Named, def : Definition, named : BOOLEAN, links : SUBSET Named]

\* The services a definition depends on.
Needs(d) == {d.deps[i] : i \in DOMAIN d.deps}

\* A call of BuildServicesGroup: its service, and the dependencies still to visit.
Frame == [srv : Member, rest : Seq(ServiceNames)]

NoCommand == [kind |-> "none", args |-> <<>>, to |-> Blank, chain |-> Blank, flags |-> {}]

\* A process: where it is, its command, the arguments still to do, the calls of
\* BuildServicesGroup (the innermost first), the group so far, the member it is
\* at, the chains to start before the group, and the result.
Process(labels) ==
  [pc : labels, cmd : Command \cup {NoCommand}, todo : Seq(ServiceNames), stack : Seq(Frame),
   group : Seq(Member), idx : Nat, pending : SUBSET ChainNames, res : Results]

Idle(r) == [pc |-> "idle", cmd |-> NoCommand, todo |-> <<>>, stack |-> <<>>, group |-> <<>>,
            idx |-> 1, pending |-> {}, res |-> r]

ServicesInit ==
  /\ containers = [n \in Named |-> "none"]
  /\ defs = InitDefs
  /\ cli = [p \in Procs |-> Idle("none")]
  /\ begun = 0

-----------------------------------------------------------------------------
\* A process.

At(p, l) == cli[p].pc = l
Kind(p) == cli[p].cmd.kind
Has(p, flag) == flag \in cli[p].cmd.flags
Arg(p) == Head(cli[p].cmd.args)
Current(p) == cli[p].group[cli[p].idx]
AtLast(p) == cli[p].idx = Len(cli[p].group)

Become(p, r) == cli' = [cli EXCEPT ![p] = r] /\ UNCHANGED begun
Goto(p, l)   == Become(p, [cli[p] EXCEPT !.pc = l])
End(p, r)    == Become(p, Idle(r))

\* The next member, at label l.
Advance(p, l) == Become(p, [cli[p] EXCEPT !.pc = l, !.idx = @ + 1])

\* To label l without the group, with the command's result so far.
Leap(p, l, r) == Become(p, [Idle(r) EXCEPT !.pc = l, !.cmd = cli[p].cmd])

\* A package cleans up after an error.
Fail(p) == IF Kind(p) = "package" THEN Leap(p, "clean", "err") ELSE End(p, "err")

\* The outcome of an operation decides where the process goes.
Perform(outcomes, Good, Otherwise) ==
  /\ \E o \in outcomes : containers' = o.left /\ (IF o.ok THEN Good ELSE Otherwise)
  /\ UNCHANGED disk

\* A step that only decides.
Look(p, l, Decision) == At(p, l) /\ Decision /\ UNCHANGED <<containers, disk>>

Begin(p) ==
  /\ At(p, "idle")
  /\ begun < MaxCommands
  /\ begun' = begun + 1
  /\ \E c \in Commands[p] :
       cli' = [cli EXCEPT ![p] =
                 [Idle("none") EXCEPT !.pc = IF c.kind \in {"start", "stop", "package", "action"}
                                             THEN "build" ELSE c.kind,
                                      !.cmd = c, !.todo = c.args]]
  /\ UNCHANGED <<containers, disk>>

\* The program in a container ends by itself.
Exit(n) ==
  /\ Running(n)
  /\ containers' = [containers EXCEPT ![n] = "stopped"]
  /\ UNCHANGED <<disk, cli, begun>>

-----------------------------------------------------------------------------
\* Loading.  A definition that has a container already, and manages no data,
\* is loaded without a name for its data container.

Loaded(x) ==
  [of |-> Service(x), def |-> defs[x],
   named |-> defs[x].data \/ containers[Service(x)] = "none",
   links |-> {Service(d) : d \in defs[x].linked}]

\* LoadServiceDefinition fails without a file that can be read.
Load(p, l, x, Good, Otherwise) ==
  Look(p, l, IF defs[x].file = "good" THEN Good ELSE Otherwise)

\* Load the only member of a group of one.
LoadOne(p, l, x, next) ==
  Load(p, l, x, Become(p, [cli[p] EXCEPT !.pc = next, !.group = <<Loaded(x)>>]), End(p, "err"))

-----------------------------------------------------------------------------
\* BuildServicesGroup

\* The service to load next: a dependency of the innermost call's service, or,
\* without a call, the next argument.
Waiting(p) == IF cli[p].stack = <<>> THEN cli[p].todo ELSE Head(cli[p].stack).rest

Called(p, frame) ==
  LET s == cli[p].stack IN
  [cli[p] EXCEPT !.todo  = IF s = <<>> THEN Tail(@) ELSE @,
                 !.stack = <<frame>> \o (IF s = <<>> THEN s ELSE [s EXCEPT ![1].rest = Tail(@)])]

\* Faulty variant: the call is given the caller's dependencies.
VisitSame(p) ==
  /\ Waiting(p) # <<>>
  /\ LET x == Head(Waiting(p)) IN
     Look(p, "build",
          IF Len(cli[p].stack) >= MaxDepth THEN End(p, "overflow")
          ELSE IF defs[x].file = "good" THEN Become(p, Called(p, [srv |-> Loaded(x), rest |-> Waiting(p)]))
          ELSE Fail(p))

Visit(p) ==
  /\ Waiting(p) # <<>>
  /\ LET x == Head(Waiting(p)) IN
     Look(p, "build",
          IF Len(cli[p].stack) >= MaxDepth THEN End(p, "overflow")
          ELSE IF defs[x].file = "good" THEN Become(p, Called(p, [srv |-> Loaded(x), rest |-> defs[x].deps]))
          ELSE Fail(p))

\* Faulty variant: a service is put before those it depends on.
ReturnFirst(p) ==
  /\ cli[p].stack # <<>>
  /\ Waiting(p) = <<>>
  /\ Look(p, "build", Become(p, [cli[p] EXCEPT !.group = <<Head(cli[p].stack).srv>> \o @, !.stack = Tail(@)]))

\* A call returns its service behind those the service depends on.
Return(p) ==
  /\ cli[p].stack # <<>>
  /\ Waiting(p) = <<>>
  /\ Look(p, "build", Become(p, [cli[p] EXCEPT !.group = Append(@, Head(cli[p].stack).srv), !.stack = Tail(@)]))

\* The group is complete: a package starts it as it is, if there is any.
Built(p) ==
  /\ cli[p].stack = <<>> /\ cli[p].todo = <<>>
  /\ Look(p, "build",
          Goto(p, CASE Kind(p) = "stop" -> "kill"
                    [] Kind(p) = "package" -> IF cli[p].group = <<>> THEN "boot" ELSE "run"
                    [] Kind(p) = "action" -> IF cli[p].group = <<>> THEN "steps" ELSE "connect"
                    [] OTHER -> "connect"))

-----------------------------------------------------------------------------
\* StartService: BuildChainGroup and StartGroup

\* --chain of the command, which an action does not hand on, goes before what
\* the definition says; $chain is the chain checked out.
ChosenChain(p, wanted) ==
  IF Kind(p) = "start" /\ cli[p].cmd.chain # Blank THEN cli[p].cmd.chain
  ELSE IF wanted = HeadChain THEN head ELSE wanted

\* Faulty variant: $chain is believed to be known.
ConnectUnknown(p) ==
  LET c == ChosenChain(p, Current(p).def.chain)
      Onward(r) == Become(p, IF AtLast(p) THEN [r EXCEPT !.pc = "run", !.idx = 1] ELSE [r EXCEPT !.idx = @ + 1])
  IN
  Look(p, "connect",
       IF Current(p).def.chain = Blank THEN Onward(cli[p])
       ELSE IF c = Blank THEN End(p, "err")
       ELSE Onward([cli[p] EXCEPT !.group[cli[p].idx].links = @ \cup {Chain(c)},
                                 !.pending = @ \cup ({c} \cap chains)]))

\* ConnectChainToService, for each service with a chain.
Connect(p) ==
  LET c == ChosenChain(p, Current(p).def.chain)
      Onward(r) == Become(p, IF AtLast(p) THEN [r EXCEPT !.pc = "run", !.idx = 1] ELSE [r EXCEPT !.idx = @ + 1])
  IN
  Look(p, "connect",
       IF Current(p).def.chain = Blank THEN Onward(cli[p])
       ELSE IF c \notin chains THEN End(p, "err")
       ELSE Onward([cli[p] EXCEPT !.group[cli[p].idx].links = @ \cup {Chain(c)},
                                 !.pending = @ \cup {c}]))

\* The chains come first, in any order; the keys service they link to is not
\* started for them.
RunChain(p) ==
  /\ At(p, "run")
  /\ \E c \in cli[p].pending :
       Perform(RunService(containers, Chain(c), TRUE, {Service(Keys)}),
               Become(p, [cli[p] EXCEPT !.pending = @ \ {c}]), Fail(p))

\* Faulty variant: goes on to the next service after an error.
RunNextAnyway(p) ==
  LET m == Current(p)
      next == IF ~AtLast(p) THEN Advance(p, "run")
              ELSE CASE Kind(p) = "package" -> Leap(p, "boot", "none")
                     [] Kind(p) = "action" -> Leap(p, "steps", "none")
                     [] OTHER -> End(p, "ok")
  IN
  /\ At(p, "run") /\ cli[p].pending = {}
  /\ Perform(RunService(containers, m.of, m.def.data, m.links), next, next)

\* Then the services, in the order of the group.
RunNext(p) ==
  LET m == Current(p)
      next == IF ~AtLast(p) THEN Advance(p, "run")
              ELSE CASE Kind(p) = "package" -> Leap(p, "boot", "none")
                     [] Kind(p) = "action" -> Leap(p, "steps", "none")
                     [] OTHER -> End(p, "ok")
  IN
  /\ At(p, "run") /\ cli[p].pending = {}
  /\ Perform(RunService(containers, m.of, m.def.data, m.links), next, Fail(p))

-----------------------------------------------------------------------------
\* KillService stops, and with --rm removes, one member after the other: the
\* dependencies before the services that need them.

\* Faulty variant: the data container never has a name.
RemovedAny(m, withData) ==
  IF withData THEN RemoveWithAnyData(containers, m.of) ELSE Remove(containers, m.of, withData)

Removed(m, withData) ==
  IF withData /\ ~m.named THEN RemoveWithAnyData(containers, m.of)
  ELSE Remove(containers, m.of, withData)

KillOn(p) == IF AtLast(p) THEN End(p, "ok") ELSE Advance(p, "kill")

Stopped(p) == IF Has(p, "rm") THEN Goto(p, "killRemove") ELSE KillOn(p)

\* IsServiceRunning; the container may stop or go before DockerStop looks for it.
Kill(p) == Look(p, "kill", IF Running(Current(p).of) THEN Goto(p, "killStop") ELSE Stopped(p))

KillStop(p) ==
  /\ At(p, "killStop")
  /\ Perform(Stop(containers, Current(p).of), Stopped(p), End(p, "err"))

KillRemove(p) ==
  /\ At(p, "killRemove")
  /\ Perform(Removed(Current(p), Has(p, "data")), KillOn(p), End(p, "err"))

-----------------------------------------------------------------------------
\* ExecService links the container it makes to the service, if that runs.

Exec(p) ==
  LET m == Loaded(Arg(p)) IN
  Load(p, "exec", Arg(p),
       Become(p, [cli[p] EXCEPT !.pc = "execRun",
                    !.group = <<[m EXCEPT !.links = @ \cup (IF Running(m.of) THEN {m.of} ELSE {})]>>]),
       End(p, "err"))

ExecRun(p) ==
  LET m == Current(p) IN
  /\ At(p, "execRun")
  /\ Perform(ExecService(containers, m.of, m.def.data, m.links), End(p, "ok"), End(p, "err"))

-----------------------------------------------------------------------------
\* The definition files: NewService writes over whatever is there, EditService
\* finds no file for an unknown service, ImportService looks at the file after
\* it has fetched it.

Write(p, x, d, r) ==
  /\ defs' = [defs EXCEPT ![x] = d]
  /\ End(p, r)
  /\ UNCHANGED <<containers, chains, head>>

New(p) == At(p, "new") /\ Write(p, Arg(p), NewFile, "ok")

Edit(p) ==
  /\ At(p, "edit")
  /\ \E d \in IF defs[Arg(p)].file = "none" THEN {NoFile} ELSE Drafts[Arg(p)] : Write(p, Arg(p), d, "ok")

Import(p) ==
  /\ At(p, "import")
  /\ \/ \E d \in Drafts[Arg(p)] : Write(p, Arg(p), d, "ok")
     \/ Write(p, Arg(p), BadFile, "err")
     \/ Write(p, Arg(p), defs[Arg(p)], "err")

\* UpdateService
Update(p) == LoadOne(p, "update", Arg(p), "updateRebuild")

UpdateRebuild(p) ==
  /\ At(p, "updateRebuild")
  /\ Perform(Rebuild(containers, Current(p).of, Current(p).links), End(p, "ok"), End(p, "err"))

-----------------------------------------------------------------------------
\* RenameService: the container, the new definition, the data, the old
\* definition.  What is written is the definition as loaded: the options that
\* kept a dependency from being linked are gone.

NewName(p) == cli[p].cmd.to

RenameService(p) ==
  Load(p, "rename", Arg(p),
       IF Arg(p) = NewName(p) THEN End(p, "err")
       ELSE Become(p, [cli[p] EXCEPT !.pc = "renameContainer", !.group = <<Loaded(Arg(p))>>]),
       End(p, "err"))

\* Faulty variant: an error of DockerRename is ignored.
RenameContainerAnyway(p) ==
  /\ At(p, "renameContainer")
  /\ Perform(Rename(containers, Current(p).of, Service(NewName(p)), Current(p).links),
             Goto(p, "renameWrite"), Goto(p, "renameWrite"))

RenameContainer(p) ==
  /\ At(p, "renameContainer")
  /\ Perform(Rename(containers, Current(p).of, Service(NewName(p)), Current(p).links),
             Goto(p, "renameWrite"), End(p, "err"))

AsLoaded(d) == [d EXCEPT !.linked = Needs(d)]

RenameWrite(p) ==
  /\ At(p, "renameWrite")
  /\ defs' = [defs EXCEPT ![NewName(p)] = AsLoaded(Current(p).def)]
  /\ Goto(p, "renameData")
  /\ UNCHANGED <<containers, chains, head>>

RenameData(p) ==
  /\ At(p, "renameData")
  /\ Perform(Rename(containers, Data(Arg(p)), Data(NewName(p)), {}),
             Goto(p, "renameFile"), End(p, "err"))

RenameFile(p) == At(p, "renameFile") /\ Write(p, Arg(p), NoFile, "ok")

-----------------------------------------------------------------------------
\* RmService, for each argument.  With --file it looks for the file where it
\* never is and ends with an error.

Rm(p) == LoadOne(p, "rm", Head(cli[p].todo), "rmRemove")

RmRemove(p) ==
  LET next == Become(p, [cli[p] EXCEPT !.pc = "rm", !.todo = Tail(@), !.group = <<>>]) IN
  /\ At(p, "rmRemove")
  /\ Perform(Removed(Current(p), Has(p, "data")),
             IF Has(p, "file") THEN End(p, "err") ELSE IF Len(cli[p].todo) = 1 THEN End(p, "ok") ELSE next,
             End(p, "err"))

-----------------------------------------------------------------------------
\* CheckoutChain (Chains.tla) as far as services see it: the first line of HEAD.
Checkout(p) ==
  LET c == cli[p].cmd.chain IN
  /\ At(p, "checkout")
  /\ head' = IF c \in chains \cup {Blank} THEN c ELSE head
  /\ End(p, "ok")
  /\ UNCHANGED <<containers, defs, chains>>

-----------------------------------------------------------------------------

ServiceStep(p) ==
  \/ Visit(p) \/ Return(p) \/ Built(p) \/ Connect(p) \/ RunChain(p) \/ RunNext(p)
  \/ Kill(p) \/ KillStop(p) \/ KillRemove(p) \/ Exec(p) \/ ExecRun(p)
  \/ New(p) \/ Edit(p) \/ Import(p) \/ Update(p) \/ UpdateRebuild(p)
  \/ RenameService(p) \/ RenameContainer(p) \/ RenameWrite(p) \/ RenameData(p) \/ RenameFile(p)
  \/ Rm(p) \/ RmRemove(p) \/ Checkout(p)

=============================================================================
