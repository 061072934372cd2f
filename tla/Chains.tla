------------------------------- MODULE Chains -------------------------------
(***************************************************************************)
(* The commands of package chains: what they do to the definition files,   *)
(* the data directories on the host, the HEAD file and the containers.     *)
(*                                                                         *)
(* One action is one operation of package perform, or one change of a file,*)
(* with the decision taken on its result.  Perform.tla takes those         *)
(* operations apart; here each is one step: Operations.tla has the states  *)
(* it may leave when the daemon refuses one of its calls.                  *)
(***************************************************************************)
EXTENDS Operations, Sequences

CONSTANTS
  ChainNames,    \* names of chains
  Default,       \* the chain whose definition every eris installation has
  Keys,          \* the service that definition makes all chains depend on
  Procs,         \* eris processes
  Commands,      \* the commands each process may run
  MaxCommands,   \* bound: commands begun in a behaviour
  MaxHead        \* entries kept in the HEAD file

Kinds == {"new", "start", "exec", "stop", "rm", "rename", "update", "register",
          "import", "checkout", "genesis"}

\* --force of new; the genesis file or the options given to it are no good;
\* --rm, --data and --file.
Flags == {"force", "badfile", "badopts", "rm", "data", "file"}

\* The empty name: what "checkout" without an argument puts into HEAD.
Blank == ""

Command == [kind : Kinds, name : ChainNames \cup {Blank}, to : ChainNames, flags : SUBSET Flags]

ChainsAssumption ==
  /\ ChainNames \cup {Keys} \subseteq Shorts
  /\ Default \in ChainNames
  /\ Keys \notin ChainNames
  /\ Numbers = {1}
  /\ \A p \in Procs : Commands[p] \subseteq {c \in Command : c.kind # "checkout" => c.name \in ChainNames}
  /\ MaxCommands \in Nat
  /\ MaxHead \in Nat /\ MaxHead > 1

ASSUME ChainsAssumption

VARIABLES
  containers,   \* the state of each container
  files,        \* the chains with a definition file
  dirs,         \* the names with a directory under ~/.eris/data
  head,         \* the lines of the HEAD file
  cli,          \* the eris processes
  begun         \* commands begun so far

vars == <<containers, files, dirs, head, cli, begun>>
disk == <<files, dirs, head>>

KeysServer == Service(Keys)

Labels == {"idle", "new", "setupData", "setupCopy", "setupImport", "setupWrite", "setupOptions",
           "setupBoot", "setupRun", "setupCleanup",
           "start", "startBoot", "startRun", "exec", "execBoot", "execRun",
           "stop", "stopStop", "stopRemove", "rm", "rmRemove", "rmFile",
           "rename", "renameChain", "renameWrite", "renameData", "renameFile",
           "update", "updateRebuild", "register", "import", "checkout", "headRead", "headWrite",
           "genesis", "genesisBoot", "genesisStart", "genesisExecBoot", "genesisExec",
           "cleanStop", "cleanRemove", "cleanDirs", "cleanService"}

\* nofile: the result of a start that could not find the definition, reported
\* as success; tragic: the clean-up after a failure failed as well.
Results == {"none", "ok", "err", "nofile", "tragic"}

NoCommand == [kind |-> "none", name |-> Blank, to |-> Blank, flags |-> {}]

\* A process: where it is, its command, do.Name, the HEAD lines it read, whether
\* it will clean up once more, and the result of its last command.
Process == [pc : Labels, cmd : Command \cup {NoCommand}, name : Shorts \cup {Blank},
            lines : Seq(ChainNames \cup {Blank}), again : BOOLEAN, res : Results]

Idle(r) == [pc |-> "idle", cmd |-> NoCommand, name |-> Blank, lines |-> <<>>,
            again |-> FALSE, res |-> r]

TypeOK ==
  /\ containers \in Containers
  /\ files \subseteq ChainNames
  /\ dirs \subseteq ChainNames
  /\ head \in Seq(ChainNames \cup {Blank}) /\ head # <<>>
  /\ cli \in [Procs -> Process]
  /\ begun \in 0..MaxCommands

\* After eris init: the default definition and an empty HEAD file.
Init ==
  /\ containers = [n \in Named |-> "none"]
  /\ files = {Default}
  /\ dirs = {}
  /\ head = <<Blank>>
  /\ cli = [p \in Procs |-> Idle("none")]
  /\ begun = 0

-----------------------------------------------------------------------------
Exists(n)  == containers[n] # "none"
Running(n) == containers[n] = "running"

\* Every definition in play manages data, and its links never change.
Run(n) == RunService(containers, n, TRUE, LinkedTo(n))

\* "exec" links to the chain too.
ExecOn(n) == ExecService(containers, n, TRUE, LinkedTo(n) \cup {n})

Move(n, to) == Rename(containers, n, to, LinkedTo(n))

-----------------------------------------------------------------------------
\* A process.

At(p, l) == cli[p].pc = l
Has(p, flag) == flag \in cli[p].cmd.flags
Name(p) == cli[p].name
NewName(p) == cli[p].cmd.to

Goto(p, l) == cli' = [cli EXCEPT ![p].pc = l] /\ UNCHANGED begun
End(p, r)  == cli' = [cli EXCEPT ![p] = Idle(r)] /\ UNCHANGED begun

\* The outcome of an operation decides where the process goes.
Perform(outcomes, Good, Bad) ==
  /\ \E o \in outcomes : containers' = o.left /\ (IF o.ok THEN Good ELSE Bad)
  /\ UNCHANGED disk

\* A step that only decides.
Look(p, l, Decision) == At(p, l) /\ Decision /\ UNCHANGED <<containers, disk>>

\* Loading a definition fails without a file.
Load(p, l, next, else) ==
  Look(p, l, IF Name(p) \in files THEN Goto(p, next) ELSE End(p, else))

\* bootDependencies: the keys server is started if it does not run.  When that
\* fails do.Name has not been set back.
Boot(p, l, next, Bad) ==
  /\ At(p, l)
  /\ Perform(Run(KeysServer), Goto(p, next), Bad)

Begin(p) ==
  /\ At(p, "idle")
  /\ begun < MaxCommands
  /\ begun' = begun + 1
  /\ \E c \in Commands[p] :
       cli' = [cli EXCEPT ![p] = [Idle("none") EXCEPT !.pc = c.kind, !.cmd = c, !.name = c.name]]
  /\ UNCHANGED <<containers, disk>>

\* The program of a chain or of the keys server ends by itself.
Exit(n) ==
  /\ Running(n)
  /\ containers' = [containers EXCEPT ![n] = "stopped"]
  /\ UNCHANGED <<disk, cli, begun>>

-----------------------------------------------------------------------------
\* NewChain, InstallChain and setupChain

New(p) ==
  /\ At(p, "new")
  /\ dirs' = IF Has(p, "force") THEN dirs \ {Name(p)} ELSE dirs
  /\ Goto(p, "setupData")
  /\ UNCHANGED <<containers, files, head>>

\* data.IsKnown looks through arguments nothing has filled in: it never knows
\* the data container, and an attempt is always made to create it.
SetupData(p) ==
  /\ At(p, "setupData")
  /\ Perform(CreateData(containers, Name(p)), Goto(p, "setupCopy"), End(p, "err"))

\* From here on an error leads to the clean-up.
SetupCopy(p) ==
  /\ At(p, "setupCopy")
  /\ dirs' = dirs \cup {Name(p)}
  /\ Goto(p, IF Has(p, "badfile") THEN "setupCleanup" ELSE "setupImport")
  /\ UNCHANGED <<containers, files, head>>

SetupImport(p) ==
  /\ At(p, "setupImport")
  /\ Perform(ImportData(containers, Name(p)), Goto(p, "setupWrite"), Goto(p, "setupCleanup"))

SetupWrite(p) ==
  /\ At(p, "setupWrite")
  /\ files' = files \cup {Name(p)}
  /\ Goto(p, "setupOptions")
  /\ UNCHANGED <<containers, dirs, head>>

SetupOptions(p) ==
  Look(p, "setupOptions", Goto(p, IF Has(p, "badopts") THEN "setupCleanup" ELSE "setupBoot"))

\* Faulty variant: tries the whole set-up once more, under the name left over.
SetupBootRetrying(p) ==
  Boot(p, "setupBoot", "setupRun",
       cli' = [cli EXCEPT ![p].pc = "setupData", ![p].name = Keys] /\ UNCHANGED begun)

SetupBoot(p) ==
  Boot(p, "setupBoot", "setupRun",
       cli' = [cli EXCEPT ![p].pc = "setupCleanup", ![p].name = Keys] /\ UNCHANGED begun)

SetupRun(p) ==
  /\ At(p, "setupRun")
  /\ Perform(Run(Chain(Name(p))), End(p, "ok"), Goto(p, "setupCleanup"))

\* Faulty variant: only a running container is taken away.
SetupCleanupRunning(p) ==
  /\ At(p, "setupCleanup")
  /\ IF Name(p) \in files /\ Running(Chain(Name(p)))
     THEN Perform(Remove(containers, Chain(Name(p)), Has(p, "data")), End(p, "err"), End(p, "tragic"))
     ELSE End(p, "err") /\ UNCHANGED <<containers, disk>>

\* Faulty variant: takes away the data container too, of the name left over.
SetupCleanupData(p) ==
  /\ At(p, "setupCleanup")
  /\ Perform(Remove(containers, Data(Name(p)), FALSE), End(p, "err"), End(p, "tragic"))

\* The deferred RmChain with the flags of the command, which "new" leaves unset.
SetupCleanup(p) ==
  /\ At(p, "setupCleanup")
  /\ IF Name(p) \in files
     THEN Perform(Remove(containers, Chain(Name(p)), Has(p, "data")), End(p, "err"), End(p, "tragic"))
     ELSE End(p, "tragic") /\ UNCHANGED <<containers, disk>>

-----------------------------------------------------------------------------
\* StartChain and ExecChain

Start(p)     == Load(p, "start", "startBoot", "nofile")
StartBoot(p) == Boot(p, "startBoot", "startRun", End(p, "err"))

StartRun(p) ==
  /\ At(p, "startRun")
  /\ Perform(Run(Chain(Name(p))), End(p, "ok"), End(p, "err"))

Exec(p)     == Load(p, "exec", "execBoot", "nofile")
ExecBoot(p) == Boot(p, "execBoot", "execRun", End(p, "err"))

ExecRun(p) ==
  /\ At(p, "execRun")
  /\ Perform(ExecOn(Chain(Name(p))), End(p, "ok"), End(p, "err"))

-----------------------------------------------------------------------------
\* KillChain and RmChain

StopChain(p) ==
  Look(p, "stop", IF Name(p) \notin files THEN End(p, "err")
                  ELSE IF Running(Chain(Name(p))) THEN Goto(p, "stopStop")
                  ELSE IF Has(p, "rm") THEN Goto(p, "stopRemove") ELSE End(p, "ok"))

\* Faulty variant: an error of DockerStop is ignored.
StopStopIgnoring(p) ==
  /\ At(p, "stopStop")
  /\ LET next == IF Has(p, "rm") THEN Goto(p, "stopRemove") ELSE End(p, "ok")
     IN  Perform(Stop(containers, Chain(Name(p))), next, next)

StopStop(p) ==
  /\ At(p, "stopStop")
  /\ Perform(Stop(containers, Chain(Name(p))),
             IF Has(p, "rm") THEN Goto(p, "stopRemove") ELSE End(p, "ok"), End(p, "err"))

StopRemove(p) ==
  /\ At(p, "stopRemove")
  /\ Perform(Remove(containers, Chain(Name(p)), Has(p, "data")), End(p, "ok"), End(p, "err"))

Rm(p) ==
  Look(p, "rm", IF Name(p) \notin files THEN End(p, "err")
                ELSE Goto(p, IF Exists(Chain(Name(p))) THEN "rmRemove" ELSE "rmFile"))

\* Faulty variant: an error of the removal is logged and no more.
RmRemoveAnyway(p) ==
  /\ At(p, "rmRemove")
  /\ Perform(Remove(containers, Chain(Name(p)), Has(p, "data")), Goto(p, "rmFile"), Goto(p, "rmFile"))

RmRemove(p) ==
  /\ At(p, "rmRemove")
  /\ Perform(Remove(containers, Chain(Name(p)), Has(p, "data")), Goto(p, "rmFile"), End(p, "err"))

RmFile(p) ==
  /\ At(p, "rmFile")
  /\ files' = IF Has(p, "file") THEN files \ {Name(p)} ELSE files
  /\ End(p, IF Has(p, "file") /\ Name(p) \notin files THEN "err" ELSE "ok")
  /\ UNCHANGED <<containers, dirs, head>>

-----------------------------------------------------------------------------
\* RenameChain: the container, the new definition, the data, the old definition.

RenameChain(p) ==
  Look(p, "rename", IF Name(p) # NewName(p) /\ Name(p) \in files
                    THEN Goto(p, "renameChain") ELSE End(p, "err"))

RenameContainer(p) ==
  /\ At(p, "renameChain")
  /\ Perform(Move(Chain(Name(p)), Chain(NewName(p))), Goto(p, "renameWrite"), End(p, "err"))

\* Written over whatever definition has the new name, next to the old one.
RenameWrite(p) ==
  /\ At(p, "renameWrite")
  /\ IF Name(p) \in files
     THEN files' = files \cup {NewName(p)} /\ Goto(p, "renameData")
     ELSE files' = files /\ End(p, "err")
  /\ UNCHANGED <<containers, dirs, head>>

\* Faulty variant: an error of the data container's renaming is ignored.
RenameDataAnyway(p) ==
  /\ At(p, "renameData")
  /\ Perform(Move(Data(Name(p)), Data(NewName(p))), Goto(p, "renameFile"), Goto(p, "renameFile"))

RenameData(p) ==
  /\ At(p, "renameData")
  /\ Perform(Move(Data(Name(p)), Data(NewName(p))), Goto(p, "renameFile"), End(p, "err"))

RenameFile(p) ==
  /\ At(p, "renameFile")
  /\ files' = files \ {Name(p)}
  /\ End(p, "ok")
  /\ UNCHANGED <<containers, dirs, head>>

-----------------------------------------------------------------------------
\* UpdateChain, RegisterChain and ImportChain

Update(p) == Load(p, "update", "updateRebuild", "err")

UpdateRebuild(p) ==
  /\ At(p, "updateRebuild")
  /\ Perform(Rebuild(containers, Chain(Name(p)), LinkedTo(Chain(Name(p)))), End(p, "ok"), End(p, "err"))

\* The data container is never known (see SetupData).
Register(p) == Look(p, "register", End(p, "err"))

\* The definition is fetched from IPFS, if it can be.
Import(p) ==
  /\ At(p, "import")
  /\ \/ files' = files \cup {Name(p)} /\ End(p, "ok")
     \/ files' = files /\ End(p, "err")
  /\ UNCHANGED <<containers, dirs, head>>

-----------------------------------------------------------------------------
\* CheckoutChain, NullHead and ChangeHead: a chain that is not known is not
\* checked out, without an error.  The HEAD file is read and written back.

Checkout(p) ==
  Look(p, "checkout", IF Name(p) = Blank \/ (Name(p) # head[1] /\ Name(p) \in files)
                      THEN Goto(p, "headRead") ELSE End(p, "ok"))

\* Faulty variant: clips only a file that is too long already.
HeadReadLate(p) ==
  /\ At(p, "headRead")
  /\ cli' = [cli EXCEPT ![p].pc = "headWrite",
                        ![p].lines = IF Len(head) > MaxHead THEN SubSeq(head, 1, MaxHead - 1)
                                     ELSE head]
  /\ UNCHANGED <<containers, disk, begun>>

HeadRead(p) ==
  /\ At(p, "headRead")
  /\ cli' = [cli EXCEPT ![p].pc = "headWrite",
                        ![p].lines = IF Len(head) >= MaxHead THEN SubSeq(head, 1, MaxHead - 1)
                                     ELSE head]
  /\ UNCHANGED <<containers, disk, begun>>

HeadWrite(p) ==
  /\ At(p, "headWrite")
  /\ head' = <<Name(p)>> \o cli[p].lines
  /\ End(p, "ok")
  /\ UNCHANGED <<containers, files, dirs>>

-----------------------------------------------------------------------------
\* MakeGenesisFile runs the default chain to generate a genesis file and then
\* CleanUp, twice if the generation failed.  It gives CleanUp no service.

\* EnsureRunning.
Genesis(p) ==
  Look(p, "genesis", IF Running(KeysServer) THEN Goto(p, "genesisBoot") ELSE End(p, "err"))

\* StartChain and ExecChain take a missing definition for a success.
BootDefault(p, l, next, none, Bad) ==
  /\ At(p, l)
  /\ IF Default \in files THEN Perform(Run(KeysServer), Goto(p, next), Bad)
     ELSE Goto(p, none) /\ UNCHANGED <<containers, disk>>

CleanTwice(p) == cli' = [cli EXCEPT ![p].pc = "cleanStop", ![p].again = TRUE] /\ UNCHANGED begun

GenesisBoot(p)     == BootDefault(p, "genesisBoot", "genesisStart", "genesisExecBoot", End(p, "err"))
GenesisExecBoot(p) == BootDefault(p, "genesisExecBoot", "genesisExec", "cleanStop", CleanTwice(p))

GenesisStart(p) ==
  /\ At(p, "genesisStart")
  /\ Perform(Run(Chain(Default)), Goto(p, "genesisExecBoot"), End(p, "err"))

GenesisExec(p) ==
  /\ At(p, "genesisExec")
  /\ Perform(ExecOn(Chain(Default)), Goto(p, "cleanStop"), CleanTwice(p))

\* KillChain of the throw-away chain; CleanUp ignores all errors.
CleanStop(p) ==
  /\ At(p, "cleanStop")
  /\ IF Default \in files /\ Running(Chain(Default))
     THEN Perform(Stop(containers, Chain(Default)), Goto(p, "cleanRemove"), Goto(p, "cleanDirs"))
     ELSE /\ Goto(p, IF Default \in files THEN "cleanRemove" ELSE "cleanDirs")
          /\ UNCHANGED <<containers, disk>>

CleanRemove(p) ==
  /\ At(p, "cleanRemove")
  /\ Perform(Remove(containers, Chain(Default), TRUE), Goto(p, "cleanDirs"), Goto(p, "cleanDirs"))

\* The chain's directory, and then that of the service, whose name is empty:
\* the directory of all data.
CleanDirs(p) ==
  /\ At(p, "cleanDirs")
  /\ dirs' = {}
  /\ Goto(p, "cleanService")
  /\ UNCHANGED <<containers, files, head>>

CleanService(p) ==
  LET next == IF cli[p].again
              THEN cli' = [cli EXCEPT ![p].pc = "cleanStop", ![p].again = FALSE] /\ UNCHANGED begun
              ELSE End(p, "ok")
  IN
  /\ At(p, "cleanService")
  /\ Perform(RemoveNameless(containers, TRUE), next, next)

-----------------------------------------------------------------------------

Step(p) ==
  \/ New(p) \/ SetupData(p) \/ SetupCopy(p) \/ SetupImport(p) \/ SetupWrite(p) \/ SetupOptions(p)
  \/ SetupBoot(p) \/ SetupRun(p) \/ SetupCleanup(p)
  \/ Start(p) \/ StartBoot(p) \/ StartRun(p) \/ Exec(p) \/ ExecBoot(p) \/ ExecRun(p)
  \/ StopChain(p) \/ StopStop(p) \/ StopRemove(p) \/ Rm(p) \/ RmRemove(p) \/ RmFile(p)
  \/ RenameChain(p) \/ RenameContainer(p) \/ RenameWrite(p) \/ RenameData(p) \/ RenameFile(p)
  \/ Update(p) \/ UpdateRebuild(p) \/ Register(p) \/ Import(p)
  \/ Checkout(p) \/ HeadRead(p) \/ HeadWrite(p)
  \/ Genesis(p) \/ GenesisBoot(p) \/ GenesisStart(p)
  \/ GenesisExecBoot(p) \/ GenesisExec(p)
  \/ CleanStop(p) \/ CleanRemove(p) \/ CleanDirs(p) \/ CleanService(p)

Next ==
  \/ \E p \in Procs : Begin(p) \/ Step(p)
  \/ \E n \in Named : Exit(n)

Spec == Init /\ [][Next]_vars

-----------------------------------------------------------------------------
\* Properties

\* The process ends its command with result r in this step.
Ends(p, r) == ~At(p, "idle") /\ cli'[p].pc = "idle" /\ cli'[p].res = r

\* A chain that has a container has a definition: otherwise no command of eris
\* chains can stop or remove it.  Only a rename in progress makes an exception,
\* and it does so even when the daemon refuses some call of a command.
Reachable ==
  \A x \in ChainNames :
    Exists(Chain(x)) => \/ x \in files
                        \/ \E p \in Procs : At(p, "renameWrite") /\ NewName(p) = x

\* A chain that new reports as made runs and has its definition; when new fails
\* there is no container of it, unless the clean-up is itself reported as failed.
NewAllOrNothing ==
  [][\A p \in Procs : cli[p].cmd.kind = "new" =>
       LET x == cli[p].cmd.name IN
       /\ Ends(p, "ok") => containers'[Chain(x)] = "running" /\ x \in files'
       /\ At(p, "setupCleanup") /\ Ends(p, "err") => containers'[Chain(x)] = "none"]_vars

\* A rename that reports success has moved the definition, the container and
\* the data container; one that fails has kept the old definition.
RenameMoves ==
  [][\A p \in Procs : cli[p].cmd.kind = "rename" =>
       LET x == cli[p].cmd.name
           y == cli[p].cmd.to
       IN
       /\ Ends(p, "ok") => /\ y \in files' /\ containers'[Chain(y)] # "none" /\ containers'[Data(y)] # "none"
                           /\ x \notin files' /\ containers'[Chain(x)] = "none" /\ containers'[Data(x)] = "none"
       /\ Ends(p, "err") /\ ~At(p, "rename") => x \in files']_vars

\* What a process may change: the containers, files and directories of the
\* chains its command names.
Mine(p) == {cli[p].cmd.name, cli[p].cmd.to}

\* Of what is called like the keys service there is never a chain, and the others
\* are made and started, never stopped or taken away.
KeysOnlyStarted ==
  \A n \in Named : n.short = Keys /\ containers'[n] # containers[n] =>
    n # Chain(Keys) /\ (containers[n] = "none" \/ containers'[n] = "running")

OthersUntouched(p) ==
  /\ \A n \in Named : n.short \notin Mine(p) \cup {Keys} => containers'[n] = containers[n]
  /\ \A x \in ChainNames \ Mine(p) : (x \in files <=> x \in files') /\ (x \in dirs <=> x \in dirs')

\* Commands on one chain leave every other chain alone, also when they fail
\* half-way and clean up under a name they have not set back, and of the keys
\* server that the chains share.  GenesisSparesRunning tells of the one that does not.
ChainsIndependent ==
  [][\A p \in Procs : cli'[p] # cli[p] /\ cli[p].cmd.kind \notin {"none", "genesis"} =>
       OthersUntouched(p) /\ KeysOnlyStarted]_vars

\* Success is true: a started chain runs, a stopped one does not, a removed one
\* is gone, with its definition if that was asked for.
OkIsTrue ==
  [][\A p \in Procs : Ends(p, "ok") =>
       LET c == cli[p].cmd IN
       /\ c.kind = "start" => containers'[Chain(c.name)] = "running"
       /\ c.kind = "stop"  => containers'[Chain(c.name)] # "running"
       /\ c.kind = "rm"    => containers'[Chain(c.name)] = "none" /\ ("file" \in c.flags => c.name \notin files')]_vars

\* The HEAD file never has more than MaxHead entries.
HeadBounded == Len(head) <= MaxHead

\* setupChain promises to clean up if something goes wrong: what it made until
\* then, the data container included, is gone.
NewCleansUp ==
  [][\A p \in Procs : At(p, "setupCleanup") /\ Ends(p, "err") => containers'[Data(cli[p].cmd.name)] = "none"]_vars

\* The clean-up of MakeGenesisFile goes by an empty name, and takes the directory of
\* all data and a container of somebody else.  But a container that runs, of a
\* chain or of the keys server, goes on running, and every definition stays.
GenesisSparesRunning ==
  [][\A p \in Procs : cli'[p] # cli[p] /\ cli[p].cmd.kind = "genesis" =>
       /\ files' = files
       /\ \A n \in Named : Running(n) /\ n # Chain(Default) => containers'[n] = "running"]_vars
=============================================================================
