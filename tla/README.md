# A verification of eris-cli

`eris` is a command line tool that runs blockchains ("chains"), the programs
around them ("services") and their files ("data containers") as Docker
containers. There is no server: every command is a process of its own that
reads definition files under `~/.eris`, asks the Docker daemon what exists,
decides, and acts with further calls. It takes no lock, on the daemon or on a
file. What makes it hard to get right is therefore what comes between two
calls: a second command, a program that ends, a call that is refused, a kill.

Contents: [the system](#the-system), [the modules](#the-modules),
[the runs](#the-runs), [what the code does not keep](#what-the-code-does-not-keep),
[the proofs](#the-proofs), [limits](#limits-and-abstractions), [the plan](#the-plan).

## The system

| Part | State it keeps | Operations | Talks to | What is hard |
|---|---|---|---|---|
| perform (`perform/docker_run.go`) | none; the daemon's containers and volumes | create data, run, exec, run in data, rebuild, pull, stop, rename, remove | the daemon | every operation is up to a dozen calls; other processes come in between; throw-away containers; refused calls half-way |
| names and lookup (`util/container_info.go`, `container_stats.go`) | none | assemble and split a name, find a container by a regular expression | the daemon's list | link names, unanchored matches, errors that are dropped |
| interactive containers (`perform/docker_run.go:723`) | a channel, a pipe, a signal handler | attach, start, wait | the daemon, the terminal | three goroutines and a signal in any order |
| loaders (`loaders/`) | none | read a definition, fill in the names | files | names fixed early and used late; a name that is left empty |
| services (`services/`) | definition files | start and stop of a group, exec, new, edit, import, rename, update, rm, export | perform, data, chains | dependencies, cycles, order of the group, partial failure |
| chains (`chains/`) | definition files, `~/.eris/data/<chain>` | new, install, start, exec, stop, rm, rename, update, register, import, checkout, make-genesis, graduate | perform, data, services, HEAD | set-up in six parts with a clean-up; clean-up under the wrong name |
| HEAD (`util/chains_info.go`) | the list of checked out chains | checkout, clear, read | a file | read and written back without a lock; bounded length |
| data (`data/`) | data containers | import, export, rename, rm, exec | perform, the daemon | a goroutine that feeds a pipe |
| contracts (`contracts/`) | an app's service and chain, perhaps a throw-away one, with their directories | run a package: boot, define, perform, clean up | chains, services, data | clean-up after a failure at any stage, with what that stage has set |
| actions (`actions/`) | definition files | start services and a chain, run shell steps | services, chains | names carried over from one step to the next |
| initialize (`initialize/`) | the directories under `~/.eris` and their default files | make, clone or pull, write defaults, migrate | files, git | a second run after a stop half-way |
| migration (`util/migrate_dirs.go`) | directories | move files from old directories | files | the order of a map; a name that is taken; a second run |
| clean (`util/clean.go`) | none | remove all containers, the directory, the images | the daemon, files | stops at the first error; its order |
| update (`commands/`, `util/update_tool.go`) | none | migrate, then git and go | files | goes on whatever the migration says |
| files, keys, config, docker client, command line | none of their own | input and output | network, files | outside the models |

What must hold, part by part:

* perform: a throw-away container belongs to the process that made it, and only
  that process removes it; an operation touches the containers it is about and
  no others; success means that what was asked for is so; data survives all but
  its removal; a service stays on its data container; after a kill the next start works.
* chains: a chain that has a container can be reached by a command; a new chain
  is there with all its parts or it leaves nothing; commands on one chain leave
  the others alone; a rename moves all parts or keeps the old definition.
* HEAD: bounded; the newest entry is first.
* services: a group holds every service behind those it needs, and is built
  unless the definitions are cyclic; its chains come first; a reported success
  is true; a container has a definition; other containers are left alone.
* contracts: whatever a run of a package booted for itself is gone afterwards,
  and nothing else.
* data: an export ends, and nothing is written before the whole archive is there.
* interactive containers: nothing is copied before the container runs; once it
  has ended, by itself or by a signal, the command ends.
* initialize, migration, clean: no file is lost, a success of `init` is true also
  after kills, and clean takes the directories after the containers.

`PROJECT.json` lists the components, and under `hazards` what can go wrong in
this code and a test would hardly reach, with the line where it bites and the
property that watches it.

## The modules

```
ContainerNames          names, links and lookup
  Perform               the operations of perform, one action per daemon call
    PerformClaims       what comments and help texts promise and the code does not keep
      MCPerform         commands for the runs
    PerformSeq          undisturbed commands, and the mapping to Lifecycle
      MCPerformSeq
    Perform_proofs      theorems
      PerformSeq_proofs   the refinement, proved
      Perform_exact_proofs  what several processes may rely on where names are exact
  Operations            the operations of perform as sets of outcomes
    Operations_proofs   lemmas on what an outcome may change
    Chains              the commands of package chains, one action per operation
      MCChains
      Chains_proofs     theorems
    Services            the commands of package services; groups
      Packages          contracts and actions on top; the specification of both
        MCPackages
        Packages_proofs   theorems
          Packages_alone_proofs  theorems on commands that no other process disturbs
Lifecycle               abstract specification: each operation is one change of the world

Machine                 containers and directories; one command at a time
  Terminal              interactive exec: three goroutines and a signal
  Export                data export: two goroutines and a pipe
  Setup                 init, update, clean and the migration
    Host                the three together, with kills
      HostClaims        what a comment says of the exec
        MCHost
      Host_proofs       theorems
```

There are two compositions because the parts share different state. Chains,
Services and Packages meet at the daemon and the definition files, so there
concurrent processes matter. Terminal, Export and Setup meet at what an earlier
command left behind, so there the concurrency inside one process and the kills
matter. Perform stands below both and looks at single calls.

### ContainerNames

A name `eris_<type>_<short>_<number>` is a record; the two wrapped families
(`eris_exec_...` and `eris_interactive_...`) are further types. `Matches` is
the regular expression of `ParseContainers` (`util/container_stats.go:289`): it
is not anchored, so number 1 also matches 10, and the empty name matches
everything. `Answers` adds the link names the daemon lists.

### Perform

State: `cont` (what the daemon has under each name: id, running or not, volume,
where the volume was taken from), `volumes`, `nextId`, one record per eris
process in `cli` (`pc`, the command, and the local variables the code keeps
across calls: the looked-up id, `wasRunning`, the callers' frames, the id of
its throw-away container), and `begun`. Each action is one call to the daemon
with the decision taken on the answer; the label is the place in the code:

* `Run` ... `RunRemove`: `DockerRunService`. `RunData*`, shared with exec as
  `EnsureData*`, is the data container that AutoData asks for.
* `Exec*`: the throw-away container of `DockerExecService`, `DockerRunData` and
  `DockerExecData`, with its deferred removal `ExecRemove`.
* `Rebuild*` calls `Pull*`, which calls `Run`: `DockerRebuild` and `DockerPull`
  nest, so the process has a stack of frames (`Called`, `Returned`).
* `Stop*`, `Remove*`, `Rename*`, `CreateData*` follow the functions of that name.
* `Begin` loads the definition, which fixes the container names; `Kill` ends a
  process between two calls; `Exit` is a program that ends in its container.

`Faults` lets any call be refused and any listing fail, `Kills` allows `Kill`.
A refused listing is read as an empty one, because `listContainers` drops the
error. Which of several matches a lookup returns is left open, as the order of
the daemon's list is.

### Lifecycle and PerformSeq

`Lifecycle` says what each operation does when nothing comes in between: one
atomic change, or none. `PerformSeq` restricts Perform to one command at a time
and keeps in `settled` the containers as the last command left them; with
`world <- settled` every command must be a step of Lifecycle or no change. The
abstract `Update` and `Rename` give the new container a volume of its own: that
is what the code does, and the two runs named below show where the documentation
says otherwise.

### Operations

Each operation of perform as the set of its outcomes: the containers it leaves
and whether it succeeds, one outcome for every error path, since the daemon may
refuse any call. `RunService`, `ExecService`, `Stop`, `Remove`, `Rebuild`,
`Rename`, `CreateData` and `ImportData` follow the functions that Perform takes
apart. A link needs a container that exists when it is created and one that
runs when it is started. `RemoveNameless` and `RemoveWithAnyData` are
`DockerRemove` given an empty name, which matches whatever is listed first. No
removal is forced, so that what such a name hits stays if it runs.

### Chains

State: containers (none, stopped, running), definition `files`, host
directories `dirs`, the lines of `head`, the processes, `begun`. A step is one
operation of perform, with an outcome from Operations, or one change of a file.

* `New`, `Setup*`: `NewChain`, `setupChain` and the deferred clean-up. The
  clean-up is `RmChain` with whatever name and flags `do` has by then:
  `bootDependencies` has put the name of the keys service there when it fails.
* `SetupData` always tries to create: `data.IsKnown` compares with a list that
  nothing fills (`data/load.go:53-66`). `Register` therefore always fails.
* `Start*`, `Exec*`: `startChain`; an unknown chain is no error (`nofile`).
* `Stop*`, `Rm*`, `Rename*`, `Update*`, `Register`, `Import` as in `operate.go`
  and `manage.go`; `Checkout`, `HeadRead`, `HeadWrite` are `ChangeHead`, with
  the read and the write apart.
* `Genesis*`, `Clean*`: `MakeGenesisFile` and `CleanUp`, which runs twice when
  the exec failed and gets no service, so that its last parts work on the empty name.

### Services

State: containers, the definition file of each service (`defs`: what it depends
on, which of those it links to, its chain, whether it has data), `chains` with a
definition, the first line of HEAD, the processes, `begun`. A process keeps its
command, the arguments still to do, the calls of `BuildServicesGroup` as a stack
of frames, the group so far with each member as it was loaded, and the chains to
start before it.

* `Visit`, `Return`, `Built` are `BuildServicesGroup`: it loads a definition,
  goes into its dependencies, and appends the service behind them. It knows no
  visited set, so a cycle goes on until Go's stack is full (`MaxDepth`).
* `Connect` is `ConnectChainToService` for each member; `RunChain`, `RunNext`
  are `StartGroup`, chains in any order first.
* `Kill`, `KillStop` and `KillRemove` are `KillService` for each argument in turn:
  a listing says whether it runs, then comes the stop, and last the removal.
* `Exec*`, `New`, `Edit`, `Import`, `Update*`, `Rename*`, `Rm*`,
  `Checkout` as in `services/manage.go`, `services/operate.go` and `util/chains_info.go`.
* `Loaded` is what `LoadServiceDefinition` yields. A definition without data whose
  container exists gets no name for a data container (`loaders/services.go:112-122`);
  `Removed` then does with it what `DockerRemove` does with an empty name.

### Packages

Adds `dirs` under `~/.eris/data`, what `RunPackage` knows for its clean-up
(`app`), and the unused names of throw-away chains (`fresh`).

* `Boot*` is `BootServicesAndChain` with `bootChain`, `Throw*` is
  `ThrowAwayChain` with the steps of `NewChain` and the second `StartChain`.
* `Define*`, `PerformTask` define and run the task, in a throw-away container
  linked to the chain and the keys service.
* `Clean*` is `CleanUp` for packages, with the conditions as they are written:
  `--rm` and `--rm-data` keep what they are said to remove.
* `Steps` is an action: its chain is never started (`actions/perform.go:60`
  gives `StartChain` a `do` without a name, which passes for a success).

### Machine, Terminal, Export, Setup, Host

Machine has the containers, the directories with their files (whose they are:
the user's or eris's), the command that runs and the result of the last one.

* Terminal is `DockerExecService` with `startInteractiveContainer`,
  `attachContainer` and the signal handler: `SessionData` and `SessionMake` create
  the data container and the throw-away one, either of which may be refused; `SessionMain`, `SessionAttach` and `SessionHandler` are the three
  goroutines, `SessionMeet` and `SessionReply` the two meetings on the unbuffered
  channel, `Dial` and `CopyOutput` the client's `hijack`. `SessionRemove` is the
  deferred removal, without force, and the end of the process.
* Export is `ExportData`: `Pass` hands a piece through the pipe, which both ends
  must take part in; `DownloadFails` is `IfExit` in the goroutine, which ends the
  process; the main goroutine unpacks, copies, ignores errors of copying, and returns.
* Setup is `Initialize`, `MigrateDeprecatedDirs` and `Clean`, each change of a
  directory an action that may fail. `DropDefaults` and `DropChainDefaults` write
  one file after the other; a failed `RemoveHome` leaves what it could not remove.
  `CheckDirs` and `MigrateDir` take the pairs of old and new
  directories in any order, as a Go map yields them.
* Host lets one command run at a time, of any kind, and kills it anywhere.

## The runs

`CHECK_DEADLOCK FALSE` everywhere: the number of commands is bounded, and when
all are done the system rightly stops.

| Run | Instance | Shows |
|---|---|---|
| `perform` | 2 processes, 4 commands out of 8 kinds on service a and its data, and a bystander b; no refusals, no kills | `TempHasOwner`: every throw-away container has a process that will remove it. `OkIsTrue`, `DataKept`, `StaysAttached`. |
| `perform_faults` | the same with renames and removals of data; any call may be refused, any process killed | `TempOwned`, `TempExclusive`, `TempDiesWithOwner`: throw-away containers have exactly one owner and leave with it. `NoCollateral`: nothing outside a command's scope stops or goes. `RemovalTried`: the deferred removal is tried also when the start or the wait has failed. `OkDespiteErrors`: a listing whose error is dropped lets no start report a false success, and a rename whose errors of stop and restart are ignored still makes the new container, and only when the old one is gone. |
| `perform_recover` | 1 process, 4 commands, killed anywhere; fair | `StartRecovers`: a start after any half-done commands succeeds. `CommandsEnd`: every command ends. |
| `perform_sequential` | 1 process, 5 commands of 15, undisturbed | `ImplementsLifecycle`. |
| `chains` | process 1 runs 15 commands on chains alpha and beta, process 2 makes, stops, removes and checks out chain gamma; 3 commands in all; HEAD of 2 lines; any perform operation may fail at any of its calls | `Reachable`, `NewAllOrNothing`, `RenameMoves`, `ChainsIndependent`, `GenesisSparesRunning`, `OkIsTrue`, `HeadBounded`. |
| `packages` | process 1 runs 16 commands (start and stop of groups, exec, new, edit, import, rm, update, rename, three packages, an action) on services keys, api, web and chains net and old, process 2 checks out a chain and stops keys; 3 commands in all; an edit may close a cycle; any operation may fail | `GroupInOrder`, `ChainsFirst`, `ContainersKnown`, `OverflowOnCycle`, `ServiceOkIsTrue`, `OthersAlone`, `CleanUpSparesOthers`, `RunningSpared`, `ThrowAwayGone`. |
| `host` | 2 commands in a row out of interactive exec, export, init, update, clean, each killed anywhere, from a home that is empty, old, or half old; fair | `CopyAfterStart`, `InterruptEnds`, `ExportWhole`, `ExportEnds`, `MigrationKeepsFiles`, `SetupOkIsTrue`, `CleanInOrder`. |
| `link`, `rename`, `update`, `chains_cleanup` | 1 process, 2 or 3 commands | a counterexample each, below |
| `host_drop` | 1 exec | a counterexample |

**Bounds.** Two processes are enough for every check-then-act pair, since the
properties relate one process to one other or to the daemon. Four commands let
a third and fourth command meet the leftovers of two that raced, or of a refused
call or a kill. In
`perform_sequential` five commands suffice to start, stop, update, rename and
remove one service. In `chains` three commands are: make, disturb, and use what
is left; MaxHead is 2 where the code has 100, so that the third line is over
it. In `packages` they are: change a definition or leave something half done,
start, stop or clean up; three services are the shortest chain of dependencies
in which one is reached over two paths, `MaxDepth` 4 exceeds the longest path
without a cycle, one throw-away name and two chains separate a package's own
chain from people's, one of which is named by HEAD though it is not known. In
`host` two commands are one that is killed and one that finds what it left;
of the homes one has a name clash and one a half-done migration; an archive of
two files can be cut in the middle; one piece of output (`MaxOutput`) decides
whether anything is copied too early. Ids and volumes are never reused, and are
bounded by the commands.

**Fairness.** `FairSpec` has weak fairness of each process's steps: an eris
process runs, on its own, until it ends, and no step of it waits for another
eris process. The one step that waits is `ExecWait`, for the program in the
throw-away container; weak fairness of `Exit` for those containers says that
such a program ends. It is an assumption on the programs, not on eris: the code
has no timeout (`docker_run.go:791`). A killed process is idle again, so
`CommandsEnd` includes kills. Nothing is assumed of services, which may run for ever.

Host's `FairSpec` has weak fairness for each goroutine of an exec and of an
export: Go's scheduler runs a goroutine that can go on, the daemon answers a
call, and an archive arrives. There is none for the program in the container,
for signals, for users who are asked, or for a download that is complete but
whose stream is not closed (`DownloadEnds`): the export must end without it.
Packages states no liveness: `OverflowOnCycle` says when the one loop in it,
`BuildServicesGroup`, does not return.

## What the code does not keep

Each of these runs checks one statement of a comment or a help text, and TLC
finds a behaviour of the code that violates it. They are the `findings`.

* `link` (`LookupIsExact`). Service b links to service a. Start b, stop b
  while a runs: Docker lists a also as `/eris_service_b_1/a`, the
  expression for b matches it, and `ContainerRunning(b)` answers true, with a's id.
* `rename` (`RenameKeepsVolumes`). `DockerRename` removes the old container with
  its volumes and creates the new one from a configuration that names none.
  Renaming a data container leaves an empty one.
* `update` (`UpdateSparesData`). `DockerRebuild` does not configure the data
  container: after `eris services update` the service is on a new volume.
* `chains_cleanup` (`NewCleansUp`). When `eris chains new` fails after its
  data container was made, the clean-up leaves it, and every later `new` of the
  same name fails on it.
* `host_drop` (`SignalDropsOut`). The terminal cannot be attached, of which the main
  goroutine learns nothing; a signal stops the container, and the exec hangs.

Seen while reading and modelled where it falls inside a module, without a run
of its own:

* perform: while only number 10 of a service exists, an update of number 1 finds
  number 10, stops it and removes it. `stop` of a stopped container returns an error
  though the comment (`docker_run.go:475`) says it does not, and a test
  (`perform/perform_test.go:1004`) expects it; the restart that ends a rename may
  fail unnoticed (`docker_run.go:587`), against the comment at line 503; a
  failed listing makes stop and remove report success, against those at lines
  475 and 600.
* make-genesis: `CleanUp` with no service removes `~/.eris/data` and calls
  `DockerRemove` with the empty name, which takes the first eris container listed, if
  it does not run. `GenesisSparesRunning` says what is left alone.
* chains: `start` of an unknown chain exits with 0; an update of a stopped chain
  starts it without CHAIN_ID (`chains/manage.go:305`); a rename overwrites a
  definition of the new name; two checkouts at once lose an entry; HEAD may name
  a removed chain.
* services: `update` does not install what is not there
  (`commands/services.go:184`). `rm` or `stop --rm` with `--data` of a service
  that manages no data and whose container exists removes some other container,
  since the name of its data container is left empty (`Nameless`). A rename
  writes the definition as loaded, so a dependency that was not to be linked is
  linked afterwards (`AsLoaded`). `rm --file` always ends with an error, and
  `stop` stops the dependencies too, whoever else needs them. A cycle of
  dependencies exhausts the stack.
* contracts: a throw-away chain that could not be made leaves `do.Chain.Name`
  empty, and the clean-up removes `~/.eris/data` (`contracts/operate.go:221`); a
  failure before the task is defined does so too (line 258) and removes a
  container by the empty name (line 264); `RunningSpared` bounds the damage. When
  the second start of the keys service fails, the clean-up goes by the name keys
  and leaves the throw-away chain. `--rm`, the default, is said to "remove
  containers after stopping" (`commands/contracts.go:90`) and keeps the data
  container; `--rm-data` keeps what it should remove, too. The data container of a
  chain and of a service of the same name are the same.
* actions: the chain of an action is never started.
* interactive exec: a connection that cannot be made is not reported, and the
  main goroutine waits for ever (`Stuck`); a signal before the container runs is
  used up, and later ones are not heeded; output may be lost, as main does not
  wait for the copying; a container that still runs survives the removal and
  blocks the next exec.
* export: errors of copying are ignored, so that a success may lack files; an
  error behind the last file of the archive can end a finished export with 1; a
  failed download leaves the temporary directory.
* init: the command ignores the error of `Initialize`. The default chain is
  written to the new directory before the migration, and clashes with one in the
  old. Whether a migration is needed is decided by whichever pair comes first, so
  that half of one may be declared done; an update that goes on with a half-done one
  ends at the pair already moved, in the branch that "should never throw"
  (`migrate_dirs.go:75`). A kill while directories are made is not repaired. `clean` asks only if it is told not to (`util/clean.go:61`), and
  drops the error of a listing.

## The proofs

Eight modules hold them; no fact is assumed but the named assumptions on the
constants, which TLC evaluates for the instances.

### Perform_proofs

Proved for every set of processes, commands, short names, numbers and links,
with or without refusals and kills, and any bound on commands:

| Theorem | Property |
|---|---|
| `TypeCorrect` | `TypeOK` |
| `TempOwnership` | `TempOwned`: between its creation and its removal, a process finds its own container under its throw-away name |
| `TempExclusion` | `TempExclusive`: two processes are never in the same throw-away container |
| `TempsDieWithOwner` | `TempDiesWithOwner`: only its owner's deferred removal removes it |

The assumptions are `NamesAssumption` (numbers are naturals, links are between
names) and `PerformAssumption` (data commands name data containers, the others
do not; a rename keeps the type). They are what the command line guarantees.

`TempOwned` is not inductive. Operations that remove do so by an id found some
calls earlier, and an id says nothing about whose container it is. The
invariant `IInv` therefore adds: `DaemonOK`, ids are below `nextId` and name at
most one container; `CliOK`, an id a process keeps from a lookup is never that
of a throw-away container (`SafeIds`), because the daemon's list is filtered by
type before a name is matched, and that a process in the throw-away part runs a
command of that kind; `MadeDistinct`, no two processes hold the same id. The
lemmas show that a lookup yields only safe ids, that each change of a process
record keeps them safe, and that each daemon call either is quiet (no
throw-away container appears or goes), creates one, or removes one's own; the
step lemma has one case per action of `Next`. The temporal theorems combine
them with PTL.

### Perform_exact_proofs

The other properties of Perform, for any processes, commands, names and bound.
What a user expects of a command depends on more than the code: each theorem
names, as operators on the constants, the conditions it needs, and no more.

| Theorem | Property | Conditions |
|---|---|---|
| `TempsHaveOwners` | `TempHasOwner` | no refusals, no kills |
| `NothingElseHarmed` | `NoCollateral` | `ExactNames`, `DataRemovalsNamed` |
| `OkMeansDone` | `OkIsTrue` | no refusals, `ExactNames`, `DataRemovalsNamed` |
| `DataIsKept` | `DataKept` | `ExactNames`, `DataLeftAlone` |
| `DataStaysAttached` | `StaysAttached` | `ExactNames`, `DataLeftAlone`, `NoRenames`, `AutoOfDefinition` |
| `StartAfterKills` | `StartRecovers` | `OneProcess`, no refusals, `ExactNames`, `DataRemovalsNamed`, `NoSelfRemovals` |

Refusals and kills are allowed where they are not excluded, and so are any
number of processes on the same service.

* `ExactNames`: no links, and no number that begins with the digits of another.
  The expression of `ParseContainers` matches more otherwise (the run `link`).
* `DataRemovalsNamed`: `--data` comes with a definition that manages data or a
  name that is not a service's. The data container has an empty name otherwise,
  and the empty name answers to any container of eris.
* `DataLeftAlone`: nobody removes or renames data; that the data goes is then
  what the user asked for.
* `NoRenames` and `AutoOfDefinition` (the same definition is behind all commands on
  a name): a renamed container keeps the volume of the old name, and one made
  from a definition that does not ask for data is on a volume of its own.
* `OneProcess`: of two processes that start the same service one is refused.
  `NoSelfRemovals`: a start that is to remove the container afterwards
  (`ops.Remove`) is refused the removal while it runs; no command sets it.

None of the six is inductive. An operation stops and removes by an id that a
lookup answered with some calls ago, and the callers of `DockerStop` and
`DockerPull` keep ids in their frames while others act. `FitInv` says what such
an id is worth: `Owns[n]` are the ids that no container but the one named n has
or will ever get, and every id of a process is one of those of its subject
(`Fits`), together with which command can be at which line (`KindAt`), that a name
without a container has no traces and that volumes in use are there (`Tidy`).
It holds because ids are never reused (`EffectKeeps`: a step only adds to
`Owns`) and because with exact names a lookup answers with the container's own
id (`LookupExact`). `Asleep` adds for throw-away containers that they are at rest
before the start and after the wait, so that the deferred removal is not refused.
`AttachInv` adds for `StaysAttached` that no service with data is without its data
container, nor a process on the way to make such a service again; `StartInv`
adds for `StartRecovers` what a start has made sure of at each line. There is a lemma
for each operation (`...Fits`, `...Told`), and lemmas for the effect of a step
on the daemon (`StepEffect`) that all of them share.

### PerformSeq_proofs

The refinement, for any processes, names, numbers, commands and bound on them:

| Theorem | Property |
|---|---|
| `Undisturbed` | `ImplementsLifecycle`: whatever the number of daemon calls a command makes, it changes the containers by one step of Lifecycle or not at all |
| `Tracking` | the invariant `SeqInv` it rests on |

`SeqAssumption` says what undisturbed means: no call fails (`~Faults`), a name
answers to itself alone (no links, and no number that begins with the digits of
another; otherwise `LookupIsExact` is false and a command may take the container
of another name), `--data` comes with a definition that manages data or with a
name that is not a service's, and there are enough volumes for the commands of a
behaviour. Kills are allowed, but after one the process does nothing more.
`SeqSpec` starts a command only when all processes are idle.

Between commands `Seen = settled`; while one is under way `SeqInv` says at each
label by what they differ. The run part needs the data container to be there or
to be about to be made (`DataReady`, `DataMade`), after `docker run` the
container is the new one (`StartedAs`); a removal and a rebuild have taken away
what their command will take away and nothing else (`Lost`, with the volume a
rebuild puts back); a rename stands between the removal of the old name and the
creation of the new (`RenamedTo`). `OneAtATime` says that only one process is
not idle, and `Room` that what is left of a command creates at most two
containers, so that a volume that is not in use exists whenever one is made.
There is one lemma per action that a command ends with (`...Lands`), which names
the step of Lifecycle, or shows that what is left is what was there. The labels
`pullRunning` and `pullRemove` come out as out of reach: an undisturbed update
has stopped and removed the container before.

### Operations_proofs and Chains_proofs

`Operations_proofs` states once what an outcome of each operation may change:
`Within(outcomes, c, S)`, nothing but the containers of S; `Adding`, nothing but
from none to some state; `Raising`, nothing but that and from stopped to running;
`LeavesRunning`, nothing that runs. `Chains_proofs` cites these lemmas, for any chains,
processes, commands, links and bounds that satisfy `ChainsAssumption`:

| Theorem | Property |
|---|---|
| `TypeCorrect` | `TypeOK` |
| `HeadStaysBounded` | `HeadBounded`: HEAD has at most `MaxHead` lines, with any number of processes between reading and writing it |
| `ChainsStayIndependent` | `ChainsIndependent`: a command on one chain changes no container, definition or directory of another; what it shares with them, the containers of the keys service, it makes and starts but never stops or removes |
| `StaysReachable` | `Reachable`, if no two processes have commands on the same chain (`Disjoint`) |
| `NewIsAllOrNothing` | `NewAllOrNothing`, under `Disjoint` |
| `SuccessIsTrue` | `OkIsTrue`, under `Disjoint` |
| `RenamesMove` | `RenameMoves`, under `Disjoint` and `GenesisApart`: while a process may rename a chain, no other makes a genesis file |

The first three rest on `ChainsInv`: the type, that where a process is, its
command and its names belong together (`Fine`), and that it has room for a line
between reading HEAD and writing it. `Reachable` is not inductive: the step that creates a container does
not look at the definition any more. `KnownInv` adds that a process between its
load and its last operation still finds the definition it loaded, and what the
operations done so far have made true (`Settled`); that is where `Disjoint` is
needed, and without it `Reachable` is false: `rm --file` between the load and
the start of another process leaves a container without a definition.

A rename takes four steps and looks at nothing again, so that `RenameMoves` rests on
what it has moved so far staying where it is (`Carried`). Make-genesis would break
that on any chain: its clean-up removes a container without giving a name.
`GenesisApart` keeps it away, and the `chains` run satisfies it, since the process
that renames is the one that makes the genesis file.

### Packages_proofs

For any services, definitions, chains, processes and commands that satisfy
`ServicesAssumption`, `PackagesAssumption` and `NamesAssumption`, whatever the
daemon refuses. `ServicesAssumption` bounds the commands to `Accepted`: what the
`ArgCheck` calls of `commands/services.go` let through, without an empty string
given as a new name.

| Theorem | Property |
|---|---|
| `TypeCorrect` | `TypeOK` |
| `GroupsInOrder` | `GroupInOrder`: every service of a group stands behind those it needs, and none is missing |
| `OthersLeftAlone` | `OthersAlone` |
| `CleanUpSpares` | `CleanUpSparesOthers` |
| `PackagesSpareRunning` | `RunningSpared`: a package stops and removes no running container but that of the chain it has made, at whatever stage it fails |

`GroupInOrder` is not inductive: that a finished group is complete depends on
the calls that were open while it was built. `PackInv` adds to the type what a
process record says at its place (`Fine`) and what `RunPackage` knows there
(`Known`). While the group is built, `FramesOK` holds: each dependency of a
service that is being visited is in the group, is still to be visited, or is the
service of the next inner call; `ArgsOK` says the same of the arguments. When the
last call returns nothing is left but the first case, which is `Complete`. A
definition another process rewrites meanwhile does no harm, since a frame keeps
the definition it has loaded. For the theorems behind it each operation gets
the set of containers it may change (`Operations_proofs`); `Known` links the
chain and the throw-away name, so that what is removed is the package's own. `PackagesSpareRunning` needs
no such link: an operation with an empty name leaves what runs (`LeavesRunning`),
and the others only make and start containers (`Raising`).

### Packages_alone_proofs

Properties of services that hold because nobody else is at work, and the
commands that must not be, as conditions on what each process may be given:

| Theorem | Property | Condition |
|---|---|---|
| `ContainersStayKnown` | `ContainersKnown` | `RenamesAlone`: while a process may rename a service, no other starts or renames one |
| `ChainsComeFirst` | `ChainsFirst` | `RemovalsAlone`: while a process may start services or an action, no other runs a package or removes data |
| `OverflowMeansCycle` | `OverflowOnCycle` | `EditsAlone`: while a process may follow the dependencies of a group, no other runs new, edit, import or rename; `DeepStack`: `MaxDepth` is at least the number of services |
| `ServiceSuccessIsTrue` | `ServiceOkIsTrue` | `RenamesQuiet`: a rename is given one name, and while a process may rename, the others check out chains or stop services without `--rm` |

The `packages` run keeps to the first, the second and the last. It breaks the letter
of `EditsAlone`, as process 2 stops keys while process 1 edits; but keys depends on
nothing, so that process follows no dependency.

Without them the first two are false, and TLC finds it at once on two processes: while
one renames keys to web another that has loaded keys starts it, and its container
is left without a definition; while one starts api with a chain, another that
removes web with its data takes the container of the chain net, since web
has no data container to name. All else may go on meanwhile.

A start does not look at the definition again once the group is built, nor at
the chain once the service is linked to it. `MembersInv` adds to `PackInv` that
every member of a group and of the open calls of `BuildServicesGroup` comes from a
good definition file. `FiledInv` adds that the file is still there (`Filed`), and
that a rename has left nothing under the old name once it is past the container
(`Moving`). `LinkedInv` adds that the members already connected are linked to a chain
that is started ahead of them or exists (`LinkedSoFar`).

`OverflowMeansCycle` needs what the stack of open calls says of the files:
`PathInv` has each open call waiting for a dependency of its file, the one the call
above it has loaded. A stack of more calls than there are services holds one
twice (a counting argument with `FiniteSetTheorems`), and the calls between the
two are a cycle.

`ServiceSuccessIsTrue` must know in the last step which service was named last. Nothing in
the code keeps it: the arguments are taken off one by one, and the group ends with
whatever was visited last. `SuccessInv` says that it is the same: what is left of the
arguments is their end (`Rest`), the outermost open call is for the argument taken
last, and so is the last member of the group once that call has returned, for a
service is put behind what it depends on (`LastDone`). `Renaming` keeps what a
rename has moved so far. Where no process renames, `RenamesQuiet` says nothing, and
what start, stop and rm report is true whatever other processes do.

### Host_proofs

For any containers, files, homes, archives and options that satisfy
`MachineAssumption`, `TerminalAssumption`, `ExportAssumption`, `SetupAssumption`
and `HostAssumption`:

| Theorem | Property |
|---|---|
| `TypeCorrect` | `TypeOK` |
| `CopiesAfterStart` | `CopyAfterStart` |
| `ExportsWhole` | `ExportWhole` |
| `KeepsFiles` | `MigrationKeepsFiles` |
| `SetupSucceeds` | `SetupOkIsTrue` |
| `CleansInOrder` | `CleanInOrder` |

The steps in question do not carry what they rely on: a file is moved because a
listing some steps ago did not find its name, a success is reported after five
parts that any may have been skipped. `HostInv` adds to the type: the parts of
the commands that do not run are idle (`JobOK`); attach waits only for a main
goroutine that will answer, and copies only beside one that waits (`SessionOK`);
what is copied out of the temporary directory is the whole archive
(`TransferOK`); a directory that is not there has no files (`DirsOK`); the list of
files still to move is exactly what the old directory holds, and those that
clash are known (`PairOK`); the pairs that are done are gone (`PairsOK`); which
defaults are there at each label (`InitOK`); and that a container of eris that is
left is still on the list or was never on it (`CleanOK`).

### Model-checked only

Liveness is out of the prover's reach: `CommandsEnd`, `InterruptEnds`,
`ExportEnds`. Further only model-checked are `ThrowAwayGone` of
Packages, `GenesisSparesRunning` of Chains, and `RemovalTried` and
`OkDespiteErrors` of Perform.

## Limits and abstractions

* The daemon and its containers are external, modelled as the code relies on
  them: names are unique, links need their targets, a volume lives while some
  container mounts it or it was not asked to be removed. A missing image makes
  `createContainer` pull it and try again: one creation here.
* Contents of files, images, ports, environment and wording are left out, and
  with them the commands that only read: logs, inspect, ls, cat, ports.
* `ops.Remove` is in Perform as the flag `rm`, though no command sets it.
* The environment variable CIRCLE_BRANCH, by which removals are skipped on a
  continuous-integration host, is left out.
* In Chains, Services and Packages operations of perform are atomic, file-system
  calls succeed, listings succeed, and every container has number 1. Perform
  shows what comes between the calls of an operation.
* In Chains fetching and installing is `new` without `--force`; plop is exec.
  Extensions in a new name (`rename x x.toml`), edit, export and graduate are
  left out; throw-away chains are in Packages. Chain-to-chain dependencies are
  left out: a definition gets its dependencies from `default.toml`, where they
  would make every chain depend on itself.
* In the run `chains` no two processes work on the same chain: two that do
  violate `Reachable`, as said above. One of the processes runs make-genesis:
  `ChainsIndependent` is stated for all other commands, `GenesisSparesRunning` for
  that one, and `RenameMoves` is checked and proved of renames that no make-genesis
  overtakes.
* In Services of the options of a dependency only "do not link" is kept, not
  "mount only"; dependencies on chains are links only in the code and left out. A
  rename uses the links of the definition. Packages gives a package at most one
  service in its instance. Definitions of packages and actions are read before
  anything is changed, so a failure there is not an action. Images and the
  temporary directory of a package are left out.
* In Setup the three default services and the default action are a file each, the
  default chain its definition and its directory. The removal of images by clean and
  `eris.toml` are left out, and clearing a directory is one step. In Host one
  command runs at a time.

### Not modelled

* files and IPFS transfers, docker client, config, listing: nothing is kept or
  decided that a check could tell apart.
* keys: each command is one exec, an operation of Perform; the keys are the service's.
* update of the tool beyond its migration: git and go.
* projects and remotes: stubs. The container supervisor, tests and the
  generator of the documentation are not the tool.
* Vendored packages: most of the lines of the repository (Docker's client, YAML,
  Markdown, command line and terminal libraries). What eris needs of them, the
  daemon, the pipe, `hijack`, `Copy` and the archive, is modelled as it is used.

## The plan

All parts of the system that keep state or decide on it have a module. Left, in
this order:

1. **Theorems on `RemovalTried`, `OkDespiteErrors` and `GenesisSparesRunning`**,
   which the invariants above should imply, and **on `ThrowAwayGone`**, which needs
   that no command and no definition names a throw-away chain.
2. **Composition**: Services on top of the process structure of Chains, so that
   a chain is removed while a group that works with it starts.
3. **Smaller gaps**: graduate and export of chains, action files, several
   services of a package.
