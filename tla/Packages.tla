------------------------------ MODULE Packages ------------------------------
(***************************************************************************)
(* "eris contracts test" and "eris contracts deploy" (RunPackage) and "eris*)
(* do" (actions), on top of the commands of package services.              *)
(*                                                                         *)
(* RunPackage starts services, boots a chain or makes a throw-away one,    *)
(* puts the app into a data container, runs the task in a container linked *)
(* to the chain and the keys server, and cleans up, whether or not all     *)
(* went well.  The directories under ~/.eris/data belong to the state here.*)
(***************************************************************************)
EXTENDS Services

CONSTANTS
  App,           \* the service a package's task runs as
  KnownChains,   \* chains people made that have a definition file
  ThrowAways     \* names for throw-away chains, each used once

PackagesAssumption ==
  /\ App \in Shorts /\ App \notin ServiceNames \cup ChainNames
  /\ ThrowAways \subseteq ChainNames
  /\ KnownChains \subseteq ChainNames \ ThrowAways
  /\ App # Keys

ASSUME PackagesAssumption

VARIABLES
  dirs,      \* the names with a directory under ~/.eris/data
  app,       \* what RunPackage knows for its clean-up
  fresh      \* names for throw-away chains not used yet

vars == <<containers, disk, cli, begun, dirs, app, fresh>>

\* The chains people made; they and the keys server have data on the host.
Lasting == ChainNames \ ThrowAways

PackageLabels == {"boot", "bootKeys", "bootRun", "throw", "throwImport", "throwKeys", "throwRun",
                  "throwRemove", "throwStart", "throwStartRun", "define", "defineImport", "perform",
                  "clean", "cleanRemove", "cleanDirs", "cleanExport", "cleanData", "cleanContainer",
                  "steps"}

\* do.Chain.ChainType and do.Chain.Name; the name of the throw-away chain made;
\* whether do.Service has a name; whether a call of the clean-up was refused.
AppState == [type : {Blank, "service", "chain", "throwaway"}, chain : Shorts \cup {Blank},
             made : ThrowAways \cup {Blank}, named : BOOLEAN, refused : BOOLEAN]

NoApp == [type |-> Blank, chain |-> Blank, made |-> Blank, named |-> FALSE, refused |-> FALSE]

TypeOK ==
  /\ containers \in Containers
  /\ defs \in [ServiceNames -> Definition]
  /\ chains \subseteq ChainNames
  /\ head \in ChainNames \cup {Blank}
  /\ cli \in [Procs -> Process(Labels \cup PackageLabels)]
  /\ begun \in 0..MaxCommands
  /\ dirs \subseteq Shorts
  /\ app \in [Procs -> AppState]
  /\ fresh \subseteq ThrowAways

\* HEAD may name a chain that is known no more: rm --file and rename leave it.
Init ==
  /\ ServicesInit
  /\ chains = KnownChains
  /\ head \in Lasting \cup {Blank}
  /\ dirs = Lasting \cup {Keys}
  /\ app = [p \in Procs |-> NoApp]
  /\ fresh = ThrowAways

-----------------------------------------------------------------------------

Keeps == UNCHANGED <<dirs, app, fresh>>

\* What the process knows changes with where it is.
Knows(p, a) == app' = [app EXCEPT ![p] = a] /\ UNCHANGED <<dirs, fresh>>

\* bootDependencies of a chain: the keys server, from its definition.
StartKeys(p, l, Good, Otherwise) ==
  /\ At(p, l)
  /\ IF defs[Keys].file = "good"
     THEN Perform(RunService(containers, Service(Keys), Loaded(Keys).def.data, Loaded(Keys).links),
                  Good, Otherwise)
     ELSE Otherwise /\ UNCHANGED <<containers, disk>>

-----------------------------------------------------------------------------
\* BootServicesAndChain, after the services: without --chain a throw-away chain.

Boot(p) ==
  LET c == cli[p].cmd.chain
      t == CHOOSE x \in fresh : TRUE
  IN
  /\ At(p, "boot")
  /\ IF c = Blank
     THEN /\ fresh # {}
          /\ fresh' = fresh \ {t}
          /\ app' = [app EXCEPT ![p] = [NoApp EXCEPT !.type = "throwaway", !.made = t]]
          /\ Goto(p, "throw")
          /\ UNCHANGED dirs
     \* StartChain takes a chain it does not know for a success.
     ELSE /\ Knows(p, [NoApp EXCEPT !.type = IF c \in chains THEN "service" ELSE "chain", !.chain = c])
          /\ Goto(p, IF c \in chains THEN "bootKeys" ELSE "define")
  /\ UNCHANGED <<containers, disk>>

\* bootChain forgets the error, but the link will be to a service.
BootKeys(p) ==
  StartKeys(p, "bootKeys", Goto(p, "bootRun"), Goto(p, "define")) /\ Keeps

BootRun(p) ==
  /\ At(p, "bootRun")
  /\ Perform(RunService(containers, Chain(app[p].chain), TRUE, {Service(Keys)}),
             Goto(p, "define") /\ Knows(p, [app[p] EXCEPT !.type = "chain"]),
             Goto(p, "define") /\ Keeps)

\* ThrowAwayChain: the steps of NewChain (Chains.tla) under a new name.  After
\* an error do.Chain.Name is still empty.

Throw(p) ==
  /\ At(p, "throw")
  /\ Perform(CreateData(containers, app[p].made), Goto(p, "throwImport"), Fail(p))
  /\ Keeps

ThrowImport(p) ==
  /\ At(p, "throwImport")
  /\ dirs' = dirs \cup {app[p].made}
  /\ \E o \in ImportData(containers, app[p].made) :
       /\ containers' = o.left
       /\ IF o.ok THEN chains' = chains \cup {app[p].made} /\ Goto(p, "throwKeys")
          ELSE chains' = chains /\ Fail(p)
  /\ UNCHANGED <<defs, head, app, fresh>>

\* The clean-up of NewChain looks for a chain called keys.
ThrowKeys(p) ==
  StartKeys(p, "throwKeys", Goto(p, "throwRun"), Fail(p)) /\ Keeps

ThrowRun(p) ==
  /\ At(p, "throwRun")
  /\ Perform(RunService(containers, Chain(app[p].made), TRUE, {Service(Keys)}),
             Goto(p, "throwStart"), Goto(p, "throwRemove"))
  /\ Keeps

ThrowRemove(p) ==
  /\ At(p, "throwRemove")
  /\ Perform(Remove(containers, Chain(app[p].made), Has(p, "data")), Fail(p), Fail(p))
  /\ Keeps

\* The second start; its errors do not matter, but without the keys server it
\* leaves its name in do.Name, which is then taken for the chain's.
ThrowStart(p) ==
  StartKeys(p, "throwStart", Goto(p, "throwStartRun") /\ Keeps,
            Goto(p, "define") /\ Knows(p, [app[p] EXCEPT !.chain = Keys]))

ThrowStartRun(p) ==
  /\ At(p, "throwStartRun")
  /\ Perform(RunService(containers, Chain(app[p].made), TRUE, {Service(Keys)}),
             Goto(p, "define"), Goto(p, "define"))
  /\ Knows(p, [app[p] EXCEPT !.chain = app[p].made])

-----------------------------------------------------------------------------
\* DefineAppActionService and PerformAppActionService

Define(p) ==
  /\ At(p, "define")
  /\ IF Has(p, "notask") THEN Fail(p) /\ Keeps
     ELSE /\ Goto(p, "defineImport")
          /\ dirs' = dirs \cup {App}
          /\ app' = [app EXCEPT ![p].named = TRUE]
          /\ UNCHANGED fresh
  /\ UNCHANGED <<containers, disk>>

DefineImport(p) ==
  /\ At(p, "defineImport")
  /\ Perform(ImportData(containers, App), Goto(p, "perform"), Fail(p))
  /\ Keeps

ChainLink(p) == IF app[p].type = "service" THEN Service(app[p].chain) ELSE Chain(app[p].chain)

PerformTask(p) ==
  /\ At(p, "perform")
  /\ Perform(ExecService(containers, Service(App), TRUE, {ChainLink(p), Service(Keys)}),
             Leap(p, "clean", "ok"), Fail(p))
  /\ Keeps

-----------------------------------------------------------------------------
\* CleanUp: KillChain of a throw-away chain, whose errors are ignored, its
\* directory and definition, the results, the app's directory and its data.

Refused(p) == Knows(p, [app[p] EXCEPT !.refused = TRUE])

\* Faulty variant: a chain that does not run is left alone.
CleanRunning(p) ==
  LET known == app[p].type = "throwaway" /\ app[p].chain \in chains IN
  /\ At(p, "clean")
  /\ IF known /\ Running(Chain(app[p].chain))
     THEN Perform(Stop(containers, Chain(app[p].chain)),
                  Goto(p, "cleanRemove") /\ Keeps, Goto(p, "cleanDirs") /\ Refused(p))
     ELSE /\ Goto(p, IF app[p].type = "throwaway" THEN "cleanDirs" ELSE "cleanExport")
          /\ UNCHANGED <<containers, disk>>
          /\ Keeps

Clean(p) ==
  LET known == app[p].type = "throwaway" /\ app[p].chain \in chains IN
  /\ At(p, "clean")
  /\ IF known /\ Running(Chain(app[p].chain))
     THEN Perform(Stop(containers, Chain(app[p].chain)),
                  Goto(p, "cleanRemove") /\ Keeps, Goto(p, "cleanDirs") /\ Refused(p))
     ELSE /\ Goto(p, IF known THEN "cleanRemove"
                     ELSE IF app[p].type = "throwaway" THEN "cleanDirs" ELSE "cleanExport")
          /\ UNCHANGED <<containers, disk>>
          /\ Keeps

CleanRemove(p) ==
  /\ At(p, "cleanRemove")
  /\ Perform(Remove(containers, Chain(app[p].chain), TRUE),
             Goto(p, "cleanDirs") /\ Keeps, Goto(p, "cleanDirs") /\ Refused(p))

\* Faulty variant: always the directory of all data.
WithoutAll(name) == {}

\* The path of an empty name is the directory of all data.
Without(name) == IF name = Blank THEN {} ELSE dirs \ {name}

CleanDirs(p) ==
  /\ At(p, "cleanDirs")
  /\ dirs' = Without(app[p].chain)
  /\ chains' = chains \ {app[p].chain}
  /\ Goto(p, "cleanExport")
  /\ UNCHANGED <<containers, defs, head, app, fresh>>

AppName(p) == IF app[p].named THEN App ELSE Blank

\* The process ends, and what RunPackage knew is gone.
Leave(p, r) == End(p, r) /\ Knows(p, NoApp)

\* Faulty variant: whether the service has a name is not looked at.
CleanExportUnnamed(p) ==
  /\ At(p, "cleanExport")
  /\ \/ Goto(p, "cleanData") /\ Keeps
     \/ Goto(p, "cleanData") /\ dirs' = dirs \cup {AppName(p)} /\ UNCHANGED <<app, fresh>>
     \/ Leave(p, "err")
  /\ UNCHANGED <<containers, disk>>

\* ExportData gives up without a data container or on an error; an error of the
\* download ends the process.
CleanExport(p) ==
  /\ At(p, "cleanExport")
  /\ \/ Goto(p, "cleanData") /\ Keeps
     \/ /\ app[p].named /\ containers[Data(App)] # "none"
        /\ \/ Goto(p, "cleanData") /\ dirs' = dirs \cup {App} /\ UNCHANGED <<app, fresh>>
           \/ Leave(p, "err")
  /\ UNCHANGED <<containers, disk>>

\* --rm-data and --rm keep what they are said to remove.
CleanData(p) ==
  /\ At(p, "cleanData")
  /\ dirs' = IF Has(p, "data") THEN dirs ELSE Without(AppName(p))
  /\ Goto(p, "cleanContainer")
  /\ UNCHANGED <<containers, disk, app, fresh>>

CleanContainer(p) ==
  /\ At(p, "cleanContainer")
  /\ IF Has(p, "rm") THEN Leave(p, cli[p].res) /\ UNCHANGED <<containers, disk>>
     ELSE Perform(IF app[p].named THEN Remove(containers, Data(App), FALSE)
                  ELSE RemoveNameless(containers, FALSE),
                  Leave(p, cli[p].res), Leave(p, "err"))

-----------------------------------------------------------------------------
\* "eris do": the chain of the action is never started, for StartChain is given
\* the command without a name, and takes that for a success.  Each step of the
\* action is a shell command.
Steps(p) ==
  /\ Look(p, "steps", End(p, "ok") \/ End(p, "err"))
  /\ Keeps

-----------------------------------------------------------------------------

PackageStep(p) ==
  \/ Boot(p) \/ BootKeys(p) \/ BootRun(p)
  \/ Throw(p) \/ ThrowImport(p) \/ ThrowKeys(p) \/ ThrowRun(p) \/ ThrowRemove(p)
  \/ ThrowStart(p) \/ ThrowStartRun(p)
  \/ Define(p) \/ DefineImport(p) \/ PerformTask(p)
  \/ Clean(p) \/ CleanRemove(p) \/ CleanDirs(p) \/ CleanExport(p) \/ CleanData(p)
  \/ CleanContainer(p) \/ Steps(p)

Step(p) == (ServiceStep(p) /\ Keeps) \/ PackageStep(p)

\* Bound: a package that will need a throw-away chain begins while a name is left.
BeginCommand(p) ==
  /\ Begin(p)
  /\ cli'[p].cmd.kind = "package" /\ cli'[p].cmd.chain = Blank => fresh # {}
  /\ Keeps

Next ==
  \/ \E p \in Procs : BeginCommand(p) \/ Step(p)
  \/ \E n \in Named : Exit(n) /\ Keeps

Spec == Init /\ [][Next]_vars

-----------------------------------------------------------------------------
\* Properties

\* The process ends its command with result r in this step.
Ends(p, r) == ~At(p, "idle") /\ cli'[p].pc = "idle" /\ cli'[p].res = r

\* The group BuildServicesGroup makes has each service behind all those its
\* definition names, wherever in the dependencies it occurs, and, once it is
\* complete, every service the command was given.
GroupInOrder ==
  \A p \in Procs : LET g == cli[p].group IN
    Kind(p) \in {"start", "stop", "package", "action"} =>
      /\ \A i \in DOMAIN g : \A d \in Needs(g[i].def) : \E j \in 1..(i - 1) : g[j].of = Service(d)
      /\ cli[p].pc \in {"connect", "run", "kill", "killStop", "killRemove"} =>
           \A k \in DOMAIN cli[p].cmd.args : \E i \in DOMAIN g : g[i].of = Service(cli[p].cmd.args[k])

\* A service that works with a chain is not started before it is linked to a
\* chain that is known and has been started ahead of the group.
ChainsFirst ==
  \A p \in Procs : At(p, "run") /\ Kind(p) # "package" =>
    \A i \in DOMAIN cli[p].group : cli[p].group[i].def.chain # Blank =>
      \E c \in ChainNames : /\ Chain(c) \in cli[p].group[i].links
                            /\ c \in cli[p].pending \/ containers[Chain(c)] # "none"

\* A service that has a container has a definition file, so that the commands
\* can find it; only a rename in progress makes an exception.
ContainersKnown ==
  \A x \in ServiceNames : containers[Service(x)] # "none" =>
    \/ defs[x].file # "none"
    \/ \E p \in Procs : At(p, "renameWrite") /\ NewName(p) = x

\* BuildServicesGroup exhausts the stack only if some service depends on itself.
Leads(x, y) == \E i \in DOMAIN defs[x].deps : defs[x].deps[i] = y

Cyclic ==
  \E S \in SUBSET ServiceNames : S # {} /\ \A x \in S : \E y \in S : Leads(x, y)

OverflowOnCycle == [][\A p \in Procs : Ends(p, "overflow") => Cyclic]_vars

\* Success is true: of a start, the service named last runs; of a stop, it does
\* not run, or is gone with --rm; of a removal, it is gone; and a rename has moved
\* the container, the data container and the definition with its dependencies.
ServiceOkIsTrue ==
  [][\A p \in Procs : Ends(p, "ok") =>
       LET c == cli[p].cmd
           x == c.args[Len(c.args)]
       IN
       /\ c.kind = "start" => containers'[Service(x)] = "running"
       /\ c.kind = "stop"  => containers'[Service(x)] \in (IF Has(p, "rm") THEN {"none"} ELSE {"none", "stopped"})
       /\ c.kind = "rm"    => containers'[Service(x)] = "none" /\ ~Has(p, "file")
       /\ c.kind = "rename" =>
            /\ containers'[Service(x)] = "none" /\ containers'[Service(c.to)] # "none"
            /\ containers'[Data(x)] = "none" /\ containers'[Data(c.to)] # "none"
            /\ defs'[x].file = "none" /\ defs'[c.to].deps = Current(p).def.deps]_vars

\* What the operations of a process may change: the containers of its group with
\* their data, what it renames to, the chains it starts, and the keys server.
Touches(p) ==
  LET shorts == {cli[p].group[i].of.short : i \in DOMAIN cli[p].group}
                  \cup {cli[p].cmd.to, cli[p].cmd.chain, app[p].made, App, Keys} \cup cli[p].pending
  IN  {n \in Named : n.short \in shorts}

\* The two places where an operation may be left without a name.
Nameless(p) ==
  \/ At(p, "cleanContainer") /\ ~app[p].named
  \/ (At(p, "killRemove") \/ At(p, "rmRemove")) /\ Has(p, "data") /\ ~Current(p).named

\* Commands leave every container alone that they do not work on, except where
\* an operation is left without a name.
OthersAlone ==
  [][\A p \in Procs : cli'[p] # cli[p] /\ ~Nameless(p) =>
       \A n \in Named \ Touches(p) : containers'[n] = containers[n]]_vars

\* Once the service and the chain of a package have the names its clean-up goes
\* by, it takes away nothing that it has not made: no directory, no definition,
\* no container.
CleanUpSparesOthers ==
  [][\A p \in Procs :
       LET own == {App, app[p].made} IN
       Kind(p) = "package" /\ cli'[p] # cli[p] /\ app[p].named /\ app[p].made \in {Blank, app[p].chain} =>
         /\ dirs \ dirs' \subseteq own /\ chains \ chains' \subseteq own
         /\ \A n \in Named : containers'[n] # containers[n] /\ n.short \notin own => containers'[n] = "running"]_vars

\* Whatever stage a package has failed at, and even where its clean-up goes by an
\* empty name, no running container stops or goes but that of its own chain.
RunningSpared ==
  [][\A p \in Procs : Kind(p) = "package" /\ cli'[p] # cli[p] =>
       \A n \in Named : Running(n) /\ n # Chain(app[p].made) => containers'[n] = "running"]_vars

\* A package leaves nothing behind of a throw-away chain that it has booted,
\* whether its task succeeds or not, if no call of the clean-up was refused.
ThrowAwayGone ==
  [][\A p \in Procs :
       LET t == app[p].made IN
       At(p, "cleanContainer") /\ cli'[p].pc = "idle" /\ t # Blank /\ app[p].chain = t /\ ~app[p].refused =>
         /\ containers'[Chain(t)] = "none" /\ containers'[Data(t)] = "none"
         /\ t \notin chains' /\ t \notin dirs']_vars
=============================================================================
