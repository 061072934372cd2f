---------------------------- MODULE Chains_proofs ----------------------------
(***************************************************************************)
(* For any chains, processes and commands, whatever the daemon refuses: the*)
(* types of Chains, the bound of the HEAD file, and that commands leave    *)
(* other chains alone; and, if no two processes work on the same chain,    *)
(* that a chain with a container keeps its definition, that new is all or  *)
(* nothing and that reported success is true.                              *)
(***************************************************************************)
EXTENDS Chains, Operations_proofs

HeadPlaces == {"checkout", "headRead", "headWrite"}

GenesisPlaces == {"genesis", "genesisBoot", "genesisStart", "genesisExecBoot", "genesisExec",
                  "cleanStop", "cleanRemove", "cleanDirs", "cleanService"}

Renaming == {"renameChain", "renameWrite", "renameData", "renameFile"}
Setting  == {"new", "setupData", "setupCopy", "setupImport", "setupWrite", "setupOptions", "setupBoot", "setupRun", "setupCleanup"}
Starting == {"start", "startBoot", "startRun"}
Stopping == {"stop", "stopStop", "stopRemove"}
Removing == {"rm", "rmRemove", "rmFile"}

\* What a process record says, wherever its process is.
Fine(p, q) ==
  /\ q.pc = "idle" <=> q.cmd = NoCommand
  /\ q.pc # "idle" => q.cmd \in Commands[p]
  /\ q.pc \in HeadPlaces <=> q.cmd.kind = "checkout"
  /\ q.pc \in GenesisPlaces <=> q.cmd.kind = "genesis"
  /\ q.pc \in Renaming \cup {"rename"} <=> q.cmd.kind = "rename"
  /\ q.pc \in Setting <=> q.cmd.kind = "new"
  /\ q.pc \in Starting <=> q.cmd.kind = "start"
  /\ q.pc \in Stopping <=> q.cmd.kind = "stop"
  /\ q.pc \in Removing <=> q.cmd.kind = "rm"
  /\ q.pc \in Renaming => q.name # q.cmd.to
  /\ q.name = q.cmd.name \/ (q.name = Keys /\ q.pc = "setupCleanup")
  /\ q.pc = "headWrite" => Len(q.lines) < MaxHead

CliOK == \A p \in Procs : Fine(p, cli[p])

ChainsInv == TypeOK /\ CliOK /\ HeadBounded

-----------------------------------------------------------------------------
\* Where a process goes.

\* From label k a process goes to l, unless it ends.
Along(k, l) ==
  /\ k \in Labels \ {"idle", "setupCleanup", "rename"} /\ l \in Labels \ {"idle", "headWrite"}
  /\ k \in HeadPlaces <=> l \in HeadPlaces
  /\ k \in GenesisPlaces <=> l \in GenesisPlaces
  /\ k \in Renaming <=> l \in Renaming
  /\ k \in Setting <=> l \in Setting
  /\ k \in Starting <=> l \in Starting
  /\ k \in Stopping <=> l \in Stopping
  /\ k \in Removing <=> l \in Removing
  /\ l # "rename"

Moves(p) ==
  \/ \E r \in Results : End(p, r)
  \/ \E l \in Labels : Along(cli[p].pc, l) /\ Goto(p, l)
  \/ At(p, "rename") /\ Name(p) # NewName(p) /\ Goto(p, "renameChain")
  \/ /\ At(p, "setupBoot") /\ UNCHANGED begun
     /\ cli' = [cli EXCEPT ![p].pc = "setupCleanup", ![p].name = Keys]
  \/ HeadRead(p)
  \/ /\ cli[p].pc \in GenesisPlaces /\ UNCHANGED begun
     /\ \E b \in BOOLEAN : cli' = [cli EXCEPT ![p].pc = "cleanStop", ![p].again = b]

LEMMA StepMoves == ASSUME NEW p \in Procs, Step(p) PROVE Moves(p)
<1> USE DEF Moves, At, Perform, Look, Load, Along, Labels, Results, HeadPlaces, GenesisPlaces, Renaming, Setting, Starting, Stopping, Removing
<1>1. CASE New(p) \/ SetupData(p) \/ SetupCopy(p) \/ SetupImport(p) \/ SetupWrite(p) \/ SetupOptions(p)
  BY <1>1 DEF New, SetupData, SetupCopy, SetupImport, SetupWrite, SetupOptions
<1>2. CASE SetupBoot(p) \/ SetupRun(p) \/ SetupCleanup(p)
  BY <1>2 DEF SetupBoot, SetupRun, SetupCleanup, Boot
<1>3. CASE Start(p) \/ StartBoot(p) \/ StartRun(p) \/ Exec(p) \/ ExecBoot(p) \/ ExecRun(p)
  BY <1>3 DEF Start, StartBoot, StartRun, Exec, ExecBoot, ExecRun, Boot
<1>4. CASE StopChain(p) \/ StopStop(p) \/ StopRemove(p) \/ Rm(p) \/ RmRemove(p) \/ RmFile(p)
  BY <1>4 DEF StopChain, StopStop, StopRemove, Rm, RmRemove, RmFile
<1>5. CASE RenameChain(p) \/ RenameContainer(p) \/ RenameWrite(p) \/ RenameData(p) \/ RenameFile(p)
  BY <1>5 DEF RenameChain, RenameContainer, RenameWrite, RenameData, RenameFile
<1>6. CASE Update(p) \/ UpdateRebuild(p) \/ Register(p) \/ Import(p)
  BY <1>6 DEF Update, UpdateRebuild, Register, Import
<1>7. CASE Checkout(p) \/ HeadRead(p) \/ HeadWrite(p)
  BY <1>7 DEF Checkout, HeadWrite
<1>8. CASE Genesis(p) \/ GenesisBoot(p) \/ GenesisStart(p) \/ GenesisExecBoot(p) \/ GenesisExec(p)
  BY <1>8 DEF Genesis, GenesisBoot, GenesisStart, GenesisExecBoot, GenesisExec, BootDefault, CleanTwice
<1>9. CASE CleanStop(p) \/ CleanRemove(p) \/ CleanDirs(p) \/ CleanService(p)
  BY <1>9 DEF CleanStop, CleanRemove, CleanDirs, CleanService
<1> HIDE DEF Moves
<1> QED
  BY <1>1, <1>2, <1>3, <1>4, <1>5, <1>6, <1>7, <1>8, <1>9 DEF Step

\* The record of the process that moves.
LEMMA MovesFine ==
  ASSUME ChainsInv, NEW p \in Procs, Moves(p)
  PROVE  /\ cli' \in [Procs -> Process] /\ CliOK' /\ begun' = begun
         /\ \A q \in Procs \ {p} : cli'[q] = cli[q]
         /\ cli'[p].cmd \in {cli[p].cmd, NoCommand}
<1> DEFINE q == cli'[p]
<1>1. /\ cli \in [Procs -> Process] /\ Fine(p, cli[p]) /\ cli[p] \in Process
  BY DEF ChainsInv, TypeOK, CliOK
<1>2. ASSUME q \in Process, Fine(p, q), UNCHANGED begun, q.cmd \in {cli[p].cmd, NoCommand},
             cli' = [cli EXCEPT ![p] = q]
      PROVE  /\ cli' \in [Procs -> Process] /\ CliOK' /\ begun' = begun
             /\ \A r \in Procs \ {p} : cli'[r] = cli[r]
             /\ cli'[p].cmd \in {cli[p].cmd, NoCommand}
  BY <1>1, <1>2 DEF ChainsInv, CliOK
<1>3. ASSUME NEW r \in Results, End(p, r) PROVE q \in Process /\ Fine(p, q) /\ q.cmd = NoCommand /\ UNCHANGED begun
  <2>1. q = Idle(r)
    BY <1>1, <1>3 DEF End
  <2>2. /\ q.pc = "idle" /\ q.cmd = NoCommand /\ q.name = Blank /\ NoCommand.name = Blank /\ NoCommand.kind = "none"
    BY <2>1 DEF Idle, NoCommand
  <2>3. q \in Process
    BY <2>1 DEF Idle, Process, Labels
  <2> QED
    BY <1>3, <2>2, <2>3 DEF End, Fine, HeadPlaces, GenesisPlaces, Renaming, Setting, Starting, Stopping, Removing
<1>4. ASSUME NEW l \in Labels, Along(cli[p].pc, l), Goto(p, l)
      PROVE  q \in Process /\ Fine(p, q) /\ q.cmd = cli[p].cmd /\ UNCHANGED begun
  <2>1. q = [cli[p] EXCEPT !.pc = l]
    BY <1>1, <1>4 DEF Goto
  <2>2. q \in Process /\ q.pc = l /\ q.cmd = cli[p].cmd /\ q.name = cli[p].name /\ q.lines = cli[p].lines
    BY <1>1, <2>1 DEF Process
  <2> QED
    BY <1>1, <1>4, <2>2 DEF Fine, Along, Goto
<1>5. ASSUME At(p, "rename"), Name(p) # NewName(p), Goto(p, "renameChain")
      PROVE  q \in Process /\ Fine(p, q) /\ q.cmd = cli[p].cmd /\ UNCHANGED begun
  <2>1. q = [cli[p] EXCEPT !.pc = "renameChain"]
    BY <1>1, <1>5 DEF Goto
  <2>2. q \in Process /\ q.pc = "renameChain" /\ q.cmd = cli[p].cmd /\ q.name = cli[p].name
    BY <1>1, <2>1 DEF Process, Labels
  <2> QED
    BY <1>1, <1>5, <2>2 DEF Fine, At, Goto, Name, NewName, HeadPlaces, GenesisPlaces, Renaming, Setting, Starting, Stopping, Removing
<1>6. ASSUME At(p, "setupBoot"), UNCHANGED begun, cli' = [cli EXCEPT ![p].pc = "setupCleanup", ![p].name = Keys]
      PROVE  q \in Process /\ Fine(p, q) /\ q.cmd = cli[p].cmd
  <2>1. q = [cli[p] EXCEPT !.pc = "setupCleanup", !.name = Keys]
    BY <1>1, <1>6
  <2>2. q \in Process /\ q.pc = "setupCleanup" /\ q.cmd = cli[p].cmd /\ q.name = Keys
    BY <1>1, <2>1, ChainsAssumption DEF Process, Labels, ChainsAssumption
  <2> QED
    BY <1>1, <1>6, <2>2 DEF Fine, At, HeadPlaces, GenesisPlaces, Renaming, Setting, Starting, Stopping, Removing
<1>7. ASSUME HeadRead(p)
      PROVE  q \in Process /\ Fine(p, q) /\ q.cmd = cli[p].cmd /\ UNCHANGED begun /\ cli' = [cli EXCEPT ![p] = q]
  <2> DEFINE some == IF Len(head) >= MaxHead THEN SubSeq(head, 1, MaxHead - 1) ELSE head
  <2>1. q = [cli[p] EXCEPT !.pc = "headWrite", !.lines = some] /\ cli' = [cli EXCEPT ![p] = q]
    BY <1>1, <1>7 DEF HeadRead
  <2>2. some \in Seq(ChainNames \cup {Blank}) /\ Len(some) < MaxHead
    BY ChainsAssumption DEF ChainsInv, TypeOK, ChainsAssumption
  <2>3. q \in Process /\ q.pc = "headWrite" /\ q.cmd = cli[p].cmd /\ q.name = cli[p].name /\ q.lines = some
    BY <1>1, <2>1, <2>2 DEF Process, Labels
  <2> HIDE DEF some
  <2> QED
    BY <1>1, <1>7, <2>1, <2>2, <2>3 DEF Fine, At, HeadRead, HeadPlaces, GenesisPlaces, Renaming, Setting, Starting, Stopping, Removing
<1>8. ASSUME cli[p].pc \in GenesisPlaces, NEW b \in BOOLEAN, UNCHANGED begun,
             cli' = [cli EXCEPT ![p].pc = "cleanStop", ![p].again = b]
      PROVE  q \in Process /\ Fine(p, q) /\ q.cmd = cli[p].cmd
  <2>1. q = [cli[p] EXCEPT !.pc = "cleanStop", !.again = b]
    BY <1>1, <1>8
  <2>2. q \in Process /\ q.pc = "cleanStop" /\ q.cmd = cli[p].cmd /\ q.name = cli[p].name
    BY <1>1, <2>1 DEF Process, Labels
  <2> QED
    BY <1>1, <1>8, <2>2 DEF Fine, HeadPlaces, GenesisPlaces, Renaming, Setting, Starting, Stopping, Removing
<1>9. (\E r \in Results : End(p, r)) \/ (\E l \in Labels : Goto(p, l))
        \/ (At(p, "setupBoot") /\ cli' = [cli EXCEPT ![p].pc = "setupCleanup", ![p].name = Keys])
        \/ (\E b \in BOOLEAN : cli' = [cli EXCEPT ![p].pc = "cleanStop", ![p].again = b])
      => cli' = [cli EXCEPT ![p] = q]
  BY <1>1 DEF End, Goto
<1> QED
  BY <1>2, <1>3, <1>4, <1>5, <1>6, <1>7, <1>8, <1>9 DEF Moves, Labels

-----------------------------------------------------------------------------
\* What a step does to the containers and to the files.

\* Nothing but containers of the names in S changes; nothing but A is added.
Only(S) == containers' \in Containers /\ \A m \in Named : m.short \notin S => containers'[m] = containers[m]
Adds(A) == containers' \in Containers /\ \A m \in Named : containers'[m] # "none" /\ containers[m] = "none" => m \in A

OtherThanChains == {m \in Named : m.type # "chain"}

LEMMA Names ==
  ASSUME ChainsInv, NEW p \in Procs, cli[p].pc # "idle"
  PROVE  /\ ChainNames \subseteq Shorts /\ Keys \in Shorts /\ Keys \notin ChainNames
         /\ Default \in ChainNames /\ 1 \in Numbers
         /\ cli[p] \in Process /\ cli[p].cmd \in Command /\ NewName(p) \in ChainNames
         /\ cli[p].pc \notin HeadPlaces => cli[p].cmd.name \in ChainNames /\ Name(p) \in Shorts
         /\ cli[p].pc # "setupCleanup" => Name(p) = cli[p].cmd.name /\ Name(p) \in Mine(p)
         /\ Name(p) = cli[p].cmd.name \/ Name(p) = Keys
         /\ Name(p) \in Mine(p) \cup {Keys} /\ NewName(p) \in Mine(p)
<1>1. Fine(p, cli[p]) /\ cli[p] \in Process
  BY DEF ChainsInv, CliOK, TypeOK
<1>2. cli[p].cmd \in Command /\ (cli[p].cmd.kind # "checkout" => cli[p].cmd.name \in ChainNames)
  BY <1>1, ChainsAssumption DEF Fine, ChainsAssumption
<1>3. cli[p].cmd.to \in ChainNames
  BY <1>2 DEF Command
<1> QED
  BY <1>1, <1>2, <1>3, ChainsAssumption DEF Fine, ChainsAssumption, Name, NewName, Mine

\* The operations, on a container of the name x.
LEMMA WithinOnly ==
  ASSUME NEW n \in Named, \E o \in Within(containers, {n, ToDataContainer(n)}) : containers' = o.left
  PROVE  Only({n.short}) /\ Adds({n} \cup OtherThanChains)
BY NamedTypes DEF Within, Only, Adds, OtherThanChains, Outcome

LEMMA AddingAdds ==
  ASSUME NEW A, \E o \in Adding(containers, A) : containers' = o.left
  PROVE  Adds(A)
BY DEF Adding, Adds, Outcome

LEMMA OnRun ==
  ASSUME containers \in Containers, NEW n \in Named, \E o \in Run(n) : containers' = o.left
  PROVE  Only({n.short}) /\ Adds({n} \cup OtherThanChains)
<1>1. \E o \in Within(containers, {n, ToDataContainer(n)}) : containers' = o.left
  BY RunServiceOutcome DEF Run
<1> QED
  BY <1>1, WithinOnly

LEMMA OnExec ==
  ASSUME containers \in Containers, NEW n \in Named, \E o \in ExecOn(n) : containers' = o.left
  PROVE  Only({n.short}) /\ Adds(OtherThanChains)
<1>1. PICK o \in Within(containers, {ToDataContainer(n)}) : containers' = o.left
  BY ExecServiceOutcome DEF ExecOn
<1> QED
  BY <1>1, NamedTypes DEF Within, Only, Adds, OtherThanChains, Outcome

LEMMA OnData ==
  ASSUME containers \in Containers, NEW x \in Shorts, 1 \in Numbers,
         \E o \in CreateData(containers, x) \cup ImportData(containers, x) : containers' = o.left
  PROVE  Only({x}) /\ Adds(OtherThanChains)
<1>1. PICK o \in Within(containers, {Data(x)}) : containers' = o.left
  BY CreateDataOutcome
<1> QED
  BY <1>1, Assembled DEF Within, Only, Adds, OtherThanChains, Outcome

LEMMA OnLess ==
  ASSUME containers \in Containers, NEW n \in Named, NEW b \in BOOLEAN, NEW links,
         \E o \in Stop(containers, n) \cup Remove(containers, n, b) \cup Rebuild(containers, n, links) : containers' = o.left
  PROVE  Only({n.short}) /\ Adds({})
<1>1. PICK o \in Within(containers, {n, ToDataContainer(n)}) \cap Adding(containers, {}) : containers' = o.left
  <2>1. Stop(containers, n) \cup Rebuild(containers, n, links) \subseteq Within(containers, {n}) \cap Adding(containers, {})
    BY StopOutcome, RebuildOutcome
  <2>2. Within(containers, {n}) \subseteq Within(containers, {n, ToDataContainer(n)})
    BY DEF Within
  <2>3. Remove(containers, n, b) \subseteq Within(containers, {n, ToDataContainer(n)}) \cap Adding(containers, {})
    BY RemoveOutcome
  <2> QED
    BY <2>1, <2>2, <2>3
<1> QED
  BY <1>1, WithinOnly, AddingAdds

LEMMA OnMove ==
  ASSUME containers \in Containers, NEW n \in Named, NEW to \in Named, n # to, \E o \in Move(n, to) : containers' = o.left
  PROVE  Only({n.short, to.short}) /\ Adds({to})
<1>1. PICK o \in Within(containers, {n, to}) \cap Adding(containers, {to}) : containers' = o.left
  BY RenameOutcome DEF Move
<1> QED
  BY <1>1, AddingAdds DEF Within, Only, Outcome

\* Where a chain container may come from.
MayAdd(p) ==
  OtherThanChains \cup (IF cli[p].pc \in {"setupRun", "startRun"} THEN {Chain(Name(p))}
                        ELSE IF cli[p].pc = "renameChain" THEN {Chain(NewName(p))}
                        ELSE IF cli[p].pc = "genesisStart" THEN {Chain(Default)} ELSE {})

\* The names whose containers a process may change where it is.
Own(p) ==
  {Keys} \cup (IF cli[p].pc \in HeadPlaces THEN {} ELSE {Name(p)})
         \cup (IF cli[p].pc \in Renaming THEN {NewName(p)} ELSE {})

World(p) ==
  /\ Adds(MayAdd(p))
  /\ cli[p].pc \notin GenesisPlaces => Only(Own(p)) /\ KeysOnlyStarted

LEMMA StepWorld == ASSUME ChainsInv, NEW p \in Procs, Step(p) PROVE World(p)
<1>1. containers \in Containers /\ cli[p].pc # "idle"
  <2>1. ~At(p, "idle")
    BY DEF Step, New, SetupData, SetupCopy, SetupImport, SetupWrite, SetupOptions, SetupBoot, SetupRun, SetupCleanup,
       Start, StartBoot, StartRun, Exec, ExecBoot, ExecRun, StopChain, StopStop, StopRemove, Rm, RmRemove, RmFile,
       RenameChain, RenameContainer, RenameWrite, RenameData, RenameFile, Update, UpdateRebuild, Register, Import,
       Checkout, HeadRead, HeadWrite, Genesis, GenesisBoot, GenesisStart, GenesisExecBoot, GenesisExec, CleanStop,
       CleanRemove, CleanDirs, CleanService, Boot, BootDefault, Load, Look, At
  <2> QED
    BY <2>1 DEF ChainsInv, TypeOK, At
<1>2. UNCHANGED containers => Only({}) /\ Adds({})
  BY <1>1 DEF Only, Adds
<1>3. \A S, T : Only(S) /\ S \subseteq T => Only(T)
  BY DEF Only
<1>4. \A A, B : Adds(A) /\ A \subseteq B => Adds(B)
  BY DEF Adds
<1>5. UNCHANGED containers => World(p)
  BY <1>2, <1>3, <1>4 DEF World, KeysOnlyStarted
<1>6. KeysServer \in Named /\ KeysServer.short = Keys /\ KeysServer \in OtherThanChains
  BY <1>1, Names, Assembled DEF KeysServer, OtherThanChains
<1>7. /\ \A S, A : Only(S) /\ S \subseteq Own(p) /\ Keys \notin S /\ Adds(A) /\ A \subseteq MayAdd(p) => World(p)
      /\ OtherThanChains \subseteq MayAdd(p) /\ {} \subseteq MayAdd(p)
      /\ {Keys} \subseteq Own(p) /\ (cli[p].pc \notin HeadPlaces => {Name(p)} \subseteq Own(p))
      /\ (cli[p].pc \in Renaming => {Name(p), NewName(p)} \subseteq Own(p))
  BY <1>3, <1>4 DEF World, MayAdd, Own, Renaming, HeadPlaces, Only, KeysOnlyStarted
<1>8. cli[p].pc \notin HeadPlaces => /\ Chain(Name(p)) \in Named /\ Chain(Name(p)).short = Name(p)
                                     /\ Data(Name(p)) \in Named /\ Data(Name(p)).short = Name(p)
  BY <1>1, Names, Assembled
<1>9. /\ Chain(Default) \in Named /\ Chain(NewName(p)) \in Named /\ Chain(NewName(p)).short = NewName(p)
      /\ Data(NewName(p)) \in Named /\ Data(NewName(p)) \in OtherThanChains /\ Data(NewName(p)).short = NewName(p)
  BY <1>1, Names, Assembled DEF OtherThanChains
<1>10. ASSUME \E o \in Run(KeysServer) : containers' = o.left PROVE World(p)
  <2>1. Only({Keys}) /\ Adds({KeysServer} \cup OtherThanChains)
    BY <1>1, <1>6, <1>10, OnRun
  <2>2. {KeysServer} \cup OtherThanChains \subseteq MayAdd(p)
    BY <1>6 DEF MayAdd
  <2>3. KeysOnlyStarted
    <3>1. \E o \in Raising(containers) : containers' = o.left
      BY <1>1, <1>6, <1>10, Names, RaisingOutcome DEF Run
    <3>2. \A m \in Named : containers'[m] # containers[m] => containers[m] = "none" \/ containers'[m] = "running"
      BY <3>1 DEF Raising
    <3>3. \A o \in Within(containers, {KeysServer, ToDataContainer(KeysServer)}) :
            o.left[Chain(Keys)] = containers[Chain(Keys)]
      BY <1>1, Names, Assembled DEF Within, KeysServer
    <3>4. containers'[Chain(Keys)] = containers[Chain(Keys)]
      BY <1>1, <1>6, <1>10, <3>3, RunServiceOutcome DEF Run
    <3> QED
      BY <3>2, <3>4 DEF KeysOnlyStarted
  <2> QED
    BY <1>3, <1>4, <1>7, <2>1, <2>2, <2>3 DEF World
\* The containers of the chain the process works on.
<1>11. ASSUME cli[p].pc \notin HeadPlaces, Name(p) # Keys,
              \E o \in CreateData(containers, Name(p)) \cup ImportData(containers, Name(p)) : containers' = o.left
       PROVE  World(p)
  BY <1>1, <1>7, <1>11, Names, OnData
<1>12. ASSUME cli[p].pc \notin HeadPlaces, Name(p) # Keys, NEW b \in BOOLEAN, NEW links,
              \E o \in Stop(containers, Chain(Name(p))) \cup Remove(containers, Chain(Name(p)), b)
                         \cup Rebuild(containers, Chain(Name(p)), links) : containers' = o.left
       PROVE  World(p)
  <2>1. Only({Name(p)}) /\ Adds({})
    BY <1>1, <1>8, <1>12, OnLess
  <2>2. {Name(p)} \subseteq Own(p) /\ {} \subseteq MayAdd(p) /\ Keys \notin {Name(p)}
    BY <1>7, <1>12
  <2> QED
    BY <1>7, <2>1, <2>2
<1>13. ASSUME cli[p].pc \notin HeadPlaces, Name(p) # Keys, \E o \in ExecOn(Chain(Name(p))) : containers' = o.left
       PROVE  World(p)
  BY <1>1, <1>7, <1>8, <1>13, OnExec
<1>25. cli[p].pc \notin HeadPlaces \cup {"setupCleanup"} \/ Name(p) \in files => Name(p) # Keys
  BY <1>1, Names DEF ChainsInv, TypeOK
<1>14. ASSUME cli[p].pc \in {"setupRun", "startRun"}, \E o \in Run(Chain(Name(p))) : containers' = o.left PROVE World(p)
  <2>1. Only({Name(p)}) /\ Adds({Chain(Name(p))} \cup OtherThanChains)
    BY <1>1, <1>8, <1>14, OnRun DEF HeadPlaces
  <2>2. {Chain(Name(p))} \cup OtherThanChains \subseteq MayAdd(p)
    BY <1>14 DEF MayAdd
  <2> QED
    BY <1>7, <1>14, <1>25, <2>1, <2>2 DEF HeadPlaces
<1>15. CASE RenameContainer(p) \/ RenameData(p)
  <2>1. cli[p].pc \in {"renameChain", "renameData"} /\ Name(p) # NewName(p)
    BY <1>15 DEF RenameContainer, RenameData, At, ChainsInv, CliOK, Fine, Renaming, Name, NewName
  <2>2. \/ cli[p].pc = "renameChain" /\ \E o \in Move(Chain(Name(p)), Chain(NewName(p))) : containers' = o.left
        \/ \E o \in Move(Data(Name(p)), Data(NewName(p))) : containers' = o.left
    BY <1>15 DEF RenameContainer, RenameData, At, Perform
  <2>3. Chain(Name(p)) # Chain(NewName(p)) /\ Data(Name(p)) # Data(NewName(p))
    BY <2>1, <1>8, <1>9 DEF HeadPlaces
  <2>4. Only({Name(p), NewName(p)}) /\ (Adds({Data(NewName(p))}) \/ (cli[p].pc = "renameChain" /\ Adds({Chain(NewName(p))})))
    BY <1>1, <1>8, <1>9, <2>1, <2>2, <2>3, OnMove DEF HeadPlaces
  <2>5. {Data(NewName(p))} \subseteq MayAdd(p) /\ (cli[p].pc = "renameChain" => {Chain(NewName(p))} \subseteq MayAdd(p))
    BY <1>9 DEF MayAdd
  <2> QED
    BY <1>1, <1>7, <1>25, <2>1, <2>4, <2>5, Names DEF Renaming, HeadPlaces
<1>16. CASE New(p) \/ SetupData(p) \/ SetupCopy(p) \/ SetupImport(p) \/ SetupWrite(p) \/ SetupOptions(p)
  BY <1>5, <1>11, <1>16, <1>25 DEF New, SetupData, SetupCopy, SetupImport, SetupWrite, SetupOptions, Perform, Look, At, HeadPlaces
<1>17. CASE SetupBoot(p) \/ SetupRun(p) \/ SetupCleanup(p)
  <2>1. Has(p, "data") \in BOOLEAN
    BY DEF Has
  <2> QED
    BY <1>5, <1>10, <1>12, <1>14, <1>17, <1>25, <2>1 DEF SetupBoot, SetupRun, SetupCleanup, Boot, Perform, At, HeadPlaces
<1>18. CASE Start(p) \/ StartBoot(p) \/ StartRun(p) \/ Exec(p) \/ ExecBoot(p) \/ ExecRun(p)
  BY <1>5, <1>10, <1>13, <1>14, <1>18, <1>25
  DEF Start, StartBoot, StartRun, Exec, ExecBoot, ExecRun, Boot, Perform, Load, Look, At, HeadPlaces
<1>19. CASE StopChain(p) \/ StopStop(p) \/ StopRemove(p) \/ Rm(p) \/ RmRemove(p) \/ RmFile(p)
  <2>1. Has(p, "data") \in BOOLEAN
    BY DEF Has
  <2> QED
    BY <1>5, <1>12, <1>19, <1>25, <2>1 DEF StopChain, StopStop, StopRemove, Rm, RmRemove, RmFile, Perform, Look, At, HeadPlaces
<1>20. CASE RenameChain(p) \/ RenameWrite(p) \/ RenameFile(p) \/ Checkout(p) \/ HeadRead(p) \/ HeadWrite(p)
  BY <1>5, <1>20 DEF RenameChain, RenameWrite, RenameFile, Checkout, HeadRead, HeadWrite, Look
<1>21. CASE Update(p) \/ UpdateRebuild(p) \/ Register(p) \/ Import(p)
  BY <1>5, <1>12, <1>21, <1>25 DEF Update, UpdateRebuild, Register, Import, Perform, Load, Look, At, HeadPlaces
\* What make-genesis does has no bounds but that it adds little.
<1>22. \A A : Adds(A) /\ A \subseteq MayAdd(p) /\ cli[p].pc \in GenesisPlaces => World(p)
  BY <1>4 DEF World
<1>23. CASE Genesis(p) \/ GenesisBoot(p) \/ GenesisStart(p) \/ GenesisExecBoot(p) \/ GenesisExec(p)
  <2>1. ASSUME At(p, "genesisStart"), \E o \in Run(Chain(Default)) : containers' = o.left PROVE World(p)
    <3>1. Adds({Chain(Default)} \cup OtherThanChains)
      BY <1>1, <1>9, <2>1, OnRun
    <3>2. {Chain(Default)} \cup OtherThanChains \subseteq MayAdd(p)
      BY <2>1 DEF MayAdd, At
    <3> QED
      BY <1>22, <2>1, <3>1, <3>2 DEF At, GenesisPlaces
  <2>2. ASSUME At(p, "genesisExec"), \E o \in ExecOn(Chain(Default)) : containers' = o.left PROVE World(p)
    BY <1>1, <1>7, <1>9, <1>22, <2>2, OnExec DEF At, GenesisPlaces
  <2> QED
    BY <1>5, <1>10, <1>23, <2>1, <2>2 DEF Genesis, GenesisBoot, GenesisStart, GenesisExecBoot, GenesisExec, BootDefault,
       Perform, Look
<1>24. CASE CleanStop(p) \/ CleanRemove(p) \/ CleanDirs(p) \/ CleanService(p)
  <2>1. cli[p].pc \in GenesisPlaces
    BY <1>24 DEF CleanStop, CleanRemove, CleanDirs, CleanService, At, GenesisPlaces
  <2>2. ASSUME \E o \in Stop(containers, Chain(Default)) \cup Remove(containers, Chain(Default), TRUE)
                          \cup Rebuild(containers, Chain(Default), {}) : containers' = o.left
        PROVE  World(p)
    BY <1>1, <1>7, <1>9, <1>22, <2>1, <2>2, OnLess
  <2>3. ASSUME \E o \in RemoveNameless(containers, TRUE) : containers' = o.left PROVE World(p)
    BY <1>1, <1>7, <1>22, <2>1, <2>3, NamelessOutcome, AddingAdds
  <2> QED
    BY <1>5, <1>24, <2>2, <2>3 DEF CleanStop, CleanRemove, CleanDirs, CleanService, Perform
<1> QED
  BY <1>15, <1>16, <1>17, <1>18, <1>19, <1>20, <1>21, <1>23, <1>24 DEF Step

FilesOf(p) ==
  /\ files' \subseteq ChainNames /\ dirs' \subseteq ChainNames
  /\ head' \in Seq(ChainNames \cup {Blank}) /\ head' # <<>> /\ Len(head') <= MaxHead
  /\ cli[p].pc \notin GenesisPlaces =>
       \A x \in ChainNames \ Mine(p) : (x \in files <=> x \in files') /\ (x \in dirs <=> x \in dirs')
  /\ \A x \in files \ files' : x = Name(p) /\ cli[p].pc \in {"rmFile", "renameFile"}

LEMMA StepFiles == ASSUME ChainsInv, NEW p \in Procs, Step(p) PROVE FilesOf(p)
<1>1. /\ files \subseteq ChainNames /\ dirs \subseteq ChainNames /\ head \in Seq(ChainNames \cup {Blank}) /\ head # <<>>
      /\ Len(head) <= MaxHead
  BY DEF ChainsInv, TypeOK, HeadBounded
<1>2. UNCHANGED disk => FilesOf(p)
  BY <1>1 DEF disk, FilesOf
<1>3. cli[p].pc # "idle" => /\ NewName(p) \in ChainNames /\ NewName(p) \in Mine(p)
                            /\ cli[p].pc # "setupCleanup" => Name(p) \in Mine(p)
                            /\ cli[p].pc \notin HeadPlaces \cup {"setupCleanup"} => Name(p) \in ChainNames
  BY Names
<1>4. CASE New(p) \/ SetupCopy(p) \/ SetupWrite(p)
  BY <1>1, <1>3, <1>4 DEF New, SetupCopy, SetupWrite, FilesOf, At, HeadPlaces
<1>5. CASE RmFile(p) \/ RenameFile(p)
  BY <1>1, <1>3, <1>5 DEF RmFile, RenameFile, FilesOf, At, HeadPlaces
<1>6. CASE RenameWrite(p) \/ Import(p)
  BY <1>1, <1>3, <1>6 DEF RenameWrite, Import, FilesOf, At, HeadPlaces
<1>7. CASE CleanDirs(p)
  BY <1>1, <1>7 DEF CleanDirs, FilesOf, At, GenesisPlaces
<1>8. CASE HeadWrite(p)
  <2>1. At(p, "headWrite") /\ cli[p] \in Process /\ Fine(p, cli[p])
    BY <1>8 DEF HeadWrite, ChainsInv, CliOK, TypeOK
  <2>2. Name(p) \in ChainNames \cup {Blank} /\ cli[p].lines \in Seq(ChainNames \cup {Blank}) /\ Len(cli[p].lines) < MaxHead
    BY <2>1, Names DEF At, Process, Fine, Command
  <2>3. head' = <<Name(p)>> \o cli[p].lines /\ UNCHANGED <<files, dirs>>
    BY <1>8 DEF HeadWrite
  <2>4. head' \in Seq(ChainNames \cup {Blank}) /\ Len(head') = 1 + Len(cli[p].lines)
    BY <2>2, <2>3
  <2>5. head' # <<>> /\ Len(head') <= MaxHead
    BY <2>2, <2>4, ChainsAssumption DEF ChainsAssumption
  <2> QED
    BY <1>1, <2>3, <2>4, <2>5 DEF FilesOf
<1>9. CASE UNCHANGED disk
  BY <1>2, <1>9
<1>10. \/ New(p) \/ SetupCopy(p) \/ SetupWrite(p) \/ RmFile(p) \/ RenameFile(p) \/ RenameWrite(p) \/ Import(p)
       \/ CleanDirs(p) \/ HeadWrite(p) \/ UNCHANGED disk
  BY DEF Step, SetupData, SetupImport, SetupOptions, SetupBoot, SetupRun, SetupCleanup, Start, StartBoot, StartRun, Exec,
     ExecBoot, ExecRun, StopChain, StopStop, StopRemove, Rm, RmRemove, RenameChain, RenameContainer, RenameData, Update,
     UpdateRebuild, Register, Checkout, HeadRead, Genesis, GenesisBoot, GenesisStart, GenesisExecBoot, GenesisExec,
     CleanStop, CleanRemove, CleanService, Boot, BootDefault, Load, Look, Perform, disk
<1> QED
  BY <1>4, <1>5, <1>6, <1>7, <1>8, <1>9, <1>10

-----------------------------------------------------------------------------
\* The invariant

LEMMA InitInv == Init => ChainsInv
<1> SUFFICES ASSUME Init PROVE ChainsInv
  OBVIOUS
<1>1. Idle("none") \in Process /\ \A p \in Procs : Fine(p, Idle("none"))
  BY DEF Idle, Process, NoCommand, Labels, Results, Fine, HeadPlaces, GenesisPlaces, Renaming, Setting, Starting, Stopping, Removing
<1>2. head \in Seq(ChainNames \cup {Blank}) /\ head # <<>> /\ Len(head) = 1
  BY DEF Init
<1> QED
  BY <1>1, <1>2, ChainsAssumption DEF Init, ChainsInv, TypeOK, CliOK, HeadBounded, Containers, ChainsAssumption

LEMMA BeginInv == ASSUME ChainsInv, NEW p \in Procs, Begin(p) PROVE ChainsInv'
<1>1. PICK c \in Commands[p] :
        cli' = [cli EXCEPT ![p] = [Idle("none") EXCEPT !.pc = c.kind, !.cmd = c, !.name = c.name]]
  BY DEF Begin
<1>2. c \in Command /\ ChainNames \subseteq Shorts
  BY ChainsAssumption DEF ChainsAssumption
<1>3. c.kind \in Kinds /\ c.name \in Shorts \cup {Blank}
  BY <1>2 DEF Command
<1> DEFINE q == [Idle("none") EXCEPT !.pc = c.kind, !.cmd = c, !.name = c.name]
<1>4. Idle("none") \in Process
  BY DEF Idle, Process, Labels, Results
<1>5. q \in Process /\ q.pc = c.kind /\ q.cmd = c /\ q.name = c.name
  <2>1. c.kind \in Labels
    BY <1>3 DEF Kinds, Labels
  <2> QED
    BY <1>2, <1>3, <1>4, <2>1 DEF Process
<1>6. c # NoCommand
  BY <1>3 DEF NoCommand, Kinds
<1>7. Fine(p, q)
  BY <1>3, <1>5, <1>6 DEF Fine, HeadPlaces, GenesisPlaces, Renaming, Setting, Starting, Stopping, Removing, Kinds
<1>8. begun' \in 0..MaxCommands /\ UNCHANGED <<containers, disk>>
  BY ChainsAssumption DEF Begin, ChainsInv, TypeOK, ChainsAssumption
<1> HIDE DEF q
<1> QED
  BY <1>1, <1>5, <1>7, <1>8 DEF q, ChainsInv, TypeOK, CliOK, HeadBounded, disk

LEMMA StepInv ==
  ASSUME ChainsInv, NEW p \in Procs, Step(p)
  PROVE  ChainsInv' /\ World(p) /\ FilesOf(p) /\ Moves(p)
BY StepMoves, MovesFine, StepWorld, StepFiles DEF ChainsInv, TypeOK, HeadBounded, World, Adds, FilesOf

LEMMA ExitInv == ASSUME ChainsInv, NEW n \in Named, Exit(n) PROVE ChainsInv'
BY DEF ChainsInv, TypeOK, CliOK, HeadBounded, Exit, disk, Containers

LEMMA NextInv == ChainsInv /\ [Next]_vars => ChainsInv'
<1> SUFFICES ASSUME ChainsInv, [Next]_vars PROVE ChainsInv'
  OBVIOUS
<1>1. CASE UNCHANGED vars
  BY <1>1 DEF vars, ChainsInv, TypeOK, CliOK, HeadBounded
<1> QED
  BY <1>1, BeginInv, StepInv, ExitInv DEF Next

LEMMA Invariance == Spec => []ChainsInv
  BY InitInv, NextInv, PTL DEF Spec

\* Type correctness: every variable keeps its type.
THEOREM TypeCorrect == Spec => []TypeOK
<1>1. ChainsInv => TypeOK
  BY DEF ChainsInv
<1> QED
  BY Invariance, <1>1, PTL

\* The HEAD file never has more entries than ChangeHead keeps, although it is read
\* and written back without a lock (util/chains_info.go:53-85).
THEOREM HeadStaysBounded == Spec => []HeadBounded
<1>1. ChainsInv => HeadBounded
  BY DEF ChainsInv
<1> QED
  BY Invariance, <1>1, PTL

\* A command on one chain leaves all other chains alone, their containers, files
\* and directories, and at most starts the keys server, whatever fails and
\* whatever else runs (chains/operate.go,
\* chains/manage.go); make-genesis is the exception.
THEOREM ChainsStayIndependent == Spec => ChainsIndependent
<1>1. ASSUME ChainsInv, [Next]_vars, NEW p \in Procs, cli'[p] # cli[p], cli[p].cmd.kind \notin {"none", "genesis"}
      PROVE  OthersUntouched(p) /\ KeysOnlyStarted
  <2>1. Fine(p, cli[p])
    BY <1>1 DEF ChainsInv, CliOK
  <2>2. ~Begin(p)
    <3>1. NoCommand.kind = "none"
      BY DEF NoCommand
    <3> QED
      BY <1>1, <2>1, <3>1 DEF Begin, At, Fine
  <2>3. \A q \in Procs : Begin(q) /\ q # p => cli'[p] = cli[p]
    BY <1>1 DEF Begin, ChainsInv, TypeOK
  <2>4. \A q \in Procs : Step(q) /\ q # p => cli'[p] = cli[p]
    BY <1>1, StepMoves, MovesFine
  <2>5. \A n \in Named : Exit(n) => cli' = cli
    BY DEF Exit
  <2>6. Step(p)
    BY <1>1, <2>2, <2>3, <2>4, <2>5 DEF Next, vars
  <2>7. World(p) /\ FilesOf(p) /\ cli[p].pc \notin GenesisPlaces
    BY <1>1, <2>1, <2>6, StepInv DEF Fine
  <2>8. Own(p) \subseteq Mine(p) \cup {Keys}
    <3>1. cli[p].pc # "idle"
      BY <1>1, <2>1 DEF Fine, NoCommand
    <3> QED
      BY <1>1, <3>1, Names DEF Own
  <2> QED
    BY <2>7, <2>8 DEF World, FilesOf, Only, OthersUntouched
<1>2. ChainsInv /\ [Next]_vars =>
        [\A p \in Procs : cli'[p] # cli[p] /\ cli[p].cmd.kind \notin {"none", "genesis"} =>
           OthersUntouched(p) /\ KeysOnlyStarted]_vars
  BY <1>1
<1> QED
  BY Invariance, <1>2, PTL DEF Spec, ChainsIndependent

-----------------------------------------------------------------------------
\* When no two processes work on the same chain

\* The chains whose containers and definitions a command may make or remove.
Works(c) ==
  CASE c.kind = "checkout" -> {}
    [] c.kind = "genesis"  -> {Default}
    [] c.kind = "rename"   -> {c.name, c.to}
    [] OTHER               -> {c.name}

Disjoint ==
  \A p, q \in Procs : p # q => \A c \in Commands[p], d \in Commands[q] : Works(c) \cap Works(d) = {}

\* A process that has loaded or written a definition still finds it, and the
\* container it has removed or renamed has not come back.
Settled(p) ==
  /\ cli[p].pc \in {"setupOptions", "setupBoot", "setupRun", "startBoot", "startRun", "renameChain", "renameWrite"} =>
       Name(p) \in files
  /\ cli[p].pc \in {"renameData", "renameFile"} => NewName(p) \in files
  /\ cli[p].pc \in {"renameWrite", "renameData", "renameFile", "rmFile"} => containers[Chain(Name(p))] = "none"
  /\ cli[p].pc = "genesisStart" => Default \in files

KnownInv == ChainsInv /\ Reachable /\ \A p \in Procs : Settled(p)

\* The names a process works with are those of its command.
LEMMA WorksOf ==
  ASSUME ChainsInv, NEW p \in Procs, cli[p].pc # "idle"
  PROVE  /\ cli[p].cmd \in Commands[p]
         /\ cli[p].pc \notin HeadPlaces \cup GenesisPlaces \cup {"setupCleanup"} => Name(p) \in Works(cli[p].cmd)
         /\ cli[p].pc \in Renaming => NewName(p) \in Works(cli[p].cmd)
         /\ cli[p].pc \in GenesisPlaces => Default \in Works(cli[p].cmd)
<1>1. Fine(p, cli[p])
  BY DEF ChainsInv, CliOK
<1>2. cli[p].pc # "setupCleanup" => Name(p) = cli[p].cmd.name
  BY Names
<1> QED
  BY <1>1, <1>2 DEF Fine, Works, Name, NewName, HeadPlaces, GenesisPlaces, Renaming, Setting, Starting, Stopping, Removing

\* A step of another process leaves what a process relies on.
LEMMA OthersSettled ==
  ASSUME Disjoint, KnownInv, NEW p \in Procs, Step(p), NEW q \in Procs \ {p}
  PROVE  Settled(q)' /\ cli'[q] = cli[q]
<1>1. World(p) /\ FilesOf(p) /\ cli'[q] = cli[q] /\ ChainsInv
  BY StepInv, MovesFine DEF KnownInv
<1>2. CASE cli[q].pc = "idle"
  BY <1>1, <1>2 DEF Settled
<1>3. CASE cli[q].pc # "idle"
  <2>1. cli[p].pc # "idle" => Works(cli[p].cmd) \cap Works(cli[q].cmd) = {}
    BY <1>1, <1>3, WorksOf DEF Disjoint
  <2>2. \A x \in Works(cli[q].cmd) : x \in files => x \in files'
    <3>1. ASSUME NEW x \in files \ files' PROVE cli[p].pc # "idle" /\ x \in Works(cli[p].cmd)
      <4>1. x = Name(p) /\ cli[p].pc \in {"rmFile", "renameFile"}
        BY <1>1, <3>1 DEF FilesOf
      <4> QED
        BY <1>1, <4>1, WorksOf DEF HeadPlaces, GenesisPlaces
    <3> QED
      BY <2>1, <3>1
  <2>3. \A x \in Works(cli[q].cmd) \cap ChainNames : containers[Chain(x)] = "none" => containers'[Chain(x)] = "none"
    <3>1. ASSUME NEW x \in ChainNames, containers[Chain(x)] = "none", containers'[Chain(x)] # "none"
          PROVE  cli[p].pc # "idle" /\ x \in Works(cli[p].cmd)
      <4>1. ChainNames \subseteq Shorts /\ 1 \in Numbers
        BY ChainsAssumption DEF ChainsAssumption
      <4>2. Chain(x) \in Named /\ Chain(x).short = x /\ Chain(x) \notin OtherThanChains
        BY <4>1, Assembled DEF OtherThanChains
      <4>3. Chain(x) \in MayAdd(p)
        BY <1>1, <3>1, <4>2 DEF World, Adds
      <4>4. \A y, z : Chain(y) = Chain(z) => y = z
        BY DEF Chain, ContainerAssemble
      <4>5. \/ cli[p].pc \in {"setupRun", "startRun"} /\ x = Name(p)
            \/ cli[p].pc = "renameChain" /\ x = NewName(p)
            \/ cli[p].pc = "genesisStart" /\ x = Default
        BY <4>2, <4>3, <4>4 DEF MayAdd
      <4> QED
        BY <1>1, <4>5, WorksOf DEF HeadPlaces, GenesisPlaces, Renaming, Setting, Starting, Stopping, Removing
    <3> QED
      BY <2>1, <3>1
  <2>4. /\ cli[q].pc \notin HeadPlaces \cup GenesisPlaces \cup {"setupCleanup"} =>
             Name(q) \in Works(cli[q].cmd) \cap ChainNames
        /\ cli[q].pc \in Renaming => NewName(q) \in Works(cli[q].cmd)
        /\ cli[q].pc \in GenesisPlaces => Default \in Works(cli[q].cmd)
    BY <1>1, <1>3, WorksOf, Names
  <2>5. Name(q)' = Name(q) /\ NewName(q)' = NewName(q)
    BY <1>1 DEF Name, NewName
  <2>6. Settled(q)
    BY DEF KnownInv
  <2> QED
    BY <1>1, <2>2, <2>3, <2>4, <2>5, <2>6 DEF Settled, HeadPlaces, GenesisPlaces, Renaming, Setting, Starting, Stopping, Removing
<1> QED
  BY <1>1, <1>2, <1>3

LEMMA MoveEmpties ==
  ASSUME containers \in Containers, NEW n \in Named, NEW to \in Named, n # to, NEW o \in Move(n, to), o.ok
  PROVE  o.left[n] = "none"
<1>1. o \in Rename(containers, n, to, LinkedTo(n))
  BY DEF Move
<1> QED
  BY <1>1, RenameOutcome

\* A rename that fails adds nothing, one that succeeds moves.
LEMMA RenameContainerMoves ==
  ASSUME ChainsInv, NEW p \in Procs, RenameContainer(p)
  PROVE  \/ (cli'[p] = [cli[p] EXCEPT !.pc = "renameWrite"] /\ containers'[Chain(Name(p))] = "none")
         \/ (cli'[p].pc = "idle" /\ Adds({}))
<1>1. cli[p].pc = "renameChain" /\ Name(p) # NewName(p) /\ cli \in [Procs -> Process] /\ containers \in Containers
  BY DEF RenameContainer, At, ChainsInv, TypeOK, CliOK, Fine, Renaming, Name, NewName
<1>2. Chain(Name(p)) \in Named /\ Chain(NewName(p)) \in Named /\ Chain(Name(p)) # Chain(NewName(p))
  BY <1>1, Names, Assembled DEF HeadPlaces
<1>3. PICK o \in Move(Chain(Name(p)), Chain(NewName(p))) :
        /\ containers' = o.left
        /\ IF o.ok THEN Goto(p, "renameWrite") ELSE End(p, "err")
  BY DEF RenameContainer, Perform
<1>4. CASE o.ok
  <2>1. o.left[Chain(Name(p))] = "none"
    BY <1>1, <1>2, <1>3, <1>4, MoveEmpties
  <2>2. cli'[p] = [cli[p] EXCEPT !.pc = "renameWrite"]
    BY <1>1, <1>3, <1>4 DEF Goto
  <2> QED
    BY <1>3, <2>1, <2>2
<1>5. CASE ~o.ok
  <2>1. o \in Adding(containers, {})
    BY <1>1, <1>2, <1>3, <1>5, RenameOutcome DEF Move
  <2>2. cli'[p].pc = "idle"
    BY <1>1, <1>3, <1>5 DEF End, Idle
  <2> QED
    BY <1>3, <2>1, <2>2, AddingAdds
<1> QED
  BY <1>4, <1>5

\* What a step of the process does to what it relies on itself.
LEMMA OwnSettled == ASSUME KnownInv, NEW p \in Procs, Step(p) PROVE Settled(p)'
<1>1. ChainsInv /\ Settled(p) /\ cli[p] \in Process /\ cli \in [Procs -> Process] /\ containers \in Containers
  BY DEF KnownInv, ChainsInv, TypeOK
<1>2. ASSUME NEW r \in Results, End(p, r) PROVE Settled(p)'
  <2>1. cli'[p].pc = "idle"
    BY <1>1, <1>2 DEF End, Idle
  <2> QED
    BY <2>1 DEF Settled
<1>3. ASSUME NEW l \in Labels, Goto(p, l)
      PROVE  cli'[p].pc = l /\ Name(p)' = Name(p) /\ NewName(p)' = NewName(p)
  BY <1>1, <1>3 DEF Goto, Process, Name, NewName
<1> DEFINE Quiet == {"setupData", "setupCopy", "setupImport", "setupWrite", "setupCleanup", "execBoot", "execRun",
                     "stopStop", "stopRemove", "rmRemove", "updateRebuild", "headRead", "genesisBoot", "genesisExecBoot",
                     "genesisExec", "cleanStop", "cleanRemove", "cleanDirs", "cleanService"}
<1>4. ASSUME NEW l \in Quiet, Goto(p, l) PROVE Settled(p)'
  BY <1>3, <1>4 DEF Settled, Labels
<1>5. ASSUME NEW l \in {"setupBoot", "setupRun", "startBoot", "startRun", "renameChain"}, Goto(p, l), UNCHANGED files,
             Name(p) \in files
      PROVE  Settled(p)'
  BY <1>3, <1>5 DEF Settled, Labels
<1>6. CASE New(p) \/ SetupData(p) \/ SetupCopy(p) \/ SetupImport(p) \/ Exec(p) \/ ExecBoot(p) \/ ExecRun(p)
  BY <1>2, <1>4, <1>6 DEF New, SetupData, SetupCopy, SetupImport, Exec, ExecBoot, ExecRun, Boot, Load, Look, Perform, Results
<1>7. CASE SetupWrite(p)
  <2>1. Goto(p, "setupOptions") /\ Name(p) \in files'
    BY <1>7 DEF SetupWrite
  <2> QED
    BY <1>3, <2>1 DEF Settled, Labels
<1>8. CASE SetupOptions(p) \/ SetupRun(p) \/ SetupCleanup(p) \/ StartRun(p)
  BY <1>1, <1>2, <1>4, <1>5, <1>8 DEF SetupOptions, SetupRun, SetupCleanup, StartRun, Look, Perform, disk, At, Settled, Results
<1>9. CASE SetupBoot(p)
  <2>1. ASSUME cli' = [cli EXCEPT ![p].pc = "setupCleanup", ![p].name = Keys] PROVE Settled(p)'
    <3>1. cli'[p].pc = "setupCleanup"
      BY <1>1, <2>1 DEF Process
    <3> QED
      BY <3>1 DEF Settled
  <2> QED
    BY <1>1, <1>5, <1>9, <2>1 DEF SetupBoot, Boot, Perform, disk, At, Settled
<1>10. CASE Start(p) \/ StartBoot(p)
  BY <1>1, <1>2, <1>5, <1>10 DEF Start, StartBoot, Boot, Load, Look, Perform, disk, At, Settled, Results
<1>11. CASE StopChain(p) \/ StopStop(p) \/ StopRemove(p) \/ RmFile(p)
  BY <1>2, <1>4, <1>11 DEF StopChain, StopStop, StopRemove, RmFile, Look, Perform, Results
<1>12. CASE Rm(p) \/ RmRemove(p)
  <2>1. ASSUME Goto(p, "rmFile"), containers'[Chain(Name(p))] = "none" PROVE Settled(p)'
    BY <1>3, <2>1 DEF Settled, Labels
  <2>2. CASE Rm(p)
    BY <1>2, <1>4, <2>1, <2>2 DEF Rm, Look, Exists, Results
  <2>3. CASE RmRemove(p)
    <3>1. Chain(Name(p)) \in Named /\ Has(p, "data") \in BOOLEAN
      BY <1>1, <2>3, Names, Assembled DEF RmRemove, At, HeadPlaces, Has
    <3>2. \A o \in Remove(containers, Chain(Name(p)), Has(p, "data")) : o.ok => o.left[Chain(Name(p))] = "none"
      BY <1>1, <3>1, RemoveOutcome
    <3>3. PICK o \in Remove(containers, Chain(Name(p)), Has(p, "data")) :
            /\ containers' = o.left
            /\ IF o.ok THEN Goto(p, "rmFile") ELSE End(p, "err")
      BY <2>3 DEF RmRemove, Perform
    <3>4. o.ok => containers'[Chain(Name(p))] = "none"
      BY <3>2, <3>3
    <3> QED
      BY <1>2, <2>1, <3>3, <3>4 DEF Results
  <2> QED
    BY <1>12, <2>2, <2>3
<1>13. CASE RenameContainer(p)
  <2>1. CASE cli'[p] = [cli[p] EXCEPT !.pc = "renameWrite"] /\ containers'[Chain(Name(p))] = "none"
    <3>1. cli'[p].pc = "renameWrite" /\ Name(p)' = Name(p)
      BY <1>1, <2>1 DEF Process, Name
    <3>2. Name(p) \in files /\ files' = files
      BY <1>1, <1>13 DEF RenameContainer, At, Settled, Perform, disk
    <3> QED
      BY <2>1, <3>1, <3>2 DEF Settled
  <2>2. CASE cli'[p].pc = "idle"
    BY <2>2 DEF Settled
  <2> QED
    BY <1>1, <1>13, <2>1, <2>2, RenameContainerMoves
<1>14. CASE RenameChain(p) \/ RenameFile(p)
  BY <1>2, <1>5, <1>14 DEF RenameChain, RenameFile, Look, disk, Results
<1>15. CASE RenameWrite(p)
  <2>1. ASSUME Goto(p, "renameData"), NewName(p) \in files', UNCHANGED containers, cli[p].pc = "renameWrite" PROVE Settled(p)'
    BY <1>1, <1>3, <2>1 DEF Settled, Labels
  <2> QED
    BY <1>2, <1>15, <2>1 DEF RenameWrite, At, Results
<1>16. CASE RenameData(p)
  <2>1. cli[p].pc = "renameData" /\ UNCHANGED files
    BY <1>16 DEF RenameData, At, Perform, disk
  <2>2. containers'[Chain(Name(p))] = "none"
    <3>1. World(p) /\ Chain(Name(p)) \in Named /\ Chain(Name(p)) \notin MayAdd(p)
      BY <1>1, <2>1, StepWorld, Names, Assembled DEF HeadPlaces, MayAdd, OtherThanChains
    <3> QED
      BY <1>1, <2>1, <3>1 DEF World, Adds, Settled
  <2>3. ASSUME Goto(p, "renameFile") PROVE Settled(p)'
    BY <1>1, <1>3, <2>1, <2>2, <2>3 DEF Settled, Labels
  <2> QED
    BY <1>2, <1>16, <2>3 DEF RenameData, Perform, Results
<1>17. CASE Update(p) \/ UpdateRebuild(p) \/ Register(p) \/ Import(p) \/ Checkout(p) \/ HeadWrite(p)
  BY <1>2, <1>4, <1>17 DEF Update, UpdateRebuild, Register, Import, Checkout, HeadWrite, Load, Look, Perform, Results
<1>18. CASE HeadRead(p)
  <2>1. cli'[p].pc = "headWrite"
    BY <1>1, <1>18 DEF HeadRead, Process
  <2> QED
    BY <2>1 DEF Settled
<1>19. ASSUME NEW b \in BOOLEAN, cli' = [cli EXCEPT ![p].pc = "cleanStop", ![p].again = b] PROVE Settled(p)'
  <2>1. cli'[p].pc = "cleanStop"
    BY <1>1, <1>19 DEF Process
  <2> QED
    BY <2>1 DEF Settled
<1>20. CASE Genesis(p) \/ GenesisStart(p) \/ GenesisExecBoot(p) \/ GenesisExec(p)
  BY <1>2, <1>4, <1>19, <1>20 DEF Genesis, GenesisStart, GenesisExecBoot, GenesisExec, BootDefault, CleanTwice, Look, Perform, Results
<1>21. CASE GenesisBoot(p)
  <2>1. ASSUME Goto(p, "genesisStart"), UNCHANGED files, Default \in files PROVE Settled(p)'
    BY <1>3, <2>1 DEF Settled, Labels
  <2> QED
    BY <1>2, <1>4, <1>21, <2>1 DEF GenesisBoot, BootDefault, Perform, disk, Results
<1>22. CASE CleanStop(p) \/ CleanRemove(p) \/ CleanDirs(p) \/ CleanService(p)
  BY <1>2, <1>4, <1>19, <1>22 DEF CleanStop, CleanRemove, CleanDirs, CleanService, Perform, Results
<1> HIDE DEF Quiet
<1> QED
  BY <1>6, <1>7, <1>8, <1>9, <1>10, <1>11, <1>12, <1>13, <1>14, <1>15, <1>16, <1>17, <1>18, <1>20, <1>21, <1>22 DEF Step

\* The steps a process has at a place.
LEMMA StepsAt ==
  ASSUME NEW p \in Procs, Step(p)
  PROVE  /\ cli[p].pc \in Setting =>
              \/ New(p) \/ SetupData(p) \/ SetupCopy(p) \/ SetupImport(p) \/ SetupWrite(p) \/ SetupOptions(p)
              \/ SetupBoot(p) \/ SetupRun(p) \/ SetupCleanup(p)
         /\ cli[p].pc \in Starting => Start(p) \/ StartBoot(p) \/ StartRun(p)
         /\ cli[p].pc \in Stopping => StopChain(p) \/ StopStop(p) \/ StopRemove(p)
         /\ cli[p].pc \in Removing => Rm(p) \/ RmRemove(p) \/ RmFile(p)
         /\ cli[p].pc = "renameChain" => RenameContainer(p)
         /\ cli[p].pc = "renameWrite" => RenameWrite(p)
<1> USE DEF At, Boot, BootDefault, Load, Look
<1> DEFINE Rest == {"exec", "execBoot", "execRun", "rename", "renameData", "renameFile", "update", "updateRebuild",
                    "register", "import"} \cup HeadPlaces \cup GenesisPlaces
<1>1. New(p) \/ SetupData(p) \/ SetupCopy(p) \/ SetupImport(p) \/ SetupWrite(p) \/ SetupOptions(p)
        \/ SetupBoot(p) \/ SetupRun(p) \/ SetupCleanup(p) => cli[p].pc \in Setting
  BY DEF New, SetupData, SetupCopy, SetupImport, SetupWrite, SetupOptions, SetupBoot, SetupRun, SetupCleanup, Setting
<1>2. /\ Start(p) \/ StartBoot(p) \/ StartRun(p) => cli[p].pc \in Starting
      /\ Exec(p) \/ ExecBoot(p) \/ ExecRun(p) => cli[p].pc \in Rest
  BY DEF Start, StartBoot, StartRun, Exec, ExecBoot, ExecRun, Starting
<1>3. /\ StopChain(p) \/ StopStop(p) \/ StopRemove(p) => cli[p].pc \in Stopping
      /\ Rm(p) \/ RmRemove(p) \/ RmFile(p) => cli[p].pc \in Removing
  BY DEF StopChain, StopStop, StopRemove, Rm, RmRemove, RmFile, Stopping, Removing
<1>4. RenameChain(p) \/ RenameData(p) \/ RenameFile(p) \/ Update(p) \/ UpdateRebuild(p) \/ Register(p) \/ Import(p)
        => cli[p].pc \in Rest
  BY DEF RenameChain, RenameData, RenameFile, Update, UpdateRebuild, Register, Import
<1>5. Checkout(p) \/ HeadRead(p) \/ HeadWrite(p) \/ Genesis(p) \/ GenesisBoot(p) \/ GenesisStart(p)
        \/ GenesisExecBoot(p) \/ GenesisExec(p) => cli[p].pc \in Rest
  BY DEF Checkout, HeadRead, HeadWrite, Genesis, GenesisBoot, GenesisStart, GenesisExecBoot, GenesisExec,
         HeadPlaces, GenesisPlaces
<1>6. CleanStop(p) \/ CleanRemove(p) \/ CleanDirs(p) \/ CleanService(p) => cli[p].pc \in Rest
  BY DEF CleanStop, CleanRemove, CleanDirs, CleanService, GenesisPlaces
<1>7. RenameContainer(p) => cli[p].pc = "renameChain"
  BY DEF RenameContainer
<1>8. RenameWrite(p) => cli[p].pc = "renameWrite"
  BY DEF RenameWrite
<1>9. \A l \in Rest : l \notin Setting \cup Starting \cup Stopping \cup Removing \cup {"renameChain", "renameWrite"}
  BY DEF HeadPlaces, GenesisPlaces, Setting, Starting, Stopping, Removing
<1> HIDE DEF Rest
<1> QED
  BY <1>1, <1>2, <1>3, <1>4, <1>5, <1>6, <1>7, <1>8, <1>9 DEF Step, Setting, Starting, Stopping, Removing

LEMMA StepReachable == ASSUME KnownInv, NEW p \in Procs, Step(p) PROVE Reachable'
<1> SUFFICES ASSUME NEW x \in ChainNames, containers'[Chain(x)] # "none", x \notin files'
             PROVE  \E q \in Procs : cli'[q].pc = "renameWrite" /\ cli'[q].cmd.to = x
  BY DEF Reachable, Exists, At, NewName
<1>1. World(p) /\ FilesOf(p) /\ ChainsInv /\ Settled(p) /\ Reachable /\ cli[p] \in Process
      /\ \A q \in Procs \ {p} : cli'[q] = cli[q]
  BY StepInv, MovesFine DEF KnownInv, ChainsInv, TypeOK
<1>2. Chain(x) \in Named /\ Chain(x) \notin OtherThanChains /\ \A y : Chain(y) = Chain(x) => y = x
  <2>1. x \in Shorts /\ 1 \in Numbers
    BY ChainsAssumption DEF ChainsAssumption
  <2> QED
    BY <2>1, Assembled DEF OtherThanChains, Chain, ContainerAssemble
<1>3. x \in files => x = Name(p) /\ cli[p].pc \in {"rmFile", "renameFile"}
  BY <1>1 DEF FilesOf
<1>4. CASE containers[Chain(x)] # "none"
  <2>1. x \notin files
    BY <1>1, <1>3, <1>4 DEF Settled
  <2>2. PICK q \in Procs : cli[q].pc = "renameWrite" /\ cli[q].cmd.to = x
    BY <1>1, <1>4, <2>1 DEF Reachable, Exists, At, NewName
  <2>3. q # p
    BY <1>1, <2>2, StepsAt DEF RenameWrite, Settled, NewName
  <2> QED
    BY <1>1, <2>2, <2>3
<1>5. CASE containers[Chain(x)] = "none"
  <2>1. Chain(x) \in MayAdd(p)
    BY <1>1, <1>2, <1>5 DEF World, Adds
  <2>2. \/ cli[p].pc \in {"setupRun", "startRun"} /\ x = Name(p)
        \/ cli[p].pc = "renameChain" /\ x = NewName(p)
        \/ cli[p].pc = "genesisStart" /\ x = Default
    BY <1>2, <2>1 DEF MayAdd
  <2>3. cli[p].pc = "renameChain" /\ x = NewName(p)
    BY <1>1, <1>3, <2>2 DEF Settled
  <2>4. cli'[p] = [cli[p] EXCEPT !.pc = "renameWrite"]
    BY <1>1, <1>2, <1>5, <2>3, StepsAt, RenameContainerMoves DEF Adds
  <2>5. cli'[p].pc = "renameWrite" /\ cli'[p].cmd.to = x
    BY <1>1, <2>3, <2>4 DEF Process, NewName
  <2> QED
    BY <2>5
<1> QED
  BY <1>4, <1>5

LEMMA KnownInit == Init => KnownInv
<1> SUFFICES ASSUME Init PROVE KnownInv
  OBVIOUS
<1>1. \A x \in ChainNames : containers[Chain(x)] = "none"
  <2>1. \A x \in ChainNames : Chain(x) \in Named
    BY Assembled, ChainsAssumption DEF ChainsAssumption
  <2> QED
    BY <2>1 DEF Init
<1>2. \A p \in Procs : cli[p].pc = "idle"
  BY DEF Init, Idle
<1> QED
  BY <1>1, <1>2, InitInv DEF KnownInv, Reachable, Settled, Exists

LEMMA KnownNext == ASSUME Disjoint, KnownInv, [Next]_vars PROVE KnownInv'
<1>1. ChainsInv'
  BY NextInv DEF KnownInv
<1>2. CASE UNCHANGED vars
  BY <1>1, <1>2 DEF vars, KnownInv, Reachable, Settled, Exists, At, Name, NewName
<1>3. ASSUME NEW p \in Procs, Step(p) PROVE KnownInv'
  <2>1. \A q \in Procs : Settled(q)'
    BY <1>3, OthersSettled, OwnSettled
  <2> QED
    BY <1>1, <1>3, <2>1, StepReachable DEF KnownInv
<1>4. ASSUME NEW p \in Procs, Begin(p) PROVE KnownInv'
  <2>1. /\ cli'[p].pc \in Kinds /\ cli[p].pc = "idle"
        /\ \A q \in Procs \ {p} : cli'[q] = cli[q]
        /\ UNCHANGED <<containers, files>>
    <3>1. PICK c \in Commands[p] :
            cli' = [cli EXCEPT ![p] = [Idle("none") EXCEPT !.pc = c.kind, !.cmd = c, !.name = c.name]]
      BY <1>4 DEF Begin
    <3>2. cli \in [Procs -> Process] /\ c.kind \in Kinds
      BY ChainsAssumption DEF KnownInv, ChainsInv, TypeOK, ChainsAssumption, Command
    <3>3. cli'[p].pc = c.kind
      BY <3>1, <3>2 DEF Idle
    <3> QED
      BY <1>4, <3>1, <3>2, <3>3 DEF Begin, At, disk
  <2>2. Settled(p)'
    BY <2>1 DEF Settled, Kinds
  <2>3. \A q \in Procs \ {p} : Settled(q)'
    BY <2>1 DEF KnownInv, Settled, Name, NewName
  <2>4. Reachable'
    BY <2>1 DEF KnownInv, Reachable, Exists, At, NewName
  <2> QED
    BY <1>1, <2>2, <2>3, <2>4 DEF KnownInv
<1>5. ASSUME NEW n \in Named, Exit(n) PROVE KnownInv'
  <2>1. /\ \A x \in ChainNames : containers'[Chain(x)] = "none" <=> containers[Chain(x)] = "none"
        /\ UNCHANGED <<cli, files>>
    <3>1. \A x \in ChainNames : Chain(x) \in Named
      BY Assembled, ChainsAssumption DEF ChainsAssumption
    <3> QED
      BY <1>5, <3>1 DEF Exit, disk, Running, KnownInv, ChainsInv, TypeOK, Containers
  <2>2. \A p \in Procs : cli[p].pc \in {"renameWrite", "renameData", "renameFile", "rmFile"} => Name(p) \in ChainNames
    BY Names DEF KnownInv, HeadPlaces, Command, Mine
  <2>3. \A p \in Procs : Settled(p)'
    BY <2>1, <2>2 DEF KnownInv, Settled, Name, NewName
  <2> QED
    BY <1>1, <2>1, <2>3 DEF KnownInv, Reachable, Exists, At, NewName
<1> QED
  BY <1>2, <1>3, <1>4, <1>5 DEF Next

LEMMA KnownInvariance == ASSUME Disjoint PROVE Spec => []KnownInv
<1>1. KnownInv /\ [Next]_vars => KnownInv'
  BY KnownNext
<1> QED
  BY KnownInit, <1>1, PTL DEF Spec

\* If no two processes are given commands on the same chain, a chain that has a
\* container has a definition by which it can be stopped and removed, whatever the
\* daemon refuses (chains/operate.go, chains/manage.go).
THEOREM StaysReachable == ASSUME Disjoint PROVE Spec => []Reachable
<1>1. KnownInv => Reachable
  BY DEF KnownInv
<1> QED
  BY KnownInvariance, <1>1, PTL

-----------------------------------------------------------------------------
\* What a process reports

\* Where a command can end well.
LEMMA EndsWell ==
  ASSUME ChainsInv, NEW p \in Procs, Step(p), cli[p].pc # "idle", cli'[p].pc = "idle", cli'[p].res = "ok"
  PROVE  /\ cli[p].cmd.kind = "new" => SetupRun(p)
         /\ cli[p].cmd.kind = "start" => StartRun(p)
         /\ cli[p].cmd.kind = "stop" => StopChain(p) \/ StopStop(p) \/ StopRemove(p)
         /\ cli[p].cmd.kind = "rm" => RmFile(p)
<1>1. Fine(p, cli[p]) /\ cli \in [Procs -> Process]
  BY DEF ChainsInv, CliOK, TypeOK
<1>2. \A l : Goto(p, l) => l = "idle"
  BY <1>1 DEF Goto, Process
<1>3. \A r : End(p, r) => r = "ok"
  BY <1>1 DEF End, Idle
<1>4. ASSUME cli[p].cmd.kind = "new" PROVE SetupRun(p)
  <2>1. ~(New(p) \/ SetupData(p) \/ SetupCopy(p) \/ SetupImport(p) \/ SetupWrite(p) \/ SetupOptions(p) \/ SetupCleanup(p))
    BY <1>2, <1>3 DEF New, SetupData, SetupCopy, SetupImport, SetupWrite, SetupOptions, SetupCleanup, Look, Perform
  <2>2. ~SetupBoot(p)
    BY <1>1, <1>2 DEF SetupBoot, Boot, Perform, Process
  <2> QED
    BY <1>1, <1>4, <2>1, <2>2, StepsAt DEF Fine
<1>5. ASSUME cli[p].cmd.kind = "start" PROVE StartRun(p)
  <2>1. ~(Start(p) \/ StartBoot(p))
    BY <1>2, <1>3 DEF Start, StartBoot, Boot, Load, Look, Perform
  <2> QED
    BY <1>1, <1>5, <2>1, StepsAt DEF Fine
<1>6. ASSUME cli[p].cmd.kind = "rm" PROVE RmFile(p)
  <2>1. ~(Rm(p) \/ RmRemove(p))
    BY <1>2, <1>3 DEF Rm, RmRemove, Look, Perform
  <2> QED
    BY <1>1, <1>6, <2>1, StepsAt DEF Fine
<1> QED
  BY <1>1, <1>4, <1>5, <1>6, StepsAt DEF Fine

\* The process whose command ends has made the step.
LEMMA EndsByStep ==
  ASSUME ChainsInv, [Next]_vars, NEW p \in Procs, cli[p].pc # "idle", cli'[p].pc = "idle"
  PROVE  Step(p)
<1>1. \A q \in Procs : Begin(q) => q # p /\ cli'[p] = cli[p]
  BY DEF Begin, At, ChainsInv, TypeOK
<1>2. \A q \in Procs : Step(q) /\ q # p => cli'[p] = cli[p]
  BY StepMoves, MovesFine
<1> QED
  BY <1>1, <1>2 DEF Next, Exit, vars

LEMMA RunsWell ==
  ASSUME ChainsInv, NEW p \in Procs, SetupRun(p) \/ StartRun(p), cli'[p].pc = "idle", cli'[p].res = "ok"
  PROVE  /\ containers'[Chain(cli[p].cmd.name)] = "running" /\ Name(p) = cli[p].cmd.name
         /\ UNCHANGED files
<1>1. cli[p].pc \in {"setupRun", "startRun"} /\ cli \in [Procs -> Process] /\ containers \in Containers
  BY DEF SetupRun, StartRun, At, ChainsInv, TypeOK
<1>2. Chain(Name(p)) \in Named /\ Name(p) = cli[p].cmd.name
  BY <1>1, Names, Assembled DEF HeadPlaces
<1>3. \A o \in Run(Chain(Name(p))) : o.ok => o.left[Chain(Name(p))] = "running"
  BY <1>1, <1>2, RunServiceOutcome DEF Run
<1>4. \E o \in Run(Chain(Name(p))) : containers' = o.left /\ o.ok
  BY <1>1 DEF SetupRun, StartRun, Perform, Goto, End, Idle, Process
<1> QED
  BY <1>2, <1>3, <1>4 DEF SetupRun, StartRun, Perform, disk

\* If no two processes are given commands on the same chain: a chain that new
\* reports as made runs and has its definition, and after a failure and a clean-up
\* without an error there is no container of it (chains/operate.go:26-49 and 211-396).
THEOREM NewIsAllOrNothing == ASSUME Disjoint PROVE Spec => NewAllOrNothing
<1>1. ASSUME KnownInv, [Next]_vars, NEW p \in Procs, cli[p].cmd.kind = "new", Ends(p, "ok")
      PROVE  containers'[Chain(cli[p].cmd.name)] = "running" /\ cli[p].cmd.name \in files'
  <2>1. SetupRun(p)
    <3>1. ChainsInv /\ Step(p) /\ cli[p].pc # "idle" /\ cli'[p].pc = "idle" /\ cli'[p].res = "ok"
      BY <1>1, EndsByStep DEF KnownInv, Ends, At
    <3> QED
      BY <1>1, <3>1, EndsWell
  <2>2. Name(p) \in files
    BY <1>1, <2>1 DEF SetupRun, At, KnownInv, Settled
  <2> QED
    BY <1>1, <2>1, <2>2, RunsWell DEF KnownInv, Ends
<1>2. ASSUME KnownInv, [Next]_vars, NEW p \in Procs, At(p, "setupCleanup"), Ends(p, "err")
      PROVE  containers'[Chain(cli[p].cmd.name)] = "none"
  <2>1. SetupCleanup(p)
    <3>1. Step(p) /\ cli[p].pc = "setupCleanup"
      BY <1>2, EndsByStep DEF KnownInv, Ends, At
    <3>2. ~(New(p) \/ SetupData(p) \/ SetupCopy(p) \/ SetupImport(p) \/ SetupWrite(p) \/ SetupOptions(p)
            \/ SetupBoot(p) \/ SetupRun(p))
      BY <3>1 DEF New, SetupData, SetupCopy, SetupImport, SetupWrite, SetupOptions, SetupBoot, SetupRun, Boot, Look, At
    <3> QED
      BY <3>1, <3>2, StepsAt DEF Setting
  <2>2. cli \in [Procs -> Process] /\ containers \in Containers /\ files \subseteq ChainNames /\ Fine(p, cli[p])
    BY <1>2 DEF KnownInv, ChainsInv, TypeOK, CliOK
  <2>3. PICK o \in Remove(containers, Chain(Name(p)), Has(p, "data")) : Name(p) \in files /\ containers' = o.left /\ o.ok
    BY <1>2, <2>1, <2>2 DEF SetupCleanup, Perform, End, Ends, Idle
  <2>4. Name(p) = cli[p].cmd.name /\ Chain(Name(p)) \in Named /\ Has(p, "data") \in BOOLEAN
    BY <2>2, <2>3, Assembled, ChainsAssumption DEF Fine, Name, ChainsAssumption, Has
  <2> QED
    BY <2>2, <2>3, <2>4, RemoveOutcome
<1>3. KnownInv /\ [Next]_vars =>
        [\A p \in Procs : cli[p].cmd.kind = "new" =>
           LET x == cli[p].cmd.name IN
           /\ Ends(p, "ok") => containers'[Chain(x)] = "running" /\ x \in files'
           /\ At(p, "setupCleanup") /\ Ends(p, "err") => containers'[Chain(x)] = "none"]_vars
  BY <1>1, <1>2
<1> QED
  BY KnownInvariance, <1>3, PTL DEF Spec, NewAllOrNothing

\* If no two processes are given commands on the same chain, the success they
\* report is true: a started chain runs, a stopped one does not, a removed one is
\* gone (chains/operate.go:51-169, chains/manage.go:319-344).
THEOREM SuccessIsTrue == ASSUME Disjoint PROVE Spec => OkIsTrue
<1>1. ASSUME KnownInv, [Next]_vars, NEW p \in Procs, Ends(p, "ok")
      PROVE  LET c == cli[p].cmd IN
             /\ c.kind = "start" => containers'[Chain(c.name)] = "running"
             /\ c.kind = "stop"  => containers'[Chain(c.name)] # "running"
             /\ c.kind = "rm"    => containers'[Chain(c.name)] = "none" /\ ("file" \in c.flags => c.name \notin files')
  <2>1. /\ ChainsInv /\ Step(p) /\ cli[p].pc # "idle" /\ cli'[p].pc = "idle" /\ cli'[p].res = "ok"
        /\ cli \in [Procs -> Process] /\ containers \in Containers /\ Fine(p, cli[p])
    BY <1>1, EndsByStep DEF KnownInv, Ends, At, ChainsInv, TypeOK, CliOK
  <2>2. /\ Has(p, "data") \in BOOLEAN
        /\ cli[p].pc \in Stopping \cup Removing => Name(p) = cli[p].cmd.name /\ Chain(Name(p)) \in Named
    BY <2>1, Names, Assembled DEF Has, Stopping, Removing, HeadPlaces
  <2>3. /\ \A l : Goto(p, l) => l = "idle"
        /\ \A r : End(p, r) => r = "ok"
    BY <2>1 DEF Goto, End, Idle, Process
  <2>4. ASSUME cli[p].cmd.kind = "start" PROVE containers'[Chain(cli[p].cmd.name)] = "running"
    BY <2>1, <2>4, EndsWell, RunsWell
  <2>5. ASSUME cli[p].cmd.kind = "stop" PROVE containers'[Chain(cli[p].cmd.name)] # "running"
    <3>1. Name(p) = cli[p].cmd.name /\ Chain(Name(p)) \in Named
      BY <2>1, <2>2, <2>5 DEF Fine
    <3>2. CASE StopChain(p)
      BY <2>3, <3>1, <3>2 DEF StopChain, Look, Running
    <3>3. CASE StopStop(p)
      <4>1. \E o \in Stop(containers, Chain(Name(p))) : containers' = o.left /\ o.ok
        BY <2>3, <3>3 DEF StopStop, Perform
      <4> QED
        BY <2>1, <3>1, <4>1, StopOutcome
    <3>4. CASE StopRemove(p)
      <4>1. \E o \in Remove(containers, Chain(Name(p)), Has(p, "data")) : containers' = o.left /\ o.ok
        BY <2>3, <3>4 DEF StopRemove, Perform
      <4> QED
        BY <2>1, <2>2, <3>1, <4>1, RemoveOutcome
    <3> QED
      BY <2>1, <2>5, <3>2, <3>3, <3>4, EndsWell
  <2>6. ASSUME cli[p].cmd.kind = "rm"
        PROVE  containers'[Chain(cli[p].cmd.name)] = "none" /\ ("file" \in cli[p].cmd.flags => cli[p].cmd.name \notin files')
    <3>1. Name(p) = cli[p].cmd.name
      BY <2>1, <2>2, <2>6 DEF Fine
    <3>3. RmFile(p)
      BY <2>1, <2>6, EndsWell
    <3>2. containers[Chain(Name(p))] = "none"
      BY <1>1, <3>3 DEF RmFile, At, KnownInv, Settled
    <3> QED
      BY <2>3, <3>1, <3>2, <3>3 DEF RmFile, Has
  <2> QED
    BY <2>4, <2>5, <2>6
<1>2. KnownInv /\ [Next]_vars =>
        [\A p \in Procs : Ends(p, "ok") =>
           LET c == cli[p].cmd IN
           /\ c.kind = "start" => containers'[Chain(c.name)] = "running"
           /\ c.kind = "stop"  => containers'[Chain(c.name)] # "running"
           /\ c.kind = "rm"    => containers'[Chain(c.name)] = "none" /\ ("file" \in c.flags => c.name \notin files')]_vars
  BY <1>1
<1> QED
  BY KnownInvariance, <1>2, PTL DEF Spec, OkIsTrue

-----------------------------------------------------------------------------
\* What a rename moves

\* While a process may rename a chain, no other makes a genesis file: its
\* clean-up removes a container without a name, which may be any.
GenesisApart ==
  \A p, q \in Procs : p # q => \A c \in Commands[p], d \in Commands[q] : c.kind = "rename" => d.kind # "genesis"

\* What a rename has moved so far is where it was moved to, and the definition
\* it has loaded is still there.
Carried(p) ==
  /\ cli[p].pc \in {"renameWrite", "renameData", "renameFile"} => containers[Chain(NewName(p))] # "none"
  /\ cli[p].pc \in {"renameData", "renameFile"} => Name(p) \in files
  /\ cli[p].pc = "renameFile" => containers[Data(Name(p))] = "none" /\ containers[Data(NewName(p))] # "none"

MoveInv == KnownInv /\ \A p \in Procs : Carried(p)

\* The containers of a rename.
LEMMA RenameNames ==
  ASSUME ChainsInv, NEW p \in Procs, cli[p].pc \in Renaming
  PROVE  /\ cli[p].cmd.kind = "rename" /\ cli[p].cmd \in Commands[p]
         /\ Name(p) = cli[p].cmd.name /\ Name(p) # NewName(p)
         /\ Name(p) \in ChainNames \cap Works(cli[p].cmd) /\ NewName(p) \in ChainNames \cap Works(cli[p].cmd)
         /\ \A x \in {Name(p), NewName(p)} : /\ Chain(x) \in Named /\ Chain(x).short = x
                                             /\ Data(x) \in Named /\ Data(x).short = x
<1>1. Fine(p, cli[p]) /\ cli[p].pc # "idle" /\ cli[p].pc \notin HeadPlaces \cup GenesisPlaces \cup {"setupCleanup"}
  BY DEF ChainsInv, CliOK, Renaming, HeadPlaces, GenesisPlaces
<1>2. Name(p) = cli[p].cmd.name /\ Name(p) # NewName(p) /\ Name(p) \in ChainNames /\ NewName(p) \in ChainNames
  BY <1>1, Names DEF Fine, Name, NewName
<1>3. ChainNames \subseteq Shorts /\ 1 \in Numbers
  BY <1>1, Names
<1>4. \A x \in {Name(p), NewName(p)} : Chain(x) \in Named /\ Chain(x).short = x /\ Data(x) \in Named /\ Data(x).short = x
  BY <1>2, <1>3, Assembled
<1> QED
  BY <1>1, <1>2, <1>4, WorksOf DEF Fine

LEMMA OthersCarried ==
  ASSUME Disjoint, GenesisApart, KnownInv, NEW p \in Procs, Step(p), NEW q \in Procs \ {p}, Carried(q)
  PROVE  Carried(q)'
<1>1. World(p) /\ FilesOf(p) /\ cli'[q] = cli[q] /\ ChainsInv /\ Fine(p, cli[p])
  BY StepInv, MovesFine DEF KnownInv, ChainsInv, CliOK
<1>2. CASE cli[q].pc \notin Renaming
  BY <1>1, <1>2 DEF Carried, Renaming
<1>3. CASE cli[q].pc \in Renaming
  <2>1. CASE cli[p].pc = "idle"
    <3>1. FALSE
      BY <2>1 DEF Step, New, SetupData, SetupCopy, SetupImport, SetupWrite, SetupOptions, SetupBoot, SetupRun, SetupCleanup,
         Start, StartBoot, StartRun, Exec, ExecBoot, ExecRun, StopChain, StopStop, StopRemove, Rm, RmRemove, RmFile,
         RenameChain, RenameContainer, RenameWrite, RenameData, RenameFile, Update, UpdateRebuild, Register, Import,
         Checkout, HeadRead, HeadWrite, Genesis, GenesisBoot, GenesisStart, GenesisExecBoot, GenesisExec, CleanStop,
         CleanRemove, CleanDirs, CleanService, Boot, BootDefault, Load, Look, At
    <3> QED
      BY <3>1
  <2>2. CASE cli[p].pc # "idle"
    <3>1. cli[p].cmd \in Commands[p] /\ Works(cli[p].cmd) \cap Works(cli[q].cmd) = {} /\ cli[p].cmd.kind # "genesis"
      BY <1>1, <1>3, <2>2, RenameNames DEF Disjoint, GenesisApart, Fine
    <3>2. cli[p].pc \notin GenesisPlaces
      BY <1>1, <3>1 DEF Fine
    <3>3. Own(p) \subseteq Works(cli[p].cmd) \cup {Keys}
      <4>1. cli[p].pc = "setupCleanup" => Name(p) \in Works(cli[p].cmd) \cup {Keys}
        BY <1>1, <2>2 DEF Fine, Works, Name, Setting
      <4>2. Renaming \cap HeadPlaces = {}
        BY DEF Renaming, HeadPlaces
      <4> QED
        BY <1>1, <2>2, <3>2, <4>1, <4>2, WorksOf DEF Own
    <3>4. \A x \in {Name(q), NewName(q)} :
            /\ x \in Works(cli[q].cmd) /\ x \notin Own(p)
            /\ Chain(x) \in Named /\ Chain(x).short = x /\ Data(x) \in Named /\ Data(x).short = x
      BY <1>1, <1>3, <2>2, <3>1, <3>3, RenameNames, Names
    <3>5. \A x \in {Name(q), NewName(q)} : containers'[Chain(x)] = containers[Chain(x)] /\ containers'[Data(x)] = containers[Data(x)]
      BY <1>1, <3>2, <3>4 DEF World, Only
    <3>6. Name(q) \in files => Name(q) \in files'
      <4>1. ASSUME Name(q) \in files \ files' PROVE Name(q) \in Works(cli[p].cmd)
        BY <1>1, <2>2, <4>1, WorksOf DEF FilesOf, HeadPlaces, GenesisPlaces
      <4> QED
        BY <3>1, <3>4, <4>1
    <3>7. Name(q)' = Name(q) /\ NewName(q)' = NewName(q)
      BY <1>1 DEF Name, NewName
    <3> QED
      BY <1>1, <3>5, <3>6, <3>7 DEF Carried
  <2> QED
    BY <2>1, <2>2
<1> QED
  BY <1>2, <1>3

\* The steps of a rename.
LEMMA RenameSteps ==
  ASSUME NEW p \in Procs, Step(p), cli[p].pc \in Renaming \cup {"rename"}
  PROVE  /\ cli[p].pc = "rename" => RenameChain(p)
         /\ cli[p].pc = "renameChain" => RenameContainer(p)
         /\ cli[p].pc = "renameWrite" => RenameWrite(p)
         /\ cli[p].pc = "renameData" => RenameData(p)
         /\ cli[p].pc = "renameFile" => RenameFile(p)
BY DEF Step, New, SetupData, SetupCopy, SetupImport, SetupWrite, SetupOptions, SetupBoot, SetupRun, SetupCleanup,
   Start, StartBoot, StartRun, Exec, ExecBoot, ExecRun, StopChain, StopStop, StopRemove, Rm, RmRemove, RmFile,
   RenameChain, RenameContainer, RenameWrite, RenameData, RenameFile, Update, UpdateRebuild, Register, Import,
   Checkout, HeadRead, HeadWrite, Genesis, GenesisBoot, GenesisStart, GenesisExecBoot, GenesisExec, CleanStop,
   CleanRemove, CleanDirs, CleanService, Boot, BootDefault, Load, Look, At, Renaming

\* Both containers of a rename are moved, or the rename ends.
LEMMA MovesOn ==
  ASSUME ChainsInv, NEW p \in Procs, cli[p].pc \in Renaming, NEW l, l # "idle",
         NEW n \in Named, NEW to \in Named, n # to, Perform(Move(n, to), Goto(p, l), End(p, "err")), cli'[p].pc # "idle"
  PROVE  Goto(p, l) /\ containers'[n] = "none" /\ containers'[to] # "none" /\ \A m \in Named \ {n, to} : containers'[m] = containers[m]
<1>1. containers \in Containers /\ cli \in [Procs -> Process]
  BY DEF ChainsInv, TypeOK
<1>2. PICK o \in Move(n, to) : containers' = o.left /\ IF o.ok THEN Goto(p, l) ELSE End(p, "err")
  BY DEF Perform
<1>3. o.ok /\ Goto(p, l)
  BY <1>1, <1>2 DEF End, Idle
<1>4. o.left[n] = "none" /\ o.left[to] # "none" /\ o \in Within(containers, {n, to})
  BY <1>1, <1>2, <1>3, RenameOutcome DEF Move
<1> QED
  BY <1>2, <1>3, <1>4 DEF Within

LEMMA OwnCarried == ASSUME KnownInv, NEW p \in Procs, Step(p), Carried(p) PROVE Carried(p)'
<1> SUFFICES ASSUME cli'[p].pc \in {"renameWrite", "renameData", "renameFile"} PROVE Carried(p)'
  BY DEF Carried
<1> DEFINE x == Name(p)
           y == NewName(p)
<1>1. ChainsInv /\ Settled(p) /\ cli \in [Procs -> Process] /\ cli[p] \in Process /\ containers \in Containers
  BY DEF KnownInv, ChainsInv, TypeOK
<1>2. cli'[p].cmd = cli[p].cmd /\ cli[p].pc \in Renaming \cup {"rename"}
  <2>1. ChainsInv' /\ Fine(p, cli[p]) /\ cli'[p].cmd \in {cli[p].cmd, NoCommand}
    BY <1>1, StepInv, MovesFine DEF ChainsInv, CliOK
  <2>2. Fine(p, cli'[p])
    BY <2>1 DEF ChainsInv, CliOK
  <2> QED
    BY <2>1, <2>2 DEF Fine, Renaming, NoCommand
<1>3. \A l : Goto(p, l) => cli'[p].pc = l /\ Name(p)' = x /\ NewName(p)' = y
  BY <1>1 DEF Goto, Process, Name, NewName
<1>4. \A r : ~End(p, r)
  BY <1>1 DEF End, Idle
<1>5. cli[p].pc # "rename" /\ cli[p].pc # "renameFile"
  BY <1>2, <1>3, <1>4, RenameSteps DEF RenameChain, RenameFile, Look, Renaming
<1>6. cli[p].pc \in Renaming
  BY <1>2, <1>5
<1>7. x # y /\ \A z \in {x, y} : z \in Shorts /\ Chain(z) \in Named /\ Data(z) \in Named
  BY <1>1, <1>6, RenameNames, Names DEF Renaming
<1>8. Chain(x) # Chain(y) /\ Data(x) # Data(y) /\ Chain(y) \notin {Data(x), Data(y)}
  BY <1>7 DEF Chain, Data, ContainerAssemble, TypeChain, TypeData
<1>9. CASE RenameContainer(p)
  <2>1. Goto(p, "renameWrite") /\ containers'[Chain(y)] # "none"
    BY <1>1, <1>6, <1>7, <1>8, <1>9, MovesOn DEF RenameContainer
  <2> QED
    BY <1>3, <2>1 DEF Carried
<1>10. CASE RenameWrite(p)
  <2>1. Goto(p, "renameData") /\ x \in files' /\ containers' = containers /\ containers[Chain(y)] # "none"
    BY <1>4, <1>10 DEF RenameWrite, Carried, At
  <2> QED
    BY <1>3, <2>1 DEF Carried
<1>11. CASE RenameData(p)
  <2>1. /\ Goto(p, "renameFile") /\ containers'[Data(x)] = "none" /\ containers'[Data(y)] # "none"
        /\ containers'[Chain(y)] = containers[Chain(y)]
    BY <1>1, <1>6, <1>7, <1>8, <1>11, MovesOn DEF RenameData
  <2>2. x \in files' /\ containers[Chain(y)] # "none"
    BY <1>11 DEF RenameData, Perform, disk, Carried, At
  <2> QED
    BY <1>3, <2>1, <2>2 DEF Carried
<1> QED
  BY <1>5, <1>6, <1>9, <1>10, <1>11, RenameSteps DEF Renaming

LEMMA MoveNext == ASSUME Disjoint, GenesisApart PROVE MoveInv /\ [Next]_vars => MoveInv'
<1> SUFFICES ASSUME MoveInv, [Next]_vars PROVE MoveInv'
  OBVIOUS
<1>1. KnownInv /\ KnownInv' /\ ChainsInv /\ \A p \in Procs : Carried(p)
  BY KnownNext DEF MoveInv, KnownInv
<1>2. SUFFICES \A q \in Procs : Carried(q)'
  BY <1>1, <1>2 DEF MoveInv
<1>3. ASSUME NEW p \in Procs, Step(p) PROVE \A q \in Procs : Carried(q)'
  BY <1>1, <1>3, OthersCarried, OwnCarried
<1>4. ASSUME NEW q \in Procs, cli'[q] = cli[q], files' = files, \A n \in Named : containers'[n] = "none" <=> containers[n] = "none"
      PROVE  Carried(q)'
  <2>1. Name(q)' = Name(q) /\ NewName(q)' = NewName(q)
    BY <1>4 DEF Name, NewName
  <2>2. cli[q].pc \in Renaming => \A x \in {Name(q), NewName(q)} : Chain(x) \in Named /\ Data(x) \in Named
    BY <1>1, RenameNames
  <2> QED
    BY <1>1, <1>4, <2>1, <2>2 DEF Carried, Renaming
<1>5. ASSUME NEW p \in Procs, Begin(p), NEW q \in Procs PROVE Carried(q)'
  <2>1. cli \in [Procs -> Process] /\ UNCHANGED <<containers, files>>
    BY <1>1, <1>5 DEF Begin, disk, ChainsInv, TypeOK
  <2>2. CASE q = p
    <3>1. PICK c \in Commands[p] :
            cli' = [cli EXCEPT ![p] = [Idle("none") EXCEPT !.pc = c.kind, !.cmd = c, !.name = c.name]]
      BY <1>5 DEF Begin
    <3>2. cli'[p].pc = c.kind /\ c.kind \in Kinds
      BY <2>1, <3>1, ChainsAssumption DEF Idle, ChainsAssumption, Command
    <3> QED
      BY <2>2, <3>2 DEF Carried, Kinds
  <2>3. CASE q # p
    <3>1. cli'[q] = cli[q]
      BY <1>5, <2>1, <2>3 DEF Begin
    <3> QED
      BY <1>4, <2>1, <3>1
  <2> QED
    BY <2>2, <2>3
<1>6. ASSUME NEW n \in Named, Exit(n), NEW q \in Procs PROVE Carried(q)'
  <2>1. containers \in Containers /\ containers[n] = "running" /\ containers' = [containers EXCEPT ![n] = "stopped"]
        /\ cli' = cli /\ files' = files
    BY <1>1, <1>6 DEF Exit, Running, disk, ChainsInv, TypeOK
  <2>2. \A m \in Named : containers'[m] = "none" <=> containers[m] = "none"
    BY <2>1 DEF Containers
  <2> QED
    BY <1>4, <2>1, <2>2
<1>7. CASE UNCHANGED vars
  BY <1>4, <1>7 DEF vars, disk
<1> QED
  BY <1>3, <1>5, <1>6, <1>7 DEF Next

\* If no two processes are given commands on the same chain, and none makes a
\* genesis file while another renames: a rename that reports success has moved the
\* definition, the container and its data container, and one that fails on the way
\* has kept the old definition (chains/manage.go, perform/docker_run.go).
THEOREM RenamesMove == ASSUME Disjoint, GenesisApart PROVE Spec => RenameMoves
<1>1. ASSUME MoveInv, [Next]_vars, NEW p \in Procs, cli[p].cmd.kind = "rename", NEW r, Ends(p, r),
             r = "ok" \/ (r = "err" /\ ~At(p, "rename"))
      PROVE  LET x == cli[p].cmd.name
                 y == cli[p].cmd.to
             IN
             /\ r = "ok" => /\ y \in files' /\ containers'[Chain(y)] # "none" /\ containers'[Data(y)] # "none"
                            /\ x \notin files' /\ containers'[Chain(x)] = "none" /\ containers'[Data(x)] = "none"
             /\ r = "err" => x \in files'
  <2>1. /\ ChainsInv /\ Settled(p) /\ Carried(p) /\ cli \in [Procs -> Process] /\ Fine(p, cli[p])
        /\ cli[p].pc # "idle" /\ cli'[p].pc = "idle" /\ cli'[p].res = r
    BY <1>1 DEF MoveInv, KnownInv, ChainsInv, TypeOK, CliOK, Ends, At
  <2>2. Step(p) /\ cli[p].pc \in Renaming \cup {"rename"}
    BY <1>1, <2>1, EndsByStep DEF Fine
  <2>3. /\ \A l : Goto(p, l) => l = "idle"
        /\ \A e : End(p, e) => e = r
    BY <2>1 DEF Goto, End, Idle, Process
  <2>4. CASE cli[p].pc = "rename"
    <3>1. RenameChain(p)
      BY <2>2, <2>4, RenameSteps
    <3> QED
      BY <1>1, <2>3, <2>4, <3>1 DEF RenameChain, Look, At
  <2>5. CASE cli[p].pc \in Renaming
    <3>1. Name(p) = cli[p].cmd.name /\ NewName(p) = cli[p].cmd.to /\ Name(p) # NewName(p)
      BY <2>1, <2>5, RenameNames DEF NewName
    <3>2. CASE cli[p].pc = "renameFile"
      <4>1. RenameFile(p)
        BY <2>2, <2>5, <3>2, RenameSteps
      <4>2. r = "ok" /\ files' = files \ {Name(p)} /\ containers' = containers
        BY <2>3, <4>1 DEF RenameFile
      <4> QED
        BY <2>1, <3>1, <3>2, <4>2 DEF Settled, Carried
    <3>3. CASE cli[p].pc # "renameFile"
      <4>1. RenameContainer(p) \/ RenameWrite(p) \/ RenameData(p)
        BY <2>2, <2>5, <3>3, RenameSteps DEF Renaming
      <4>2. r = "err" /\ files' = files
        BY <2>3, <4>1 DEF RenameContainer, RenameWrite, RenameData, Perform, disk
      <4>3. Name(p) \in files
        BY <2>1, <2>5, <3>3 DEF Settled, Carried, Renaming
      <4> QED
        BY <3>1, <4>2, <4>3
    <3> QED
      BY <3>2, <3>3
  <2> QED
    BY <2>2, <2>4, <2>5
<1>2. MoveInv /\ [Next]_vars =>
        [\A p \in Procs : cli[p].cmd.kind = "rename" =>
           LET x == cli[p].cmd.name
               y == cli[p].cmd.to
           IN
           /\ Ends(p, "ok") => /\ y \in files' /\ containers'[Chain(y)] # "none" /\ containers'[Data(y)] # "none"
                               /\ x \notin files' /\ containers'[Chain(x)] = "none" /\ containers'[Data(x)] = "none"
           /\ Ends(p, "err") /\ ~At(p, "rename") => x \in files']_vars
  BY <1>1
<1>3. Init => MoveInv
  <2> SUFFICES ASSUME Init PROVE MoveInv
    OBVIOUS
  <2>1. \A p \in Procs : cli[p].pc = "idle"
    BY DEF Init, Idle
  <2> QED
    BY <2>1, KnownInit DEF MoveInv, Carried
<1> QED
  BY MoveNext, <1>2, <1>3, PTL DEF Spec, RenameMoves

=============================================================================
