---------------------------- MODULE Host_proofs ----------------------------
(***************************************************************************)
(* For any containers, files and homes, any archive and any options, with  *)
(* kills anywhere: the safety properties of Host.                          *)
(*                                                                         *)
(* None of them is inductive.  HostInv says which goroutine waits for which*)
(* at each place of the main goroutine, what the archive's reader has when *)
(* it goes on, which files a migration still holds in its lists, and what  *)
(* init and clean have done when they come to their later steps.           *)
(***************************************************************************)
EXTENDS Host, FiniteSetTheorems, TLAPS

SetupJobs == {"init", "update", "clean"}

\* Only the command that runs has any state.
JobOK ==
  /\ job # "exec" => session = NoSession
  /\ job # "export" => transfer = NoTransfer
  /\ job \notin SetupJobs => setup = NoSetup

\* The two goroutines of an exec.
SessionOK ==
  /\ session.attach = "await" => session.main = "reply"
  /\ session.attach = "copy" => session.main \in {"wait", "remove"}
  /\ session.main \in {"meet", "reply", "wait"} \/ session.attach = "copy" => boxes[Temp] # "created"
  /\ session.unread + session.shown <= MaxOutput

\* What is copied from the temporary directory is the archive.
TransferOK == transfer.main \in {"prepare", "copy"} => transfer.got = Len(Payload)

DirsOK == \A d \in Dirs \ dirs : tree[d] = NoFiles

\* The pair a migration is at: what is still in the old directory is in its list,
\* and what the new directory had is known.
PairOK ==
  setup.pc = "files" =>
    /\ setup.now \in Pairs
    /\ setup.now[2] \in dirs
    /\ \A f \in Files :
         /\ f \in setup.files <=> HasFile(setup.now[1], f)
         /\ f \in setup.files /\ HasFile(setup.now[2], f) => f \in setup.taken

\* The pairs it is done with.
Done == Pairs \ (setup.left \cup {setup.now})

\* Before anything is migrated.
Early == {"tools", "root", "dirs", "head", "confirm", "services", "cloneServices",
          "keysDefault", "ipfsDefault", "spareDefault", "actionDefault", "actions", "cloneActions", "chainDefault",
          "chainDir", "check"}

PairsOK ==
  /\ setup.pc \in {"pairs", "files"} =>
       /\ setup.left \subseteq Pairs
       /\ \A pair \in Done : pair[1] \notin dirs /\ pair[2] \in dirs
  /\ setup.pc = "pairs" => setup.now = <<>>
  /\ setup.pc \in Early => ~setup.migrated /\ setup.now = <<>>

\* What init has put in place.
HasAll(d, fs) == Root \in dirs /\ d \in dirs /\ \A f \in fs : HasFile(d, f)

Migrating == {"check", "pairs", "files"}
Late      == {"actions", "cloneActions", "chainDefault", "chainDir"} \cup Migrating

InitOK ==
  /\ setup.pc = "install" => job = "update"
  /\ setup.pc \in {"list", "containers", "home"} <=> job = "clean"
  /\ setup.pc = "head" => {Root, "chains"} \subseteq dirs
  /\ job = "init" =>
       /\ setup.pc \in {"ipfsDefault", "spareDefault", "actionDefault"} \cup Late => HasAll("services", {KeysFile})
       /\ setup.pc \in {"spareDefault", "actionDefault"} \cup Late => HasAll("services", {IpfsFile})
       /\ setup.pc \in {"actionDefault"} \cup Late => HasAll("services", {SpareFile})
       /\ setup.pc \in Late => HasAll("actions", {})
       /\ setup.pc \in {"chainDir"} \cup Migrating => HasAll("chains", {DefaultFile})
       /\ setup.pc \in Migrating => HasAll("chains", {ChainDir})

\* What clean has yet to remove.
CleanOK ==
  /\ setup.pc = "list" => setup.left = {}
  /\ setup.pc = "containers" =>
       /\ setup.left \subseteq Boxes
       /\ ~setup.unseen => \A b \in Labelled : boxes[b] # "none" => b \in setup.left
  /\ setup.pc = "home" /\ ~setup.unseen => \A b \in Labelled : boxes[b] = "none"

HostInv ==
  TypeOK /\ JobOK /\ SessionOK /\ TransferOK /\ DirsOK /\ PairOK /\ PairsOK /\ InitOK /\ CleanOK

-----------------------------------------------------------------------------
\* Directories and files.

LEMMA DirNames == {Root, "actions", "chains", "data", "apps", "services"} \subseteq Dirs
  BY DEF Dirs

LEMMA PathDirs == \A d \in Dirs : d \in Path(d) /\ Root \in Path(d) /\ Path(d) \subseteq Dirs
  BY DEF Path, Dirs

LEMMA MakePathKeeps ==
  ASSUME dirs \subseteq Dirs, tree \in Trees, DirsOK, NEW d \in Dirs, MakePath(d), tree' = tree
  PROVE  /\ dirs \subseteq dirs' /\ dirs' \subseteq Dirs /\ {Root, d} \subseteq dirs'
         /\ tree' \in Trees /\ DirsOK'
  BY PathDirs DEF MakePath, DirsOK

\* What writing one file does.
LEMMA PutKeeps ==
  ASSUME dirs \subseteq Dirs, tree \in Trees, DirsOK, NEW d \in Dirs, NEW f \in Files, NEW o \in Owners \ {"none"},
         Put(d, f, o)
  PROVE  /\ dirs \subseteq dirs' /\ dirs' \subseteq Dirs /\ {Root, d} \subseteq dirs'
         /\ tree' \in Trees /\ DirsOK'
         /\ HasFile(d, f)'
         /\ \A e \in Dirs, g \in Files : HasFile(e, g) => HasFile(e, g)'
<1>1. dirs' = dirs \cup Path(d) /\ tree' = [tree EXCEPT ![d] = [tree[d] EXCEPT ![f] = o]]
  BY DEF Put, MakePath
<1>2. tree \in [Dirs -> [Files -> Owners]]
  BY DEF Trees
<1>3. [tree[d] EXCEPT ![f] = o] \in [Files -> Owners]
  BY <1>2
<1>4. tree' \in Trees
  BY <1>1, <1>2, <1>3 DEF Trees
<1>5. \A e \in Dirs, g \in Files : tree'[e][g] = IF e = d /\ g = f THEN o ELSE tree[e][g]
  BY <1>1, <1>2
<1>6. DirsOK'
  BY <1>1, <1>2, PathDirs DEF DirsOK
<1> QED
  BY <1>1, <1>4, <1>5, <1>6, PathDirs DEF HasFile

-----------------------------------------------------------------------------
\* The parts about setup and the directories, for steps of the other commands.

LEMMA InitInv == Init => HostInv
<1> SUFFICES ASSUME Init PROVE HostInv
  OBVIOUS
<1> USE MachineAssumption, ExportAssumption, TerminalAssumption, SetupAssumption
<1>1. MachineTypeOK
  BY DEF Init, MachineInit, MachineTypeOK, MachineAssumption, BoxStates, Jobs, Results
<1>2. session \in Session /\ transfer \in Transfer /\ setup \in SetupState
  BY DEF Init, NoSession, NoTransfer, NoSetup, Session, Transfer, SetupState, TerminalAssumption,
         ExportAssumption, Pairs
<1>3. DirsOK
  BY DEF Init, MachineInit, MachineAssumption, DirsOK
<1>4. JobOK /\ TransferOK /\ PairOK /\ PairsOK /\ InitOK /\ CleanOK
  BY DEF Init, MachineInit, JobOK, TransferOK, PairOK, PairsOK, InitOK, CleanOK, NoSession, NoTransfer,
         NoSetup, SetupJobs, Early, Late, Migrating
<1>5. SessionOK
  BY DEF Init, SessionOK, NoSession, TerminalAssumption
<1> QED
  BY <1>1, <1>2, <1>3, <1>4, <1>5 DEF HostInv, TypeOK

LEMMA SessionInv == HostInv /\ OfSession(SessionNext) => HostInv'
<1> SUFFICES ASSUME HostInv, OfSession(SessionNext) PROVE HostInv'
  OBVIOUS
<1> USE DEF HostInv, OfSession
<1>1. dirs' = dirs /\ tree' = tree /\ transfer' = transfer /\ setup' = setup
  BY DEF SessionNext, SessionBegin, SessionMain, SessionAttach, SessionHandler, SessionData, SessionMake, Refused,
     SessionStart, SessionMeet, SessionReply, SessionWait, SessionRemove, Dial, CopyOutput, Signal, Catch,
     HandlerStop, Output, ProgramEnds, Stay, Keep, disk
<1>2. session.main # "idle" \/ session.attach # "none" \/ session.handler # "none" => job = "exec"
  BY DEF JobOK, NoSession
<1>3. /\ session' \in Session
      /\ boxes' \in [Boxes -> BoxStates]
      /\ SessionOK'
  <2> USE MachineAssumption, TerminalAssumption DEF MachineAssumption, TerminalAssumption, TypeOK, MachineTypeOK,
          SessionOK, Session, S, Set, Stay, BoxStates
  <2>1. CASE SessionBegin \/ SessionData \/ SessionMake
    <3>1. session' = NoSession => session' \in Session /\ SessionOK'
      BY DEF NoSession
    <3>2. CASE SessionBegin
      <4>1. PICK m \in {"data", "make"} : session' = [NoSession EXCEPT !.main = m]
        BY <3>2 DEF SessionBegin
      <4>2. session' = [main |-> m, attach |-> "none", handler |-> "none", signal |-> FALSE, raw |-> FALSE,
                        open |-> FALSE, res |-> "ok", unread |-> 0, shown |-> 0]
        BY <4>1 DEF NoSession
      <4>3. boxes' = boxes
        BY <3>2 DEF SessionBegin
      <4> QED
        BY <4>2, <4>3
    <3>3. CASE SessionData
      <4>1. CASE session' = [session EXCEPT !.main = "make"]
        BY <3>3, <4>1 DEF SessionData, Refused
      <4>2. CASE Refused
        BY <3>1, <4>2 DEF Refused
      <4> QED
        BY <3>3, <4>1, <4>2 DEF SessionData
    <3>4. CASE SessionMake
      <4>1. CASE boxes' = [boxes EXCEPT ![Temp] = "created"]
                 /\ \E r \in BOOLEAN : session' = [session EXCEPT !.main = "start", !.attach = "dial",
                                                               !.handler = "ready", !.raw = r]
        BY <4>1
      <4>2. CASE Refused
        BY <3>1, <4>2 DEF Refused
      <4> QED
        BY <3>4, <4>1, <4>2 DEF SessionMake
    <3> QED
      BY <2>1, <3>2, <3>3, <3>4
  <2>2. CASE SessionStart
    <3>1. CASE session' = [session EXCEPT !.main = "meet"] /\ boxes' = [boxes EXCEPT ![Temp] = "running"]
      BY <2>2, <3>1 DEF SessionStart
    <3>2. CASE session' = [session EXCEPT !.main = "remove", !.raw = FALSE, !.res = "err"] /\ boxes' = boxes
      BY <2>2, <3>2 DEF SessionStart
    <3> QED
      BY <2>2, <3>1, <3>2 DEF SessionStart, Finish
  <2>3. CASE SessionMeet
    BY <2>3 DEF SessionMeet
  <2>4. CASE SessionReply
    BY <2>4 DEF SessionReply
  <2>5. CASE SessionWait
    BY <2>5 DEF SessionWait, Finish
  <2>6. CASE SessionRemove
    BY <2>6 DEF SessionRemove, NoSession
  <2>7. CASE Dial
    BY <2>7 DEF Dial
  <2>8. CASE CopyOutput
    <3>1. CASE session.unread > 0 /\ session' = [session EXCEPT !.unread = @ - 1, !.shown = @ + 1]
      <4>1. session.unread - 1 \in 0..MaxOutput /\ session.shown + 1 \in 0..MaxOutput
        BY <3>1
      <4>2. (session.unread - 1) + (session.shown + 1) <= MaxOutput
        BY <3>1
      <4>3. session' \in Session
        BY <3>1, <4>1
      <4>4. session'.unread = session.unread - 1 /\ session'.shown = session.shown + 1
            /\ session'.main = session.main /\ session'.attach = session.attach
        BY <3>1
      <4> QED
        BY <2>8, <4>2, <4>3, <4>4 DEF CopyOutput
    <3>2. CASE session' = [session EXCEPT !.attach = "ended"]
      BY <2>8, <3>2 DEF CopyOutput
    <3> QED
      BY <2>8, <3>1, <3>2 DEF CopyOutput
  <2>9. CASE Signal \/ Catch
    BY <2>9 DEF Signal, Catch
  <2>10. CASE HandlerStop
    BY <2>10 DEF HandlerStop
  <2>11. CASE Output
    BY <2>11 DEF Output
  <2>12. CASE ProgramEnds
    BY <2>12 DEF ProgramEnds
  <2> QED
    BY <2>1, <2>2, <2>3, <2>4, <2>5, <2>6, <2>7, <2>8, <2>9, <2>10, <2>11, <2>12
    DEF SessionNext, SessionMain, SessionAttach, SessionHandler
\* A step of the session is its first, its last, one in between, or the program's end.
<1>9. \/ job = "none" /\ job' = "exec" /\ begun < MaxCommands /\ begun' = begun + 1 /\ result' = "none"
      \/ /\ job = "exec" /\ job' = "none" /\ session' = NoSession
         /\ result' = session.res \/ result' = "err"
         /\ begun' = begun
      \/ job = "exec" /\ UNCHANGED control
      \/ ProgramEnds
  BY <1>2 DEF SessionNext, SessionBegin, SessionMain, SessionAttach, SessionHandler, SessionData, SessionMake,
     Refused, SessionStart, SessionMeet, SessionReply, SessionWait, SessionRemove, Dial, CopyOutput, Signal, Catch,
     HandlerStop, Output, S, Set, GoOn, Start, Over
<1>10. /\ job' = job \/ (job = "none" /\ job' = "exec") \/ (job = "exec" /\ job' = "none")
       /\ job' # "exec" => session' = NoSession
       /\ result' \in Results /\ begun' \in 0..MaxCommands
  <2>1. CASE ProgramEnds
    BY <2>1 DEF ProgramEnds, GoOn, control, JobOK, TypeOK, MachineTypeOK
  <2>2. session.res \in Results
    BY DEF TypeOK, Session, Results
  <2> QED
    BY <1>9, <2>1, <2>2, MachineAssumption DEF control, TypeOK, MachineTypeOK, Results, MachineAssumption
<1>11. job' \in SetupJobs => \A b \in Boxes : boxes'[b] = "none" <=> boxes[b] = "none"
  BY <1>9, MachineAssumption DEF SetupJobs, control, ProgramEnds, TypeOK, MachineTypeOK, MachineAssumption
<1>4. TypeOK' /\ JobOK'
  BY <1>1, <1>3, <1>10 DEF TypeOK, MachineTypeOK, JobOK, Jobs, SetupJobs
<1>5. TransferOK' /\ DirsOK' /\ PairOK' /\ PairsOK'
  BY <1>1 DEF TransferOK, DirsOK, PairOK, PairsOK, HasFile, Done, Early
<1>6. job' # job => setup = NoSetup
  BY <1>10 DEF JobOK, SetupJobs
<1>7. InitOK'
  BY <1>1, <1>6, <1>10 DEF InitOK, HasAll, HasFile, NoSetup, Late, Migrating
<1>8. CleanOK'
  <2>1. CASE job' \in SetupJobs
    BY <2>1, <1>1, <1>11, MachineAssumption DEF CleanOK, MachineAssumption
  <2>2. CASE job' \notin SetupJobs
    BY <2>2, <1>1, <1>4 DEF CleanOK, JobOK, NoSetup
  <2> QED
    BY <2>1, <2>2
<1> QED
  BY <1>3, <1>4, <1>5, <1>7, <1>8

LEMMA TransferInv == HostInv /\ OfTransfer(TransferNext) => HostInv'
<1> SUFFICES ASSUME HostInv, OfTransfer(TransferNext) PROVE HostInv'
  OBVIOUS
<1> USE DEF HostInv, OfTransfer
<1>1. boxes' = boxes /\ session' = session /\ setup' = setup
  BY DEF TransferNext, TransferBegin, TransferMain, TransferPass, TransferCheck, TransferMake, TransferLook, Find,
     TFails, TransferPrepare, CopyFile, TransferClear, TransferClose, Pass, PassEnd, DownloadFails, DownloadEnds,
     UnpackFails, TGo, TExit
<1>2. transfer.main # "idle" \/ transfer.copier # "none" => job = "export"
  BY DEF JobOK, NoTransfer
<1>3. transfer' \in Transfer /\ TransferOK'
  <2> USE ExportAssumption DEF ExportAssumption, TypeOK, TransferOK, Transfer, T, TGo
  <2>1. CASE TransferBegin
    BY <2>1 DEF TransferBegin, NoTransfer
  <2>2. CASE \/ transfer'.main \in {"make", "look", "close"} /\ transfer' = [transfer EXCEPT !.main = transfer'.main]
             \/ transfer' = [transfer EXCEPT !.main = "close", !.out = "err"]
             \/ transfer' = [transfer EXCEPT !.copier = "over"]
    BY <2>2
  <2>3. CASE \E r \in {"ok", "err"} : TExit(r)
    BY <2>3 DEF TExit, NoTransfer
  <2>4. CASE transfer' = [transfer EXCEPT !.main = "unpack", !.copier = "send"]
    BY <2>4
  <2>5. CASE Pass
    BY <2>5 DEF Pass
  <2>6. CASE PassEnd
    BY <2>6 DEF PassEnd
  <2>7. CASE TransferPrepare
    <3>1. Received \in SUBSET Files
      BY DEF Received
    <3> QED
      BY <2>2, <2>7, <3>1 DEF TransferPrepare, TFails
  <2>8. CASE CopyFile
    BY <2>8 DEF CopyFile
  <2>9. TransferCheck \/ TransferMake \/ TransferLook =>
          \/ TExit("err")
          \/ transfer' = [transfer EXCEPT !.main = "unpack", !.copier = "send"]
          \/ transfer'.main \in {"make", "look"} /\ transfer' = [transfer EXCEPT !.main = transfer'.main]
    BY DEF TransferCheck, TransferMake, TransferLook, Find
  <2>10. TransferClose => TExit("ok") \/ TExit("err")
    BY DEF TransferClose
  <2>11. CASE TransferClear \/ UnpackFails \/ DownloadEnds
    BY <2>2, <2>11 DEF TransferClear, UnpackFails, DownloadEnds, TFails
  <2> QED
    BY <2>11, <2>1, <2>2, <2>3, <2>4, <2>5, <2>6, <2>7, <2>8, <2>9, <2>10
    DEF TransferNext, TransferMain, TransferPass, DownloadFails
<1>4. \/ UNCHANGED disk
      \/ \E d \in {Root, "data"} : MakePath(d) /\ tree' = tree
      \/ \E f \in Files : Put("data", f, "user")
  <2>1. transfer.left \subseteq Files
    BY DEF TypeOK, Transfer
  <2> QED
    BY <2>1 DEF TransferNext, TransferBegin, TransferMain, TransferPass, TransferCheck, TransferMake, TransferLook,
       Find, TFails, TransferPrepare, CopyFile, TransferClear, TransferClose, Pass, PassEnd, DownloadFails,
       DownloadEnds, UnpackFails, TExit, disk, T
<1>5. dirs' \subseteq Dirs /\ tree' \in Trees /\ DirsOK'
  <2> USE DEF TypeOK, MachineTypeOK
  <2>1. CASE UNCHANGED disk
    BY <2>1 DEF disk, DirsOK
  <2>2. CASE \E d \in {Root, "data"} : MakePath(d) /\ tree' = tree
    BY <2>2, DirNames, MakePathKeeps
  <2>3. CASE \E f \in Files : Put("data", f, "user")
    BY <2>3, DirNames, PutKeeps DEF Owners
  <2> QED
    BY <1>4, <2>1, <2>2, <2>3
<1>6. \/ job = "none" /\ job' = "export" /\ begun < MaxCommands /\ begun' = begun + 1 /\ result' = "none"
      \/ job = "export" /\ job' = "none" /\ transfer' = NoTransfer /\ result' \in {"ok", "err"} /\ begun' = begun
      \/ job = "export" /\ UNCHANGED control
  <2>1. transfer.out \in {"ok", "err"}
    BY DEF TypeOK, Transfer
  <2> QED
    BY <1>2, <2>1 DEF TransferNext, TransferBegin, TransferMain, TransferPass, TransferCheck, TransferMake,
       TransferLook, Find, TFails, TransferPrepare, CopyFile, TransferClear, TransferClose, Pass, PassEnd,
       DownloadFails, DownloadEnds, UnpackFails, TGo, TExit, T, GoOn, Start, Over
<1>7. JobOK' /\ MachineTypeOK'
  BY <1>1, <1>5, <1>6, MachineAssumption DEF JobOK, SetupJobs, TypeOK, MachineTypeOK, MachineAssumption, Jobs, Results,
     control
<1>8. setup = NoSetup /\ job' # "clean"
  BY <1>6 DEF JobOK, SetupJobs, control
<1>9. PairOK' /\ PairsOK' /\ InitOK' /\ CleanOK'
  BY <1>1, <1>8 DEF PairOK, PairsOK, InitOK, CleanOK, NoSetup, Early, Late, Migrating
<1> QED
  BY <1>1, <1>3, <1>5, <1>7, <1>9 DEF TypeOK, SessionOK

-----------------------------------------------------------------------------
\* init, update and clean

SetupOK == TypeOK /\ DirsOK /\ PairOK /\ PairsOK /\ InitOK /\ CleanOK

\* When the command ends.
LEMMA QuitInv ==
  ASSUME HostInv, boxes' \in [Boxes -> BoxStates], dirs' \subseteq Dirs, tree' \in Trees, DirsOK',
         session' = session, transfer' = transfer, NEW r \in {"ok", "err"}, Quit(r)
  PROVE  SetupOK'
<1> USE DEF Quit, Over
<1>1. TypeOK'
  BY DEF HostInv, TypeOK, MachineTypeOK, NoSetup, SetupState, Jobs, Results, Pairs
<1>2. PairOK' /\ PairsOK' /\ InitOK' /\ CleanOK'
  BY DEF PairOK, PairsOK, InitOK, CleanOK, NoSetup, Early, Late, Migrating
<1> QED
  BY <1>1, <1>2 DEF SetupOK

\* When it goes on without having migrated anything.
LEMMA EarlyInv ==
  ASSUME HostInv, boxes' = boxes, dirs' \subseteq Dirs, tree' \in Trees, DirsOK',
         session' = session, transfer' = transfer, setup.pc \in Early, NEW l \in Early, To(At(l)), InitOK'
  PROVE  SetupOK'
<1> USE DEF To, At, GoOn, control, P
<1>1. setup' = [setup EXCEPT !.pc = l]
  OBVIOUS
<1>2. TypeOK'
  BY DEF HostInv, TypeOK, MachineTypeOK, SetupState, Early
<1>3. /\ setup'.pc = l /\ setup'.migrated = setup.migrated /\ setup'.now = setup.now
  BY <1>1 DEF HostInv, TypeOK, SetupState
<1>4. PairOK' /\ PairsOK' /\ CleanOK'
  BY <1>3 DEF HostInv, PairOK, PairsOK, CleanOK, Early
<1> QED
  BY <1>2, <1>4 DEF SetupOK

\* Everything init does before it comes to the old directories.
Prepares ==
  \/ CheckTools \/ FindRoot \/ MakeDir \/ MakeHead \/ Confirm
  \/ UpdateServices \/ CloneServices \/ DropDefaults \/ UpdateActions \/ CloneActions \/ DropChainDefaults

\* A step that drops a file writes it, and goes on, or it fails.
LEMMA Drops ==
  ASSUME HostInv, DropDefaults \/ DropChainDefaults
  PROVE  \E d \in {"services", "actions", "chains"}, f \in Files, l, next \in Early :
           /\ Drop(l, d, f, next)
           /\ \/ <<l, d, f, next>> = <<"keysDefault", "services", KeysFile, "ipfsDefault">>
              \/ <<l, d, f, next>> = <<"ipfsDefault", "services", IpfsFile, "spareDefault">>
              \/ <<l, d, f, next>> = <<"spareDefault", "services", SpareFile, "actionDefault">>
              \/ <<l, d, f>> = <<"actionDefault", "actions", SpareFile>> /\ next \in {"chainDefault", "actions"}
              \/ <<l, d, f, next>> = <<"chainDefault", "chains", DefaultFile, "chainDir">>
              \/ <<l, d, f, next>> = <<"chainDir", "chains", ChainDir, "check">>
  BY SetupAssumption DEF SetupAssumption, DropDefaults, Drop, DropChainDefaults, Early

LEMMA PreparesInv == HostInv /\ OfSetup(Prepares) => SetupOK'
<1> SUFFICES ASSUME HostInv, OfSetup(Prepares) PROVE SetupOK'
  OBVIOUS
<1> USE SetupAssumption DEF OfSetup
<1>1. boxes' = boxes /\ setup.pc \in Early
  BY DEF Prepares, CheckTools, FindRoot, MakeDir, MakeHead, Confirm, UpdateServices, CloneServices, DropDefaults, Drop,
         UpdateActions, CloneActions, DropChainDefaults, Repo, Clone, Same, P, Early
<1>2. dirs \subseteq Dirs /\ tree \in Trees /\ DirsOK /\ boxes \in [Boxes -> BoxStates]
  BY DEF HostInv, TypeOK, MachineTypeOK
<1>3. job \in {"init", "update"}
  BY <1>1 DEF HostInv, JobOK, InitOK, SetupJobs, NoSetup, Early
\* The directories only grow, and only the directory that is cleared loses files.
<1>4. /\ dirs \subseteq dirs' /\ dirs' \subseteq Dirs /\ tree' \in Trees /\ DirsOK'
      /\ setup.pc # "services" => \A f \in Files : HasFile("services", f) => HasFile("services", f)'
      /\ setup.pc \notin {"services", "actions"} => \A f \in Files : HasFile("chains", f) => HasFile("chains", f)'
  <2>1. CASE CheckTools \/ FindRoot \/ Confirm
    BY <2>1, <1>2 DEF CheckTools, FindRoot, Confirm, Same, disk, DirsOK, HasFile
  <2>2. CASE MakeDir
    <3>1. CASE UNCHANGED dirs
      BY <2>2, <3>1, <1>2 DEF MakeDir, DirsOK, HasFile
    <3>2. CASE \E i \in DOMAIN MajorDirs : dirs' = dirs \cup {MajorDirs[i]}
      <4>1. \A i \in DOMAIN MajorDirs : MajorDirs[i] \in Dirs
        BY DEF MajorDirs, Root, Dirs, KeysDirs, ScratchDirs
      <4> QED
        BY <2>2, <3>2, <4>1, <1>2 DEF MakeDir, DirsOK, HasFile
    <3> QED
      BY <2>2, <3>1, <3>2 DEF MakeDir
  <2>3. CASE MakeHead
    <3>1. CASE UNCHANGED tree
      BY <2>3, <3>1, <1>2 DEF MakeHead, DirsOK, HasFile
    <3>2. CASE tree' = [tree EXCEPT !["chains"][HeadFile] = IF @ = "none" THEN "eris" ELSE @]
      BY <2>3, <3>2, <1>2, HeadFile \in Files, DirNames
      DEF MakeHead, HostInv, InitOK, SetupAssumption, P, DirsOK, HasFile, Trees, Owners
    <3> QED
      BY <2>3, <3>1, <3>2 DEF MakeHead
  <2>4. CASE UpdateServices \/ UpdateActions
    <3>1. CASE UNCHANGED tree
      BY <2>4, <3>1, <1>2 DEF UpdateServices, UpdateActions, Repo, disk, DirsOK, HasFile
    <3>2. CASE \E d \in {"services", "actions"} : d = setup.pc /\ tree' = [tree EXCEPT ![d] = NoFiles]
      BY <2>4, <3>2, <1>2, DirNames
      DEF UpdateServices, UpdateActions, Repo, disk, P, DirsOK, HasFile, Trees, Owners, NoFiles
    <3> QED
      BY <2>4, <3>1, <3>2 DEF UpdateServices, UpdateActions, Repo, disk, P
  <2>5. CASE CloneServices \/ CloneActions
    <3>1. CASE UNCHANGED disk
      BY <3>1, <1>2 DEF disk, DirsOK, HasFile
    <3>2. CASE \E d \in {"services", "actions"} : Put(d, Git, "eris")
      BY <3>2, <1>2, DirNames, PutKeeps DEF SetupAssumption, Owners
    <3> QED
      BY <2>5, <3>1, <3>2 DEF CloneServices, CloneActions, Clone
  <2>6. CASE DropDefaults \/ DropChainDefaults
    <3>1. PICK d \in {"services", "actions", "chains"}, f \in Files, l, next \in Early : Drop(l, d, f, next)
      BY <2>6, Drops
    <3>2. CASE UNCHANGED disk
      BY <3>2, <1>2 DEF disk, DirsOK, HasFile
    <3>3. CASE MakePath(d) /\ UNCHANGED tree
      BY <3>3, <1>2, DirNames, MakePathKeeps DEF HasFile
    <3>4. CASE Put(d, f, "eris")
      BY <3>4, <1>2, DirNames, PutKeeps DEF Owners
    <3> QED
      BY <3>1, <3>2, <3>3, <3>4 DEF Drop
  <2> QED
    BY <2>1, <2>2, <2>3, <2>4, <2>5, <2>6 DEF Prepares
<1>5. Quit("err") \/ \E l \in Early : To(At(l))
  <2>1. CASE DropDefaults \/ DropChainDefaults
    BY <2>1, Drops DEF Drop
  <2> QED
    BY <2>1 DEF Prepares, CheckTools, FindRoot, MakeDir, MakeHead, Confirm, UpdateServices, CloneServices,
         UpdateActions, CloneActions, Repo, Clone, To, At, P, Early, HostInv, TypeOK, SetupState
<1>6. ASSUME NEW l \in Early, To(At(l)) PROVE InitOK'
  <2>1. job' = job /\ setup'.pc = l
    BY <1>6 DEF To, At, P, GoOn, control, HostInv, TypeOK, SetupState
  <2>2. \A k : To(At(k)) => k = l
    BY <2>1 DEF To, At, P, HostInv, TypeOK, SetupState
  <2>3. ~Quit("err")
    BY <2>1 DEF Quit, NoSetup, Early
  <2>4. l = "head" => {Root, "chains"} \subseteq dirs
    <3>1. CASE MakeDir
      <4>1. To(P) => l = setup.pc
        BY <2>1 DEF To, P
      <4>2. MajorDirs[1] = Root /\ MajorDirs[3] = "chains" /\ 1 \in DOMAIN MajorDirs /\ 3 \in DOMAIN MajorDirs
        BY DEF MajorDirs
      <4> QED
        BY <2>3, <3>1, <4>1, <4>2 DEF MakeDir, P
    <3>2. CASE DropDefaults \/ DropChainDefaults
      BY <2>2, <2>3, <3>2, Drops DEF Drop
    <3>3. CASE CheckTools \/ FindRoot \/ MakeHead \/ Confirm \/ UpdateServices \/ CloneServices \/ UpdateActions \/ CloneActions
      BY <2>2, <2>3, <3>3 DEF CheckTools, FindRoot, MakeHead, Confirm, UpdateServices, CloneServices, UpdateActions,
         CloneActions, Repo, Clone, P
    <3> QED
      BY <3>1, <3>2, <3>3 DEF Prepares
  \* Where the steps that drop a file begin and end.
  <2>5. CASE DropDefaults \/ DropChainDefaults
    <3>1. PICK d \in {"services", "actions", "chains"}, f \in Files, k, next \in Early :
             /\ Drop(k, d, f, next)
             /\ \/ <<k, d, f, next>> = <<"keysDefault", "services", KeysFile, "ipfsDefault">>
                \/ <<k, d, f, next>> = <<"ipfsDefault", "services", IpfsFile, "spareDefault">>
                \/ <<k, d, f, next>> = <<"spareDefault", "services", SpareFile, "actionDefault">>
                \/ <<k, d, f>> = <<"actionDefault", "actions", SpareFile>> /\ next \in {"chainDefault", "actions"}
                \/ <<k, d, f, next>> = <<"chainDefault", "chains", DefaultFile, "chainDir">>
                \/ <<k, d, f, next>> = <<"chainDir", "chains", ChainDir, "check">>
      BY <2>5, Drops
    <3>2. setup.pc = k /\ l = next /\ Put(d, f, "eris")
      BY <2>2, <2>3, <3>1 DEF Drop, P
    <3>3. HasAll(d, {f})' /\ HasAll(d, {})'
      BY <3>2, <1>2, DirNames, PutKeeps DEF HasAll, Owners
    <3>4. \A e \in {"services", "actions", "chains"}, gs \in SUBSET Files : HasAll(e, gs) => HasAll(e, gs)'
      BY <3>2, <1>2, DirNames, PutKeeps DEF HasAll, Owners
    <3> HIDE DEF HasAll
    <3>5. job = "init" =>
            /\ k \in {"ipfsDefault", "spareDefault", "actionDefault", "chainDefault", "chainDir"} =>
                 HasAll("services", {KeysFile})
            /\ k \in {"spareDefault", "actionDefault", "chainDefault", "chainDir"} => HasAll("services", {IpfsFile})
            /\ k \in {"actionDefault", "chainDefault", "chainDir"} => HasAll("services", {SpareFile})
            /\ k \in {"chainDefault", "chainDir"} => HasAll("actions", {})
            /\ k \in {"chainDir"} => HasAll("chains", {DefaultFile})
      BY <3>2 DEF HostInv, InitOK, Late
    <3> QED
      BY <2>1, <1>3, <3>1, <3>2, <3>3, <3>4, <3>5 DEF InitOK, Late, Migrating, SetupAssumption
  <2>6. CASE ~(DropDefaults \/ DropChainDefaults)
    <3>1. job = "init" => l \in {"root", "dirs", "head", "confirm", "services", "cloneServices", "keysDefault"}
            \/ (setup.pc \in {"actions", "cloneActions"} /\ l \in {"cloneActions", "chainDefault"})
      BY <2>1, <2>2, <2>3, <2>6 DEF Prepares, CheckTools, FindRoot, MakeDir, MakeHead, Confirm, UpdateServices,
         CloneServices, UpdateActions, CloneActions, Repo, Clone, To, P
    <3>2. setup.pc \in {"actions", "cloneActions"} =>
            /\ \A gs \in SUBSET Files : HasAll("services", gs) => HasAll("services", gs)'
            /\ HasAll("actions", {}) => HasAll("actions", {})'
      BY <1>4 DEF HasAll
    <3> HIDE DEF HasAll
    <3>3. job = "init" /\ setup.pc \in {"actions", "cloneActions"} =>
            /\ HasAll("services", {KeysFile}) /\ HasAll("services", {IpfsFile}) /\ HasAll("services", {SpareFile})
            /\ HasAll("actions", {})
      BY DEF HostInv, InitOK, Late
    <3> QED
      BY <2>1, <2>4, <1>3, <1>4, <3>1, <3>2, <3>3 DEF InitOK, Late, Migrating, Early, SetupAssumption
  <2> QED
    BY <2>5, <2>6
<1> QED
  BY <1>1, <1>2, <1>4, <1>5, <1>6, QuitInv, EarlyInv

\* What init has put in place a migration leaves.
LEMMA MigratingInit ==
  ASSUME HostInv, setup.pc \in Migrating, setup'.pc \in Migrating, job' = job,
         \A d \in {Root, "services", "actions", "chains"} : d \in dirs => d \in dirs',
         \A d \in {"services", "chains"}, f \in Files : HasFile(d, f) => HasFile(d, f)'
  PROVE  InitOK'
<1>1. \A d \in {"services", "actions", "chains"} :
        /\ d # "actions" => \A gs \in SUBSET Files : HasAll(d, gs) => HasAll(d, gs)'
        /\ HasAll(d, {}) => HasAll(d, {})'
  BY DEF HasAll
<1>2. {KeysFile} \subseteq Files /\ {IpfsFile} \subseteq Files /\ {SpareFile} \subseteq Files
      /\ {DefaultFile} \subseteq Files /\ {ChainDir} \subseteq Files
  BY SetupAssumption DEF SetupAssumption
<1> HIDE DEF HasAll
<1> QED
  BY <1>1, <1>2 DEF HostInv, InitOK, Late, Migrating

\* A migration that ends, one way or the other, without moving anything.
LEMMA MigratedInv ==
  ASSUME HostInv, setup.pc \in {"check", "pairs", "files"}, NEW r \in {"ok", "err"}, Migrated(r),
         UNCHANGED <<boxes, disk>>, session' = session, transfer' = transfer
  PROVE  SetupOK'
<1>1. boxes' \in [Boxes -> BoxStates] /\ dirs' \subseteq Dirs /\ tree' \in Trees /\ DirsOK'
  BY DEF HostInv, TypeOK, MachineTypeOK, DirsOK, disk
<1>2. CASE Quit(r)
  BY <1>1, <1>2, QuitInv
<1>3. CASE job = "update" /\ To(At("install"))
  <2>1. setup' = [setup EXCEPT !.pc = "install"] /\ UNCHANGED control
    BY <1>3 DEF To, At, P, GoOn
  <2>2. TypeOK'
    BY <1>1, <2>1 DEF HostInv, TypeOK, MachineTypeOK, SetupState, control
  <2>3. setup'.pc = "install" /\ job' = "update"
    BY <1>3, <2>1 DEF HostInv, TypeOK, SetupState, control
  <2> QED
    BY <1>1, <2>2, <2>3 DEF SetupOK, PairOK, PairsOK, InitOK, CleanOK, Early, Late, Migrating
<1> QED
  BY <1>2, <1>3 DEF Migrated

LEMMA CheckDirsInv == HostInv /\ OfSetup(CheckDirs) => SetupOK'
<1> SUFFICES ASSUME HostInv, OfSetup(CheckDirs) PROVE SetupOK'
  OBVIOUS
<1>1. setup.pc = "check" /\ UNCHANGED <<boxes, disk>> /\ session' = session /\ transfer' = transfer
  BY DEF OfSetup, CheckDirs, Same, P
<1>2. boxes' \in [Boxes -> BoxStates] /\ dirs' \subseteq Dirs /\ tree' \in Trees /\ DirsOK'
  BY <1>1 DEF HostInv, TypeOK, MachineTypeOK, DirsOK, disk
<1>3. CASE Migrated("ok")
  BY <1>1, <1>3, MigratedInv
<1>4. CASE Quit("err")
  BY <1>1, <1>2, <1>4, QuitInv
<1>5. CASE To([setup EXCEPT !.pc = "pairs", !.left = Pairs, !.migrated = TRUE])
  <2>1. setup' = [setup EXCEPT !.pc = "pairs", !.left = Pairs, !.migrated = TRUE] /\ UNCHANGED control
    BY <1>5 DEF To, GoOn
  <2>2. TypeOK'
    BY <1>1, <1>2, <2>1 DEF HostInv, TypeOK, MachineTypeOK, SetupState, control
  <2>3. setup'.pc = "pairs" /\ setup'.left = Pairs /\ setup'.now = setup.now
    BY <2>1 DEF HostInv, TypeOK, SetupState
  <2>4. PairOK' /\ PairsOK' /\ CleanOK'
    BY <1>1, <2>3 DEF HostInv, PairOK, PairsOK, CleanOK, Early, Done
  <2>5. InitOK'
    BY <1>1, <2>1, <2>3, MigratingInit DEF disk, control, HasFile, Migrating
  <2> QED
    BY <1>2, <2>2, <2>4, <2>5 DEF SetupOK
<1> QED
  BY <1>3, <1>4, <1>5 DEF OfSetup, CheckDirs, P

LEMMA MigrateDirInv == HostInv /\ OfSetup(MigrateDir) => SetupOK'
<1> SUFFICES ASSUME HostInv, OfSetup(MigrateDir) PROVE SetupOK'
  OBVIOUS
<1>1. setup.pc = "pairs" /\ boxes' = boxes /\ session' = session /\ transfer' = transfer
  BY DEF OfSetup, MigrateDir, P
<1>2. setup.now = <<>> /\ setup.left \subseteq Pairs /\ <<>> \notin Pairs
  BY <1>1 DEF HostInv, PairsOK, Pairs
<1>3. ASSUME NEW r \in {"ok", "err"}, Migrated(r), UNCHANGED disk PROVE SetupOK'
  BY <1>1, <1>3, MigratedInv
<1>4. ASSUME NEW pair \in setup.left, pair[1] \in dirs, pair[2] \notin dirs,
             MovePair(pair[1], pair[2]), To([setup EXCEPT !.left = @ \ {pair}])
      PROVE  SetupOK'
  <2>1. setup' = [setup EXCEPT !.left = setup.left \ {pair}] /\ UNCHANGED control
    BY <1>4 DEF To, GoOn
  <2>2. pair \in Pairs /\ (pair = <<"blockchains", "chains">> \/ pair = <<"dapps", "apps">>)
    BY <1>2 DEF Pairs
  <2>3. dirs' \subseteq Dirs /\ tree' \in Trees /\ DirsOK'
    BY <1>4, <2>2 DEF HostInv, TypeOK, MachineTypeOK, MovePair, Trees, Dirs, Owners, NoFiles, DirsOK
  <2>4. TypeOK'
    BY <1>1, <1>2, <2>1, <2>3 DEF HostInv, TypeOK, MachineTypeOK, SetupState, control
  <2>5. /\ setup'.pc = "pairs" /\ setup'.left = setup.left \ {pair} /\ setup'.now = <<>>
    BY <1>1, <1>2, <2>1 DEF HostInv, TypeOK, SetupState
  <2>6. \A other \in Pairs \ setup'.left : other[1] \notin dirs' /\ other[2] \in dirs'
    <3> TAKE other \in Pairs \ setup'.left
    <3>1. CASE other = pair
      BY <1>4, <2>2, <3>1 DEF MovePair
    <3>2. CASE other # pair
      <4>1. other[1] \notin dirs /\ other[2] \in dirs
        BY <1>1, <1>2, <2>5, <3>2 DEF HostInv, PairsOK, Done
      <4> QED
        BY <1>4, <2>2, <4>1 DEF MovePair, Pairs
    <3> QED
      BY <3>1, <3>2
  <2>7. PairOK' /\ PairsOK' /\ CleanOK'
    BY <1>2, <2>5, <2>6 DEF PairOK, PairsOK, CleanOK, Early, Done
  <2>8. InitOK'
    <3>1. \A d \in {Root, "services", "actions", "chains"} : d \in dirs => d \in dirs'
      BY <1>4, <2>2 DEF MovePair, Root
    <3>2. \A d \in {"services", "chains"}, f \in Files : HasFile(d, f) => HasFile(d, f)'
      <4>1. tree[pair[2]] = NoFiles
        BY <1>4, <2>2, DirNames DEF HostInv, DirsOK
      <4> QED
        BY <1>4, <2>2, <4>1, DirNames DEF MovePair, HostInv, TypeOK, MachineTypeOK, Trees, HasFile, NoFiles
    <3> QED
      BY <1>1, <2>1, <2>5, <3>1, <3>2, MigratingInit DEF control, Migrating
  <2> QED
    BY <2>3, <2>4, <2>7, <2>8 DEF SetupOK
<1>5. ASSUME NEW pair \in setup.left, pair[1] \in dirs, pair[2] \in dirs, UNCHANGED disk,
             To([setup EXCEPT !.pc = "files", !.now = pair, !.left = @ \ {pair},
                              !.files = {f \in Files : HasFile(pair[1], f)},
                              !.taken = {f \in Files : HasFile(pair[2], f)}])
      PROVE  SetupOK'
  <2>1. setup' = [setup EXCEPT !.pc = "files", !.now = pair, !.left = setup.left \ {pair},
                               !.files = {f \in Files : HasFile(pair[1], f)},
                               !.taken = {f \in Files : HasFile(pair[2], f)}] /\ UNCHANGED control
    BY <1>5 DEF To, GoOn
  <2>2. dirs' \subseteq Dirs /\ tree' \in Trees /\ DirsOK'
    BY <1>5 DEF HostInv, TypeOK, MachineTypeOK, DirsOK, disk
  <2>3. TypeOK'
    BY <1>1, <1>2, <2>1, <2>2 DEF HostInv, TypeOK, MachineTypeOK, SetupState, control
  <2>4. /\ setup'.pc = "files" /\ setup'.left = setup.left \ {pair} /\ setup'.now = pair
        /\ setup'.files = {f \in Files : HasFile(pair[1], f)} /\ setup'.taken = {f \in Files : HasFile(pair[2], f)}
    BY <2>1 DEF HostInv, TypeOK, SetupState
  <2>5. PairOK'
    BY <1>2, <1>5, <2>4 DEF PairOK, HasFile, disk
  <2>6. PairsOK'
    BY <1>1, <1>2, <1>5, <2>4 DEF HostInv, PairsOK, Early, Done, disk
  <2>7. InitOK' /\ CleanOK'
    BY <1>1, <1>5, <2>1, <2>4, MigratingInit DEF CleanOK, disk, control, HasFile, Migrating
  <2> QED
    BY <2>2, <2>3, <2>5, <2>6, <2>7 DEF SetupOK
<1> QED
  BY <1>3, <1>4, <1>5 DEF OfSetup, MigrateDir, MigrationFails, P

LEMMA MigrateFileInv == HostInv /\ OfSetup(MigrateFile) => SetupOK'
<1> SUFFICES ASSUME HostInv, OfSetup(MigrateFile) PROVE SetupOK'
  OBVIOUS
<1>1. setup.pc = "files" /\ boxes' = boxes /\ session' = session /\ transfer' = transfer
  BY DEF OfSetup, MigrateFile, P
<1>2. CASE MigrationFails
  BY <1>1, <1>2, MigratedInv DEF MigrationFails
<1>3. ASSUME NEW f \in setup.files, f \notin setup.taken, UNCHANGED dirs,
             tree' = [tree EXCEPT ![setup.now[2]][f] = tree[setup.now[1]][f], ![setup.now[1]][f] = "none"],
             To([setup EXCEPT !.files = @ \ {f}])
      PROVE  SetupOK'
  <2>1. setup' = [setup EXCEPT !.files = setup.files \ {f}] /\ UNCHANGED control
    BY <1>3 DEF To, GoOn
  <2>2. PICK old \in Dirs, new \in Dirs : setup.now = <<old, new>> /\ old # new /\ new \in dirs
                                     /\ new \in {"chains", "apps"} /\ old \in {"blockchains", "dapps"}
    BY <1>1 DEF HostInv, PairOK, Pairs, Dirs
  <2>3. f \in Files /\ HasFile(old, f) /\ ~HasFile(new, f)
    BY <1>1, <1>3, <2>2 DEF HostInv, PairOK, TypeOK, SetupState
  <2>4. tree' = [tree EXCEPT ![new][f] = tree[old][f], ![old][f] = "none"]
    BY <1>3, <2>2
  <2>5. \A d \in Dirs, g \in Files : tree'[d][g] = IF d = new /\ g = f THEN tree[old][f]
                                              ELSE IF d = old /\ g = f THEN "none" ELSE tree[d][g]
    BY <2>2, <2>3, <2>4 DEF HostInv, TypeOK, MachineTypeOK, Trees
  <2>6. tree' \in Trees
    <3> DEFINE to == [tree[new] EXCEPT ![f] = tree[old][f]]
               one == [tree EXCEPT ![new] = to]
    <3>1. tree \in [Dirs -> [Files -> Owners]]
      BY DEF HostInv, TypeOK, MachineTypeOK, Trees
    <3>2. to \in [Files -> Owners]
      BY <2>2, <2>3, <3>1
    <3>3. one \in [Dirs -> [Files -> Owners]]
      BY <2>2, <3>1, <3>2
    <3>4. [one[old] EXCEPT ![f] = "none"] \in [Files -> Owners]
      BY <2>2, <2>3, <3>3 DEF Owners
    <3>5. tree' = [one EXCEPT ![old] = [one[old] EXCEPT ![f] = "none"]]
      BY <2>4
    <3> HIDE DEF one
    <3> QED
      BY <2>2, <3>3, <3>4, <3>5 DEF Trees
  <2>7. DirsOK'
    <3> SUFFICES ASSUME NEW d \in Dirs \ dirs PROVE tree'[d] = NoFiles
      BY <1>3 DEF DirsOK
    <3>1. tree[d] = NoFiles /\ d # new
      BY <2>2 DEF HostInv, DirsOK
    <3>2. d # old
      BY <2>3, <3>1 DEF HasFile, NoFiles
    <3> QED
      BY <2>2, <2>4, <3>1, <3>2 DEF HostInv, TypeOK, MachineTypeOK, Trees
  <2>8. TypeOK'
    BY <1>1, <1>3, <2>1, <2>6 DEF HostInv, TypeOK, MachineTypeOK, SetupState, control
  <2>9. /\ setup'.pc = "files" /\ setup'.left = setup.left /\ setup'.now = setup.now
        /\ setup'.files = setup.files \ {f} /\ setup'.taken = setup.taken
    BY <1>1, <2>1 DEF HostInv, TypeOK, SetupState
  <2>10. PairOK'
    <3>1. /\ setup.now \in Pairs /\ setup.now[2] \in dirs
          /\ \A g \in Files : /\ g \in setup.files <=> tree[old][g] # "none"
                              /\ g \in setup.files /\ tree[new][g] # "none" => g \in setup.taken
      BY <1>1, <2>2 DEF HostInv, PairOK, HasFile
    <3>2. \A g \in Files : /\ tree'[old][g] # "none" <=> tree[old][g] # "none" /\ g # f
                           /\ g # f => (tree'[new][g] # "none" <=> tree[new][g] # "none")
      BY <2>2, <2>5
    <3>3. /\ setup'.now[1] = old /\ setup'.now[2] = new
          /\ setup'.now \in Pairs /\ setup'.now[2] \in dirs'
      BY <1>3, <2>2, <2>9, <3>1
    <3>4. \A g \in Files : /\ g \in setup'.files <=> tree'[old][g] # "none"
                           /\ g \in setup'.files /\ tree'[new][g] # "none" => g \in setup'.taken
      BY <2>9, <3>1, <3>2
    <3> QED
      BY <3>3, <3>4 DEF PairOK, HasFile
  <2>11. PairsOK' /\ CleanOK'
    BY <1>1, <1>3, <2>9 DEF HostInv, PairsOK, CleanOK, Early, Done
  <2>12. InitOK'
    <3>1. \A g \in Files : HasFile("services", g) => HasFile("services", g)'
      BY <2>2, <2>5 DEF HasFile, Dirs
    <3>2. \A g \in Files : HasFile("chains", g) => HasFile("chains", g)'
      BY <2>2, <2>3, <2>5 DEF HasFile, Dirs
    <3> QED
      BY <1>1, <1>3, <2>1, <2>9, <3>1, <3>2, MigratingInit DEF control, Migrating
  <2> QED
    BY <2>7, <2>8, <2>10, <2>11, <2>12 DEF SetupOK
<1> QED
  BY <1>2, <1>3 DEF OfSetup, MigrateFile, P

LEMMA RemoveOldInv == HostInv /\ OfSetup(RemoveOld) => SetupOK'
<1> SUFFICES ASSUME HostInv, OfSetup(RemoveOld) PROVE SetupOK'
  OBVIOUS
<1>1. setup.pc = "files" /\ setup.files = {} /\ boxes' = boxes /\ session' = session /\ transfer' = transfer
  BY DEF OfSetup, RemoveOld, P
<1>2. CASE MigrationFails
  BY <1>1, <1>2, MigratedInv DEF MigrationFails
<1>3. CASE /\ dirs' = dirs \ {setup.now[1]} /\ UNCHANGED tree
           /\ To([setup EXCEPT !.pc = "pairs", !.now = <<>>, !.taken = {}])
  <2>1. setup' = [setup EXCEPT !.pc = "pairs", !.now = <<>>, !.taken = {}] /\ UNCHANGED control
    BY <1>3 DEF To, GoOn
  <2>2. setup.now \in Pairs /\ setup.left \subseteq Pairs /\ setup.now[2] \in dirs
        /\ (setup.now = <<"blockchains", "chains">> \/ setup.now = <<"dapps", "apps">>)
    BY <1>1 DEF HostInv, PairOK, PairsOK, Pairs
  <2>3. \A f \in Files : ~HasFile(setup.now[1], f)
    BY <1>1 DEF HostInv, PairOK
  <2>4. tree[setup.now[1]] = NoFiles
    BY <2>2, <2>3 DEF HasFile, NoFiles, HostInv, TypeOK, MachineTypeOK, Trees, Dirs
  <2>5. dirs' \subseteq Dirs /\ tree' \in Trees /\ DirsOK'
    BY <1>3, <2>4 DEF HostInv, TypeOK, MachineTypeOK, DirsOK
  <2>6. TypeOK'
    BY <1>1, <2>1, <2>5 DEF HostInv, TypeOK, MachineTypeOK, SetupState, control
  <2>7. setup'.pc = "pairs" /\ setup'.left = setup.left /\ setup'.now = <<>>
    BY <2>1 DEF HostInv, TypeOK, SetupState
  <2>8. \A other \in Pairs \ setup'.left : other[1] \notin dirs' /\ other[2] \in dirs'
    BY <1>1, <1>3, <2>2, <2>7 DEF HostInv, PairsOK, Done, Pairs
  <2>9. PairOK' /\ PairsOK' /\ CleanOK'
    BY <2>2, <2>7, <2>8 DEF PairOK, PairsOK, CleanOK, Early, Done
  <2>10. InitOK'
    BY <1>1, <1>3, <2>1, <2>2, <2>7, MigratingInit DEF control, HasFile, Root, Migrating
  <2> QED
    BY <2>5, <2>6, <2>9, <2>10 DEF SetupOK
<1> QED
  BY <1>2, <1>3 DEF OfSetup, RemoveOld, P

LEMMA CleanInv == HostInv /\ OfSetup(ListBoxes \/ RemoveBox \/ BoxesGone \/ RemoveHome) => SetupOK'
<1> SUFFICES ASSUME HostInv, OfSetup(ListBoxes \/ RemoveBox \/ BoxesGone \/ RemoveHome) PROVE SetupOK'
  OBVIOUS
<1> USE DEF OfSetup
<1>1. session' = session /\ transfer' = transfer /\ setup.pc \in {"list", "containers", "home"}
  BY DEF ListBoxes, RemoveBox, BoxesGone, RemoveHome, P
<1>2. boxes' \in [Boxes -> BoxStates] /\ dirs' \subseteq Dirs /\ tree' \in Trees /\ DirsOK'
  <2> USE DEF HostInv, TypeOK, MachineTypeOK
  <2>1. boxes' \in [Boxes -> BoxStates]
    BY DEF ListBoxes, RemoveBox, BoxesGone, RemoveHome, Same, BoxStates
  <2>2. \/ UNCHANGED disk
        \/ dirs' = {} /\ tree' = [d \in Dirs |-> NoFiles]
        \/ \E stuck \in dirs : dirs' = Path(stuck) /\ tree' = [d \in Dirs |-> IF d = stuck THEN tree[d] ELSE NoFiles]
    BY DEF ListBoxes, RemoveBox, BoxesGone, RemoveHome, Same, disk
  <2>3. NoFiles \in [Files -> Owners]
    BY DEF NoFiles, Owners
  <2>4. CASE UNCHANGED disk
    BY <2>1, <2>4 DEF DirsOK, disk
  <2>5. CASE dirs' = {} /\ tree' = [d \in Dirs |-> NoFiles]
    BY <2>1, <2>3, <2>5 DEF DirsOK, Trees
  <2>6. CASE \E stuck \in dirs : dirs' = Path(stuck) /\ tree' = [d \in Dirs |-> IF d = stuck THEN tree[d] ELSE NoFiles]
    BY <2>1, <2>3, <2>6, PathDirs DEF DirsOK, Trees
  <2> QED
    BY <2>2, <2>4, <2>5, <2>6
<1>3. ASSUME NEW r \in {"ok", "err"}, Quit(r) PROVE SetupOK'
  BY <1>1, <1>2, <1>3, QuitInv
<1>4. ASSUME setup' \in SetupState, setup'.pc \in {"containers", "home"}, CleanOK', UNCHANGED control PROVE SetupOK'
  <2>1. TypeOK'
    BY <1>1, <1>2, <1>4 DEF HostInv, TypeOK, MachineTypeOK, control
  <2>2. PairOK' /\ PairsOK'
    BY <1>4 DEF PairOK, PairsOK, Early
  <2>3. InitOK'
    BY <1>1, <1>4 DEF HostInv, InitOK, control, Late, Migrating
  <2> QED
    BY <1>2, <1>4, <2>1, <2>2, <2>3 DEF SetupOK
<1>5. CASE ListBoxes
  <2>1. CASE setup' = [setup EXCEPT !.pc = "containers", !.left = {b \in Boxes : boxes[b] # "none"}]
    BY <1>4, <1>5, <2>1, MachineAssumption
    DEF ListBoxes, HostInv, TypeOK, SetupState, To, GoOn, CleanOK, Same, MachineAssumption
  <2>2. CASE setup' = [setup EXCEPT !.pc = "containers", !.unseen = TRUE]
    <3>1. setup.left = {}
      BY <1>5 DEF ListBoxes, P, HostInv, CleanOK
    <3> QED
      BY <1>4, <1>5, <2>2, <3>1
      DEF ListBoxes, HostInv, TypeOK, SetupState, To, GoOn, CleanOK, Same
  <2> QED
    BY <1>5, <2>1, <2>2 DEF ListBoxes, To, P
<1>6. CASE RemoveBox
  <2>1. setup.pc = "containers" /\ setup.left \subseteq Boxes
        /\ (~setup.unseen => \A b \in Labelled : boxes[b] # "none" => b \in setup.left)
    BY <1>6 DEF RemoveBox, P, HostInv, CleanOK
  <2>2. CASE Quit("err")
    BY <1>3, <2>2
  <2>3. ASSUME NEW b \in setup.left, setup' = [setup EXCEPT !.left = setup.left \ {b}], UNCHANGED control,
               \/ b \notin Labelled /\ UNCHANGED boxes
               \/ boxes' = [boxes EXCEPT ![b] = "none"]
        PROVE  SetupOK'
    <3>1. /\ setup' \in SetupState /\ setup'.pc = "containers" /\ setup'.left = setup.left \ {b}
          /\ setup'.unseen = setup.unseen
      BY <2>1, <2>3 DEF HostInv, TypeOK, SetupState
    <3>2. CleanOK'
      BY <2>1, <2>3, <3>1, MachineAssumption DEF CleanOK, MachineAssumption, HostInv, TypeOK, MachineTypeOK
    <3> QED
      BY <1>4, <2>3, <3>1, <3>2
  <2> QED
    BY <1>6, <2>2, <2>3 DEF RemoveBox, P, To, GoOn
<1>7. CASE BoxesGone
  <2>1. setup.pc = "containers" /\ setup.left = {} /\ boxes' = boxes
    BY <1>7 DEF BoxesGone, P, Same
  <2>2. CASE Quit("ok")
    BY <1>3, <2>2
  <2>3. CASE To(At("home"))
    <3>1. setup' = [setup EXCEPT !.pc = "home"] /\ UNCHANGED control
      BY <2>3 DEF To, At, P, GoOn
    <3>2. setup' \in SetupState /\ setup'.pc = "home" /\ setup'.unseen = setup.unseen
      BY <3>1 DEF HostInv, TypeOK, SetupState
    <3>3. CleanOK'
      BY <2>1, <3>2 DEF HostInv, CleanOK
    <3> QED
      BY <1>4, <3>1, <3>2, <3>3
  <2> QED
    BY <1>7, <2>2, <2>3 DEF BoxesGone
<1>8. CASE RemoveHome
  BY <1>3, <1>8 DEF RemoveHome
<1> QED
  BY <1>5, <1>6, <1>7, <1>8

LEMMA BeginInv == HostInv /\ OfSetup(SetupCommand) => HostInv'
<1> SUFFICES ASSUME HostInv, OfSetup(SetupCommand) PROVE HostInv'
  OBVIOUS
<1> USE DEF OfSetup
<1>1. PICK j \in SetupJobs, o \in SUBSET Options : SetupBegin(j, o)
  BY HostAssumption DEF SetupCommand, HostAssumption, SetupJobs
<1>2. /\ UNCHANGED <<boxes, disk>> /\ session' = session /\ transfer' = transfer
      /\ job = "none" /\ job' = j /\ begun < MaxCommands /\ begun' = begun + 1 /\ result' = "none"
  BY <1>1 DEF SetupBegin, Start, Same
<1>3. /\ setup' \in SetupState
      /\ setup'.pc = (IF j = "clean" THEN "list" ELSE IF j = "init" /\ "skip" \in o THEN "root" ELSE "tools")
      /\ setup'.left = {} /\ setup'.now = <<>> /\ ~setup'.migrated
  BY <1>1 DEF SetupBegin, NoSetup, SetupState
<1>4. TypeOK'
  BY <1>2, <1>3, MachineAssumption
  DEF HostInv, TypeOK, MachineTypeOK, disk, Jobs, SetupJobs, Results, MachineAssumption
<1>5. JobOK'
  BY <1>2 DEF HostInv, JobOK, SetupJobs
<1>6. SessionOK' /\ TransferOK' /\ DirsOK'
  BY <1>2 DEF HostInv, SessionOK, TransferOK, DirsOK, disk
<1>7. PairOK' /\ PairsOK' /\ InitOK' /\ CleanOK'
  BY <1>2, <1>3 DEF PairOK, PairsOK, InitOK, CleanOK, Early, Late, Migrating, SetupJobs
<1> QED
  BY <1>4, <1>5, <1>6, <1>7 DEF HostInv

LEMMA SetupInv == HostInv /\ OfSetup(SetupStep) => HostInv'
<1> SUFFICES ASSUME HostInv, OfSetup(SetupStep) PROVE HostInv'
  OBVIOUS
<1>1. SetupOK'
  <2>1. CASE Install
    <3>1. boxes' \in [Boxes -> BoxStates] /\ dirs' \subseteq Dirs /\ tree' \in Trees /\ DirsOK'
      BY <2>1 DEF Install, Same, disk, HostInv, TypeOK, MachineTypeOK, DirsOK
    <3> QED
      BY <2>1, <3>1, QuitInv DEF Install, OfSetup
  <2> QED
    BY <2>1, PreparesInv, CheckDirsInv, MigrateDirInv, MigrateFileInv, RemoveOldInv, CleanInv
    DEF OfSetup, SetupStep, Prepares
<1>2. session' = session /\ transfer' = transfer /\ setup.pc # "idle"
  BY DEF OfSetup, SetupStep, CheckTools, FindRoot, MakeDir, MakeHead, Confirm, UpdateServices, CloneServices,
         DropDefaults, Drop, UpdateActions, CloneActions, DropChainDefaults, Repo, Clone, CheckDirs, MigrateDir,
         MigrateFile, RemoveOld, Install, ListBoxes, RemoveBox, BoxesGone, RemoveHome, P
<1>3. job \in SetupJobs /\ session = NoSession /\ transfer = NoTransfer
  BY <1>2 DEF HostInv, JobOK, NoSetup, SetupJobs
<1>4. job' = job \/ (job' = "none" /\ setup' = NoSetup)
  BY DEF OfSetup, SetupStep, CheckTools, FindRoot, MakeDir, MakeHead, Confirm, UpdateServices, CloneServices,
         DropDefaults, Drop, UpdateActions, CloneActions, DropChainDefaults, Repo, Clone, CheckDirs, MigrateDir,
         MigrateFile, RemoveOld, Install, ListBoxes, RemoveBox, BoxesGone, RemoveHome, Migrated, MigrationFails, To,
         Quit, Over, GoOn, control
<1>5. JobOK' /\ SessionOK' /\ TransferOK'
  BY <1>2, <1>3, <1>4, TerminalAssumption
  DEF JobOK, SessionOK, TransferOK, SetupJobs, NoSession, NoTransfer, TerminalAssumption
<1> QED
  BY <1>1, <1>5 DEF HostInv, SetupOK

LEMMA KillInv == HostInv /\ Kill => HostInv'
<1> SUFFICES ASSUME HostInv, Kill PROVE HostInv'
  OBVIOUS
<1> USE DEF Kill, Over
<1>1. TypeOK'
  BY TerminalAssumption, ExportAssumption
  DEF HostInv, TypeOK, MachineTypeOK, disk, Jobs, Results, NoSession, NoTransfer, NoSetup, Session, Transfer, SetupState,
      TerminalAssumption, ExportAssumption, Pairs
<1>2. SessionOK'
  BY TerminalAssumption DEF SessionOK, NoSession, TerminalAssumption
<1>3. JobOK' /\ TransferOK' /\ DirsOK'
  BY DEF HostInv, JobOK, TransferOK, NoTransfer, DirsOK, disk
<1>4. PairOK' /\ PairsOK' /\ InitOK' /\ CleanOK'
  BY DEF PairOK, PairsOK, InitOK, CleanOK, NoSetup, Early, Late, Migrating
<1> QED
  BY <1>1, <1>2, <1>3, <1>4 DEF HostInv

LEMMA NextInv == HostInv /\ [Next]_vars => HostInv'
<1> SUFFICES ASSUME HostInv, [Next]_vars PROVE HostInv'
  OBVIOUS
<1>1. CASE UNCHANGED vars
  BY <1>1 DEF vars, disk, control, HostInv, TypeOK, MachineTypeOK, JobOK, SessionOK, TransferOK, DirsOK, PairOK,
     PairsOK, InitOK, CleanOK, HasAll, HasFile, Done
<1> QED
  BY <1>1, SessionInv, TransferInv, BeginInv, SetupInv, KillInv DEF Next, OfSetup

\* The invariant holds in every reachable state.
LEMMA Invariance == Spec => []HostInv
  BY InitInv, NextInv, PTL DEF Spec

\* Type correctness: every variable keeps its type.
THEOREM TypeCorrect == Spec => []TypeOK
<1>1. HostInv => TypeOK
  BY DEF HostInv
<1> QED
  BY Invariance, <1>1, PTL

\* The terminal copies nothing before the container has been started and the
\* main goroutine knows that it is attached (docker_run.go:743-757).
THEOREM CopiesAfterStart == Spec => []CopyAfterStart
<1>1. HostInv => CopyAfterStart
  BY DEF HostInv, SessionOK, CopyAfterStart
<1> QED
  BY Invariance, <1>1, PTL

-----------------------------------------------------------------------------
\* What a step may not do.

\* While an export or a clean runs, steps are its own, the end of the program in
\* the container, or a kill; likewise for what follows the label of a migration.
LEMMA OwnSteps ==
  ASSUME HostInv, [Next]_vars
  PROVE  /\ job = "export" => OfTransfer(TransferNext) \/ UNCHANGED <<disk, transfer, job>> \/ Kill
         /\ job \in SetupJobs => \/ OfSetup(SetupStep) \/ Kill
                               \/ /\ UNCHANGED <<disk, setup, job>>
                                  /\ \A b \in Boxes \ Labelled : boxes'[b] = boxes[b]
<1>1. job # "exec" => session.main = "idle" /\ session.attach = "none" /\ session.handler = "none"
  BY DEF HostInv, JobOK, NoSession
<1>2. job # "export" => transfer.main = "idle" /\ transfer.copier = "none"
  BY DEF HostInv, JobOK, NoTransfer
<1>3. job \notin SetupJobs => setup.pc = "idle"
  BY DEF HostInv, JobOK, NoSetup
<1>4. CASE UNCHANGED vars
  BY <1>4 DEF vars, disk, control
<1>5. CASE OfSession(SessionNext) /\ job \notin {"none", "exec"}
  <2>1. ProgramEnds /\ UNCHANGED <<transfer, setup>>
    BY <1>1, <1>5 DEF OfSession, SessionNext, SessionBegin, SessionMain, SessionAttach, SessionHandler, SessionData,
       SessionMake, Refused, SessionStart, SessionMeet, SessionReply, SessionWait, SessionRemove, Dial, CopyOutput,
       Signal, Catch, HandlerStop, Output, S, Start
  <2> QED
    BY <2>1, MachineAssumption DEF ProgramEnds, Keep, GoOn, control, MachineAssumption, HostInv, TypeOK, MachineTypeOK
<1>6. OfTransfer(TransferNext) => job \in {"none", "export"}
  BY <1>2 DEF OfTransfer, TransferNext, TransferBegin, TransferMain, TransferPass, TransferCheck, TransferMake,
     TransferLook, Find, TFails, TransferPrepare, CopyFile, TransferClear, TransferClose, Pass, PassEnd,
     DownloadFails, DownloadEnds, UnpackFails, T, Start
<1>7. OfSetup(SetupCommand) => job = "none"
  BY DEF OfSetup, SetupCommand, SetupBegin, Start
<1>8. OfSetup(SetupStep) => job \in SetupJobs
  BY <1>3 DEF OfSetup, SetupStep, CheckTools, FindRoot, MakeDir, MakeHead, Confirm, UpdateServices, CloneServices,
     DropDefaults, Drop, UpdateActions, CloneActions, DropChainDefaults, Repo, Clone, CheckDirs, MigrateDir, MigrateFile,
     RemoveOld, Install, ListBoxes, RemoveBox, BoxesGone, RemoveHome, P
<1> QED
  BY <1>4, <1>5, <1>6, <1>7, <1>8 DEF Next, OfSetup, SetupJobs

\* Nothing reaches the destination of an export before the whole archive has been
\* received (data/operate.go:123-142).
THEOREM ExportsWhole == Spec => ExportWhole
<1>1. HostInv /\ [Next]_vars => [job = "export" /\ tree' # tree => transfer.got = Len(Payload)]_vars
  <2> SUFFICES ASSUME HostInv, [Next]_vars, job = "export", tree' # tree PROVE transfer.got = Len(Payload)
    OBVIOUS
  <2>1. OfTransfer(TransferNext)
    BY OwnSteps DEF Kill, disk
  <2>2. transfer.main = "copy"
    BY <2>1 DEF OfTransfer, TransferNext, TransferBegin, TransferMain, TransferPass, TransferCheck, TransferMake,
       TransferLook, Find, TFails, TransferPrepare, CopyFile, TransferClear, TransferClose, Pass, PassEnd,
       DownloadFails, DownloadEnds, UnpackFails, TGo, TExit, disk, T
  <2> QED
    BY <2>2 DEF HostInv, TransferOK
<1> QED
  BY Invariance, <1>1, PTL DEF Spec, ExportWhole

\* Clean spares the containers that are not of eris, and takes the directories
\* only after all containers it has seen (util/clean.go:55-100).
THEOREM CleansInOrder == Spec => CleanInOrder
<1>1. HostInv /\ [Next]_vars =>
        [job = "clean" =>
          /\ \A b \in Boxes \ Labelled : boxes'[b] = boxes[b]
          /\ dirs' # dirs \/ tree' # tree => setup.unseen \/ \A b \in Labelled : boxes[b] = "none"]_vars
  <2> SUFFICES ASSUME HostInv, [Next]_vars, job = "clean"
               PROVE  /\ \A b \in Boxes \ Labelled : boxes'[b] = boxes[b]
                      /\ dirs' # dirs \/ tree' # tree => setup.unseen \/ \A b \in Labelled : boxes[b] = "none"
    OBVIOUS
  <2>1. setup.pc \in {"list", "containers", "home"}
    BY DEF HostInv, InitOK
  <2>2. CASE OfSetup(SetupStep)
    <3>1. ListBoxes \/ RemoveBox \/ BoxesGone \/ RemoveHome
      BY <2>1, <2>2 DEF OfSetup, SetupStep, CheckTools, FindRoot, MakeDir, MakeHead, Confirm, UpdateServices,
         CloneServices, DropDefaults, Drop, UpdateActions, CloneActions, DropChainDefaults, Repo, Clone, CheckDirs,
         MigrateDir, MigrateFile, RemoveOld, Install, P
    <3>2. CASE RemoveBox
      BY <3>2 DEF RemoveBox, disk, HostInv, TypeOK, MachineTypeOK
    <3>3. CASE RemoveHome
      BY <3>3 DEF RemoveHome, HostInv, CleanOK, P
    <3> QED
      BY <3>1, <3>2, <3>3 DEF ListBoxes, BoxesGone, Same, disk
  <2>3. CASE Kill
    BY <2>3 DEF Kill, disk
  <2> QED
    BY <2>2, <2>3, OwnSteps DEF disk, SetupJobs
<1> QED
  BY Invariance, <1>1, PTL DEF Spec, CleanInOrder

\* When init succeeds the default definitions are in place, whatever was killed
\* before, and a migration it has begun is complete (initialize/init.go:13-56,
\* util/migrate_dirs.go:11-84).
THEOREM SetupSucceeds == Spec => SetupOkIsTrue
<1> DEFINE Good == /\ {Root, "services", "actions", "chains"} \subseteq dirs'
                   /\ \A f \in {KeysFile, IpfsFile, SpareFile} : tree'["services"][f] # "none"
                   /\ \A f \in {DefaultFile, ChainDir} : tree'["chains"][f] # "none"
                   /\ setup.migrated => \A pair \in Pairs : pair[1] \notin dirs' /\ pair[2] \in dirs'
<1>1. ASSUME HostInv, [Next]_vars, job = "init", job' = "none", result' = "ok" PROVE Good
  <2>1. OfSetup(SetupStep)
    BY <1>1, OwnSteps DEF Kill, Over, SetupJobs
  <2>2. setup.pc \notin {"install", "list", "containers", "home"}
    BY <1>1 DEF HostInv, InitOK
  <2>3. Quit("ok")
    BY <1>1, <2>1 DEF OfSetup, SetupStep, CheckTools, FindRoot, MakeDir, MakeHead, Confirm, UpdateServices,
       CloneServices, DropDefaults, Drop, UpdateActions, CloneActions, DropChainDefaults, Repo, Clone, CheckDirs,
       MigrateDir, MigrateFile, RemoveOld, Install, ListBoxes, RemoveBox, BoxesGone, RemoveHome, Migrated,
       MigrationFails, To, Quit, Over, GoOn, control
  <2>4. \/ setup.pc = "check" /\ UNCHANGED disk
        \/ setup.pc = "pairs" /\ setup.left = {} /\ UNCHANGED disk
    BY <1>1, <2>1, <2>2 DEF OfSetup, SetupStep, CheckTools, FindRoot, MakeDir, MakeHead, Confirm, UpdateServices,
       CloneServices, DropDefaults, Drop, UpdateActions, CloneActions, DropChainDefaults, Repo, Clone, CheckDirs,
       MigrateDir, MigrateFile, RemoveOld, Install, ListBoxes, RemoveBox, BoxesGone, RemoveHome, Migrated,
       MigrationFails, To, Quit, Over, GoOn, control, P, Same
  <2>5. /\ {Root, "services", "actions", "chains"} \subseteq dirs'
        /\ \A f \in {KeysFile, IpfsFile, SpareFile} : tree'["services"][f] # "none"
        /\ \A f \in {DefaultFile, ChainDir} : tree'["chains"][f] # "none"
    BY <1>1, <2>4 DEF HostInv, InitOK, HasAll, HasFile, Late, Migrating, disk
  <2>6. setup.migrated => \A pair \in Pairs : pair[1] \notin dirs' /\ pair[2] \in dirs'
    BY <1>1, <2>4 DEF HostInv, PairsOK, Early, Done, disk, Pairs
  <2> QED
    BY <2>5, <2>6
<1>2. HostInv /\ [Next]_vars => [job = "init" /\ job' = "none" /\ result' = "ok" => Good]_vars
  BY <1>1
<1> QED
  BY Invariance, <1>2, PTL DEF Spec, SetupOkIsTrue

\* To exchange one member of a finite set leaves its size.
LEMMA Swap ==
  ASSUME NEW A, IsFiniteSet(A), NEW a \in A, NEW b, b \notin A
  PROVE  Cardinality((A \ {a}) \cup {b}) = Cardinality(A)
<1>1. IsFiniteSet(A \ {a}) /\ Cardinality(A \ {a}) = Cardinality(A) - 1
  BY FS_RemoveElement
<1>2. Cardinality((A \ {a}) \cup {b}) = Cardinality(A \ {a}) + 1
  BY <1>1, FS_AddElement
<1> QED
  BY <1>1, <1>2, FS_CardinalityType

LEMMA DirsFinite == IsFiniteSet(Dirs)
<1>1. \A d, e : IsFiniteSet({d, e})
  <2> TAKE d, e
  <2>1. IsFiniteSet({d}) /\ IsFiniteSet({e})
    BY FS_Singleton
  <2>2. {d, e} = {d} \cup {e}
    OBVIOUS
  <2> QED
    BY <2>1, <2>2, FS_Union
<1>2. IsFiniteSet(KeysDirs) /\ IsFiniteSet(ScratchDirs)
  <2>1. ScratchDirs = {"scratch/epm", "scratch/lllc"} \cup {"scratch/sol", "scratch/ser"}
    BY DEF ScratchDirs
  <2> QED
    BY <1>1, <2>1, FS_Union DEF KeysDirs
<1>3. /\ IsFiniteSet({Root, "actions"} \cup {"chains", "data"})
      /\ IsFiniteSet({"apps", "keys"} \cup {"languages", "services"})
      /\ IsFiniteSet({"scratch", "blockchains"} \cup {"dapps", Root})
  BY <1>1, FS_Union
<1>4. IsFiniteSet((({Root, "actions"} \cup {"chains", "data"}) \cup ({"apps", "keys"} \cup {"languages", "services"}))
                    \cup ({"scratch", "blockchains"} \cup {"dapps", Root}))
  BY <1>3, FS_Union
<1>5. Dirs = ((({Root, "actions"} \cup {"chains", "data"}) \cup ({"apps", "keys"} \cup {"languages", "services"}))
                \cup ({"scratch", "blockchains"} \cup {"dapps", Root})) \cup KeysDirs \cup ScratchDirs
  BY DEF Dirs
<1> QED
  BY <1>2, <1>4, <1>5, FS_Union

\* No step of a migration loses a file, in whatever order the directories come and
\* whatever an earlier one left (util/migrate_dirs.go:57-119).
THEOREM KeepsFiles == Spec => MigrationKeepsFiles
<1>1. ASSUME HostInv, [Next]_vars, setup.pc \in {"pairs", "files"}, NEW f \in Files
      PROVE  Cardinality(Copies(f)') = Cardinality(Copies(f))
  <2>1. IsFiniteSet(Copies(f))
    BY DirsFinite, FS_Subset DEF Copies
  <2>2. CASE UNCHANGED tree
    BY <2>2 DEF Copies, HasFile
  <2>3. CASE MigrateDir /\ ~UNCHANGED tree
    <3>1. PICK pair \in setup.left : pair[1] \in dirs /\ pair[2] \notin dirs /\ MovePair(pair[1], pair[2])
      BY <2>3 DEF MigrateDir, P, disk, MigrationFails
    <3>2. PICK old \in Dirs, new \in Dirs : pair = <<old, new>> /\ old # new
      BY <1>1 DEF HostInv, PairsOK, Pairs, Dirs
    <3>3. tree[new] = NoFiles
      BY <1>1, <3>1, <3>2 DEF HostInv, DirsOK
    <3>4. \A d \in Dirs : tree'[d] = IF d = old THEN NoFiles ELSE IF d = new THEN tree[old] ELSE tree[d]
      BY <1>1, <3>1, <3>2 DEF MovePair, HostInv, TypeOK, MachineTypeOK, Trees
    <3>5. NoFiles[f] = "none"
      BY DEF NoFiles
    <3>6. Copies(f)' = IF tree[old][f] # "none" THEN (Copies(f) \ {old}) \cup {new} ELSE Copies(f)
      BY <3>2, <3>3, <3>4, <3>5 DEF Copies, HasFile
    <3>7. tree[old][f] # "none" => old \in Copies(f) /\ new \notin Copies(f)
      BY <3>2, <3>3, <3>5 DEF Copies, HasFile
    <3> QED
      BY <2>1, <3>6, <3>7, Swap
  <2>4. CASE MigrateFile /\ ~UNCHANGED tree
    <3>1. PICK g \in setup.files : g \notin setup.taken
            /\ tree' = [tree EXCEPT ![setup.now[2]][g] = tree[setup.now[1]][g], ![setup.now[1]][g] = "none"]
      BY <2>4 DEF MigrateFile, P, disk, MigrationFails
    <3>2. setup.pc = "files"
      BY <2>4 DEF MigrateFile, P
    <3>3. PICK old \in Dirs, new \in Dirs : setup.now = <<old, new>> /\ old # new
      BY <1>1, <3>2 DEF HostInv, PairOK, Pairs, Dirs
    <3>4. g \in Files /\ tree[old][g] # "none" /\ tree[new][g] = "none"
      BY <1>1, <3>1, <3>2, <3>3 DEF HostInv, PairOK, TypeOK, SetupState, HasFile
    <3>5. \A d \in Dirs, h \in Files : tree'[d][h] = IF d = new /\ h = g THEN tree[old][g]
                                                   ELSE IF d = old /\ h = g THEN "none" ELSE tree[d][h]
      BY <1>1, <3>1, <3>3, <3>4 DEF HostInv, TypeOK, MachineTypeOK, Trees
    <3>6. Copies(f)' = IF f = g THEN (Copies(f) \ {old}) \cup {new} ELSE Copies(f)
      BY <3>3, <3>4, <3>5 DEF Copies, HasFile
    <3>7. f = g => old \in Copies(f) /\ new \notin Copies(f)
      BY <3>3, <3>4 DEF Copies, HasFile
    <3> QED
      BY <2>1, <3>6, <3>7, Swap
  <2>5. MigrateDir \/ MigrateFile \/ UNCHANGED tree
    <3>1. job \in SetupJobs
      BY <1>1 DEF HostInv, JobOK, NoSetup
    <3>2. OfSetup(SetupStep) => MigrateDir \/ MigrateFile \/ UNCHANGED tree
      BY <1>1 DEF OfSetup, SetupStep, CheckTools, FindRoot, MakeDir, MakeHead, Confirm, UpdateServices, CloneServices,
         DropDefaults, Drop, UpdateActions, CloneActions, DropChainDefaults, Repo, Clone, CheckDirs, RemoveOld, Install,
         ListBoxes, RemoveBox, BoxesGone, RemoveHome, P, MigrationFails, disk
    <3> QED
      BY <1>1, <3>1, <3>2, OwnSteps DEF Kill, disk
  <2> QED
    BY <2>2, <2>3, <2>4, <2>5
<1>2. HostInv /\ [Next]_vars =>
        [setup.pc \in {"pairs", "files"} => \A f \in Files : Cardinality(Copies(f)') = Cardinality(Copies(f))]_vars
  BY <1>1
<1> QED
  BY Invariance, <1>2, PTL DEF Spec, MigrationKeepsFiles
=============================================================================
