-------------------------------- MODULE Host --------------------------------
(***************************************************************************)
(* Interactive execs, exports, init, update and clean, one at a time on one*)
(* machine, with kills: what one leaves behind is what the next one finds. *)
(***************************************************************************)
EXTENDS Terminal, Export, Setup

CONSTANTS InitOptions, CleanOptions   \* the sets of options they may have

HostAssumption == InitOptions \cup CleanOptions \subseteq SUBSET Options

ASSUME HostAssumption

vars == <<boxes, disk, control, session, transfer, setup>>

TypeOK ==
  /\ MachineTypeOK
  /\ session \in Session
  /\ transfer \in Transfer
  /\ setup \in SetupState

Init ==
  /\ MachineInit
  /\ session = NoSession /\ transfer = NoTransfer /\ setup = NoSetup

\* The process is killed; its goroutines are gone, the terminal stays as it is.
Kill ==
  /\ job # "none"
  /\ Over("killed")
  /\ session' = NoSession /\ transfer' = NoTransfer /\ setup' = NoSetup
  /\ UNCHANGED <<boxes, disk>>

SetupCommand ==
  \/ \E o \in InitOptions : SetupBegin("init", o)
  \/ SetupBegin("update", {})
  \/ \E o \in CleanOptions : SetupBegin("clean", o)

OfSession(A)  == A /\ UNCHANGED <<transfer, setup>>
OfTransfer(A) == A /\ UNCHANGED <<session, setup>>
OfSetup(A)    == A /\ UNCHANGED <<session, transfer>>

Next ==
  \/ OfSession(SessionNext)
  \/ OfTransfer(TransferNext)
  \/ OfSetup(SetupCommand \/ SetupStep)
  \/ Kill

Spec == Init /\ [][Next]_vars

\* Each goroutine goes on while it can, the daemon answers, and an archive arrives.
\* Programs in containers and users may take for ever.
FairSpec ==
  /\ Spec
  /\ WF_vars(OfSession(SessionMain)) /\ WF_vars(OfSession(SessionAttach)) /\ WF_vars(OfSession(SessionHandler))
  /\ WF_vars(OfTransfer(TransferMain)) /\ WF_vars(OfTransfer(TransferPass))

-----------------------------------------------------------------------------
\* Properties

\* The terminal copies no output before the container has been started, and the
\* main goroutine knows that it is attached: what Success is for.
CopyAfterStart ==
  session.attach = "copy" => boxes[Temp] # "created" /\ session.main \in {"wait", "remove"}

\* The main goroutine waits for an attach goroutine that could not connect.
Stuck == session.main = "meet" /\ session.attach = "ended"

\* Once its container has ended, by itself or by a signal, an exec ends, and
\* neither goroutine waits for the other for ever, if the terminal could be attached.
InterruptEnds == (job = "exec" /\ boxes[Temp] = "exited") ~> (job # "exec" \/ Stuck)

\* Nothing reaches the destination before the whole archive has been received.
ExportWhole == [][job = "export" /\ tree' # tree => transfer.got = Len(Payload)]_vars

\* An export ends, whatever fails.
ExportEnds == (job = "export") ~> (job # "export")

\* No step of a migration loses a file, in whatever order the directories come
\* and whatever an earlier one left when it was killed.
Copies(f) == {d \in Dirs : HasFile(d, f)}

MigrationKeepsFiles ==
  [][setup.pc \in {"pairs", "files"} =>
       \A f \in Files : Cardinality(Copies(f)') = Cardinality(Copies(f))]_vars

\* A success of init is true, also after kills and failures: the default
\* definitions are in place, and if there was anything to migrate no old directory
\* is left.
SetupOkIsTrue ==
  [][job = "init" /\ job' = "none" /\ result' = "ok" =>
       /\ {Root, "services", "actions", "chains"} \subseteq dirs'
       /\ \A f \in {KeysFile, IpfsFile, SpareFile} : tree'["services"][f] # "none"
       /\ \A f \in {DefaultFile, ChainDir} : tree'["chains"][f] # "none"
       /\ setup.migrated => \A pair \in Pairs : pair[1] \notin dirs' /\ pair[2] \in dirs']_vars

\* Clean spares what is not of eris, and touches the directories only when the
\* containers it saw, among them what a killed exec left, are gone.
CleanInOrder ==
  [][job = "clean" =>
       /\ \A b \in Boxes \ Labelled : boxes'[b] = boxes[b]
       /\ dirs' # dirs \/ tree' # tree => setup.unseen \/ \A b \in Labelled : boxes[b] = "none"]_vars
=============================================================================
