--------------------------- MODULE Perform_proofs ---------------------------
(***************************************************************************)
(* For any number of processes and commands, any set of names, and with or *)
(* without kills and daemon failures: the variables keep their types, and  *)
(* the throw-away containers behind exec and data commands belong to       *)
(* exactly the process that created them for as long as it works in them.  *)
(*                                                                         *)
(* TempOwned is not inductive: a process may remove or stop a container by *)
(* an id it looked up long ago, and its callers hold such ids in their     *)
(* frames.  IInv adds that no id held anywhere is that of a throw-away     *)
(* container (the list ParseContainers searches never shows one), that ids *)
(* are not given twice, and which command a process in exec is running.    *)
(***************************************************************************)
EXTENDS Perform, SequenceTheorems, TLAPS

ExecLabels == {"execData", "execDataCreate", "execCreate", "execStart", "execWait", "execRemove"}
HeldLabels == {"execStart", "execWait", "execRemove"}

IsTemp(n) == n.type \in TempTypes

\* Ids already given, and not to a throw-away container that exists.
SafeIds == {i \in Nat : i < nextId /\ \A n \in ContainerName : IsTemp(n) /\ Exists(n) => cont[n].id # i}

FrameOver(I) == [back : {"rebuildRemove", "rebuildCreate", "pullRemove"}, id : I, was : BOOLEAN]

ProcessOver(I) ==
  [pc : Labels, inv : Invocation \cup {NoInvocation}, data : ContainerName \cup {NoName},
   id : I, was : BOOLEAN, stk : Seq(FrameOver(I)), src : ContainerName \cup {NoName},
   made : Nat, failed : BOOLEAN, res : Results]

DaemonOK ==
  /\ cont \in [ContainerName -> Container]
  /\ volumes \subseteq Nat
  /\ nextId \in Nat \ {0}
  /\ \A n \in ContainerName : cont[n].id < nextId
  /\ \A m, n \in Existing : cont[m].id = cont[n].id => m = n

CliOK ==
  /\ cli \in [Procs -> ProcessOver(SafeIds)]
  /\ begun \in Nat
  /\ \A p \in Procs :
       /\ ~IsTemp(cli[p].data)
       /\ cli[p].pc # "idle" => cli[p].inv \in Invocations
       /\ cli[p].pc \in ExecLabels =>
            \/ cli[p].inv.kind = "exec"
            \/ cli[p].inv.kind = "runData" /\ cli[p].data = ToDataContainer(cli[p].inv.name)
       /\ cli[p].pc \in ExecLabels => cli[p].stk = <<>>

MadeDistinct ==
  /\ \A p \in Procs : Holding(p) => cli[p].made < nextId
  /\ \A p, q \in Procs : p # q /\ Holding(p) /\ Holding(q) => cli[p].made # cli[q].made

IInv == DaemonOK /\ CliOK /\ TempOwned /\ MadeDistinct

-----------------------------------------------------------------------------
\* Names.

LEMMA NameFacts ==
  /\ NoName \notin ContainerName
  /\ \A n \in ContainerName : ToDataContainer(n) \in ContainerName /\ ~IsTemp(ToDataContainer(n))
  /\ \A n \in ContainerName : ExecContainer(n) \in ContainerName /\ IsTemp(ExecContainer(n))
  /\ \A n \in ContainerName : InteractiveContainer(n) \in ContainerName
                              /\ IsTemp(InteractiveContainer(n))
  /\ \A n \in ContainerName : n.type \in ErisTypes => ~IsTemp(n)
  /\ ~IsTemp(NoName)
  BY DEF ContainerName, NoName, ToDataContainer, ExecContainer, InteractiveContainer, IsTemp,
         TempTypes, ErisTypes, TypeService, TypeChain, TypeData

LEMMA InvocationFacts ==
  ASSUME NEW i \in Invocations
  PROVE  /\ i \in Invocation
         /\ i.name \in ContainerName /\ ~IsTemp(i.name)
         /\ i.to \in ContainerName /\ ~IsTemp(i.to)
         /\ i.kind \in Kinds
         /\ i.kind \in {"createData", "runData"} => i.name.type = TypeData
  BY NameFacts, PerformAssumption DEF PerformAssumption, Invocation, PlainName

\* A process in the exec lines works in a throw-away name.
LEMMA TempIsTemp ==
  ASSUME IInv, NEW p \in Procs, cli[p].pc \in ExecLabels
  PROVE  Temp(p) \in ContainerName /\ IsTemp(Temp(p))
  <1>1. cli[p].inv \in Invocations
    BY DEF IInv, CliOK, ExecLabels
  <1>2. cli[p].inv.name \in ContainerName
    BY <1>1, InvocationFacts
  <1>3. QED
    BY <1>1, <1>2, NameFacts DEF IInv, CliOK, Temp, IsService, Name

-----------------------------------------------------------------------------
\* What processes become.

LEMMA SafeFacts ==
  ASSUME IInv
  PROVE  /\ 0 \in SafeIds
         /\ SafeIds \subseteq Nat
         /\ \A n \in Existing : ~IsTemp(n) => cont[n].id \in SafeIds
  BY DEF IInv, DaemonOK, SafeIds, Existing, Exists, Container

LEMMA LookupSafe ==
  ASSUME IInv, NEW n, NEW all
  PROVE  Lookup(n, all) \subseteq SafeIds
  BY SafeFacts, NameFacts DEF Lookup, Candidates, Existing

\* The process states that a step of p other than creating and removing its
\* throw-away container may lead to.
Keeps(p, r) ==
  \/ \E x \in Results : r = Idle(x)
  \/ /\ cli[p].pc # "idle"
     /\ r.inv = cli[p].inv /\ r.data = cli[p].data /\ r.made = cli[p].made
     /\ r.pc \in ExecLabels => cli[p].pc \in ExecLabels /\ r.stk = cli[p].stk
     /\ r.pc \in HeldLabels => cli[p].pc \in HeldLabels

Good(p, r) == r \in ProcessOver(SafeIds) /\ Keeps(p, r)

LEMMA IdleSafe ==
  ASSUME NEW I, 0 \in I, NEW x \in Results
  PROVE  Idle(x) \in ProcessOver(I)
  BY EmptySeq DEF Idle, ProcessOver, Labels

LEMMA ReturnedSafe ==
  ASSUME IInv, NEW p \in Procs, cli[p].pc # "idle"
  PROVE  Good(p, Returned(p))
  <1>1. cli[p] \in ProcessOver(SafeIds)
    BY DEF IInv, CliOK
  <1>2. CASE cli[p].stk = <<>>
    BY <1>2, SafeFacts, IdleSafe DEF Returned, Keeps, Results, Good
  <1>3. CASE cli[p].stk # <<>>
    <2>1. cli[p].stk \in Seq(FrameOver(SafeIds))
      BY <1>1 DEF ProcessOver
    <2>2. Head(cli[p].stk) \in FrameOver(SafeIds) /\ Tail(cli[p].stk) \in Seq(FrameOver(SafeIds))
      BY <2>1, <1>3, HeadTailProperties
    <2> DEFINE h == Head(cli[p].stk)
               t == Tail(cli[p].stk)
               r == [cli[p] EXCEPT !.pc = h.back, !.id = h.id, !.was = h.was, !.stk = t]
    <2>3. Returned(p) = r
      BY <1>3 DEF Returned
    <2>4. h.back \in Labels \ ExecLabels /\ h.id \in SafeIds /\ h.was \in BOOLEAN
      BY <2>2 DEF FrameOver, Labels, ExecLabels
    <2> HIDE DEF h, t
    <2>5. t \in Seq(FrameOver(SafeIds))
      BY <2>2 DEF t
    <2>6. r \in ProcessOver(SafeIds)
      BY <1>1, <2>4, <2>5 DEF ProcessOver
    <2>7. r.pc \notin ExecLabels /\ r.pc \notin HeldLabels
          /\ r.inv = cli[p].inv /\ r.data = cli[p].data /\ r.made = cli[p].made
      BY <1>1, <2>4 DEF ProcessOver, ExecLabels, HeldLabels
    <2>8. QED
      BY <2>3, <2>6, <2>7 DEF Keeps, Good
  <1>4. QED
    BY <1>2, <1>3

LEMMA CalledSafe ==
  ASSUME IInv, NEW p \in Procs, cli[p].pc # "idle",
         NEW l \in Labels \ ExecLabels, NEW b \in {"rebuildRemove", "rebuildCreate", "pullRemove"},
         NEW w \in BOOLEAN
  PROVE  Good(p, Called(p, l, b, w))
  <1>1. cli[p] \in ProcessOver(SafeIds)
    BY DEF IInv, CliOK
  <1> DEFINE f == [back |-> b, id |-> cli[p].id, was |-> w]
  <1>2. f \in FrameOver(SafeIds) /\ cli[p].stk \in Seq(FrameOver(SafeIds))
    BY <1>1 DEF FrameOver, ProcessOver
  <1>3. <<f>> \in Seq(FrameOver(SafeIds))
    BY <1>2
  <1>4. <<f>> \o cli[p].stk \in Seq(FrameOver(SafeIds))
    BY <1>2, <1>3, ConcatProperties
  <1>5. QED
    BY <1>1, <1>4 DEF Called, ProcessOver, Keeps, Good, ExecLabels, HeldLabels

\* The next line of the code, with the fields a line may fill in.
LEMMA MovedSafe ==
  ASSUME IInv, NEW p \in Procs, cli[p].pc # "idle",
         NEW l \in Labels, l \in ExecLabels => cli[p].pc \in ExecLabels,
         l \in HeldLabels => cli[p].pc \in HeldLabels
  PROVE  /\ Good(p, Moved(p, l))
         /\ \A i \in SafeIds : Good(p, [cli[p] EXCEPT !.pc = l, !.id = i])
         /\ \A w \in BOOLEAN : Good(p, [cli[p] EXCEPT !.pc = l, !.was = w])
         /\ \A s \in ContainerName \cup {NoName} : Good(p, [cli[p] EXCEPT !.pc = l, !.src = s])
         /\ \A bad \in BOOLEAN : Good(p, [cli[p] EXCEPT !.pc = l, !.failed = bad])
  BY DEF IInv, CliOK, ProcessOver, Keeps, Good, Moved

LEMMA ProcessMono ==
  ASSUME NEW I, NEW J, I \subseteq J
  PROVE  ProcessOver(I) \subseteq ProcessOver(J)
  <1>1. FrameOver(I) \subseteq FrameOver(J)
    BY DEF FrameOver
  <1>2. ASSUME NEW s \in Seq(FrameOver(I))  PROVE s \in Seq(FrameOver(J))
    BY <1>1, SMT
  <1>3. QED
    BY <1>2 DEF ProcessOver

-----------------------------------------------------------------------------
\* What the daemon does.

\* A change of the daemon's state that leaves the throw-away containers alone.
Quiet ==
  /\ DaemonOK'
  /\ SafeIds \subseteq SafeIds'
  /\ nextId <= nextId'
  /\ \A n \in ContainerName : IsTemp(n) => cont'[n].id = cont[n].id

LEMMA QuietSame ==
  ASSUME IInv, UNCHANGED daemon
  PROVE  Quiet
  BY DEF IInv, DaemonOK, Quiet, SafeIds, daemon, Existing, Exists

LEMMA QuietRunning ==
  ASSUME IInv, NEW n \in ContainerName, NEW b \in BOOLEAN, SetRunning(n, b)
  PROVE  Quiet
  <1>1. cont' \in [ContainerName -> Container] /\ \A m \in ContainerName : cont'[m].id = cont[m].id
    BY DEF IInv, DaemonOK, SetRunning, Container
  <1>2. QED
    BY <1>1 DEF IInv, DaemonOK, SetRunning, Quiet, SafeIds, Existing, Exists

LEMMA QuietRemove ==
  ASSUME IInv, NEW n \in ContainerName, ~IsTemp(n), NEW vol, Remove(n, vol)
  PROVE  Quiet
  <1>1. /\ cont' \in [ContainerName -> Container]
        /\ cont'[n].id = 0
        /\ \A m \in ContainerName \ {n} : cont'[m] = cont[m]
    BY DEF IInv, DaemonOK, Remove, Container, NoContainer
  <1>2. volumes' \subseteq Nat /\ nextId' = nextId
    BY DEF IInv, DaemonOK, Remove
  <1>3. QED
    BY <1>1, <1>2 DEF IInv, DaemonOK, Quiet, SafeIds, Existing, Exists

LEMMA QuietCreate ==
  ASSUME IInv, NEW n, ~IsTemp(n), NEW from \in ContainerName \cup {NoName}, Create(n, from)
  PROVE  Quiet /\ nextId \in SafeIds'
  <1> DEFINE vol == IF from \in Existing THEN cont[from].vol ELSE nextId
             c   == [id |-> nextId, running |-> FALSE, vol |-> vol, from |-> from]
  <1>1. vol \in Nat
    BY DEF IInv, DaemonOK, Existing, Container
  <1>2. c \in Container /\ cont' = [cont EXCEPT ![n] = c] /\ volumes' = volumes \cup {vol}
        /\ nextId' = nextId + 1
    BY <1>1 DEF IInv, DaemonOK, Container, Create
  <1> HIDE DEF vol
  <1>3. /\ cont' \in [ContainerName -> Container]
        /\ \A m \in ContainerName : cont'[m] = IF m = n THEN c ELSE cont[m]
    BY <1>2 DEF IInv, DaemonOK
  <1>4. c.id = nextId /\ \A m \in ContainerName : cont[m].id < nextId /\ cont[m].id \in Nat
    BY DEF IInv, DaemonOK, Container
  <1> HIDE DEF c
  <1>5. \A m \in ContainerName : cont'[m].id < nextId'
    BY <1>2, <1>3, <1>4 DEF IInv, DaemonOK
  <1>6. \A k, m \in Existing' : cont'[k].id = cont'[m].id => k = m
    BY <1>3, <1>4 DEF IInv, DaemonOK, Existing, Exists
  <1>7. DaemonOK'
    BY <1>1, <1>2, <1>3, <1>5, <1>6 DEF IInv, DaemonOK
  <1>8. QED
    BY <1>2, <1>3, <1>4, <1>7 DEF IInv, DaemonOK, Quiet, SafeIds, Existing, Exists

-----------------------------------------------------------------------------
\* A step that advances one process and leaves throw-away containers alone.

Advance(p) == \E r \in ProcessOver(SafeIds') : Keeps(p, r) /\ Become(p, r)

LEMMA AdvanceUnprimed ==
  ASSUME Quiet, NEW p, NEW r, Good(p, r), Become(p, r)
  PROVE  Advance(p)
  BY ProcessMono DEF Quiet, Advance, Good

LEMMA QuietStep ==
  ASSUME IInv, NEW p \in Procs, Quiet, Advance(p)
  PROVE  IInv'
  <1>1. PICK r \in ProcessOver(SafeIds') : Keeps(p, r) /\ Become(p, r)
    BY DEF Advance
  <1>2. cli' = [cli EXCEPT ![p] = r] /\ begun' = begun
    BY <1>1 DEF Become
  <1>3. cli' \in [Procs -> ProcessOver(SafeIds')]
    BY <1>2, ProcessMono DEF IInv, CliOK, Quiet
  <1>4. r.pc \in ExecLabels \cup HeldLabels =>
          /\ r.inv = cli[p].inv /\ r.data = cli[p].data /\ r.made = cli[p].made
          /\ r.pc \in ExecLabels => cli[p].pc \in ExecLabels /\ r.stk = cli[p].stk
          /\ r.pc \in HeldLabels => cli[p].pc \in HeldLabels
    BY <1>1 DEF Keeps, Idle, ExecLabels, HeldLabels
  <1>5. r.pc # "idle" => r.inv = cli[p].inv /\ cli[p].pc # "idle"
    BY <1>1 DEF Keeps, Idle
  <1>. ~IsTemp(r.data)
    BY <1>1, NameFacts DEF Keeps, Idle, IInv, CliOK
  <1>6. CliOK'
    BY <1>2, <1>3, <1>4, <1>5 DEF IInv, CliOK, IsTemp
  <1>7. ASSUME NEW q \in Procs, Holding(q)'
        PROVE  Holding(q) /\ cli'[q].made = cli[q].made /\ Temp(q)' = Temp(q)
    BY <1>2, <1>4, <1>7 DEF IInv, CliOK, Holding, HeldLabels, Temp, IsService, Name
  <1>8. ASSUME NEW q \in Procs, Holding(q)
        PROVE  Temp(q) \in ContainerName /\ IsTemp(Temp(q))
    BY <1>8, TempIsTemp DEF Holding, ExecLabels
  <1>9. TempOwned'
    BY <1>7, <1>8 DEF IInv, TempOwned, Quiet, Exists
  <1>10. MadeDistinct'
    BY <1>7 DEF IInv, MadeDistinct, Quiet, CliOK, ProcessOver, DaemonOK
  <1>11. QED
    BY <1>6, <1>9, <1>10 DEF IInv, Quiet

\* The state and the names a working process uses.
LEMMA WorkingFacts ==
  ASSUME IInv, NEW p \in Procs, cli[p].pc # "idle"
  PROVE  /\ cli[p].id \in SafeIds /\ cli[p].was \in BOOLEAN /\ cli[p].failed \in BOOLEAN
         /\ cli[p].src \in ContainerName \cup {NoName}
         /\ cli[p].data \in ContainerName \cup {NoName} /\ ~IsTemp(cli[p].data)
         /\ Name(p) \in ContainerName /\ ~IsTemp(Name(p))
         /\ cli[p].inv.to \in ContainerName /\ ~IsTemp(cli[p].inv.to)
         /\ DataSource(p) \in ContainerName \cup {NoName}
  BY InvocationFacts DEF IInv, CliOK, ProcessOver, Name, DataSource

LEMMA FailedSafe ==
  ASSUME IInv, NEW p \in Procs
  PROVE  Good(p, Failed)
  BY SafeFacts, IdleSafe DEF Good, Keeps, Failed, Results

\* A found id is never that of a throw-away container.
LEMMA FoundNotTemp ==
  ASSUME IInv, NEW p \in Procs, NEW n \in ContainerName, Identified(n, cli[p].id)
  PROVE  ~IsTemp(n)
  BY DEF IInv, CliOK, ProcessOver, SafeIds, Identified, Existing

-----------------------------------------------------------------------------
\* The shapes the actions have: a step that only decides, a refused call, a
\* removal by id, a creation of a plain container, a start or stop.

LEMMA Decides ==
  ASSUME IInv, NEW p \in Procs, NEW r, Good(p, r), Become(p, r), UNCHANGED daemon
  PROVE  Quiet /\ Advance(p)
  BY QuietSame, AdvanceUnprimed

LEMMA RefusedSafe ==
  ASSUME IInv, NEW p \in Procs, NEW can, Refused(p, can)
  PROVE  Quiet /\ Advance(p)
  BY FailedSafe, Decides DEF Refused, Fail

LEMMA RemovesSafe ==
  ASSUME IInv, NEW p \in Procs, NEW vol, NEW r, Good(p, r), RemoveFound(p, vol, r)
  PROVE  Quiet /\ Advance(p)
  <1>1. CASE \E n \in ContainerName : CanRemove(n, cli[p].id) /\ Remove(n, vol) /\ Become(p, r)
    BY <1>1, FoundNotTemp, QuietRemove, AdvanceUnprimed DEF CanRemove
  <1>2. CASE Refused(p, \E n \in ContainerName : CanRemove(n, cli[p].id))
    BY <1>2, RefusedSafe
  <1>3. QED
    BY <1>1, <1>2 DEF RemoveFound

LEMMA CreatesSafe ==
  ASSUME IInv, NEW p \in Procs, NEW n, ~IsTemp(n), NEW from \in ContainerName \cup {NoName},
         Create(n, from), NEW r, Good(p, r), Become(p, r)
  PROVE  Quiet /\ Advance(p)
  BY QuietCreate, AdvanceUnprimed

LEMMA RunsSafe ==
  ASSUME IInv, NEW p \in Procs, NEW n \in ContainerName, NEW b \in BOOLEAN, SetRunning(n, b),
         NEW r, Good(p, r), Become(p, r)
  PROVE  Quiet /\ Advance(p)
  BY QuietRunning, AdvanceUnprimed

-----------------------------------------------------------------------------
\* Every action of a process but ExecCreate and ExecRemove has such a shape.

LEMMA DataActions ==
  ASSUME IInv, NEW p \in Procs, CreateData(p) \/ CreateDataCall(p)
  PROVE  Quiet /\ Advance(p)
  <1>1. CASE CreateData(p)
    <2>1. Good(p, Failed) /\ Good(p, Moved(p, "createDataCall"))
      BY <1>1, FailedSafe, MovedSafe DEF CreateData, At, Labels, ExecLabels, HeldLabels
    <2>2. QED
      BY <1>1, <2>1, Decides DEF CreateData, Goto, Fail
  <1>2. CASE CreateDataCall(p)
    <2>1. Good(p, Returned(p)) /\ ~IsTemp(cli[p].data)
      BY <1>2, ReturnedSafe, WorkingFacts DEF CreateDataCall, At
    <2>2. QED
      BY <1>2, <2>1, CreatesSafe, RefusedSafe DEF CreateDataCall, Return
  <1>3. QED
    BY <1>1, <1>2

LEMMA EnsureDataActions ==
  ASSUME IInv, NEW p \in Procs,
         RunData(p) \/ RunDataCreate(p) \/ ExecData(p) \/ ExecDataCreate(p)
  PROVE  Quiet /\ Advance(p)
  <1>1. CASE RunData(p)
    <2>1. Good(p, Moved(p, "runExists")) /\ Good(p, Moved(p, "runDataCreate"))
      BY <1>1, MovedSafe DEF RunData, EnsureData, At, Labels, ExecLabels, HeldLabels
    <2>2. QED
      BY <1>1, <2>1, Decides DEF RunData, EnsureData, Goto
  <1>2. CASE ExecData(p)
    <2>1. Good(p, Moved(p, "execCreate")) /\ Good(p, Moved(p, "execDataCreate"))
      BY <1>2, MovedSafe DEF ExecData, EnsureData, At, Labels, ExecLabels, HeldLabels
    <2>2. QED
      BY <1>2, <2>1, Decides DEF ExecData, EnsureData, Goto
  <1>3. CASE RunDataCreate(p)
    <2>1. Good(p, Moved(p, "runExists")) /\ ~IsTemp(cli[p].data)
      BY <1>3, MovedSafe, WorkingFacts
      DEF RunDataCreate, EnsureDataCall, At, Labels, ExecLabels, HeldLabels
    <2>2. QED
      BY <1>3, <2>1, CreatesSafe, RefusedSafe DEF RunDataCreate, EnsureDataCall, Goto
  <1>4. CASE ExecDataCreate(p)
    <2>1. Good(p, Moved(p, "execCreate")) /\ ~IsTemp(cli[p].data)
      BY <1>4, MovedSafe, WorkingFacts
      DEF ExecDataCreate, EnsureDataCall, At, Labels, ExecLabels, HeldLabels
    <2>2. QED
      BY <1>4, <2>1, CreatesSafe, RefusedSafe DEF ExecDataCreate, EnsureDataCall, Goto
  <1>5. QED
    BY <1>1, <1>2, <1>3, <1>4

LEMMA RunActions ==
  ASSUME IInv, NEW p \in Procs,
         Run(p) \/ RunExists(p) \/ RunCreate(p) \/ RunStart(p) \/ RunRemove(p)
  PROVE  Quiet /\ Advance(p)
  <1>1. CASE Run(p)
    <2>1. /\ Good(p, Returned(p))
          /\ Good(p, Moved(p, "runData"))
          /\ Good(p, Moved(p, "runExists"))
      BY <1>1, ReturnedSafe, MovedSafe DEF Run, At, Labels, ExecLabels, HeldLabels
    <2>2. QED
      BY <1>1, <2>1, Decides DEF Run, Goto, Return
  <1>2. CASE RunExists(p)
    <2>1. Good(p, Moved(p, "runStart")) /\ Good(p, Moved(p, "runCreate"))
      BY <1>2, MovedSafe DEF RunExists, At, Labels, ExecLabels, HeldLabels
    <2>2. QED
      BY <1>2, <2>1, Decides DEF RunExists, Goto
  <1>3. CASE RunCreate(p)
    <2>1. Good(p, Moved(p, "runStart"))
      BY <1>3, MovedSafe DEF RunCreate, At, Labels, ExecLabels, HeldLabels
    <2>2. ~IsTemp(Name(p)) /\ DataSource(p) \in ContainerName \cup {NoName}
      BY <1>3, WorkingFacts DEF RunCreate, At
    <2>3. QED
      BY <1>3, <2>1, <2>2, CreatesSafe, RefusedSafe DEF RunCreate, Goto
  <1>4. CASE RunStart(p)
    <2>1. Good(p, Moved(p, "runRemove")) /\ Good(p, Returned(p)) /\ Name(p) \in ContainerName
      BY <1>4, MovedSafe, ReturnedSafe, WorkingFacts
      DEF RunStart, At, Labels, ExecLabels, HeldLabels
    <2>2. QED
      BY <1>4, <2>1, RunsSafe, RefusedSafe DEF RunStart, Goto, Return
  <1>5. CASE RunRemove(p)
    <2>1. Good(p, Returned(p)) /\ Name(p) \in ContainerName /\ ~IsTemp(Name(p))
      BY <1>5, ReturnedSafe, WorkingFacts DEF RunRemove, At
    <2>2. QED
      BY <1>5, <2>1, QuietRemove, AdvanceUnprimed, RefusedSafe DEF RunRemove, Return
  <1>6. QED
    BY <1>1, <1>2, <1>3, <1>4, <1>5

LEMMA ExecActions ==
  ASSUME IInv, NEW p \in Procs, ExecStart(p) \/ ExecWait(p)
  PROVE  Quiet /\ Advance(p)
  <1>1. CASE ExecStart(p)
    <2>1. /\ Good(p, Moved(p, "execWait"))
          /\ Good(p, [cli[p] EXCEPT !.pc = "execRemove", !.failed = TRUE])
      BY <1>1, MovedSafe DEF ExecStart, At, Labels, ExecLabels, HeldLabels
    <2>2. Temp(p) \in ContainerName
      BY <1>1, TempIsTemp DEF ExecStart, At, ExecLabels
    <2>3. QED
      BY <1>1, <2>1, <2>2, RunsSafe, Decides DEF ExecStart, Goto
  <1>2. CASE ExecWait(p)
    <2>1. \A bad \in BOOLEAN : Good(p, [cli[p] EXCEPT !.pc = "execRemove", !.failed = bad])
      BY <1>2, MovedSafe DEF ExecWait, At, Labels, ExecLabels, HeldLabels
    <2>2. QED
      BY <1>2, <2>1, Decides DEF ExecWait
  <1>3. QED
    BY <1>1, <1>2

LEMMA StopActions ==
  ASSUME IInv, NEW p \in Procs, Stop(p) \/ StopCall(p)
  PROVE  Quiet /\ Advance(p)
  <1>1. CASE Stop(p)
    <2>1. /\ Good(p, Returned(p))
          /\ \A i \in SafeIds : Good(p, [cli[p] EXCEPT !.pc = "stopCall", !.id = i])
      BY <1>1, ReturnedSafe, MovedSafe DEF Stop, At, Labels, ExecLabels, HeldLabels
    <2>2. QED
      BY <1>1, <2>1, LookupSafe, Decides DEF Stop, Return
  <1>2. CASE StopCall(p)
    <2>1. Good(p, Returned(p))
      BY <1>2, ReturnedSafe DEF StopCall, At
    <2>2. QED
      BY <1>2, <2>1, RunsSafe, RefusedSafe DEF StopCall, Return
  <1>3. QED
    BY <1>1, <1>2

LEMMA RemoveActions ==
  ASSUME IInv, NEW p \in Procs,
         RemoveService(p) \/ RemoveCall(p) \/ RemoveData(p) \/ RemoveDataCall(p)
  PROVE  Quiet /\ Advance(p)
  <1>1. CASE RemoveService(p)
    <2>1. /\ Good(p, Returned(p))
          /\ \A i \in SafeIds : Good(p, [cli[p] EXCEPT !.pc = "removeCall", !.id = i])
      BY <1>1, ReturnedSafe, MovedSafe DEF RemoveService, At, Labels, ExecLabels, HeldLabels
    <2>2. QED
      BY <1>1, <2>1, LookupSafe, Decides DEF RemoveService, Return
  <1>2. CASE RemoveCall(p)
    <2>1. Good(p, Returned(p)) /\ Good(p, Moved(p, "removeData"))
      BY <1>2, ReturnedSafe, MovedSafe DEF RemoveCall, At, Labels, ExecLabels, HeldLabels
    <2>2. QED
      BY <1>2, <2>1, RemovesSafe DEF RemoveCall
  <1>3. CASE RemoveData(p)
    <2>1. /\ Good(p, Returned(p))
          /\ \A i \in SafeIds : Good(p, [cli[p] EXCEPT !.pc = "removeDataCall", !.id = i])
      BY <1>3, ReturnedSafe, MovedSafe DEF RemoveData, At, Labels, ExecLabels, HeldLabels
    <2>2. QED
      BY <1>3, <2>1, LookupSafe, Decides DEF RemoveData, Return
  <1>4. CASE RemoveDataCall(p)
    <2>1. Good(p, Returned(p))
      BY <1>4, ReturnedSafe DEF RemoveDataCall, At
    <2>2. QED
      BY <1>4, <2>1, RemovesSafe DEF RemoveDataCall
  <1>5. QED
    BY <1>1, <1>2, <1>3, <1>4

LEMMA RebuildActions ==
  ASSUME IInv, NEW p \in Procs,
         \/ Rebuild(p) \/ RebuildRunning(p) \/ RebuildRemove(p) \/ RebuildCreate(p)
         \/ RebuildStart(p)
  PROVE  Quiet /\ Advance(p)
  <1>1. CASE Rebuild(p)
    <2>1. /\ Good(p, Returned(p))
          /\ \A i \in SafeIds : Good(p, [cli[p] EXCEPT !.pc = "rebuildRunning", !.id = i])
      BY <1>1, ReturnedSafe, MovedSafe DEF Rebuild, At, Labels, ExecLabels, HeldLabels
    <2>2. QED
      BY <1>1, <2>1, LookupSafe, Decides DEF Rebuild, Return
  <1>2. CASE RebuildRunning(p)
    <2>1. Good(p, Called(p, "stop", "rebuildRemove", TRUE))
      BY <1>2, CalledSafe DEF RebuildRunning, At, Labels, ExecLabels
    <2>2. Good(p, [cli[p] EXCEPT !.pc = "rebuildRemove", !.was = FALSE])
      BY <1>2, MovedSafe DEF RebuildRunning, At, Labels, ExecLabels, HeldLabels
    <2>3. QED
      BY <1>2, <2>1, <2>2, Decides DEF RebuildRunning
  <1>3. CASE RebuildRemove(p)
    <2>1. cli[p].was \in BOOLEAN /\ cli[p].pc # "idle"
      BY <1>3, WorkingFacts DEF RebuildRemove, At
    <2>2. Good(p, Called(p, "pull", "rebuildCreate", cli[p].was))
      BY <2>1, CalledSafe DEF Labels, ExecLabels
    <2>3. Good(p, Moved(p, "rebuildCreate"))
      BY <2>1, MovedSafe DEF Labels, ExecLabels, HeldLabels
    <2>4. QED
      BY <1>3, <2>2, <2>3, RemovesSafe DEF RebuildRemove
  <1>4. CASE RebuildCreate(p)
    <2>1. Good(p, Returned(p)) /\ Good(p, Moved(p, "rebuildStart")) /\ ~IsTemp(Name(p))
      BY <1>4, ReturnedSafe, MovedSafe, WorkingFacts
      DEF RebuildCreate, At, Labels, ExecLabels, HeldLabels
    <2>2. QED
      BY <1>4, <2>1, CreatesSafe, RefusedSafe DEF RebuildCreate, Goto, Return
  <1>5. CASE RebuildStart(p)
    <2>1. Good(p, Returned(p)) /\ Name(p) \in ContainerName
      BY <1>5, ReturnedSafe, WorkingFacts DEF RebuildStart, At
    <2>2. QED
      BY <1>5, <2>1, RunsSafe, RefusedSafe DEF RebuildStart, Return
  <1>6. QED
    BY <1>1, <1>2, <1>3, <1>4, <1>5

LEMMA PullActions ==
  ASSUME IInv, NEW p \in Procs, Pull(p) \/ PullRunning(p) \/ PullRemove(p) \/ PullImage(p)
  PROVE  Quiet /\ Advance(p)
  <1>1. CASE Pull(p)
    <2>1. /\ \A i \in SafeIds : Good(p, [cli[p] EXCEPT !.pc = "pullRunning", !.id = i])
          /\ Good(p, [cli[p] EXCEPT !.pc = "pullImage", !.was = FALSE])
      BY <1>1, MovedSafe DEF Pull, At, Labels, ExecLabels, HeldLabels
    <2>2. QED
      BY <1>1, <2>1, LookupSafe, Decides DEF Pull
  <1>2. CASE PullRunning(p)
    <2>1. Good(p, Called(p, "stop", "pullRemove", TRUE))
      BY <1>2, CalledSafe DEF PullRunning, At, Labels, ExecLabels
    <2>2. Good(p, [cli[p] EXCEPT !.pc = "pullRemove", !.was = FALSE])
      BY <1>2, MovedSafe DEF PullRunning, At, Labels, ExecLabels, HeldLabels
    <2>3. QED
      BY <1>2, <2>1, <2>2, Decides DEF PullRunning
  <1>3. CASE PullRemove(p)
    <2>1. Good(p, Moved(p, "pullImage"))
      BY <1>3, MovedSafe DEF PullRemove, At, Labels, ExecLabels, HeldLabels
    <2>2. QED
      BY <1>3, <2>1, RemovesSafe DEF PullRemove
  <1>4. CASE PullImage(p)
    <2>1. Good(p, Moved(p, "run")) /\ Good(p, Returned(p))
      BY <1>4, MovedSafe, ReturnedSafe DEF PullImage, At, Labels, ExecLabels, HeldLabels
    <2>2. Good(p, Failed)
      BY FailedSafe
    <2>3. QED
      BY <1>4, <2>1, <2>2, Decides DEF PullImage, Goto, Fail, Return
  <1>5. QED
    BY <1>1, <1>2, <1>3, <1>4

LEMMA RenameLooks ==
  ASSUME IInv, NEW p \in Procs,
         Rename(p) \/ RenameTo(p) \/ RenameRunning(p) \/ RenameVolumes(p)
  PROVE  Quiet /\ Advance(p)
  <1>1. CASE Rename(p)
    <2> DEFINE c == cont[Name(p)]
               r == [cli[p] EXCEPT !.pc = "renameTo", !.id = c.id, !.src = c.from]
    <2>1. Name(p) \in ContainerName /\ ~IsTemp(Name(p))
      BY <1>1, WorkingFacts DEF Rename, At
    <2>2. CASE Exists(Name(p)) /\ Become(p, r) /\ UNCHANGED daemon
      <3>1. c.id \in SafeIds /\ c.from \in ContainerName \cup {NoName}
        BY <2>1, <2>2, SafeFacts DEF IInv, DaemonOK, Container, Existing
      <3> HIDE DEF c
      <3>2. cli[p] \in ProcessOver(SafeIds)
        BY DEF IInv, CliOK
      <3>3. r \in ProcessOver(SafeIds)
        BY <3>1, <3>2 DEF ProcessOver, Labels
      <3>4. r.pc = "renameTo" /\ r.inv = cli[p].inv /\ r.data = cli[p].data /\ r.made = cli[p].made
        BY <3>2 DEF ProcessOver
      <3> HIDE DEF r
      <3>5. Keeps(p, r)
        BY <1>1, <3>4 DEF Keeps, Rename, At, ExecLabels, HeldLabels
      <3>6. QED
        BY <2>2, <3>3, <3>5, Decides DEF Good
    <2>3. QED
      BY <1>1, <2>2, RefusedSafe DEF Rename
  <1>2. CASE RenameTo(p)
    <2>1. Good(p, Moved(p, "renameRunning")) /\ Good(p, Failed)
      BY <1>2, MovedSafe, FailedSafe DEF RenameTo, At, Labels, ExecLabels, HeldLabels
    <2>2. QED
      BY <1>2, <2>1, Decides DEF RenameTo, Goto, Fail
  <1>3. CASE RenameRunning(p)
    <2>1. \A l \in {"renameStop", "renameRemove"}, w \in BOOLEAN :
            Good(p, [cli[p] EXCEPT !.pc = l, !.was = w])
      BY <1>3, MovedSafe DEF RenameRunning, At, Labels, ExecLabels, HeldLabels
    <2>2. QED
      BY <1>3, <2>1, Decides DEF RenameRunning
  <1>4. CASE RenameVolumes(p)
    <2>1. /\ Good(p, Moved(p, "renameCreate"))
          /\ Good(p, [cli[p] EXCEPT !.pc = "renameCreate", !.src = NoName])
      BY <1>4, MovedSafe DEF RenameVolumes, At, Labels, ExecLabels, HeldLabels
    <2>2. QED
      BY <1>4, <2>1, Decides DEF RenameVolumes, Goto
  <1>5. QED
    BY <1>1, <1>2, <1>3, <1>4

LEMMA RenameActs ==
  ASSUME IInv, NEW p \in Procs, RenameStop(p) \/ RenameRemove(p) \/ RenameStart(p)
  PROVE  Quiet /\ Advance(p)
  <1>1. CASE RenameStop(p)
    <2>1. Good(p, Moved(p, "renameRemove"))
      BY <1>1, MovedSafe DEF RenameStop, At, Labels, ExecLabels, HeldLabels
    <2>2. QED
      BY <1>1, <2>1, RunsSafe, Decides DEF RenameStop, Goto
  <1>2. CASE RenameRemove(p)
    <2>1. Good(p, Moved(p, "renameVolumes"))
      BY <1>2, MovedSafe DEF RenameRemove, At, Labels, ExecLabels, HeldLabels
    <2>2. QED
      BY <1>2, <2>1, FoundNotTemp, QuietRemove, AdvanceUnprimed, RefusedSafe
      DEF RenameRemove, Goto
  <1>3. CASE RenameStart(p)
    <2>1. Good(p, Returned(p))
      BY <1>3, ReturnedSafe DEF RenameStart, At
    <2>2. QED
      BY <1>3, <2>1, RunsSafe, Decides DEF RenameStart, Return
  <1>4. QED
    BY <1>1, <1>2, <1>3

\* The id of the new container is kept for the start that follows.
LEMMA RenameCreates ==
  ASSUME IInv, NEW p \in Procs, RenameCreate(p)
  PROVE  Quiet /\ Advance(p)
  <1> DEFINE to == cli[p].inv.to
             r  == [cli[p] EXCEPT !.pc = "renameStart", !.id = nextId]
  <1>1. ~IsTemp(to) /\ cli[p].src \in ContainerName \cup {NoName} /\ Good(p, Returned(p))
    BY WorkingFacts, ReturnedSafe DEF RenameCreate, At
  <1>2. CASE Create(to, cli[p].src) /\ Become(p, r)
    <2>1. Quiet /\ nextId \in SafeIds'
      BY <1>1, <1>2, QuietCreate
    <2>2. cli[p] \in ProcessOver(SafeIds')
      BY <2>1, ProcessMono DEF IInv, CliOK, Quiet
    <2>3. r \in ProcessOver(SafeIds')
      BY <2>1, <2>2 DEF ProcessOver, Labels
    <2>4. Keeps(p, r)
      BY DEF RenameCreate, At, Keeps, ExecLabels, HeldLabels, IInv, CliOK, ProcessOver
    <2>5. QED
      BY <1>2, <2>1, <2>3, <2>4 DEF Advance
  <1>3. CASE Create(to, cli[p].src) /\ Return(p)
    BY <1>1, <1>3, CreatesSafe DEF Return
  <1>4. CASE Refused(p, CanCreate(to, cli[p].src))
    BY <1>4, RefusedSafe
  <1>5. QED
    BY <1>2, <1>3, <1>4 DEF RenameCreate

-----------------------------------------------------------------------------
\* The actions that begin and end a use of a throw-away container, and the
\* steps nobody takes part in.

LEMMA BeginSafe ==
  ASSUME IInv, NEW p \in Procs, Begin(p)
  PROVE  IInv'
  <1>0. PICK i \in Invocations : \E d \in DataNames(i) :
          cli' = [cli EXCEPT ![p] = [Idle("none") EXCEPT !.pc = Entry(i), !.inv = i, !.data = d]]
    BY DEF Begin
  <1>1. PICK d \in DataNames(i) :
          cli' = [cli EXCEPT ![p] = [Idle("none") EXCEPT !.pc = Entry(i), !.inv = i, !.data = d]]
    BY <1>0
  <1> DEFINE r == [Idle("none") EXCEPT !.pc = Entry(i), !.inv = i, !.data = d]
  <1>2. /\ i \in Invocation /\ i.name \in ContainerName /\ i.kind \in Kinds
        /\ d \in ContainerName \cup {NoName} /\ ~IsTemp(d)
    BY <1>1, InvocationFacts, NameFacts DEF DataNames
  <1>3. /\ Entry(i) \in Labels \ HeldLabels
        /\ Entry(i) \in ExecLabels => i.kind = "exec" \/ i.kind = "runData"
    BY <1>2 DEF Entry, Kinds, Labels, ExecLabels, HeldLabels
  <1>4. i.kind = "runData" => d = ToDataContainer(i.name)
    BY <1>1, InvocationFacts DEF DataNames, TypeData, TypeService
  <1>5. r \in ProcessOver(SafeIds)
    <2>1. Idle("none") \in ProcessOver(SafeIds)
      BY SafeFacts, IdleSafe DEF Results
    <2>2. QED
      BY <2>1, <1>2, <1>3 DEF ProcessOver
  <1>6. r.pc = Entry(i) /\ r.inv = i /\ r.data = d /\ r.stk = <<>>
    BY DEF Idle
  <1> HIDE DEF r
  <1>7. UNCHANGED <<cont, volumes, nextId>> /\ SafeIds' = SafeIds /\ DaemonOK'
    BY DEF Begin, daemon, SafeIds, DaemonOK, IInv, Exists, Existing
  <1>8. begun' \in Nat
    BY DEF Begin, IInv, CliOK
  <1>9. cli' = [cli EXCEPT ![p] = r]
    BY <1>1 DEF r
  <1>10. CliOK'
    <2>1. cli' \in [Procs -> ProcessOver(SafeIds')]
      BY <1>5, <1>7, <1>9 DEF IInv, CliOK
    <2>2. \A q \in Procs : cli'[q] = IF q = p THEN r ELSE cli[q]
      BY <1>9 DEF IInv, CliOK
    <2>3. ~IsTemp(r.data) /\ r.inv \in Invocations
      BY <1>2, <1>6
    <2>4. r.pc \in ExecLabels =>
            r.inv.kind = "exec" \/ (r.inv.kind = "runData" /\ r.data = ToDataContainer(r.inv.name))
      BY <1>3, <1>4, <1>6
    <2>5. QED
      BY <1>6, <1>8, <2>1, <2>2, <2>3, <2>4 DEF IInv, CliOK, IsTemp
  <1>11. ASSUME NEW q \in Procs, Holding(q)'
         PROVE  q # p /\ cli'[q] = cli[q]
    BY <1>3, <1>6, <1>9, <1>11 DEF Holding, HeldLabels, CliOK, IInv
  <1>12. TempOwned'
    BY <1>7, <1>11 DEF TempOwned, IInv, Holding, Temp, IsService, Name, Exists
  <1>13. MadeDistinct'
    BY <1>7, <1>11 DEF MadeDistinct, IInv, Holding
  <1>14. QED
    BY <1>7, <1>10, <1>12, <1>13 DEF IInv

LEMMA KillSafe ==
  ASSUME IInv, NEW p \in Procs, Kill(p)
  PROVE  IInv'
  <1>1. Good(p, Idle("killed"))
    BY SafeFacts, IdleSafe DEF Good, Keeps, Results
  <1>2. QED
    BY <1>1, Decides, QuietStep DEF Kill

\* Processes stay as they are.
LEMMA OthersSafe ==
  ASSUME IInv, Quiet, UNCHANGED <<cli, begun>>
  PROVE  IInv'
  <1>1. cli \in [Procs -> ProcessOver(SafeIds')]
    BY ProcessMono DEF IInv, CliOK, Quiet
  <1>2. CliOK'
    BY <1>1 DEF IInv, CliOK, IsTemp
  <1>3. \A p \in Procs : Holding(p) => Temp(p) \in ContainerName /\ IsTemp(Temp(p))
    BY TempIsTemp DEF Holding, ExecLabels
  <1>4. TempOwned'
    BY <1>3 DEF IInv, TempOwned, Quiet, Holding, Temp, IsService, Name, Exists
  <1>5. MadeDistinct'
    BY DEF IInv, MadeDistinct, Quiet, Holding, CliOK, ProcessOver, DaemonOK
  <1>6. QED
    BY <1>2, <1>4, <1>5 DEF IInv, Quiet

LEMMA ExecCreateSafe ==
  ASSUME IInv, NEW p \in Procs, ExecCreate(p)
  PROVE  IInv'
  <1> DEFINE t    == Temp(p)
             from == TempSource(p)
             vol  == IF from \in Existing THEN cont[from].vol ELSE nextId
             c    == [id |-> nextId, running |-> FALSE, vol |-> vol, from |-> from]
             r    == [cli[p] EXCEPT !.pc = "execStart", !.made = nextId]
  <1>1. CASE Refused(p, CanCreate(t, from))
    BY <1>1, RefusedSafe, QuietStep
  <1>2. CASE CanCreate(t, from) /\ Create(t, from) /\ Become(p, r)
    <2>1. cli[p].pc = "execCreate"
      BY DEF ExecCreate, At
    <2>2. t \in ContainerName /\ IsTemp(t) /\ ~Exists(t)
      BY <1>2, <2>1, TempIsTemp DEF ExecLabels, CanCreate
    <2>3. from \in ContainerName \cup {NoName}
      BY <2>1, WorkingFacts DEF TempSource
    <2>4. vol \in Nat
      BY DEF IInv, DaemonOK, Existing, Container
    <2>5. c \in Container /\ cont' = [cont EXCEPT ![t] = c] /\ volumes' = volumes \cup {vol}
          /\ nextId' = nextId + 1
      BY <1>2, <2>3, <2>4 DEF IInv, DaemonOK, Container, Create
    <2>6. c.id = nextId
      OBVIOUS
    <2> HIDE DEF vol, c, from
    <2>7. /\ cont' \in [ContainerName -> Container]
          /\ \A n \in ContainerName : cont'[n] = IF n = t THEN c ELSE cont[n]
      BY <2>2, <2>5 DEF IInv, DaemonOK
    <2>8. \A n \in ContainerName : cont[n].id \in Nat /\ cont[n].id < nextId
      BY DEF IInv, DaemonOK, Container
    <2>9. nextId \in Nat \ {0}
      BY DEF IInv, DaemonOK
    <2>10. DaemonOK'
      <3>1. \A n \in ContainerName : cont'[n].id < nextId'
        BY <2>5, <2>6, <2>7, <2>8, <2>9
      <3>2. \A m, n \in Existing' : cont'[m].id = cont'[n].id => m = n
        BY <2>6, <2>7, <2>8, <2>9 DEF IInv, DaemonOK, Existing, Exists
      <3>3. QED
        BY <2>4, <2>5, <2>7, <2>9, <3>1, <3>2 DEF IInv, DaemonOK
    <2>11. SafeIds \subseteq SafeIds'
      BY <2>2, <2>5, <2>6, <2>7, <2>8, <2>9 DEF SafeIds, Exists
    <2>12. r \in ProcessOver(SafeIds')
      <3>1. cli[p] \in ProcessOver(SafeIds')
        BY <2>11, ProcessMono DEF IInv, CliOK
      <3>2. QED
        BY <3>1, <2>9 DEF ProcessOver, Labels
    <2>13. /\ r.pc = "execStart" /\ r.made = nextId
           /\ r.inv = cli[p].inv /\ r.data = cli[p].data /\ r.stk = cli[p].stk
      BY DEF IInv, CliOK, ProcessOver
    <2>14. cli' = [cli EXCEPT ![p] = r] /\ begun' = begun
      BY <1>2 DEF Become
    <2> HIDE DEF r
    <2>15. cli' \in [Procs -> ProcessOver(SafeIds')]
      BY <2>11, <2>12, <2>14, ProcessMono DEF IInv, CliOK
    <2>16. CliOK'
      BY <2>1, <2>13, <2>14, <2>15 DEF IInv, CliOK, ExecLabels, IsTemp
    <2>17. \A q \in Procs \ {p} : cli'[q] = cli[q]
      BY <2>14 DEF IInv, CliOK
    <2>18. cli'[p] = r /\ Temp(p)' = t
      BY <2>13, <2>14 DEF IInv, CliOK, Temp, IsService, Name
    <2>19. TempOwned'
      <3>1. ASSUME NEW q \in Procs \ {p}, Holding(q)'
            PROVE  Exists(Temp(q))' /\ cont'[Temp(q)'].id = cli'[q].made
        <4>1. Holding(q) /\ Temp(q)' = Temp(q)
          BY <2>17, <3>1 DEF Holding, Temp, IsService, Name
        <4>2. Temp(q) \in ContainerName /\ Exists(Temp(q)) /\ cont[Temp(q)].id = cli[q].made
          BY <4>1, TempIsTemp DEF IInv, TempOwned, Holding, ExecLabels
        <4>3. QED
          BY <2>2, <2>7, <2>17, <4>1, <4>2 DEF Exists
      <3>2. Exists(Temp(p))' /\ cont'[Temp(p)'].id = cli'[p].made
        BY <2>2, <2>6, <2>7, <2>9, <2>13, <2>18 DEF Exists
      <3>3. QED
        BY <3>1, <3>2 DEF TempOwned
    <2>20. MadeDistinct'
      <3>1. ASSUME NEW q \in Procs \ {p}, Holding(q)'
            PROVE  cli'[q].made = cli[q].made /\ cli[q].made \in Nat /\ cli[q].made < nextId
        BY <2>17, <3>1 DEF IInv, MadeDistinct, Holding, CliOK, ProcessOver
      <3>2. cli'[p].made = nextId
        BY <2>13, <2>18
      <3>3. \A q \in Procs : Holding(q)' => cli'[q].made < nextId'
        BY <2>5, <2>9, <3>1, <3>2
      <3>4. ASSUME NEW q1 \in Procs \ {p}, NEW q2 \in Procs \ {p}, q1 # q2,
                   Holding(q1)', Holding(q2)'
            PROVE  cli'[q1].made # cli'[q2].made
        BY <2>17, <3>4 DEF IInv, MadeDistinct, Holding
      <3>5. \A q \in Procs \ {p} : Holding(q)' => cli'[q].made # cli'[p].made
        BY <2>9, <3>1, <3>2
      <3>6. QED
        BY <3>3, <3>4, <3>5 DEF MadeDistinct
    <2>21. QED
      BY <2>10, <2>16, <2>19, <2>20 DEF IInv
  <1>3. QED
    BY <1>1, <1>2 DEF ExecCreate

LEMMA ExecRemoveSafe ==
  ASSUME IInv, NEW p \in Procs, ExecRemove(p)
  PROVE  IInv'
  <1> DEFINE t   == Temp(p)
             can == Exists(t) /\ ~cont[t].running
  <1>1. cli[p].pc = "execRemove" /\ Holding(p)
    BY DEF ExecRemove, At, Holding
  <1>2. Good(p, Returned(p)) /\ Good(p, Failed)
    BY <1>1, ReturnedSafe, FailedSafe
  <1>3. CASE UNCHANGED daemon /\ (Fail(p) \/ Return(p))
    BY <1>2, <1>3, Decides, QuietStep DEF Fail, Return
  <1>4. CASE Remove(t, ~IsService(p)) /\ (Fail(p) \/ Return(p))
    <2>1. t \in ContainerName /\ IsTemp(t) /\ Exists(t) /\ cont[t].id = cli[p].made
      BY <1>1, TempIsTemp DEF ExecLabels, IInv, TempOwned
    <2>2. /\ cont' \in [ContainerName -> Container]
          /\ cont'[t].id = 0
          /\ \A n \in ContainerName \ {t} : cont'[n] = cont[n]
      BY <1>4, <2>1 DEF IInv, DaemonOK, Remove, Container, NoContainer
    <2>3. volumes' \subseteq Nat /\ nextId' = nextId
      BY <1>4 DEF IInv, DaemonOK, Remove
    <2>4. DaemonOK' /\ SafeIds \subseteq SafeIds'
      BY <2>2, <2>3 DEF IInv, DaemonOK, SafeIds, Existing, Exists
    <2>5. PICK r \in {Failed, Returned(p)} : Become(p, r)
      BY <1>4 DEF Fail, Return
    <2>6. r \in ProcessOver(SafeIds') /\ Keeps(p, r)
      BY <1>2, <2>4, ProcessMono DEF Good
    <2>7. r.pc \notin ExecLabels
      BY <1>1, <2>5 DEF Failed, Returned, Idle, ExecLabels, IInv, CliOK
    <2>8. cli' = [cli EXCEPT ![p] = r] /\ begun' = begun
      BY <2>5 DEF Become
    <2>9. cli' \in [Procs -> ProcessOver(SafeIds')]
      BY <2>4, <2>6, <2>8, ProcessMono DEF IInv, CliOK
    <2>10. r.pc # "idle" => r.inv = cli[p].inv
      BY <2>6 DEF Keeps, Idle
    <2>11. ~IsTemp(r.data)
      BY <2>6, NameFacts DEF Keeps, Idle, IInv, CliOK
    <2>12. CliOK'
      BY <1>1, <2>7, <2>8, <2>9, <2>10, <2>11 DEF IInv, CliOK, IsTemp
    <2>13. ASSUME NEW q \in Procs, Holding(q)'
           PROVE  /\ q # p /\ Holding(q) /\ cli'[q] = cli[q] /\ Temp(q)' = Temp(q)
                  /\ Temp(q) \in ContainerName /\ Temp(q) # t
      <3>1. q # p /\ cli'[q] = cli[q]
        BY <2>7, <2>8, <2>13 DEF IInv, CliOK, Holding, ExecLabels
      <3>2. Holding(q) /\ Temp(q)' = Temp(q)
        BY <2>13, <3>1 DEF Holding, Temp, IsService, Name
      <3>3. Temp(q) \in ContainerName /\ cont[Temp(q)].id = cli[q].made
        BY <3>2, TempIsTemp DEF Holding, ExecLabels, IInv, TempOwned
      <3>4. QED
        BY <1>1, <2>1, <3>1, <3>2, <3>3 DEF IInv, MadeDistinct
    <2>14. TempOwned'
      BY <2>2, <2>13 DEF IInv, TempOwned, Exists
    <2>15. MadeDistinct'
      BY <2>3, <2>13 DEF IInv, MadeDistinct
    <2>16. QED
      BY <2>4, <2>12, <2>14, <2>15 DEF IInv
  <1>5. QED
    BY <1>3, <1>4 DEF ExecRemove

-----------------------------------------------------------------------------
\* The invariant.

LEMMA InitSafe == Init => IInv
  <1> SUFFICES ASSUME Init PROVE IInv
    OBVIOUS
  <1>1. DaemonOK
    BY DEF Init, DaemonOK, NoContainer, Container, Existing, Exists
  <1>2. 0 \in SafeIds
    BY DEF Init, SafeIds, Exists, NoContainer
  <1>3. Idle("none") \in ProcessOver(SafeIds)
    BY <1>2, IdleSafe DEF Results
  <1>4. CliOK
    BY <1>3, NameFacts DEF Init, CliOK, Idle, ExecLabels
  <1>5. TempOwned /\ MadeDistinct
    BY DEF Init, TempOwned, MadeDistinct, Holding, Idle
  <1>6. QED
    BY <1>1, <1>4, <1>5 DEF IInv

LEMMA StepSafe ==
  ASSUME IInv, NEW p \in Procs, Step(p)
  PROVE  IInv'
  <1>1. CASE CreateData(p) \/ CreateDataCall(p)
    BY <1>1, DataActions, QuietStep
  <1>2. CASE Run(p) \/ RunExists(p) \/ RunCreate(p) \/ RunStart(p) \/ RunRemove(p)
    BY <1>2, RunActions, QuietStep
  <1>3. CASE RunData(p) \/ RunDataCreate(p) \/ ExecData(p) \/ ExecDataCreate(p)
    BY <1>3, EnsureDataActions, QuietStep
  <1>4. CASE ExecStart(p) \/ ExecWait(p)
    BY <1>4, ExecActions, QuietStep
  <1>5. CASE ExecCreate(p)
    BY <1>5, ExecCreateSafe
  <1>6. CASE ExecRemove(p)
    BY <1>6, ExecRemoveSafe
  <1>7. CASE Stop(p) \/ StopCall(p)
    BY <1>7, StopActions, QuietStep
  <1>8. CASE RemoveService(p) \/ RemoveCall(p) \/ RemoveData(p) \/ RemoveDataCall(p)
    BY <1>8, RemoveActions, QuietStep
  <1>9. CASE \/ Rebuild(p) \/ RebuildRunning(p) \/ RebuildRemove(p) \/ RebuildCreate(p)
             \/ RebuildStart(p)
    BY <1>9, RebuildActions, QuietStep
  <1>10. CASE Pull(p) \/ PullRunning(p) \/ PullRemove(p) \/ PullImage(p)
    BY <1>10, PullActions, QuietStep
  <1>11. CASE Rename(p) \/ RenameTo(p) \/ RenameRunning(p) \/ RenameVolumes(p)
    BY <1>11, RenameLooks, QuietStep
  <1>12. CASE RenameStop(p) \/ RenameRemove(p) \/ RenameStart(p)
    BY <1>12, RenameActs, QuietStep
  <1>13. CASE RenameCreate(p)
    BY <1>13, RenameCreates, QuietStep
  <1>14. QED
    BY <1>1, <1>2, <1>3, <1>4, <1>5, <1>6, <1>7, <1>8, <1>9, <1>10, <1>11, <1>12, <1>13 DEF Step

LEMMA ExitSafe ==
  ASSUME IInv, NEW n \in ContainerName, Exit(n)
  PROVE  IInv'
  BY QuietRunning, OthersSafe DEF Exit

LEMMA NextSafe == IInv /\ [Next]_vars => IInv'
  <1> SUFFICES ASSUME IInv, [Next]_vars PROVE IInv'
    OBVIOUS
  <1>1. CASE \E p \in Procs : Begin(p) \/ Step(p) \/ Kill(p)
    BY <1>1, BeginSafe, StepSafe, KillSafe
  <1>2. CASE \E n \in ContainerName : Exit(n)
    BY <1>2, ExitSafe
  <1>3. CASE UNCHANGED vars
    BY <1>3, QuietSame, OthersSafe DEF vars, daemon
  <1>4. QED
    BY <1>1, <1>2, <1>3 DEF Next

LEMMA Invariance == Spec => []IInv
  <1>1. QED
    BY InitSafe, NextSafe, PTL DEF Spec

-----------------------------------------------------------------------------
\* What follows.

\* Every variable keeps its type: in every reachable state of the operations of
\* docker_run.go each process is at a line of the code with the data that line
\* needs, and the daemon's tables are well formed.
THEOREM TypeCorrect == Spec => []TypeOK
  <1>1. ASSUME IInv PROVE TypeOK
    <2>1. ProcessOver(SafeIds) \subseteq ProcessOver(Nat)
      BY <1>1, SafeFacts, ProcessMono
    <2>2. ProcessOver(Nat) = Process
      BY DEF ProcessOver, Process, FrameOver, Frame
    <2>3. QED
      BY <1>1, <2>1, <2>2 DEF IInv, DaemonOK, CliOK, TypeOK
  <1>2. QED
    BY <1>1, Invariance, PTL

\* From its creation to its removal the container a process starts, waits for
\* and removes by name is the one it created, whatever others do.
THEOREM TempOwnership == Spec => []TempOwned
  BY Invariance, PTL DEF IInv

\* Two processes never work in the same throw-away container.
THEOREM TempExclusion == Spec => []TempExclusive
  <1>1. IInv => TempExclusive
    BY DEF IInv, TempOwned, MadeDistinct, TempExclusive
  <1>2. QED
    BY <1>1, Invariance, PTL

\* A throw-away container only ever goes in the deferred removal of the process
\* that made it, which is the end of that process's command.
THEOREM TempsDieWithOwner == Spec => TempDiesWithOwner
  <1> DEFINE Dies ==
        \A n \in ContainerName :
          n.type \in TempTypes /\ Exists(n) /\ cont'[n].id # cont[n].id
            => \E p \in Procs : /\ cli[p].pc = "execRemove"
                                /\ cli[p].made = cont[n].id
                                /\ cli'[p].pc = "idle"
  <1>1. ASSUME Quiet PROVE Dies
    BY <1>1 DEF Quiet, IsTemp
  <1>2. ASSUME IInv, NEW p \in Procs, ExecCreate(p) PROVE Dies
    <2>1. CASE Refused(p, CanCreate(Temp(p), TempSource(p)))
      BY <1>1, <1>2, <2>1, RefusedSafe
    <2>2. CASE CanCreate(Temp(p), TempSource(p)) /\ Create(Temp(p), TempSource(p))
      <3>1. \A n \in ContainerName : Exists(n) => cont'[n] = cont[n]
        BY <1>2, <2>2 DEF CanCreate, Create, IInv, DaemonOK
      <3>2. QED
        BY <3>1
    <2>3. QED
      BY <1>2, <2>1, <2>2 DEF ExecCreate
  <1>3. ASSUME IInv, NEW p \in Procs, ExecRemove(p) PROVE Dies
    <2>1. CASE UNCHANGED daemon
      BY <1>1, <1>3, <2>1, QuietSame
    <2>2. CASE Remove(Temp(p), ~IsService(p)) /\ (Fail(p) \/ Return(p))
      <3>1. cli[p].pc = "execRemove" /\ cli[p].stk = <<>> /\ cont[Temp(p)].id = cli[p].made
        BY <1>3 DEF ExecRemove, At, IInv, CliOK, ExecLabels, TempOwned, Holding
      <3>2. \A n \in ContainerName \ {Temp(p)} : cont'[n] = cont[n]
        BY <1>3, <2>2 DEF Remove, IInv, DaemonOK
      <3>3. cli'[p].pc = "idle"
        BY <1>3, <2>2, <3>1 DEF Fail, Return, Become, Failed, Returned, Idle, IInv, CliOK
      <3>4. QED
        BY <3>1, <3>2, <3>3
    <2>3. QED
      BY <1>3, <2>1, <2>2 DEF ExecRemove
  <1>4. ASSUME IInv, NEW p \in Procs, Step(p), ~ExecCreate(p), ~ExecRemove(p) PROVE Dies
    <2>1. Quiet
      BY <1>4, DataActions, EnsureDataActions, RunActions, ExecActions, StopActions,
         RemoveActions, RebuildActions, PullActions, RenameLooks, RenameActs, RenameCreates
      DEF Step
    <2>2. QED
      BY <1>1, <2>1
  <1>5. ASSUME IInv, NEW n \in ContainerName, Exit(n) PROVE Dies
    BY <1>1, <1>5, QuietRunning DEF Exit
  <1>6. IInv /\ [Next]_vars => [Dies]_vars
    <2>1. ASSUME IInv, NEW p \in Procs, Begin(p) \/ Kill(p) PROVE Dies
      BY <1>1, <2>1, QuietSame DEF Begin, Kill
    <2>2. QED
      BY <1>2, <1>3, <1>4, <1>5, <2>1 DEF Next
  <1>7. QED
    BY <1>6, Invariance, PTL DEF Spec, TempDiesWithOwner

=============================================================================
