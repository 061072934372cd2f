-------------------------- MODULE PerformSeq_proofs --------------------------
(***************************************************************************)
(* Undisturbed commands implement Lifecycle, for any containers and any    *)
(* number of processes and commands.                                       *)
(*                                                                         *)
(* A command is many steps, and Lifecycle knows only its beginning and its *)
(* end.  So SeqInv says of each line of docker_run.go how the containers   *)
(* differ there from what the command found (settled), and what the process*)
(* has learned of them; each step keeps that up, and the last one leaves a *)
(* world that is one step of Lifecycle away.                               *)
(***************************************************************************)
EXTENDS PerformSeq, Perform_proofs

\* Lifecycle's operators, for any world s.
Absent == [state |-> "none", vol |-> 0, from |-> NoName]

New(v) == [state |-> "stopped", vol |-> v, from |-> NoName]

NewFrom(s, from) == [state |-> "stopped", vol |-> s[from].vol, from |-> from]

WithState(r, st) == [r EXCEPT !.state = st]

Fresh(s) == Volumes \ {s[n].vol : n \in PlainName}

WithData(s, d) == IF s[d] # Absent THEN {s} ELSE {[s EXCEPT ![d] = New(v)] : v \in Fresh(s)}

SeenState == [state : {"none", "stopped", "running"}, vol : Nat, from : PlainName \cup {NoName}]

\* The daemon's containers come from nowhere but the model's own calls.
ContOK ==
  \A n \in ContainerName : /\ cont[n].id = 0 => cont[n] = NoContainer
                           /\ cont[n].from \in PlainName \cup {NoName}
                           /\ cont[n].vol < nextId

SettledOK ==
  /\ settled \in [PlainName -> SeenState]
  /\ \A n \in PlainName : settled[n].vol < nextId /\ (settled[n].state = "none" => settled[n] = Absent)

\* No command creates more than two containers.
CreatesTwo == {"run", "runData", "runDataCreate", "execData", "execDataCreate"}
CreatesNone == {"idle", "runStart", "runRemove", "execStart", "execWait", "execRemove", "rebuildStart", "renameStart"}

Room(p) ==
  /\ begun <= MaxInvocations
  /\ nextId <= 2 * begun + 1
  /\ cli[p].pc \in CreatesTwo => nextId + 2 <= 2 * begun + 1
  /\ cli[p].pc \notin CreatesNone => nextId + 1 <= 2 * begun + 1

-----------------------------------------------------------------------------
\* What the containers look like to a process, compared to what it found.

Same == Seen = settled

DataOf(p) == ToDataContainer(Name(p))

\* The process has looked m up.
Found(p, m) == Exists(m) /\ cli[p].id = cont[m].id

WasRunning(p) == settled[Name(p)].state = "running"

\* DockerRunService, before and after the container itself.
DataReady(p) ==
  /\ ~WasRunning(p)
  /\ IF Has(p, "auto") THEN Seen \in WithData(settled, DataOf(p)) /\ Exists(DataOf(p)) ELSE Same

StartedAs(p, w) ==
  LET n == Name(p)
      d == DataOf(p) IN
  /\ ~WasRunning(p)
  /\ IF Has(p, "auto")
     THEN \E u \in WithData(settled, d) :
            w = [u EXCEPT ![n] = WithState(IF settled[n] # Absent THEN u[n] ELSE NewFrom(u, d), "running")]
     ELSE \E v \in Fresh(settled) :
            w = [settled EXCEPT ![n] = WithState(IF settled[n] # Absent THEN settled[n] ELSE New(v), "running")]

\* A data container at most has been made.
DataMade(p) ==
  Same \/ (IsService(p) /\ Has(p, "auto") /\ settled[DataOf(p)] = Absent /\ Seen \in WithData(settled, DataOf(p)))

Lost(n) == Seen = [settled EXCEPT ![n] = Absent]

\* What a rename takes along.
Source(p) ==
  LET from == settled[Name(p)].from IN
  IF from # NoName /\ from # Name(p) /\ settled[from] # Absent THEN from ELSE NoName

RenamedTo(p) ==
  \E v \in Fresh(settled) :
    Seen = [settled EXCEPT ![Name(p)] = Absent,
                           ![cli[p].inv.to] = IF Source(p) # NoName THEN NewFrom(settled, Source(p)) ELSE New(v)]

-----------------------------------------------------------------------------
\* Where a process is.

StopBack(p) == <<[back |-> "rebuildRemove", id |-> cont[Name(p)].id, was |-> TRUE]>>

TrackRun(p) ==
  LET n == Name(p) IN
  /\ cli[p].pc \in {"run", "runData", "runDataCreate", "runExists", "runCreate", "runStart", "runRemove"} =>
       cli[p].stk = <<>> /\ cli[p].inv.kind = "run" /\ (Has(p, "auto") => cli[p].data = DataOf(p))
  /\ cli[p].pc = "run" => Same
  /\ cli[p].pc \in {"runData", "runDataCreate"} => Same /\ ~WasRunning(p) /\ Has(p, "auto")
  /\ cli[p].pc = "runDataCreate" => ~Exists(DataOf(p))
  /\ cli[p].pc \in {"runExists", "runCreate"} => DataReady(p)
  /\ cli[p].pc = "runCreate" => ~Exists(n)
  /\ cli[p].pc = "runStart" => Exists(n) /\ ~cont[n].running /\ StartedAs(p, [Seen EXCEPT ![n] = WithState(@, "running")])
  /\ cli[p].pc = "runRemove" => cont[n].running /\ StartedAs(p, Seen)

TrackData(p) ==
  /\ cli[p].pc \in {"createData", "createDataCall"} =>
       Same /\ cli[p].stk = <<>> /\ cli[p].inv.kind = "createData" /\ cli[p].data = Name(p)
  /\ cli[p].pc = "createDataCall" => ~Exists(Name(p))
  /\ cli[p].pc \in {"execData", "execDataCreate"} =>
       Same /\ IsService(p) /\ Has(p, "auto") /\ cli[p].data = DataOf(p)
  /\ cli[p].pc = "execDataCreate" => ~Exists(DataOf(p))
  /\ cli[p].pc \in ExecLabels => DataMade(p)

TrackStop(p) ==
  LET n == Name(p) IN
  /\ cli[p].pc \in {"stop", "stopCall"} =>
       /\ Same
       /\ \/ cli[p].stk = <<>> /\ cli[p].inv.kind = "stop"
          \/ cli[p].stk = StopBack(p) /\ cli[p].inv.kind = "rebuild" /\ cont[n].running
  /\ cli[p].pc = "stopCall" => Found(p, n)

TrackRemove(p) ==
  LET n == Name(p) IN
  /\ cli[p].pc \in {"remove", "removeCall", "removeData", "removeDataCall"} =>
       cli[p].stk = <<>> /\ cli[p].inv.kind = "remove" /\ (Has(p, "data") => cli[p].data = DataOf(p))
  /\ cli[p].pc \in {"remove", "removeCall"} => Same
  /\ cli[p].pc = "removeCall" => Found(p, n)
  /\ cli[p].pc \in {"removeData", "removeDataCall"} => Has(p, "data") /\ settled[n].state = "stopped" /\ Lost(n)
  /\ cli[p].pc = "removeDataCall" => Found(p, DataOf(p))

TrackRebuild(p) ==
  LET n == Name(p) IN
  /\ cli[p].pc \in {"rebuild", "rebuildRunning", "rebuildRemove", "rebuildCreate", "rebuildStart"} =>
       cli[p].stk = <<>> /\ cli[p].inv.kind = "rebuild"
  /\ cli[p].pc \in {"pull", "pullImage"} =>
       cli[p].stk # <<>> /\ cli[p].stk = <<[back |-> "rebuildCreate", id |-> Head(cli[p].stk).id, was |-> WasRunning(p)]>>
  /\ cli[p].pc \in {"pull", "pullImage"} => cli[p].inv.kind = "rebuild"
  /\ cli[p].pc \in {"rebuild", "rebuildRunning"} => Same
  /\ cli[p].pc \in {"rebuildRunning", "rebuildRemove"} => Found(p, n) /\ settled[n] # Absent
  /\ cli[p].pc = "rebuildRemove" => Seen = [settled EXCEPT ![n] = WithState(@, "stopped")]
  /\ cli[p].pc \in {"rebuildRemove", "rebuildCreate", "rebuildStart"} => cli[p].was = WasRunning(p)
  /\ cli[p].pc \in {"pull", "pullImage", "rebuildCreate"} => settled[n] # Absent /\ Lost(n)
  /\ cli[p].pc = "pullImage" => ~cli[p].was
  /\ cli[p].pc = "rebuildStart" =>
       /\ settled[n] # Absent /\ WasRunning(p)
       /\ Exists(n) /\ ~cont[n].running
       /\ \E v \in Fresh(settled) : Seen = [settled EXCEPT ![n] = New(v)]

TrackRename(p) ==
  LET n == Name(p)
      to == cli[p].inv.to IN
  /\ cli[p].pc \in {"rename", "renameTo", "renameRunning", "renameStop", "renameRemove", "renameVolumes",
                    "renameCreate", "renameStart"} =>
       cli[p].stk = <<>> /\ cli[p].inv.kind = "rename"
  /\ cli[p].pc \in {"rename", "renameTo", "renameRunning", "renameStop"} => Same
  /\ cli[p].pc \in {"renameTo", "renameRunning", "renameStop", "renameRemove"} =>
       settled[n] # Absent /\ Found(p, n) /\ cli[p].src = settled[n].from
  /\ cli[p].pc \in {"renameRunning", "renameStop", "renameRemove", "renameVolumes", "renameCreate", "renameStart"} =>
       settled[n] # Absent /\ settled[to] = Absent
  /\ cli[p].pc \in {"renameStop", "renameRemove", "renameVolumes", "renameCreate", "renameStart"} =>
       cli[p].was = WasRunning(p)
  /\ cli[p].pc = "renameRemove" => Seen = [settled EXCEPT ![n] = WithState(@, "stopped")]
  /\ cli[p].pc \in {"renameVolumes", "renameCreate"} => Lost(n)
  /\ cli[p].pc = "renameVolumes" => cli[p].src = settled[n].from
  /\ cli[p].pc = "renameCreate" => cli[p].src = Source(p)
  /\ cli[p].pc = "renameStart" => Found(p, to) /\ ~cont[to].running /\ RenamedTo(p) /\ WasRunning(p)

Track(p) ==
  /\ TrackRun(p) /\ TrackData(p) /\ TrackStop(p) /\ TrackRemove(p) /\ TrackRebuild(p) /\ TrackRename(p)
  /\ cli[p].pc \notin {"pullRunning", "pullRemove"}

OneAtATime == \A p, q \in Procs : At(p, "idle") \/ At(q, "idle") \/ p = q

SeqInv ==
  /\ ContOK /\ SettledOK /\ OneAtATime
  /\ AllIdle => Same
  /\ \A p \in Procs : Room(p) /\ (~At(p, "idle") => Track(p))

-----------------------------------------------------------------------------
\* Names and lookups.

LEMMA PlainFacts ==
  /\ PlainName \subseteq ContainerName
  /\ NoName \notin PlainName
  /\ \A n \in PlainName : n.type \in ErisTypes /\ Plain(n) = n /\ ~IsTemp(n) /\ ToDataContainer(n) \in PlainName
  /\ \A n \in PlainName : n.type # TypeData => ToDataContainer(n) # n
  /\ \A n \in PlainName : n.type = TypeData => ToDataContainer(n) = n
  /\ \A n \in ContainerName : ~IsTemp(n) => n \in PlainName
BY DEF PlainName, ContainerName, NoName, Plain, IsTemp, ToDataContainer, TempTypes, ErisTypes, TypeService, TypeChain,
       TypeData

\* The names of Lifecycle are the same.
LEMMA SameNames ==
  /\ L!PlainName = PlainName /\ L!TypeData = TypeData /\ L!NoName = NoName
  /\ \A n : L!ToDataContainer(n) = ToDataContainer(n)
  /\ L!Absent = Absent
  /\ \A v : L!New(v) = New(v)
  /\ \A w, d : L!NewFrom(w, d) = NewFrom(w, d)
BY DEF L!PlainName, PlainName, L!ContainerName, ContainerName, L!ErisTypes, ErisTypes, L!TempTypes, TempTypes,
       L!TypeService, TypeService, L!TypeChain, TypeChain, L!TypeData, TypeData, L!NoName, NoName,
       L!ToDataContainer, ToDataContainer, L!Absent, L!New, L!NewFrom, Absent, New, NewFrom

LEMMA NothingLinked == \A n : LinkedTo(n) = {}
BY SeqAssumption DEF SeqAssumption, LinkedTo

LEMMA AnswersExactly ==
  ASSUME NEW n \in PlainName, NEW m \in Existing, m.type \in ErisTypes
  PROVE  Answers(n, m, Existing) <=> m = n
<1>1. m \in PlainName
  BY DEF Existing, PlainName
<1>2. Matches(n, m) <=> n.type = m.type /\ n.short = m.short /\ n.number = m.number
  BY <1>1, PlainFacts, SeqAssumption DEF Matches, SeqAssumption, PlainName, ContainerName
<1>3. n.type = m.type /\ n.short = m.short /\ n.number = m.number <=> m = n
  BY <1>1 DEF PlainName, ContainerName
<1> QED
  BY <1>2, <1>3, NothingLinked DEF Answers

\* A lookup answers for the name asked for, and for no other.
LEMMA LooksUp ==
  ASSUME NEW n \in PlainName
  PROVE  /\ \A id : id \in Lookup(n, TRUE) => id = IF Exists(n) THEN cont[n].id ELSE 0
         /\ \A id : id \in Lookup(n, FALSE) => id = IF Exists(n) /\ cont[n].running THEN cont[n].id ELSE 0
<1>1. n \in ContainerName /\ n.type \in ErisTypes
  BY PlainFacts
<1>2. ~Faults
  BY SeqAssumption DEF SeqAssumption
<1>3. ASSUME NEW all \in BOOLEAN
      PROVE  Candidates(n, all) = IF Exists(n) /\ (all \/ cont[n].running) THEN {n} ELSE {}
  BY <1>1, AnswersExactly DEF Candidates, Existing
<1> QED
  BY <1>2, <1>3 DEF Lookup

-----------------------------------------------------------------------------
\* What Lifecycle sees of the daemon's calls.

LEMMA SeenFacts ==
  ASSUME IInv, ContOK, NEW n \in PlainName
  PROVE  /\ Seen \in [PlainName -> SeenState]
         /\ Seen[n].vol = cont[n].vol /\ Seen[n].from = cont[n].from /\ Seen[n].vol < nextId
         /\ Seen[n].state = IF ~Exists(n) THEN "none" ELSE IF cont[n].running THEN "running" ELSE "stopped"
         /\ Seen[n] = Absent <=> ~Exists(n)
         /\ Seen[n].state = "none" => Seen[n] = Absent
<1>1. \A m \in PlainName : m \in ContainerName /\ cont[m] \in Container /\ cont[m].from \in PlainName \cup {NoName}
  BY PlainFacts DEF IInv, DaemonOK, ContOK
<1>2. Seen \in [PlainName -> SeenState]
  BY <1>1 DEF Seen, SeenState, Container
<1>3. /\ Seen[n].vol = cont[n].vol /\ Seen[n].from = cont[n].from
      /\ Seen[n].state = IF ~Exists(n) THEN "none" ELSE IF cont[n].running THEN "running" ELSE "stopped"
  BY DEF Seen
<1>4. ~Exists(n) => Seen[n] = Absent
  BY <1>1, SameNames DEF Seen, Exists, ContOK, NoContainer, Absent
<1>5. Exists(n) => Seen[n].state # "none"
  BY <1>3
<1>6. Absent.state = "none"
  BY DEF Absent
<1> QED
  BY <1>1, <1>2, <1>3, <1>4, <1>5, <1>6 DEF ContOK

LEMMA SeenSame ==
  ASSUME UNCHANGED daemon
  PROVE  Seen' = Seen /\ nextId' = nextId /\ cont' = cont /\ (ContOK => ContOK')
BY DEF daemon, Seen, Exists, ContOK

LEMMA SeenRuns ==
  ASSUME IInv, ContOK, NEW n \in ContainerName, Exists(n), NEW b \in BOOLEAN, SetRunning(n, b)
  PROVE  /\ ContOK' /\ nextId' = nextId
         /\ cont'[n].running = b
         /\ \A m \in ContainerName : cont'[m].id = cont[m].id /\ cont'[m].from = cont[m].from
         /\ \A m \in ContainerName \ {n} : cont'[m] = cont[m]
         /\ n \notin PlainName => Seen' = Seen
         /\ n \in PlainName => Seen' = [Seen EXCEPT ![n] = WithState(Seen[n], IF b THEN "running" ELSE "stopped")]
<1> DEFINE c == [cont[n] EXCEPT !.running = b]
<1>1. cont[n] \in Container /\ cont' = [cont EXCEPT ![n] = c] /\ cont \in [ContainerName -> Container]
  BY DEF IInv, DaemonOK, SetRunning
<1>2. c.id = cont[n].id /\ c.from = cont[n].from /\ c.vol = cont[n].vol /\ c.running = b
  BY <1>1 DEF Container
<1> HIDE DEF c
<1>3. cont'[n] = c /\ \A m \in ContainerName \ {n} : cont'[m] = cont[m]
  BY <1>1
<1>4. nextId' = nextId
  BY DEF SetRunning
<1>5. ContOK'
  BY <1>2, <1>3, <1>4 DEF ContOK, Exists
<1>6. \A m \in PlainName \ {n} : Seen'[m] = Seen[m]
  BY <1>3, PlainFacts DEF Seen, Exists
<1>7. n \in PlainName => Seen'[n] = [state |-> IF b THEN "running" ELSE "stopped", vol |-> cont[n].vol, from |-> cont[n].from]
  BY <1>2, <1>3 DEF Seen, Exists
<1>8. n \in PlainName => Seen'[n] = WithState(Seen[n], IF b THEN "running" ELSE "stopped")
  BY <1>7 DEF Seen, WithState
<1>9. Seen = [m \in PlainName |-> Seen[m]] /\ Seen' = [m \in PlainName |-> Seen'[m]]
  BY DEF Seen
<1> QED
  BY <1>2, <1>3, <1>4, <1>5, <1>6, <1>8, <1>9

LEMMA SeenRemoves ==
  ASSUME IInv, ContOK, NEW n \in ContainerName, NEW vol, Remove(n, vol)
  PROVE  /\ ContOK' /\ nextId' = nextId
         /\ ~Exists(n)'
         /\ \A m \in ContainerName \ {n} : cont'[m] = cont[m]
         /\ n \notin PlainName => Seen' = Seen
         /\ n \in PlainName => Seen' = [Seen EXCEPT ![n] = Absent]
<1>1. cont' = [cont EXCEPT ![n] = NoContainer] /\ cont \in [ContainerName -> Container] /\ nextId' = nextId /\ nextId \in Nat \ {0}
  BY DEF IInv, DaemonOK, Remove
<1>2. cont'[n] = NoContainer /\ \A m \in ContainerName \ {n} : cont'[m] = cont[m]
  BY <1>1
<1>3. NoContainer.id = 0 /\ NoContainer.vol = 0 /\ NoContainer.from = NoName
  BY DEF NoContainer
<1>4. ContOK'
  BY <1>1, <1>2, <1>3 DEF ContOK
<1>5. \A m \in PlainName \ {n} : Seen'[m] = Seen[m]
  BY <1>2, PlainFacts DEF Seen, Exists
<1>6. n \in PlainName => Seen'[n] = Absent
  BY <1>2, <1>3 DEF Seen, Exists, Absent
<1>7. Seen = [m \in PlainName |-> Seen[m]] /\ Seen' = [m \in PlainName |-> Seen'[m]]
  BY DEF Seen
<1> QED
  BY <1>1, <1>2, <1>3, <1>4, <1>5, <1>6, <1>7 DEF Exists

LEMMA SeenCreates ==
  ASSUME IInv, ContOK, NEW n \in ContainerName, NEW from \in PlainName \cup {NoName}, Create(n, from), CanCreate(n, from)
  PROVE  /\ ContOK' /\ nextId' = nextId + 1
         /\ Exists(n)' /\ cont'[n].id = nextId /\ ~cont'[n].running
         /\ \A m \in ContainerName \ {n} : cont'[m] = cont[m]
         /\ n \notin PlainName => Seen' = Seen
         /\ n \in PlainName => Seen' = [Seen EXCEPT ![n] = IF from = NoName THEN New(nextId) ELSE NewFrom(Seen, from)]
<1> DEFINE vol == IF from \in Existing THEN cont[from].vol ELSE nextId
           c   == [id |-> nextId, running |-> FALSE, vol |-> vol, from |-> from]
<1>1. /\ cont' = [cont EXCEPT ![n] = c] /\ cont \in [ContainerName -> Container] /\ nextId' = nextId + 1
      /\ nextId \in Nat \ {0}
  BY DEF IInv, DaemonOK, Create
<1>2. from # NoName => from \in Existing /\ from \in PlainName /\ vol = Seen[from].vol /\ vol < nextId
  BY PlainFacts DEF CanCreate, Seen, ContOK
<1>3. from = NoName => vol = nextId
  BY NameFacts DEF Existing
<1>4. vol < nextId + 1
  BY <1>1, <1>2, <1>3 DEF Container, Existing
<1>5. c.id = nextId /\ c.running = FALSE /\ c.vol = vol /\ c.from = from
  OBVIOUS
<1> HIDE DEF vol, c
<1>6. cont'[n] = c /\ \A m \in ContainerName \ {n} : cont'[m] = cont[m]
  BY <1>1
<1>7. ContOK'
  <2> SUFFICES ASSUME NEW m \in ContainerName
               PROVE  /\ cont'[m].id = 0 => cont'[m] = NoContainer
                      /\ cont'[m].from \in PlainName \cup {NoName} /\ cont'[m].vol < nextId'
    BY DEF ContOK
  <2>1. CASE m = n
    BY <1>1, <1>4, <1>5, <1>6, <2>1
  <2>2. CASE m # n
    BY <1>1, <1>6, <2>2 DEF ContOK, Container
  <2> QED
    BY <2>1, <2>2
<1>8. \A m \in PlainName \ {n} : Seen'[m] = Seen[m]
  BY <1>6, PlainFacts DEF Seen, Exists
<1>9. n \in PlainName => Seen'[n] = [state |-> "stopped", vol |-> vol, from |-> from]
  BY <1>1, <1>5, <1>6 DEF Seen, Exists
<1>10. n \in PlainName => Seen'[n] = IF from = NoName THEN New(nextId) ELSE NewFrom(Seen, from)
  BY <1>2, <1>3, <1>9 DEF New, NewFrom
<1>11. Seen = [m \in PlainName |-> Seen[m]] /\ Seen' = [m \in PlainName |-> Seen'[m]]
  BY DEF Seen
<1> QED
  BY <1>1, <1>5, <1>6, <1>7, <1>8, <1>10, <1>11 DEF Exists

-----------------------------------------------------------------------------
\* A process that moves.

Inv == IInv /\ SeqInv

RunLabels     == {"run", "runData", "runDataCreate", "runExists", "runCreate", "runStart", "runRemove"}
DataLabels    == {"createData", "createDataCall"} \cup ExecLabels
StopLabels    == {"stop", "stopCall"}
RemoveLabels  == {"remove", "removeCall", "removeData", "removeDataCall"}
RebuildLabels == {"rebuild", "rebuildRunning", "rebuildRemove", "rebuildCreate", "rebuildStart", "pull", "pullImage"}
RenameLabels  == {"rename", "renameTo", "renameRunning", "renameStop", "renameRemove", "renameVolumes", "renameCreate",
                  "renameStart"}

Working(p) ==
  /\ cli[p] \in ProcessOver(SafeIds) /\ SafeIds \subseteq Nat
  /\ cli[p].inv \in Invocations
  /\ Name(p) \in PlainName /\ cli[p].inv.to \in PlainName /\ DataOf(p) \in PlainName
  /\ cli[p].inv.kind \in {"createData", "runData"} => Name(p).type = TypeData
  /\ cli[p].inv.kind \notin {"createData", "runData", "rename"} => Name(p).type # TypeData /\ DataOf(p) # Name(p)
  /\ cli[p].inv.to.type = Name(p).type
  /\ Track(p) /\ Room(p)

LEMMA AtWork ==
  ASSUME Inv, NEW p \in Procs, ~At(p, "idle")
  PROVE  Working(p)
<1>1. cli[p].inv \in Invocations /\ cli[p] \in ProcessOver(SafeIds) /\ SafeIds \subseteq Nat
  BY SafeFacts DEF Inv, IInv, CliOK, At
<1>2. /\ cli[p].inv.name \in PlainName /\ cli[p].inv.to \in PlainName /\ cli[p].inv.to.type = cli[p].inv.name.type
      /\ cli[p].inv.kind \in {"createData", "runData"} => cli[p].inv.name.type = TypeData
      /\ cli[p].inv.kind \notin {"createData", "runData", "rename"} => cli[p].inv.name.type # TypeData
  BY <1>1, PerformAssumption DEF PerformAssumption, Invocation
<1>3. Name(p) = cli[p].inv.name /\ DataOf(p) \in PlainName /\ (Name(p).type # TypeData => DataOf(p) # Name(p))
  BY <1>2, PlainFacts DEF Name, DataOf
<1> QED
  BY <1>1, <1>2, <1>3 DEF Working, Inv, SeqInv

\* p is at l now, with the command it had.
Now(p, l) ==
  /\ cli'[p].pc = l /\ cli'[p].inv = cli[p].inv /\ cli'[p].data = cli[p].data
  /\ begun' = begun /\ \A q \in Procs \ {p} : cli'[q] = cli[q]

SameId(p)  == cli'[p].id = cli[p].id
SameWas(p) == cli'[p].was = cli[p].was
SameStk(p) == cli'[p].stk = cli[p].stk
SameSrc(p) == cli'[p].src = cli[p].src

Done(p) == cli'[p].pc = "idle" /\ begun' = begun /\ \A q \in Procs \ {p} : cli'[q] = cli[q]

LEMMA Turned ==
  ASSUME Inv, NEW p \in Procs, NEW r, Become(p, r)
  PROVE  cli'[p] = r /\ begun' = begun /\ \A q \in Procs \ {p} : cli'[q] = cli[q]
BY DEF Inv, IInv, CliOK, Become

LEMMA Finished ==
  ASSUME Inv, NEW p \in Procs, Fail(p) \/ (Return(p) /\ cli[p].stk = <<>>)
  PROVE  Done(p)
BY Turned DEF Fail, Return, Failed, Returned, Idle, Done

LEMMA Onwards ==
  ASSUME Inv, NEW p \in Procs, ~At(p, "idle"), NEW l
  PROVE  /\ Goto(p, l) => Now(p, l) /\ SameId(p) /\ SameWas(p) /\ SameStk(p) /\ SameSrc(p)
         /\ \A i : Become(p, [cli[p] EXCEPT !.pc = l, !.id = i]) =>
              Now(p, l) /\ cli'[p].id = i /\ SameWas(p) /\ SameStk(p) /\ SameSrc(p)
         /\ \A w : Become(p, [cli[p] EXCEPT !.pc = l, !.was = w]) =>
              Now(p, l) /\ SameId(p) /\ cli'[p].was = w /\ SameStk(p) /\ SameSrc(p)
         /\ \A f : Become(p, [cli[p] EXCEPT !.pc = l, !.src = f]) =>
              Now(p, l) /\ SameId(p) /\ SameWas(p) /\ SameStk(p) /\ cli'[p].src = f
         /\ \A m : Become(p, [cli[p] EXCEPT !.pc = l, !.made = m]) =>
              Now(p, l) /\ SameId(p) /\ SameWas(p) /\ SameStk(p) /\ SameSrc(p)
         /\ \A b : Become(p, [cli[p] EXCEPT !.pc = l, !.failed = b]) =>
              Now(p, l) /\ SameId(p) /\ SameWas(p) /\ SameStk(p) /\ SameSrc(p)
         /\ \A i, f : Become(p, [cli[p] EXCEPT !.pc = l, !.id = i, !.src = f]) =>
              Now(p, l) /\ cli'[p].id = i /\ SameWas(p) /\ SameStk(p) /\ cli'[p].src = f
<1>1. cli[p] \in ProcessOver(SafeIds)
  BY AtWork DEF Working
<1> DEFINE q == cli[p]
<1>2. /\ [q EXCEPT !.pc = l].pc = l /\ [q EXCEPT !.pc = l].inv = q.inv /\ [q EXCEPT !.pc = l].data = q.data
      /\ [q EXCEPT !.pc = l].id = q.id /\ [q EXCEPT !.pc = l].was = q.was /\ [q EXCEPT !.pc = l].stk = q.stk
      /\ [q EXCEPT !.pc = l].src = q.src
  BY <1>1 DEF ProcessOver
<1>3. ASSUME NEW x, NEW r, r = [q EXCEPT !.pc = l, !.id = x], Become(p, r)
      PROVE  Now(p, l) /\ cli'[p].id = x /\ SameWas(p) /\ SameStk(p) /\ SameSrc(p)
  <2>1. r.pc = l /\ r.inv = q.inv /\ r.data = q.data /\ r.id = x /\ r.was = q.was /\ r.stk = q.stk /\ r.src = q.src
    BY <1>1, <1>3 DEF ProcessOver
  <2> QED
    BY <1>3, <2>1, Turned DEF Now, SameId, SameWas, SameStk, SameSrc
<1>4. ASSUME NEW x, NEW r, r = [q EXCEPT !.pc = l, !.was = x], Become(p, r)
      PROVE  Now(p, l) /\ SameId(p) /\ cli'[p].was = x /\ SameStk(p) /\ SameSrc(p)
  <2>1. r.pc = l /\ r.inv = q.inv /\ r.data = q.data /\ r.id = q.id /\ r.was = x /\ r.stk = q.stk /\ r.src = q.src
    BY <1>1, <1>4 DEF ProcessOver
  <2> QED
    BY <1>4, <2>1, Turned DEF Now, SameId, SameWas, SameStk, SameSrc
<1>5. ASSUME NEW x, NEW r, r = [q EXCEPT !.pc = l, !.src = x], Become(p, r)
      PROVE  Now(p, l) /\ SameId(p) /\ SameWas(p) /\ SameStk(p) /\ cli'[p].src = x
  <2>1. r.pc = l /\ r.inv = q.inv /\ r.data = q.data /\ r.id = q.id /\ r.was = q.was /\ r.stk = q.stk /\ r.src = x
    BY <1>1, <1>5 DEF ProcessOver
  <2> QED
    BY <1>5, <2>1, Turned DEF Now, SameId, SameWas, SameStk, SameSrc
<1>6. ASSUME NEW x, NEW r, r = [q EXCEPT !.pc = l, !.made = x], Become(p, r)
      PROVE  Now(p, l) /\ SameId(p) /\ SameWas(p) /\ SameStk(p) /\ SameSrc(p)
  <2>1. r.pc = l /\ r.inv = q.inv /\ r.data = q.data /\ r.id = q.id /\ r.was = q.was /\ r.stk = q.stk /\ r.src = q.src
    BY <1>1, <1>6 DEF ProcessOver
  <2> QED
    BY <1>6, <2>1, Turned DEF Now, SameId, SameWas, SameStk, SameSrc
<1>7. ASSUME NEW x, NEW r, r = [q EXCEPT !.pc = l, !.failed = x], Become(p, r)
      PROVE  Now(p, l) /\ SameId(p) /\ SameWas(p) /\ SameStk(p) /\ SameSrc(p)
  <2>1. r.pc = l /\ r.inv = q.inv /\ r.data = q.data /\ r.id = q.id /\ r.was = q.was /\ r.stk = q.stk /\ r.src = q.src
    BY <1>1, <1>7 DEF ProcessOver
  <2> QED
    BY <1>7, <2>1, Turned DEF Now, SameId, SameWas, SameStk, SameSrc
<1>8. ASSUME NEW x, NEW y, NEW r, r = [q EXCEPT !.pc = l, !.id = x, !.src = y], Become(p, r)
      PROVE  Now(p, l) /\ cli'[p].id = x /\ SameWas(p) /\ SameStk(p) /\ cli'[p].src = y
  <2>1. r.pc = l /\ r.inv = q.inv /\ r.data = q.data /\ r.id = x /\ r.was = q.was /\ r.stk = q.stk /\ r.src = y
    BY <1>1, <1>8 DEF ProcessOver
  <2> QED
    BY <1>8, <2>1, Turned DEF Now, SameId, SameWas, SameStk, SameSrc
<1>9. Goto(p, l) => Now(p, l) /\ SameId(p) /\ SameWas(p) /\ SameStk(p) /\ SameSrc(p)
  BY <1>2, Turned DEF Goto, Moved, Now, SameId, SameWas, SameStk, SameSrc
<1> QED
  BY <1>3, <1>4, <1>5, <1>6, <1>7, <1>8, <1>9

\* The last step of a command makes what the daemon shows now the settled world.
Settles(p) ==
  /\ cli'[p].pc = "idle" => settled' = Seen'
  /\ cli'[p].pc # "idle" => settled' = settled

Lands(p) ==
  /\ ContOK' /\ nextId' \in Nat /\ nextId <= nextId' /\ begun' = begun /\ Room(p)'
  /\ \A q \in Procs \ {p} : cli'[q] = cli[q]
  /\ cli'[p].pc = "idle" => settled' = settled \/ L!Next
  /\ cli'[p].pc # "idle" => Track(p)'

LEMMA LandsIdle ==
  ASSUME Inv, NEW p \in Procs, ~At(p, "idle"), Done(p), ContOK', settled' = settled \/ L!Next,
         nextId' = nextId \/ (nextId' = nextId + 1 /\ cli[p].pc \notin CreatesNone)
  PROVE  Lands(p)
<1>1. Room(p) /\ nextId \in Nat /\ begun \in Nat
  BY AtWork DEF Working, Inv, IInv, DaemonOK, CliOK
<1>2. cli'[p].pc = "idle" /\ begun' = begun
  BY DEF Done
<1> QED
  BY <1>1, <1>2 DEF Lands, Done, Room, CreatesNone, CreatesTwo

LEMMA LandsThere ==
  ASSUME Inv, NEW p \in Procs, ~At(p, "idle"), NEW l, Now(p, l), l # "idle", ContOK', Track(p)',
         \/ /\ nextId' = nextId
            /\ l \in CreatesTwo => cli[p].pc \in CreatesTwo
            /\ l \notin CreatesNone => cli[p].pc \notin CreatesNone
         \/ /\ nextId' = nextId + 1
            /\ l \notin CreatesTwo
            /\ l \notin CreatesNone => cli[p].pc \in CreatesTwo
            /\ cli[p].pc \notin CreatesNone
  PROVE  Lands(p)
<1>1. Room(p) /\ nextId \in Nat /\ begun \in Nat /\ MaxInvocations \in Nat
  BY AtWork, PerformAssumption DEF Working, Inv, IInv, DaemonOK, CliOK, PerformAssumption
<1>2. cli'[p].pc = l /\ begun' = begun
  BY DEF Now
<1>3. Room(p)'
  BY <1>1, <1>2 DEF Room
<1> QED
  BY <1>1, <1>2, <1>3 DEF Lands, Now

LEMMA TracksIn ==
  ASSUME NEW p
  PROVE  /\ cli'[p].pc \in RunLabels /\ TrackRun(p)' => Track(p)'
         /\ cli'[p].pc \in DataLabels /\ TrackData(p)' => Track(p)'
         /\ cli'[p].pc \in StopLabels /\ TrackStop(p)' => Track(p)'
         /\ cli'[p].pc \in RemoveLabels /\ TrackRemove(p)' => Track(p)'
         /\ cli'[p].pc \in RebuildLabels /\ TrackRebuild(p)' => Track(p)'
         /\ cli'[p].pc \in RenameLabels /\ TrackRename(p)' => Track(p)'
<1>1. cli'[p].pc \notin RunLabels => TrackRun(p)'
  BY DEF TrackRun, RunLabels
<1>2. cli'[p].pc \notin DataLabels => TrackData(p)'
  BY DEF TrackData, DataLabels, ExecLabels
<1>3. cli'[p].pc \notin StopLabels => TrackStop(p)'
  BY DEF TrackStop, StopLabels
<1>4. cli'[p].pc \notin RemoveLabels => TrackRemove(p)'
  BY DEF TrackRemove, RemoveLabels
<1>5. cli'[p].pc \notin RebuildLabels => TrackRebuild(p)'
  BY DEF TrackRebuild, RebuildLabels
<1>6. cli'[p].pc \notin RenameLabels => TrackRename(p)'
  BY DEF TrackRename, RenameLabels
<1>7. cli'[p].pc \in RunLabels \cup DataLabels \cup StopLabels \cup RemoveLabels \cup RebuildLabels \cup RenameLabels =>
        cli'[p].pc \notin {"pullRunning", "pullRemove"}
  BY DEF RunLabels, DataLabels, ExecLabels, StopLabels, RemoveLabels, RebuildLabels, RenameLabels
<1>8. /\ cli'[p].pc \in RunLabels => cli'[p].pc \notin DataLabels \cup StopLabels \cup RemoveLabels \cup RebuildLabels \cup RenameLabels
      /\ cli'[p].pc \in DataLabels => cli'[p].pc \notin RunLabels \cup StopLabels \cup RemoveLabels \cup RebuildLabels \cup RenameLabels
      /\ cli'[p].pc \in StopLabels => cli'[p].pc \notin RunLabels \cup DataLabels \cup RemoveLabels \cup RebuildLabels \cup RenameLabels
      /\ cli'[p].pc \in RemoveLabels => cli'[p].pc \notin RunLabels \cup DataLabels \cup StopLabels \cup RebuildLabels \cup RenameLabels
      /\ cli'[p].pc \in RebuildLabels => cli'[p].pc \notin RunLabels \cup DataLabels \cup StopLabels \cup RemoveLabels \cup RenameLabels
      /\ cli'[p].pc \in RenameLabels => cli'[p].pc \notin RunLabels \cup DataLabels \cup StopLabels \cup RemoveLabels \cup RebuildLabels
  BY DEF RunLabels, DataLabels, ExecLabels, StopLabels, RemoveLabels, RebuildLabels, RenameLabels
<1> QED
  BY <1>1, <1>2, <1>3, <1>4, <1>5, <1>6, <1>7, <1>8 DEF Track

\* The command of a process that has moved.
LEMMA SameCommand ==
  ASSUME NEW p, NEW l, Now(p, l)
  PROVE  /\ Name(p)' = Name(p) /\ DataOf(p)' = DataOf(p)
         /\ \A f : Has(p, f)' <=> Has(p, f)
         /\ IsService(p)' <=> IsService(p)
         /\ settled' = settled => (WasRunning(p)' <=> WasRunning(p))
BY DEF Now, Name, DataOf, Has, IsService, WasRunning

\* Until the command is over, what it found stays what it found.
LEMMA Unsettled ==
  ASSUME NEW p, NEW l, Now(p, l), l # "idle", Settles(p)
  PROVE  settled' = settled
BY DEF Now, Settles

\* A volume no settled container has.
LEMMA FreshVolume ==
  ASSUME Inv, NEW p \in Procs, ~At(p, "idle"), cli[p].pc \notin CreatesNone
  PROVE  nextId \in Fresh(settled)
<1>1. nextId \in Nat \ {0} /\ begun \in Nat /\ nextId + 1 <= 2 * begun + 1 /\ begun <= MaxInvocations
  BY AtWork DEF Working, Inv, IInv, DaemonOK, CliOK, Room
<1>2. nextId \in Volumes
  BY <1>1, SeqAssumption, PerformAssumption DEF SeqAssumption, PerformAssumption
<1>3. \A n \in PlainName : settled[n].vol # nextId
  BY <1>1 DEF Inv, SeqInv, SettledOK, SeenState
<1> QED
  BY <1>2, <1>3 DEF Fresh

LEMMA Daemon ==
  ASSUME Inv
  PROVE  /\ IInv /\ ContOK /\ cont \in [ContainerName -> Container] /\ nextId \in Nat \ {0}
         /\ \A n \in ContainerName : cont[n].running => Exists(n)
         /\ \A m, n \in ContainerName : Exists(n) /\ Identified(m, cont[n].id) => m = n
<1>1. IInv /\ ContOK /\ cont \in [ContainerName -> Container] /\ nextId \in Nat \ {0}
  BY DEF Inv, SeqInv, IInv, DaemonOK
<1>2. \A n \in ContainerName : cont[n].running => Exists(n)
  BY <1>1 DEF ContOK, Exists, NoContainer
<1> QED
  BY <1>1, <1>2 DEF IInv, DaemonOK, Identified, Existing

\* L!Next, action by action.
LEMMA LifecycleSteps ==
  ASSUME NEW n \in PlainName
  PROVE  /\ n.type = TypeData /\ L!MakeData(n) => L!Next
         /\ n.type # TypeData /\ (L!StartWithData(n) \/ L!Start(n) \/ L!Stop(n) \/ L!Remove(n) \/ L!Update(n) \/ L!UpdateFails(n)) => L!Next
         /\ \A to \in PlainName : to.type = n.type /\ L!Rename(n, to) => L!Next
BY SameNames DEF L!Next

LEMMA SameOperators ==
  /\ L!FreshVolumes = Fresh(settled)
  /\ \A d : L!WithData(d) = WithData(settled, d)
  /\ \A n : L!Present(n) <=> settled[n] # Absent
BY SameNames DEF L!FreshVolumes, Fresh, L!WithData, WithData, L!Present

-----------------------------------------------------------------------------
\* Steps that change nothing at the daemon.

LEMMA StaysIdle ==
  ASSUME Inv, NEW p \in Procs, ~At(p, "idle"), Settles(p), UNCHANGED daemon, Done(p), Same
  PROVE  Lands(p)
<1>1. Seen' = Seen /\ nextId' = nextId /\ ContOK'
  BY SeenSame DEF Inv, SeqInv
<1>2. settled' = settled
  BY <1>1 DEF Settles, Done, Same
<1> QED
  BY <1>1, <1>2, LandsIdle

LEMMA StaysThere ==
  ASSUME Inv, NEW p \in Procs, ~At(p, "idle"), UNCHANGED daemon, NEW l, Now(p, l), l # "idle", Track(p)',
         l \in CreatesTwo => cli[p].pc \in CreatesTwo,
         l \notin CreatesNone => cli[p].pc \notin CreatesNone
  PROVE  Lands(p)
<1>1. Seen' = Seen /\ nextId' = nextId /\ ContOK'
  BY SeenSame DEF Inv, SeqInv
<1> QED
  BY <1>1, LandsThere

\* What a process that has not finished knows of the unchanged daemon.
LEMMA Unchanged ==
  ASSUME NEW p, NEW l, Now(p, l), l # "idle", Settles(p), UNCHANGED daemon
  PROVE  /\ cont' = cont /\ Seen' = Seen /\ settled' = settled /\ cli'[p].pc = l /\ cli'[p].inv = cli[p].inv
         /\ cli'[p].data = cli[p].data
         /\ (Same' <=> Same) /\ \A m : (Exists(m)' <=> Exists(m))
         /\ Name(p)' = Name(p) /\ DataOf(p)' = DataOf(p)
         /\ (WasRunning(p)' <=> WasRunning(p)) /\ (IsService(p)' <=> IsService(p))
         /\ \A f : Has(p, f)' <=> Has(p, f)
         /\ (DataReady(p)' <=> DataReady(p)) /\ (DataMade(p)' <=> DataMade(p))
         /\ \A w : StartedAs(p, w)' <=> StartedAs(p, w)
<1>1. cont' = cont /\ Seen' = Seen /\ settled' = settled
  BY SeenSame DEF Settles, Now, daemon
<1>2. /\ Name(p)' = Name(p) /\ DataOf(p)' = DataOf(p) /\ (WasRunning(p)' <=> WasRunning(p))
      /\ (IsService(p)' <=> IsService(p)) /\ \A f : Has(p, f)' <=> Has(p, f)
  BY <1>1, SameCommand
<1>3. \A m : Exists(m)' <=> Exists(m)
  BY <1>1 DEF Exists
<1>4. Same' <=> Same
  BY <1>1 DEF Same
<1>5. Fresh(settled)' = Fresh(settled)
  BY <1>1
<1>6. \A d : WithData(settled, d)' = WithData(settled, d)
  BY <1>1
<1>7. DataReady(p)' <=> DataReady(p)
  BY <1>1, <1>2, <1>3, <1>4, <1>6 DEF DataReady
<1>8. DataMade(p)' <=> DataMade(p)
  BY <1>1, <1>2, <1>4, <1>6 DEF DataMade
<1>9. \A w : StartedAs(p, w)' <=> StartedAs(p, w)
  BY <1>1, <1>2 DEF StartedAs
<1> QED
  BY <1>1, <1>2, <1>3, <1>4, <1>7, <1>8, <1>9 DEF Now

-----------------------------------------------------------------------------
\* DockerCreateData

LEMMA CreateDataLands ==
  ASSUME Inv, NEW p \in Procs, Settles(p), CreateData(p)
  PROVE  Lands(p)
<1>1. ~At(p, "idle") /\ UNCHANGED daemon /\ cli[p].pc = "createData"
  BY DEF CreateData, At
<1>2. PICK id \in Lookup(Name(p), TRUE) : IF id # 0 THEN Fail(p) ELSE Goto(p, "createDataCall")
  BY DEF CreateData
<1>3. Working(p) /\ (id = 0 => ~Exists(Name(p)))
  BY <1>1, AtWork, LooksUp, Daemon DEF Working, Exists
<1>4. Same /\ cli[p].stk = <<>> /\ cli[p].inv.kind = "createData" /\ cli[p].data = Name(p)
  BY <1>1, <1>3 DEF Working, Track, TrackData
<1>5. CASE id # 0
  BY <1>1, <1>2, <1>4, <1>5, Finished, StaysIdle
<1>6. CASE id = 0
  <2>1. Now(p, "createDataCall") /\ SameStk(p)
    BY <1>1, <1>2, <1>6, Onwards
  <2>2. TrackData(p)'
    BY <1>1, <1>3, <1>4, <1>6, <2>1, Unchanged DEF TrackData, SameStk, ExecLabels, Name, Exists, DataOf, IsService, Has
  <2>3. Track(p)'
    BY <2>1, <2>2, TracksIn DEF Now, DataLabels
  <2> QED
    BY <1>1, <2>1, <2>3, StaysThere DEF CreatesTwo, CreatesNone
<1> QED
  BY <1>5, <1>6

LEMMA CreateDataCallLands ==
  ASSUME Inv, NEW p \in Procs, Settles(p), CreateDataCall(p)
  PROVE  Lands(p)
<1>1. ~At(p, "idle") /\ cli[p].pc = "createDataCall"
  BY DEF CreateDataCall, At
<1>2. Working(p) /\ IInv /\ ContOK
  BY <1>1, AtWork, Daemon
<1>3. Same /\ cli[p].stk = <<>> /\ cli[p].data = Name(p) /\ Name(p).type = TypeData /\ ~Exists(Name(p))
  BY <1>1, <1>2 DEF Working, Track, TrackData
<1>4. CASE CanCreate(Name(p), NoName) /\ Create(Name(p), NoName) /\ Return(p)
  <2>1. Done(p)
    BY <1>3, <1>4, Finished
  <2>2. ContOK' /\ nextId' = nextId + 1 /\ Seen' = [Seen EXCEPT ![Name(p)] = New(nextId)]
    BY <1>2, <1>4, SeenCreates, PlainFacts DEF Working
  <2>3. nextId \in Fresh(settled)
    BY <1>1, FreshVolume DEF CreatesNone
  <2>4. settled' = [settled EXCEPT ![Name(p)] = New(nextId)]
    BY <1>3, <2>1, <2>2 DEF Settles, Done, Same
  <2>5. settled[Name(p)] = Absent
    BY <1>2, <1>3, SeenFacts DEF Same, Working
  <2>6. L!MakeData(Name(p))
    BY <2>3, <2>4, <2>5, SameOperators DEF L!MakeData, WithData
  <2>7. L!Next
    BY <1>2, <1>3, <2>6, LifecycleSteps DEF Working
  <2> QED
    BY <1>1, <2>1, <2>2, <2>7, LandsIdle DEF CreatesNone
<1>5. CASE Refused(p, CanCreate(Name(p), NoName))
  BY <1>1, <1>3, <1>5, Finished, StaysIdle DEF Refused
<1> QED
  BY <1>3, <1>4, <1>5 DEF CreateDataCall

-----------------------------------------------------------------------------
\* The lines DockerRunService and DockerExecService begin with.

LEMMA EnsureDataLands ==
  ASSUME Inv, NEW p \in Procs, Settles(p), ~At(p, "idle"), NEW create, NEW next,
         Has(p, "auto"), cli[p].data = DataOf(p), Same,
         \E id \in Lookup(cli[p].data, TRUE) : Goto(p, IF id # 0 THEN next ELSE create),
         UNCHANGED daemon
  PROVE  \/ Exists(DataOf(p)) /\ Now(p, next) /\ SameStk(p) /\ Seen \in WithData(settled, DataOf(p))
         \/ ~Exists(DataOf(p)) /\ Now(p, create) /\ SameStk(p)
<1>1. PICK id \in Lookup(DataOf(p), TRUE) : Goto(p, IF id # 0 THEN next ELSE create)
  OBVIOUS
<1>2. DataOf(p) \in PlainName
  BY AtWork DEF Working
<1>3. id # 0 <=> Exists(DataOf(p))
  BY <1>2, LooksUp DEF Exists
<1>4. id # 0 => settled[DataOf(p)] # Absent
  BY <1>2, <1>3, Daemon, SeenFacts DEF Same
<1>5. id # 0 => Seen \in WithData(settled, DataOf(p))
  BY <1>4 DEF WithData, Same
<1>6. id # 0 => Now(p, next) /\ SameStk(p)
  BY <1>1, Onwards
<1>7. id = 0 => Now(p, create) /\ SameStk(p)
  BY <1>1, Onwards
<1> QED
  BY <1>3, <1>5, <1>6, <1>7

LEMMA EnsureDataCallLands ==
  ASSUME Inv, NEW p \in Procs, Settles(p), ~At(p, "idle"), NEW next, next # "idle",
         Has(p, "auto"), cli[p].data = DataOf(p), Same, ~Exists(DataOf(p)), cli[p].pc \notin CreatesNone,
         CanCreate(cli[p].data, NoName) /\ Create(cli[p].data, NoName) /\ Goto(p, next)
  PROVE  /\ Now(p, next) /\ SameStk(p) /\ settled' = settled
         /\ ContOK' /\ nextId' = nextId + 1 /\ Exists(DataOf(p))'
         /\ settled[DataOf(p)] = Absent /\ Seen' \in WithData(settled, DataOf(p))
<1>1. IInv /\ ContOK /\ DataOf(p) \in PlainName /\ DataOf(p) \in ContainerName
  BY AtWork, Daemon, PlainFacts DEF Working
<1>2. /\ ContOK' /\ nextId' = nextId + 1 /\ cont'[DataOf(p)].id = nextId
      /\ Seen' = [Seen EXCEPT ![DataOf(p)] = New(nextId)]
  BY <1>1, SeenCreates
<1>3. nextId \in Fresh(settled)
  BY FreshVolume
<1>4. settled[DataOf(p)] = Absent
  BY <1>1, SeenFacts DEF Same
<1>5. Seen' \in WithData(settled, DataOf(p))
  BY <1>2, <1>3, <1>4 DEF WithData, Same
<1>6. Now(p, next) /\ SameStk(p)
  BY Onwards
<1>7. settled' = settled
  BY <1>6 DEF Settles, Now
<1>8. cont'[DataOf(p)'].id # 0
  BY <1>2, <1>6, SameCommand, Daemon
<1> QED
  BY <1>2, <1>4, <1>5, <1>6, <1>7, <1>8 DEF Exists

-----------------------------------------------------------------------------
\* DockerRunService

LEMMA RunLands ==
  ASSUME Inv, NEW p \in Procs, Settles(p), Run(p)
  PROVE  Lands(p)
<1>1. ~At(p, "idle") /\ UNCHANGED daemon /\ cli[p].pc = "run"
  BY DEF Run, At
<1>2. PICK id \in Lookup(Name(p), FALSE) :
        IF id # 0 THEN Return(p) ELSE Goto(p, IF Has(p, "auto") THEN "runData" ELSE "runExists")
  BY DEF Run
<1>3. Working(p) /\ (id = 0 => ~(Exists(Name(p)) /\ cont[Name(p)].running))
  BY <1>1, AtWork, LooksUp DEF Working, Exists
<1>4. Same /\ cli[p].stk = <<>> /\ cli[p].inv.kind = "run" /\ (Has(p, "auto") => cli[p].data = DataOf(p))
  BY <1>1, <1>3 DEF Working, Track, TrackRun
<1>5. CASE id # 0
  BY <1>1, <1>2, <1>4, <1>5, Finished, StaysIdle
<1>6. CASE id = 0
  <2> DEFINE l == IF Has(p, "auto") THEN "runData" ELSE "runExists"
  <2>1. Now(p, l) /\ SameStk(p) /\ l # "idle"
    BY <1>1, <1>2, <1>6, Onwards
  <2>2. ~WasRunning(p)
    BY <1>3, <1>4, <1>6, SeenFacts, Daemon DEF Working, Same, WasRunning
  <2>3. ~Has(p, "auto") => DataReady(p)
    BY <1>4, <2>2 DEF DataReady
  <2>4. TrackRun(p)'
    BY <1>1, <1>3, <1>4, <1>6, <2>1, <2>2, <2>3, Unchanged DEF TrackRun, SameStk, Name, Exists, DataOf, Has
  <2>5. Track(p)'
    BY <2>1, <2>4, TracksIn DEF Now, RunLabels
  <2> QED
    BY <1>1, <2>1, <2>5, StaysThere DEF CreatesTwo, CreatesNone
<1> QED
  BY <1>5, <1>6

LEMMA RunDataLands ==
  ASSUME Inv, NEW p \in Procs, Settles(p), RunData(p)
  PROVE  Lands(p)
<1>1. ~At(p, "idle") /\ UNCHANGED daemon /\ cli[p].pc = "runData"
  BY DEF RunData, EnsureData, At
<1>2. /\ Same /\ cli[p].stk = <<>> /\ cli[p].inv.kind = "run" /\ Has(p, "auto") /\ cli[p].data = DataOf(p)
      /\ ~WasRunning(p)
  BY <1>1, AtWork DEF Working, Track, TrackRun
<1>3. \/ Exists(DataOf(p)) /\ Now(p, "runExists") /\ SameStk(p) /\ Seen \in WithData(settled, DataOf(p))
      \/ ~Exists(DataOf(p)) /\ Now(p, "runDataCreate") /\ SameStk(p)
  BY <1>1, <1>2, EnsureDataLands DEF RunData, EnsureData
<1>4. CASE Exists(DataOf(p)) /\ Now(p, "runExists") /\ SameStk(p) /\ Seen \in WithData(settled, DataOf(p))
  <2>1. DataReady(p)
    BY <1>2, <1>4 DEF DataReady
  <2>2. TrackRun(p)'
    BY <1>1, <1>2, <1>4, <2>1, Unchanged DEF TrackRun, SameStk, Name, Exists, DataOf, Has
  <2>3. Track(p)'
    BY <1>4, <2>2, TracksIn DEF Now, RunLabels
  <2> QED
    BY <1>1, <1>4, <2>3, StaysThere DEF CreatesTwo, CreatesNone
<1>5. CASE ~Exists(DataOf(p)) /\ Now(p, "runDataCreate") /\ SameStk(p)
  <2>1. TrackRun(p)'
    BY <1>1, <1>2, <1>5, Unchanged DEF TrackRun, SameStk, Name, Exists, DataOf, Has
  <2>2. Track(p)'
    BY <1>5, <2>1, TracksIn DEF Now, RunLabels
  <2> QED
    BY <1>1, <1>5, <2>2, StaysThere DEF CreatesTwo, CreatesNone
<1> QED
  BY <1>3, <1>4, <1>5

LEMMA RunDataCreateLands ==
  ASSUME Inv, NEW p \in Procs, Settles(p), RunDataCreate(p)
  PROVE  Lands(p)
<1>1. ~At(p, "idle") /\ cli[p].pc = "runDataCreate"
  BY DEF RunDataCreate, EnsureDataCall, At
<1>2. /\ Same /\ cli[p].stk = <<>> /\ cli[p].inv.kind = "run" /\ Has(p, "auto") /\ cli[p].data = DataOf(p)
      /\ ~WasRunning(p) /\ ~Exists(DataOf(p))
  BY <1>1, AtWork DEF Working, Track, TrackRun
<1>3. CASE Refused(p, CanCreate(cli[p].data, NoName))
  BY <1>1, <1>2, <1>3, Finished, StaysIdle DEF Refused
<1>4. CASE CanCreate(cli[p].data, NoName) /\ Create(cli[p].data, NoName) /\ Goto(p, "runExists")
  <2>1. /\ Now(p, "runExists") /\ SameStk(p) /\ settled' = settled /\ ContOK' /\ nextId' = nextId + 1
        /\ Exists(DataOf(p))' /\ Seen' \in WithData(settled, DataOf(p))
    BY <1>1, <1>2, <1>4, EnsureDataCallLands DEF CreatesNone
  <2>2. DataReady(p)'
    BY <1>2, <2>1, SameCommand DEF DataReady, WithData, Fresh
  <2>3. TrackRun(p)'
    BY <1>2, <2>1, <2>2, SameCommand DEF TrackRun, SameStk, Now, DataOf, Name, Has
  <2>4. Track(p)'
    BY <2>1, <2>3, TracksIn DEF Now, RunLabels
  <2> QED
    BY <1>1, <2>1, <2>4, LandsThere DEF CreatesTwo, CreatesNone
<1> QED
  BY <1>3, <1>4 DEF RunDataCreate, EnsureDataCall

LEMMA ExceptTwice ==
  ASSUME NEW R, NEW w \in [PlainName -> R], NEW n \in PlainName, NEW x, NEW y, NEW u, u = [w EXCEPT ![n] = x]
  PROVE  u[n] = x /\ [u EXCEPT ![n] = y] = [w EXCEPT ![n] = y]
OBVIOUS

\* What a start has made does not depend on where the process is.
LEMMA StartedMoves ==
  ASSUME NEW p, NEW l, Now(p, l), settled' = settled, NEW w, StartedAs(p, w),
         w = [Seen' EXCEPT ![Name(p)] = WithState(Seen'[Name(p)], "running")]
  PROVE  StartedAs(p, [Seen EXCEPT ![Name(p)] = WithState(Seen[Name(p)], "running")])'
<1>1. w = [Seen' EXCEPT ![Name(p)'] = WithState(Seen'[Name(p)'], "running")]
  BY SameCommand
<1>2. Fresh(settled)' = Fresh(settled) /\ \A d : WithData(settled, d)' = WithData(settled, d)
  OBVIOUS
<1> QED
  BY <1>1, <1>2, SameCommand DEF StartedAs

\* A container that runs, on the volume it should, is what a start promises.
LEMMA StartedSteps ==
  ASSUME Inv, NEW p \in Procs, ~At(p, "idle"), cli[p].inv.kind = "run", StartedAs(p, settled')
  PROVE  L!Next
<1> DEFINE n == Name(p)
           d == DataOf(p)
<1>1. n \in PlainName /\ n.type # TypeData
  BY AtWork DEF Working
<1>2. settled[n].state # "running"
  BY DEF StartedAs, WasRunning
<1>3. CASE Has(p, "auto")
  <2>1. L!StartWithData(n)
    BY <1>2, <1>3, SameNames, SameOperators DEF L!StartWithData, StartedAs, WithState, DataOf
  <2> QED
    BY <1>1, <2>1, LifecycleSteps
<1>4. CASE ~Has(p, "auto")
  <2>1. L!Start(n)
    BY <1>2, <1>4, SameNames, SameOperators DEF L!Start, StartedAs, WithState
  <2> QED
    BY <1>1, <2>1, LifecycleSteps
<1> QED
  BY <1>3, <1>4

\* The container itself is still as the command found it.
LEMMA ReadyFacts ==
  ASSUME Inv, NEW p \in Procs, ~At(p, "idle"), cli[p].inv.kind = "run", DataReady(p)
  PROVE  /\ Seen[Name(p)] = settled[Name(p)] /\ ~cont[Name(p)].running
         /\ Has(p, "auto") => Seen \in WithData(settled, DataOf(p)) /\ Exists(DataOf(p))
         /\ ~Has(p, "auto") => Seen = settled
         /\ settled[Name(p)] # Absent <=> Exists(Name(p))
<1>1. Name(p) \in PlainName /\ DataOf(p) # Name(p) /\ settled \in [PlainName -> SeenState]
  BY AtWork DEF Working, Inv, SeqInv, SettledOK
<1>2. /\ Has(p, "auto") => Seen \in WithData(settled, DataOf(p)) /\ Exists(DataOf(p))
      /\ ~Has(p, "auto") => Seen = settled
  BY DEF DataReady, Same
<1>3. Seen[Name(p)] = settled[Name(p)]
  BY <1>1, <1>2 DEF WithData
<1>4. ~cont[Name(p)].running
  BY <1>1, <1>3, SeenFacts, Daemon, PlainFacts DEF DataReady, WasRunning
<1> QED
  BY <1>1, <1>2, <1>3, <1>4, SeenFacts, Daemon

LEMMA RunExistsLands ==
  ASSUME Inv, NEW p \in Procs, Settles(p), RunExists(p)
  PROVE  Lands(p)
<1>1. ~At(p, "idle") /\ UNCHANGED daemon /\ cli[p].pc = "runExists"
  BY DEF RunExists, At
<1>2. PICK id \in Lookup(Name(p), TRUE) : Goto(p, IF id # 0 THEN "runStart" ELSE "runCreate")
  BY DEF RunExists
<1>3. Working(p) /\ (id = 0 <=> ~Exists(Name(p)))
  BY <1>1, AtWork, LooksUp DEF Working, Exists
<1>4. DataReady(p) /\ cli[p].stk = <<>> /\ cli[p].inv.kind = "run" /\ (Has(p, "auto") => cli[p].data = DataOf(p))
  BY <1>1, <1>3 DEF Working, Track, TrackRun
<1>5. CASE id # 0
  <2>1. Now(p, "runStart") /\ SameStk(p)
    BY <1>1, <1>2, <1>5, Onwards
  <2> DEFINE w == [Seen EXCEPT ![Name(p)] = WithState(Seen[Name(p)], "running")]
  <2>2. StartedAs(p, w)
    <3>1. Seen[Name(p)] = settled[Name(p)] /\ settled[Name(p)] # Absent /\ ~WasRunning(p)
      BY <1>1, <1>3, <1>4, <1>5, ReadyFacts DEF DataReady
    <3>2. Has(p, "auto") => Seen \in WithData(settled, DataOf(p))
      BY <1>1, <1>4, ReadyFacts
    <3>3. ~Has(p, "auto") => Seen = settled /\ nextId \in Fresh(settled)
      BY <1>1, <1>4, ReadyFacts, FreshVolume DEF CreatesNone
    <3> QED
      BY <3>1, <3>2, <3>3 DEF StartedAs
  <2>3. StartedAs(p, [Seen EXCEPT ![Name(p)] = WithState(Seen[Name(p)], "running")])' /\ ~cont[Name(p)].running
    BY <1>1, <1>4, <2>1, <2>2, Unchanged, ReadyFacts DEF StartedAs
  <2>4. TrackRun(p)'
    BY <1>1, <1>3, <1>4, <1>5, <2>1, <2>3, Unchanged DEF TrackRun, SameStk, Exists
  <2>5. Track(p)'
    BY <2>1, <2>4, TracksIn DEF Now, RunLabels
  <2> QED
    BY <1>1, <2>1, <2>5, StaysThere DEF CreatesTwo, CreatesNone
<1>6. CASE id = 0
  <2>1. Now(p, "runCreate") /\ SameStk(p)
    BY <1>1, <1>2, <1>6, Onwards
  <2>2. TrackRun(p)'
    BY <1>1, <1>3, <1>4, <1>6, <2>1, Unchanged DEF TrackRun, SameStk, Name, Exists, DataOf, Has
  <2>3. Track(p)'
    BY <2>1, <2>2, TracksIn DEF Now, RunLabels
  <2> QED
    BY <1>1, <2>1, <2>3, StaysThere DEF CreatesTwo, CreatesNone
<1> QED
  BY <1>5, <1>6

LEMMA RunCreateLands ==
  ASSUME Inv, NEW p \in Procs, Settles(p), RunCreate(p)
  PROVE  Lands(p)
<1> DEFINE n == Name(p)
           from == DataSource(p)
<1>1. ~At(p, "idle") /\ cli[p].pc = "runCreate"
  BY DEF RunCreate, At
<1>2. Working(p) /\ IInv /\ ContOK
  BY <1>1, AtWork, Daemon
<1>3. /\ DataReady(p) /\ cli[p].stk = <<>> /\ cli[p].inv.kind = "run" /\ ~Exists(n)
      /\ from = IF Has(p, "auto") THEN DataOf(p) ELSE NoName
  BY <1>1, <1>2 DEF Working, Track, TrackRun, DataSource
<1>4. /\ n \in PlainName /\ n \in ContainerName /\ n # DataOf(p) /\ from \in PlainName \cup {NoName}
      /\ DataOf(p) # NoName
  BY <1>2, <1>3, PlainFacts DEF Working
<1>5. CanCreate(n, from)
  BY <1>1, <1>3, <1>2, NothingLinked, ReadyFacts, PlainFacts DEF CanCreate, Existing, Working
<1>6. Create(n, from) /\ Goto(p, "runStart")
  BY <1>5, SeqAssumption DEF RunCreate, Refused, SeqAssumption
<1>7. /\ ContOK' /\ nextId' = nextId + 1 /\ cont'[n].id = nextId /\ ~cont'[n].running
      /\ Seen' = [Seen EXCEPT ![n] = IF from = NoName THEN New(nextId) ELSE NewFrom(Seen, from)]
  BY <1>2, <1>4, <1>5, <1>6, SeenCreates
<1>8. Now(p, "runStart") /\ SameStk(p) /\ settled' = settled
  BY <1>1, <1>6, Onwards, Unsettled
<1> DEFINE w == [Seen' EXCEPT ![n] = WithState(Seen'[n], "running")]
<1>9. StartedAs(p, w)
  <2>1. settled[n] = Absent /\ ~WasRunning(p)
    BY <1>1, <1>3, ReadyFacts DEF DataReady
  <2>2. Seen \in [PlainName -> SeenState]
    BY <1>2, <1>4, SeenFacts
  <2>3. nextId \in Fresh(settled)
    BY <1>1, FreshVolume DEF CreatesNone
  <2>4. CASE Has(p, "auto")
    <3>1. Seen' = [Seen EXCEPT ![n] = NewFrom(Seen, DataOf(p))]
      BY <1>3, <1>4, <1>7, <2>4
    <3>2. w = [Seen EXCEPT ![n] = WithState(NewFrom(Seen, DataOf(p)), "running")]
      BY <1>4, <2>2, <3>1, ExceptTwice
    <3>3. Seen \in WithData(settled, DataOf(p))
      BY <1>1, <1>3, <2>4, ReadyFacts
    <3> QED
      BY <2>1, <2>4, <3>2, <3>3 DEF StartedAs
  <2>5. CASE ~Has(p, "auto")
    <3>1. w = [settled EXCEPT ![n] = WithState(New(nextId), "running")]
      BY <1>1, <1>3, <1>4, <1>7, <2>2, <2>5, ReadyFacts
    <3> QED
      BY <2>1, <2>3, <2>5, <3>1 DEF StartedAs
  <2> QED
    BY <2>4, <2>5
<1>10. StartedAs(p, [Seen EXCEPT ![Name(p)] = WithState(Seen[Name(p)], "running")])'
  BY <1>8, <1>9, StartedMoves
<1>11. cont'[n].id # 0 /\ Name(p)' = n
  BY <1>2, <1>7, <1>8, SameCommand, Daemon
<1>12. TrackRun(p)'
  BY <1>1, <1>2, <1>3, <1>7, <1>8, <1>10, <1>11, SameCommand DEF TrackRun, SameStk, Now, Exists, Working, Track
<1>13. Track(p)'
  BY <1>8, <1>12, TracksIn DEF Now, RunLabels
<1> QED
  BY <1>1, <1>7, <1>8, <1>13, LandsThere DEF CreatesTwo, CreatesNone

LEMMA RunStartLands ==
  ASSUME Inv, NEW p \in Procs, Settles(p), RunStart(p)
  PROVE  Lands(p)
<1> DEFINE n == Name(p)
<1>1. ~At(p, "idle") /\ cli[p].pc = "runStart"
  BY DEF RunStart, At
<1>2. Working(p) /\ IInv /\ ContOK
  BY <1>1, AtWork, Daemon
<1>3. /\ cli[p].stk = <<>> /\ cli[p].inv.kind = "run" /\ (Has(p, "auto") => cli[p].data = DataOf(p))
      /\ Exists(n) /\ ~cont[n].running /\ StartedAs(p, [Seen EXCEPT ![n] = WithState(Seen[n], "running")])
  BY <1>1, <1>2 DEF Working, Track, TrackRun
<1>4. n \in PlainName /\ n \in ContainerName
  BY <1>2, PlainFacts DEF Working
<1>5. SetRunning(n, TRUE) /\ IF Has(p, "rm") THEN Goto(p, "runRemove") ELSE Return(p)
  BY <1>3, NothingLinked, SeqAssumption DEF RunStart, Refused, SeqAssumption, CanStart
<1>6. ContOK' /\ nextId' = nextId /\ cont'[n].running = TRUE /\ StartedAs(p, Seen')
  BY <1>2, <1>3, <1>4, <1>5, SeenRuns
<1>7. CASE Has(p, "rm")
  <2>1. Now(p, "runRemove") /\ SameStk(p) /\ settled' = settled
    BY <1>1, <1>5, <1>7, Onwards, Unsettled
  <2>2. StartedAs(p, Seen)'
    BY <1>6, <2>1, SameCommand DEF StartedAs, WithData, Fresh
  <2>3. TrackRun(p)'
    BY <1>3, <1>6, <2>1, <2>2, SameCommand DEF TrackRun, SameStk, Now, Name
  <2>4. Track(p)'
    BY <2>1, <2>3, TracksIn DEF Now, RunLabels
  <2> QED
    BY <1>1, <1>6, <2>1, <2>4, LandsThere DEF CreatesTwo, CreatesNone
<1>8. CASE ~Has(p, "rm")
  <2>1. Done(p) /\ settled' = Seen'
    BY <1>3, <1>5, <1>8, Finished DEF Settles, Done
  <2>2. L!Next
    BY <1>1, <1>3, <1>6, <2>1, StartedSteps
  <2> QED
    BY <1>1, <1>6, <2>1, <2>2, LandsIdle
<1> QED
  BY <1>7, <1>8

\* The removal is refused: the container has just been started.
LEMMA RunRemoveLands ==
  ASSUME Inv, NEW p \in Procs, Settles(p), RunRemove(p)
  PROVE  Lands(p)
<1>1. ~At(p, "idle") /\ cli[p].pc = "runRemove"
  BY DEF RunRemove, At
<1>2. cli[p].inv.kind = "run" /\ cont[Name(p)].running /\ StartedAs(p, Seen)
  BY <1>1, AtWork DEF Working, Track, TrackRun
<1>3. Fail(p) /\ UNCHANGED daemon
  BY <1>2 DEF RunRemove, Refused
<1>4. Done(p) /\ ContOK' /\ nextId' = nextId /\ settled' = Seen
  BY <1>3, Finished, SeenSame, Daemon DEF Settles, Done
<1>5. L!Next
  BY <1>1, <1>2, <1>4, StartedSteps
<1> QED
  BY <1>1, <1>4, <1>5, LandsIdle

-----------------------------------------------------------------------------
\* DockerRunData, DockerExecData and DockerExecService

LEMMA ExecDataLands ==
  ASSUME Inv, NEW p \in Procs, Settles(p), ExecData(p)
  PROVE  Lands(p)
<1>1. ~At(p, "idle") /\ UNCHANGED daemon /\ cli[p].pc = "execData"
  BY DEF ExecData, EnsureData, At
<1>2. Same /\ IsService(p) /\ Has(p, "auto") /\ cli[p].data = DataOf(p)
  BY <1>1, AtWork DEF Working, Track, TrackData
<1>3. \/ Exists(DataOf(p)) /\ Now(p, "execCreate") /\ SameStk(p) /\ Seen \in WithData(settled, DataOf(p))
      \/ ~Exists(DataOf(p)) /\ Now(p, "execDataCreate") /\ SameStk(p)
  BY <1>1, <1>2, EnsureDataLands DEF ExecData, EnsureData
<1>4. CASE Now(p, "execCreate")
  <2>1. DataMade(p)
    BY <1>2 DEF DataMade
  <2>2. TrackData(p)'
    BY <1>1, <1>2, <1>4, <2>1, Unchanged DEF TrackData
  <2>3. Track(p)'
    BY <1>4, <2>2, TracksIn DEF Now, DataLabels, ExecLabels
  <2> QED
    BY <1>1, <1>4, <2>3, StaysThere DEF CreatesTwo, CreatesNone
<1>5. CASE ~Exists(DataOf(p)) /\ Now(p, "execDataCreate")
  <2>1. TrackData(p)'
    BY <1>1, <1>2, <1>5, Unchanged DEF TrackData, Exists, DataMade
  <2>2. Track(p)'
    BY <1>5, <2>1, TracksIn DEF Now, DataLabels, ExecLabels
  <2> QED
    BY <1>1, <1>5, <2>2, StaysThere DEF CreatesTwo, CreatesNone
<1> QED
  BY <1>3, <1>4, <1>5

LEMMA ExecDataCreateLands ==
  ASSUME Inv, NEW p \in Procs, Settles(p), ExecDataCreate(p)
  PROVE  Lands(p)
<1>1. ~At(p, "idle") /\ cli[p].pc = "execDataCreate"
  BY DEF ExecDataCreate, EnsureDataCall, At
<1>2. Same /\ IsService(p) /\ Has(p, "auto") /\ cli[p].data = DataOf(p) /\ ~Exists(DataOf(p))
  BY <1>1, AtWork DEF Working, Track, TrackData
<1>3. CASE Refused(p, CanCreate(cli[p].data, NoName))
  BY <1>1, <1>2, <1>3, Finished, StaysIdle DEF Refused
<1>4. CASE CanCreate(cli[p].data, NoName) /\ Create(cli[p].data, NoName) /\ Goto(p, "execCreate")
  <2>1. /\ Now(p, "execCreate") /\ settled' = settled /\ ContOK' /\ nextId' = nextId + 1
        /\ settled[DataOf(p)] = Absent /\ Seen' \in WithData(settled, DataOf(p))
    BY <1>1, <1>2, <1>4, EnsureDataCallLands DEF CreatesNone
  <2>2. DataMade(p)'
    BY <1>2, <2>1, SameCommand DEF DataMade, WithData, Fresh
  <2>3. TrackData(p)'
    BY <2>1, <2>2 DEF TrackData, Now
  <2>4. Track(p)'
    BY <2>1, <2>3, TracksIn DEF Now, DataLabels, ExecLabels
  <2> QED
    BY <1>1, <2>1, <2>4, LandsThere DEF CreatesTwo, CreatesNone
<1> QED
  BY <1>3, <1>4 DEF ExecDataCreate, EnsureDataCall

\* The throw-away container is none of Lifecycle's.
LEMMA TempUnseen ==
  ASSUME Inv, NEW p \in Procs, cli[p].pc \in ExecLabels
  PROVE  /\ ~At(p, "idle") /\ cli[p].stk = <<>> /\ DataMade(p) /\ IInv /\ ContOK
         /\ Temp(p) \in ContainerName /\ Temp(p) \notin PlainName
         /\ TempSource(p) \in PlainName \cup {NoName}
<1>1. ~At(p, "idle") /\ IInv /\ ContOK
  BY Daemon DEF At, ExecLabels
<1>2. cli[p].stk = <<>> /\ cli[p].data \in ContainerName \cup {NoName} /\ ~IsTemp(cli[p].data)
  BY <1>1, AtWork DEF IInv, CliOK, Working, ProcessOver
<1>3. cli[p].data \in PlainName \cup {NoName}
  BY <1>2, PlainFacts
<1>4. TempSource(p) \in PlainName \cup {NoName}
  BY <1>3 DEF TempSource, DataSource
<1>5. DataMade(p)
  BY <1>1, AtWork DEF Working, Track, TrackData
<1>6. Temp(p) \in ContainerName /\ IsTemp(Temp(p))
  BY <1>1, <1>2, TempIsTemp
<1> QED
  BY <1>1, <1>2, <1>4, <1>5, <1>6, PlainFacts

LEMMA ExecMoves ==
  ASSUME Inv, NEW p \in Procs, cli[p].pc \in ExecLabels, Settles(p),
         NEW l \in {"execStart", "execWait", "execRemove"}, Now(p, l), ContOK', Seen' = Seen,
         nextId' = nextId \/ (nextId' = nextId + 1 /\ cli[p].pc = "execCreate")
  PROVE  Lands(p)
<1>1. ~At(p, "idle") /\ DataMade(p) /\ settled' = settled
  BY TempUnseen, Unsettled
<1>2. \A d : WithData(settled, d)' = WithData(settled, d)
  BY <1>1
<1>3. DataMade(p)'
  BY <1>1, <1>2, SameCommand DEF DataMade, Same
<1>4. TrackData(p)'
  BY <1>3 DEF TrackData, Now
<1>5. Track(p)'
  BY <1>4, TracksIn DEF Now, DataLabels, ExecLabels
<1> QED
  BY <1>1, <1>5, LandsThere DEF CreatesTwo, CreatesNone

\* All an exec may leave behind is the data container.
LEMMA ExecEnds ==
  ASSUME Inv, NEW p \in Procs, cli[p].pc \in ExecLabels, Settles(p), Done(p), ContOK', Seen' = Seen, nextId' = nextId
  PROVE  Lands(p)
<1>1. ~At(p, "idle") /\ DataMade(p) /\ settled' = Seen
  BY TempUnseen DEF Done, Settles
<1>2. DataOf(p) \in PlainName /\ DataOf(p).type = TypeData
  BY <1>1, AtWork DEF Working, DataOf, ToDataContainer, PlainName, ContainerName
<1>3. settled[DataOf(p)] = Absent /\ settled' \in WithData(settled, DataOf(p)) => L!Next
  BY <1>2, LifecycleSteps, SameOperators DEF L!MakeData
<1> QED
  BY <1>1, <1>3, LandsIdle DEF DataMade, Same

LEMMA ExecCreateLands ==
  ASSUME Inv, NEW p \in Procs, Settles(p), ExecCreate(p)
  PROVE  Lands(p)
<1>1. cli[p].pc = "execCreate" /\ cli[p].pc \in ExecLabels
  BY DEF ExecCreate, At, ExecLabels
<1>2. CASE /\ CanCreate(Temp(p), TempSource(p)) /\ Create(Temp(p), TempSource(p))
           /\ Become(p, [cli[p] EXCEPT !.pc = "execStart", !.made = nextId])
  BY <1>1, <1>2, TempUnseen, SeenCreates, Onwards, ExecMoves
<1>3. CASE Refused(p, CanCreate(Temp(p), TempSource(p)))
  BY <1>1, <1>3, TempUnseen, SeenSame, Finished, ExecEnds DEF Refused
<1> QED
  BY <1>2, <1>3 DEF ExecCreate

LEMMA ExecStartLands ==
  ASSUME Inv, NEW p \in Procs, Settles(p), ExecStart(p)
  PROVE  Lands(p)
<1>1. cli[p].pc = "execStart" /\ cli[p].pc \in ExecLabels
  BY DEF ExecStart, At, ExecLabels
<1>2. CASE CanStart(Temp(p)) /\ SetRunning(Temp(p), TRUE) /\ Goto(p, "execWait")
  BY <1>1, <1>2, TempUnseen, SeenRuns, Onwards, ExecMoves DEF CanStart
<1>3. CASE Become(p, [cli[p] EXCEPT !.pc = "execRemove", !.failed = TRUE]) /\ UNCHANGED daemon
  BY <1>1, <1>3, TempUnseen, SeenSame, Onwards, ExecMoves
<1> QED
  BY <1>2, <1>3 DEF ExecStart

LEMMA ExecWaitLands ==
  ASSUME Inv, NEW p \in Procs, Settles(p), ExecWait(p)
  PROVE  Lands(p)
<1>1. cli[p].pc = "execWait" /\ cli[p].pc \in ExecLabels /\ UNCHANGED daemon
  BY DEF ExecWait, At, ExecLabels
<1>2. PICK bad \in BOOLEAN : Become(p, [cli[p] EXCEPT !.pc = "execRemove", !.failed = bad])
  BY DEF ExecWait
<1> QED
  BY <1>1, <1>2, TempUnseen, SeenSame, Onwards, ExecMoves

LEMMA ExecRemoveLands ==
  ASSUME Inv, NEW p \in Procs, Settles(p), ExecRemove(p)
  PROVE  Lands(p)
<1>1. cli[p].pc = "execRemove" /\ cli[p].pc \in ExecLabels
  BY DEF ExecRemove, At, ExecLabels
<1>2. Done(p)
  BY <1>1, TempUnseen, Finished DEF ExecRemove
<1>3. UNCHANGED daemon \/ Remove(Temp(p), ~IsService(p))
  BY DEF ExecRemove
<1> QED
  BY <1>1, <1>2, <1>3, TempUnseen, SeenSame, SeenRemoves, ExecEnds

-----------------------------------------------------------------------------
\* DockerStop

\* The id a process holds is that of the container it looked up.
LEMMA TheOne ==
  ASSUME Inv, NEW p \in Procs, NEW n \in ContainerName, Found(p, n)
  PROVE  /\ Identified(n, cli[p].id)
         /\ \A m \in ContainerName : Identified(m, cli[p].id) => m = n
         /\ ~Gone(cli[p].id)
BY Daemon DEF Found, Identified, Existing, Gone

LEMMA Back ==
  ASSUME Inv, NEW p \in Procs, ~At(p, "idle"), NEW b, NEW i, NEW w,
         cli[p].stk = <<[back |-> b, id |-> i, was |-> w]>>, Return(p)
  PROVE  Now(p, b) /\ cli'[p].id = i /\ cli'[p].was = w /\ cli'[p].stk = <<>> /\ SameSrc(p)
<1> DEFINE f == [back |-> b, id |-> i, was |-> w]
           r == [cli[p] EXCEPT !.pc = f.back, !.id = f.id, !.was = f.was, !.stk = Tail(@)]
<1>1. Returned(p) = r
  <2>1. cli[p].stk # <<>> /\ Head(cli[p].stk) = f
    OBVIOUS
  <2> QED
    BY <2>1 DEF Returned
<1>2. cli[p] \in ProcessOver(SafeIds) /\ Tail(cli[p].stk) = <<>>
  BY AtWork DEF Working
<1>3. /\ r.pc = b /\ r.id = i /\ r.was = w /\ r.stk = <<>> /\ r.inv = cli[p].inv /\ r.data = cli[p].data
      /\ r.src = cli[p].src
  BY <1>2 DEF ProcessOver
<1> HIDE DEF r
<1>4. cli'[p] = r /\ begun' = begun /\ \A q \in Procs \ {p} : cli'[q] = cli[q]
  BY <1>1, Turned DEF Return
<1> QED
  BY <1>3, <1>4 DEF Now, SameSrc

LEMMA StopLands ==
  ASSUME Inv, NEW p \in Procs, Settles(p), Stop(p)
  PROVE  Lands(p)
<1>1. ~At(p, "idle") /\ UNCHANGED daemon /\ cli[p].pc = "stop"
  BY DEF Stop, At
<1>2. PICK id \in Lookup(Name(p), TRUE) :
        IF id # 0 THEN Become(p, [cli[p] EXCEPT !.pc = "stopCall", !.id = id]) ELSE Return(p)
  BY DEF Stop
<1>3. /\ Name(p) \in PlainName /\ id = IF Exists(Name(p)) THEN cont[Name(p)].id ELSE 0
      /\ id = 0 => ~cont[Name(p)].running
  BY <1>1, AtWork, LooksUp, Daemon, PlainFacts DEF Working, Exists
<1>4. /\ Same
      /\ \/ cli[p].stk = <<>> /\ cli[p].inv.kind = "stop"
         \/ cli[p].stk = StopBack(p) /\ cli[p].inv.kind = "rebuild" /\ cont[Name(p)].running
  BY <1>1, AtWork DEF Working, Track, TrackStop
<1>5. CASE id # 0
  <2>1. Now(p, "stopCall") /\ SameStk(p) /\ cli'[p].id = id
    BY <1>1, <1>2, <1>5, Onwards
  <2>2. Name(p)' = Name(p) /\ cont' = cont /\ Same' /\ Exists(Name(p))'
    BY <1>1, <1>3, <1>4, <1>5, <2>1, Unchanged DEF Exists
  <2>3. TrackStop(p)'
    BY <1>3, <1>4, <1>5, <2>1, <2>2 DEF TrackStop, StopBack, Found, Now, SameStk
  <2>4. Track(p)'
    BY <2>1, <2>3, TracksIn DEF Now, StopLabels
  <2> QED
    BY <1>1, <2>1, <2>4, StaysThere DEF CreatesTwo, CreatesNone
<1>6. CASE id = 0
  BY <1>1, <1>2, <1>3, <1>4, <1>6, Finished, StaysIdle
<1> QED
  BY <1>5, <1>6

LEMMA StopCallLands ==
  ASSUME Inv, NEW p \in Procs, Settles(p), StopCall(p)
  PROVE  Lands(p)
<1> DEFINE n == Name(p)
           can(m) == Identified(m, cli[p].id) /\ cont[m].running
<1>1. ~At(p, "idle") /\ cli[p].pc = "stopCall"
  BY DEF StopCall, At
<1>2. n \in PlainName /\ n \in ContainerName /\ IInv /\ ContOK /\ Working(p)
  BY <1>1, AtWork, PlainFacts, Daemon DEF Working
<1>3. /\ Same /\ Found(p, n) /\ Exists(n)
      /\ \/ cli[p].stk = <<>> /\ cli[p].inv.kind = "stop"
         \/ cli[p].stk = StopBack(p) /\ cli[p].inv.kind = "rebuild" /\ cont[n].running
  BY <1>1, <1>2 DEF Working, Track, TrackStop, Found
<1>4. CASE UNCHANGED daemon /\ Fail(p)
  BY <1>1, <1>3, <1>4, Finished, StaysIdle
<1>5. CASE can(n) /\ SetRunning(n, FALSE) /\ Return(p)
  <2>1. /\ ContOK' /\ nextId' = nextId /\ Seen' = [Seen EXCEPT ![n] = WithState(Seen[n], "stopped")]
        /\ cont'[n].id = cont[n].id
    BY <1>2, <1>3, <1>5, SeenRuns
  <2>2. settled[n].state = "running" /\ settled[n] # Absent
    BY <1>2, <1>3, <1>5, SeenFacts DEF Same, Absent
  <2>3. CASE cli[p].stk = <<>> /\ cli[p].inv.kind = "stop"
    <3>1. Done(p) /\ settled' = [settled EXCEPT ![n] = WithState(settled[n], "stopped")]
      BY <1>3, <1>5, <2>1, <2>3, Finished DEF Settles, Done, Same
    <3>2. L!Stop(n)
      BY <2>2, <3>1 DEF L!Stop, WithState
    <3>3. L!Next
      BY <1>2, <2>3, <3>2, LifecycleSteps DEF Working
    <3> QED
      BY <1>1, <2>1, <3>1, <3>3, LandsIdle
  <2>4. CASE cli[p].stk = StopBack(p) /\ cli[p].inv.kind = "rebuild" /\ cont[n].running
    <3>1. Now(p, "rebuildRemove") /\ cli'[p].id = cont[n].id /\ cli'[p].was = TRUE /\ cli'[p].stk = <<>>
      BY <1>1, <1>5, <2>4, Back DEF StopBack
    <3>2. settled' = settled /\ Name(p)' = n /\ WasRunning(p) /\ WasRunning(p)'
      BY <2>2, <3>1, Unsettled, SameCommand DEF WasRunning
    <3>3. TrackRebuild(p)'
      BY <1>3, <2>1, <2>2, <2>4, <3>1, <3>2 DEF TrackRebuild, Now, Found, Exists, Same
    <3>4. Track(p)'
      BY <3>1, <3>3, TracksIn DEF Now, RebuildLabels
    <3> QED
      BY <1>1, <2>1, <3>1, <3>4, LandsThere DEF CreatesTwo, CreatesNone
  <2> QED
    BY <1>3, <2>3, <2>4
<1>6. \/ Fail(p) /\ UNCHANGED daemon
      \/ \E m \in ContainerName : can(m) /\ SetRunning(m, FALSE) /\ Return(p)
  BY DEF StopCall, Refused
<1> QED
  BY <1>2, <1>3, <1>4, <1>5, <1>6, TheOne

-----------------------------------------------------------------------------
\* DockerRemove

\* A removal takes the container that was looked up, when it is stopped.
LEMMA RemovesFound ==
  ASSUME Inv, NEW p \in Procs, NEW n \in PlainName, Found(p, n), NEW vol, NEW r, RemoveFound(p, vol, r)
  PROVE  \/ ~cont[n].running /\ Become(p, r) /\ ContOK' /\ nextId' = nextId /\ Seen' = [Seen EXCEPT ![n] = Absent]
         \/ cont[n].running /\ Fail(p) /\ UNCHANGED daemon
<1>1. n \in ContainerName /\ IInv /\ ContOK
  BY PlainFacts, Daemon
<1>2. \A m \in ContainerName : CanRemove(m, cli[p].id) <=> m = n /\ ~cont[n].running
  BY <1>1, TheOne DEF CanRemove
<1>3. CASE ~cont[n].running
  BY <1>1, <1>2, <1>3, SeenRemoves, SeqAssumption DEF RemoveFound, Refused, SeqAssumption
<1>4. CASE cont[n].running
  BY <1>2, <1>4 DEF RemoveFound, Refused
<1> QED
  BY <1>3, <1>4

LEMMA RemoveServiceLands ==
  ASSUME Inv, NEW p \in Procs, Settles(p), RemoveService(p)
  PROVE  Lands(p)
<1>1. ~At(p, "idle") /\ UNCHANGED daemon /\ cli[p].pc = "remove"
  BY DEF RemoveService, At
<1>2. PICK id \in Lookup(Name(p), TRUE) :
        IF id # 0 THEN Become(p, [cli[p] EXCEPT !.pc = "removeCall", !.id = id]) ELSE Return(p)
  BY DEF RemoveService
<1>3. Name(p) \in PlainName /\ id = IF Exists(Name(p)) THEN cont[Name(p)].id ELSE 0
  BY <1>1, AtWork, LooksUp DEF Working
<1>4. /\ Same /\ cli[p].stk = <<>> /\ cli[p].inv.kind = "remove" /\ (Has(p, "data") => cli[p].data = DataOf(p))
  BY <1>1, AtWork DEF Working, Track, TrackRemove
<1>5. CASE id # 0
  <2>1. Now(p, "removeCall") /\ SameStk(p) /\ cli'[p].id = id
    BY <1>1, <1>2, <1>5, Onwards
  <2>2. Found(p, Name(p))'
    BY <1>1, <1>3, <1>5, <2>1, Unchanged DEF Found, Exists
  <2>3. TrackRemove(p)'
    BY <1>1, <1>4, <2>1, <2>2, Unchanged DEF TrackRemove, SameStk
  <2>4. Track(p)'
    BY <2>1, <2>3, TracksIn DEF Now, RemoveLabels
  <2> QED
    BY <1>1, <2>1, <2>4, StaysThere DEF CreatesTwo, CreatesNone
<1>6. CASE id = 0
  BY <1>1, <1>2, <1>4, <1>6, Finished, StaysIdle
<1> QED
  BY <1>5, <1>6

\* What is left when a removal ends, with or without the data.
LEMMA RemovedSteps ==
  ASSUME Inv, NEW p \in Procs, ~At(p, "idle"), cli[p].inv.kind = "remove", settled[Name(p)].state = "stopped",
         \/ settled' = [settled EXCEPT ![Name(p)] = Absent]
         \/ settled' = [settled EXCEPT ![Name(p)] = Absent, ![DataOf(p)] = Absent]
  PROVE  L!Next
<1>1. Name(p) \in PlainName /\ Name(p).type # TypeData
  BY AtWork DEF Working
<1>2. L!Remove(Name(p))
  BY SameNames DEF L!Remove, DataOf
<1> QED
  BY <1>1, <1>2, LifecycleSteps

LEMMA RemoveCallLands ==
  ASSUME Inv, NEW p \in Procs, Settles(p), RemoveCall(p)
  PROVE  Lands(p)
<1> DEFINE n == Name(p)
           r == IF Has(p, "data") THEN Moved(p, "removeData") ELSE Returned(p)
<1>1. ~At(p, "idle") /\ cli[p].pc = "removeCall"
  BY DEF RemoveCall, At
<1>2. /\ n \in PlainName /\ Same /\ cli[p].stk = <<>> /\ cli[p].inv.kind = "remove"
      /\ (Has(p, "data") => cli[p].data = DataOf(p)) /\ Found(p, n)
  BY <1>1, AtWork DEF Working, Track, TrackRemove
<1>3. \/ ~cont[n].running /\ Become(p, r) /\ ContOK' /\ nextId' = nextId /\ Seen' = [Seen EXCEPT ![n] = Absent]
      \/ cont[n].running /\ Fail(p) /\ UNCHANGED daemon
  BY <1>2, RemovesFound DEF RemoveCall
<1>4. CASE cont[n].running /\ Fail(p) /\ UNCHANGED daemon
  BY <1>1, <1>2, <1>4, Finished, StaysIdle
<1>5. CASE ~cont[n].running /\ Become(p, r) /\ ContOK' /\ nextId' = nextId /\ Seen' = [Seen EXCEPT ![n] = Absent]
  <2>1. settled[n].state = "stopped"
    BY <1>2, <1>5, SeenFacts, Daemon DEF Same, Found
  <2>2. CASE Has(p, "data")
    <3>1. Now(p, "removeData") /\ SameStk(p) /\ settled' = settled
      BY <1>1, <1>5, <2>2, Onwards, Unsettled DEF Goto
    <3>2. TrackRemove(p)'
      BY <1>2, <1>5, <2>1, <2>2, <3>1, SameCommand DEF TrackRemove, SameStk, Now, Lost, Same
    <3>3. Track(p)'
      BY <3>1, <3>2, TracksIn DEF Now, RemoveLabels
    <3> QED
      BY <1>1, <1>5, <3>1, <3>3, LandsThere DEF CreatesTwo, CreatesNone
  <2>3. CASE ~Has(p, "data")
    <3>1. Done(p) /\ settled' = [settled EXCEPT ![n] = Absent]
      BY <1>2, <1>5, <2>3, Finished DEF Return, Settles, Done, Same
    <3>2. L!Next
      BY <1>1, <1>2, <2>1, <3>1, RemovedSteps
    <3> QED
      BY <1>1, <1>5, <3>1, <3>2, LandsIdle
  <2> QED
    BY <2>2, <2>3
<1> QED
  BY <1>3, <1>4, <1>5

LEMMA RemoveDataLands ==
  ASSUME Inv, NEW p \in Procs, Settles(p), RemoveData(p)
  PROVE  Lands(p)
<1>1. ~At(p, "idle") /\ UNCHANGED daemon /\ cli[p].pc = "removeData"
  BY DEF RemoveData, At
<1>2. /\ DataOf(p) \in PlainName /\ cli[p].stk = <<>> /\ cli[p].inv.kind = "remove" /\ Has(p, "data")
      /\ cli[p].data = DataOf(p) /\ settled[Name(p)].state = "stopped" /\ Lost(Name(p))
  BY <1>1, AtWork DEF Working, Track, TrackRemove
<1>3. PICK id \in Lookup(DataOf(p), TRUE) :
        IF id # 0 THEN Become(p, [cli[p] EXCEPT !.pc = "removeDataCall", !.id = id]) ELSE Return(p)
  BY <1>2 DEF RemoveData
<1>4. id = IF Exists(DataOf(p)) THEN cont[DataOf(p)].id ELSE 0
  BY <1>2, <1>3, LooksUp
<1>5. CASE id # 0
  <2>1. Now(p, "removeDataCall") /\ SameStk(p) /\ cli'[p].id = id
    BY <1>1, <1>3, <1>5, Onwards
  <2>2. Found(p, DataOf(p))' /\ Lost(Name(p))'
    BY <1>1, <1>2, <1>4, <1>5, <2>1, Unchanged DEF Found, Exists, Lost
  <2>3. TrackRemove(p)'
    BY <1>1, <1>2, <2>1, <2>2, Unchanged DEF TrackRemove, SameStk
  <2>4. Track(p)'
    BY <2>1, <2>3, TracksIn DEF Now, RemoveLabels
  <2> QED
    BY <1>1, <2>1, <2>4, StaysThere DEF CreatesTwo, CreatesNone
<1>6. CASE id = 0
  <2>1. Done(p) /\ ContOK' /\ nextId' = nextId /\ settled' = [settled EXCEPT ![Name(p)] = Absent]
    BY <1>1, <1>2, <1>3, <1>6, Finished, SeenSame, Daemon DEF Settles, Done, Lost
  <2>2. L!Next
    BY <1>1, <1>2, <2>1, RemovedSteps
  <2> QED
    BY <1>1, <2>1, <2>2, LandsIdle
<1> QED
  BY <1>5, <1>6

LEMMA RemoveDataCallLands ==
  ASSUME Inv, NEW p \in Procs, Settles(p), RemoveDataCall(p)
  PROVE  Lands(p)
<1> DEFINE d == DataOf(p)
<1>1. ~At(p, "idle") /\ cli[p].pc = "removeDataCall"
  BY DEF RemoveDataCall, At
<1>2. /\ d \in PlainName /\ cli[p].stk = <<>> /\ cli[p].inv.kind = "remove" /\ Found(p, d)
      /\ settled[Name(p)].state = "stopped" /\ Lost(Name(p))
  BY <1>1, AtWork DEF Working, Track, TrackRemove
<1>3. \/ Become(p, Returned(p)) /\ ContOK' /\ nextId' = nextId /\ Seen' = [Seen EXCEPT ![d] = Absent]
      \/ Fail(p) /\ UNCHANGED daemon
  BY <1>2, RemovesFound DEF RemoveDataCall
<1>4. Done(p) /\ settled' = Seen'
  BY <1>2, <1>3, Finished DEF Return, Settles, Done
<1>5. ContOK' /\ nextId' = nextId
  BY <1>3, SeenSame, Daemon
<1>6. \/ settled' = [settled EXCEPT ![Name(p)] = Absent]
      \/ settled' = [settled EXCEPT ![Name(p)] = Absent, ![d] = Absent]
  BY <1>2, <1>3, <1>4, SeenSame DEF Lost
<1>7. L!Next
  BY <1>1, <1>2, <1>6, RemovedSteps
<1> QED
  BY <1>1, <1>4, <1>5, <1>7, LandsIdle

-----------------------------------------------------------------------------
\* DockerRebuild

LEMMA SettledFacts ==
  ASSUME Inv, NEW n \in PlainName
  PROVE  /\ settled \in [PlainName -> SeenState]
         /\ settled[n] # Absent => settled[n].state \in {"stopped", "running"}
         /\ \A st : settled[n].state = st => WithState(settled[n], st) = settled[n]
         /\ Same => [settled EXCEPT ![n] = settled[n]] = Seen
         /\ \A v : WithState(New(v), "stopped") = New(v)
<1>1. settled \in [PlainName -> SeenState] /\ (settled[n].state = "none" => settled[n] = Absent)
  BY DEF Inv, SeqInv, SettledOK
<1>2. settled[n] \in SeenState
  BY <1>1
<1>3. settled[n] # Absent => settled[n].state \in {"stopped", "running"}
  BY <1>1, <1>2 DEF SeenState
<1>4. \A st : settled[n].state = st => WithState(settled[n], st) = settled[n]
  BY <1>2 DEF SeenState, WithState
<1>5. [settled EXCEPT ![n] = settled[n]] = settled
  BY <1>1
<1>6. \A v : WithState(New(v), "stopped") = New(v)
  BY DEF WithState, New
<1> QED
  BY <1>1, <1>3, <1>4, <1>5, <1>6 DEF Same

LEMMA LostFacts ==
  ASSUME Inv, NEW n \in PlainName, Lost(n)
  PROVE  /\ ~Exists(n) /\ CanCreate(n, NoName)
         /\ \A x : [Seen EXCEPT ![n] = x] = [settled EXCEPT ![n] = x]
<1>1. settled \in [PlainName -> SeenState]
  BY SettledFacts
<1>2. Seen[n] = Absent /\ \A x : [Seen EXCEPT ![n] = x] = [settled EXCEPT ![n] = x]
  BY <1>1, ExceptTwice DEF Lost
<1>3. ~Exists(n)
  BY <1>2, SeenFacts, Daemon
<1> QED
  BY <1>2, <1>3, NothingLinked DEF CanCreate

LEMMA RebuildLands ==
  ASSUME Inv, NEW p \in Procs, Settles(p), Rebuild(p)
  PROVE  Lands(p)
<1>1. ~At(p, "idle") /\ UNCHANGED daemon /\ cli[p].pc = "rebuild"
  BY DEF Rebuild, At
<1>2. PICK id \in Lookup(Name(p), TRUE) :
        IF id # 0 THEN Become(p, [cli[p] EXCEPT !.pc = "rebuildRunning", !.id = id]) ELSE Return(p)
  BY DEF Rebuild
<1>3. Name(p) \in PlainName /\ id = IF Exists(Name(p)) THEN cont[Name(p)].id ELSE 0
  BY <1>1, AtWork, LooksUp DEF Working
<1>4. Same /\ cli[p].stk = <<>> /\ cli[p].inv.kind = "rebuild"
  BY <1>1, AtWork DEF Working, Track, TrackRebuild
<1>5. CASE id # 0
  <2>1. Now(p, "rebuildRunning") /\ SameStk(p) /\ cli'[p].id = id
    BY <1>1, <1>2, <1>5, Onwards
  <2>2. Found(p, Name(p))'
    BY <1>1, <1>3, <1>5, <2>1, Unchanged DEF Found, Exists
  <2>3. settled[Name(p)] # Absent
    BY <1>3, <1>4, <1>5, SeenFacts, Daemon DEF Same
  <2>4. TrackRebuild(p)'
    BY <1>1, <1>4, <2>1, <2>2, <2>3, Unchanged DEF TrackRebuild, SameStk
  <2>5. Track(p)'
    BY <2>1, <2>4, TracksIn DEF Now, RebuildLabels
  <2> QED
    BY <1>1, <2>1, <2>5, StaysThere DEF CreatesTwo, CreatesNone
<1>6. CASE id = 0
  BY <1>1, <1>2, <1>4, <1>6, Finished, StaysIdle
<1> QED
  BY <1>5, <1>6

LEMMA Calls ==
  ASSUME Inv, NEW p \in Procs, ~At(p, "idle"), cli[p].stk = <<>>, NEW l, NEW b, NEW w, Become(p, Called(p, l, b, w))
  PROVE  Now(p, l) /\ SameId(p) /\ SameWas(p) /\ cli'[p].stk = <<[back |-> b, id |-> cli[p].id, was |-> w]>>
<1> DEFINE r == Called(p, l, b, w)
<1>1. cli[p] \in ProcessOver(SafeIds)
  BY AtWork DEF Working
<1>2. r.pc = l /\ r.inv = cli[p].inv /\ r.data = cli[p].data /\ r.id = cli[p].id /\ r.was = cli[p].was
  BY <1>1 DEF ProcessOver, Called
<1>3. r.stk = <<[back |-> b, id |-> cli[p].id, was |-> w]>> \o cli[p].stk
  BY <1>1 DEF ProcessOver, Called
<1>4. r.stk = <<[back |-> b, id |-> cli[p].id, was |-> w]>>
  BY <1>3
<1>5. cli'[p] = r /\ begun' = begun /\ \A q \in Procs \ {p} : cli'[q] = cli[q]
  BY Turned
<1> HIDE DEF r
<1> QED
  BY <1>2, <1>4, <1>5 DEF Now, SameId, SameWas

LEMMA RebuildRunningLands ==
  ASSUME Inv, NEW p \in Procs, Settles(p), RebuildRunning(p)
  PROVE  Lands(p)
<1> DEFINE n == Name(p)
<1>1. ~At(p, "idle") /\ UNCHANGED daemon /\ cli[p].pc = "rebuildRunning"
  BY DEF RebuildRunning, At
<1>2. PICK id \in Lookup(n, FALSE) :
        IF id # 0 THEN Become(p, Called(p, "stop", "rebuildRemove", TRUE))
        ELSE Become(p, [cli[p] EXCEPT !.pc = "rebuildRemove", !.was = FALSE])
  BY DEF RebuildRunning
<1>3. n \in PlainName /\ id = IF Exists(n) /\ cont[n].running THEN cont[n].id ELSE 0
  BY <1>1, AtWork, LooksUp DEF Working
<1>4. Same /\ cli[p].stk = <<>> /\ cli[p].inv.kind = "rebuild" /\ Found(p, n) /\ Exists(n) /\ settled[n] # Absent
  BY <1>1, AtWork DEF Working, Track, TrackRebuild, Found
<1>5. CASE id # 0
  <2>1. Now(p, "stop") /\ cli'[p].stk = <<[back |-> "rebuildRemove", id |-> cli[p].id, was |-> TRUE]>>
    BY <1>1, <1>2, <1>4, <1>5, Calls
  <2>2. cont[n].running /\ cli[p].id = cont[n].id
    BY <1>3, <1>4, <1>5 DEF Found
  <2>3. Name(p)' = n /\ cont' = cont /\ Same' /\ cli'[p].inv = cli[p].inv /\ cli'[p].pc = "stop"
    BY <1>1, <1>4, <2>1, Unchanged
  <2>4. cli'[p].stk = StopBack(p)' /\ cont'[Name(p)'].running
    BY <2>1, <2>2, <2>3 DEF StopBack
  <2>5. TrackStop(p)'
    BY <1>4, <2>3, <2>4 DEF TrackStop
  <2>6. Track(p)'
    BY <2>3, <2>5, TracksIn DEF StopLabels
  <2> QED
    BY <1>1, <2>1, <2>6, StaysThere DEF CreatesTwo, CreatesNone
<1>6. CASE id = 0
  <2>1. Now(p, "rebuildRemove") /\ SameStk(p) /\ SameId(p) /\ cli'[p].was = FALSE
    BY <1>1, <1>2, <1>6, Onwards
  <2>2. settled[n].state = "stopped" /\ ~WasRunning(p)
    BY <1>3, <1>4, <1>6, SeenFacts, Daemon DEF Same, WasRunning, Exists
  <2>3. Seen = [settled EXCEPT ![n] = WithState(settled[n], "stopped")]
    BY <1>3, <1>4, <2>2, SettledFacts
  <2>4. Found(p, Name(p))' /\ Seen' = [settled' EXCEPT ![Name(p)'] = WithState(settled'[Name(p)'], "stopped")]
    BY <1>1, <1>4, <2>1, <2>3, Unchanged DEF Found, Exists, SameId
  <2>5. /\ cli'[p].pc = "rebuildRemove" /\ cli'[p].stk = <<>> /\ cli'[p].inv.kind = "rebuild"
        /\ settled'[Name(p)'] # Absent /\ cli'[p].was = WasRunning(p)'
    BY <1>1, <1>4, <2>1, <2>2, Unchanged DEF SameStk, WasRunning
  <2>6. TrackRebuild(p)'
    BY <2>4, <2>5 DEF TrackRebuild
  <2>7. Track(p)'
    BY <2>1, <2>6, TracksIn DEF Now, RebuildLabels
  <2> QED
    BY <1>1, <2>1, <2>7, StaysThere DEF CreatesTwo, CreatesNone
<1> QED
  BY <1>5, <1>6

LEMMA RebuildRemoveLands ==
  ASSUME Inv, NEW p \in Procs, Settles(p), RebuildRemove(p)
  PROVE  Lands(p)
<1> DEFINE n == Name(p)
           r == IF Has(p, "pull") THEN Called(p, "pull", "rebuildCreate", cli[p].was) ELSE Moved(p, "rebuildCreate")
<1>1. ~At(p, "idle") /\ cli[p].pc = "rebuildRemove"
  BY DEF RebuildRemove, At
<1>2. /\ n \in PlainName /\ cli[p].stk = <<>> /\ cli[p].inv.kind = "rebuild" /\ Found(p, n) /\ settled[n] # Absent
      /\ Seen = [settled EXCEPT ![n] = WithState(settled[n], "stopped")] /\ cli[p].was = WasRunning(p)
  BY <1>1, AtWork DEF Working, Track, TrackRebuild
<1>3. Seen[n].state = "stopped" /\ [Seen EXCEPT ![n] = Absent] = [settled EXCEPT ![n] = Absent]
  <2>1. settled \in [PlainName -> SeenState] /\ settled[n] \in SeenState
    BY <1>2, SettledFacts
  <2>2. WithState(settled[n], "stopped").state = "stopped"
    BY <2>1 DEF WithState, SeenState
  <2> QED
    BY <1>2, <2>1, <2>2, ExceptTwice
<1>4. ~cont[n].running
  BY <1>2, <1>3, SeenFacts, Daemon, PlainFacts
<1>5. Become(p, r) /\ ContOK' /\ nextId' = nextId /\ Seen' = [settled EXCEPT ![n] = Absent]
  BY <1>2, <1>3, <1>4, RemovesFound DEF RebuildRemove
<1>6. CASE Has(p, "pull")
  <2>1. Now(p, "pull") /\ cli'[p].stk = <<[back |-> "rebuildCreate", id |-> cli[p].id, was |-> cli[p].was]>>
    BY <1>1, <1>2, <1>5, <1>6, Calls
  <2>2. settled' = settled /\ Name(p)' = n /\ (WasRunning(p)' <=> WasRunning(p)) /\ Lost(n)'
    BY <1>5, <2>1, Unsettled, SameCommand DEF Lost
  <2>3. cli'[p].stk # <<>> /\ Head(cli'[p].stk).id = cli[p].id
    BY <2>1
  <2>4. TrackRebuild(p)'
    BY <1>2, <1>5, <2>1, <2>2, <2>3 DEF TrackRebuild, Now, WasRunning, Lost
  <2>5. Track(p)'
    BY <2>1, <2>4, TracksIn DEF Now, RebuildLabels
  <2> QED
    BY <1>1, <1>5, <2>1, <2>5, LandsThere DEF CreatesTwo, CreatesNone
<1>7. CASE ~Has(p, "pull")
  <2>1. Now(p, "rebuildCreate") /\ SameStk(p) /\ SameWas(p) /\ settled' = settled
    BY <1>1, <1>5, <1>7, Onwards, Unsettled DEF Goto
  <2>2. TrackRebuild(p)'
    BY <1>2, <1>5, <2>1, SameCommand DEF TrackRebuild, Now, Lost, SameStk, SameWas, WasRunning
  <2>3. Track(p)'
    BY <2>1, <2>2, TracksIn DEF Now, RebuildLabels
  <2> QED
    BY <1>1, <1>5, <2>1, <2>3, LandsThere DEF CreatesTwo, CreatesNone
<1> QED
  BY <1>6, <1>7

\* The new container, on a volume of its own.
LEMMA RecreatesHere ==
  ASSUME Inv, NEW p \in Procs, Settles(p), ~At(p, "idle"), cli[p].pc \notin CreatesNone, Lost(Name(p)),
         NEW after,
         \/ CanCreate(Name(p), NoName) /\ Create(Name(p), NoName) /\ after
         \/ Refused(p, CanCreate(Name(p), NoName))
  PROVE  /\ after /\ ContOK' /\ nextId' = nextId + 1 /\ cont'[Name(p)].id # 0 /\ ~cont'[Name(p)].running
         /\ nextId \in Fresh(settled) /\ Seen' = [settled EXCEPT ![Name(p)] = New(nextId)]
<1>1. Name(p) \in PlainName /\ Name(p) \in ContainerName /\ IInv /\ ContOK /\ nextId \in Nat \ {0}
  BY AtWork, Daemon, PlainFacts DEF Working
<1>2. CanCreate(Name(p), NoName) /\ \A x : [Seen EXCEPT ![Name(p)] = x] = [settled EXCEPT ![Name(p)] = x]
  BY <1>1, LostFacts
<1>3. Create(Name(p), NoName) /\ after
  BY <1>2, SeqAssumption DEF Refused, SeqAssumption
<1>4. /\ ContOK' /\ nextId' = nextId + 1 /\ cont'[Name(p)].id = nextId /\ ~cont'[Name(p)].running
      /\ Seen' = [Seen EXCEPT ![Name(p)] = New(nextId)]
  BY <1>1, <1>2, <1>3, SeenCreates
<1> QED
  BY <1>1, <1>2, <1>3, <1>4, FreshVolume

LEMMA RebuildCreateLands ==
  ASSUME Inv, NEW p \in Procs, Settles(p), RebuildCreate(p)
  PROVE  Lands(p)
<1> DEFINE n == Name(p)
<1>1. ~At(p, "idle") /\ cli[p].pc = "rebuildCreate" /\ cli[p].pc \notin CreatesNone
  BY DEF RebuildCreate, At, CreatesNone
<1>2. /\ n \in PlainName /\ n.type # TypeData /\ cli[p].stk = <<>> /\ cli[p].inv.kind = "rebuild"
      /\ settled[n] # Absent /\ Lost(n) /\ cli[p].was = WasRunning(p)
  BY <1>1, AtWork DEF Working, Track, TrackRebuild
<1>3. /\ IF cli[p].was THEN Goto(p, "rebuildStart") ELSE Return(p)
      /\ ContOK' /\ nextId' = nextId + 1 /\ cont'[n].id # 0 /\ ~cont'[n].running
      /\ nextId \in Fresh(settled) /\ Seen' = [settled EXCEPT ![n] = New(nextId)]
  BY <1>1, <1>2, RecreatesHere DEF RebuildCreate
<1>4. CASE cli[p].was
  <2>1. Now(p, "rebuildStart") /\ SameStk(p) /\ SameWas(p) /\ settled' = settled
    BY <1>1, <1>3, <1>4, Onwards, Unsettled
  <2>2. /\ cli'[p].pc = "rebuildStart" /\ cli'[p].stk = <<>> /\ cli'[p].inv.kind = "rebuild" /\ Name(p)' = n
        /\ cli'[p].was = WasRunning(p)' /\ WasRunning(p)'
    BY <1>2, <1>4, <2>1, SameCommand DEF Now, SameStk, SameWas, WasRunning
  <2>3. Exists(Name(p))' /\ \E v \in Fresh(settled) : Seen' = [settled' EXCEPT ![Name(p)'] = New(v)]
    BY <1>3, <2>1, <2>2 DEF Exists
  <2>4. TrackRebuild(p)'
    BY <1>2, <1>3, <2>1, <2>2, <2>3 DEF TrackRebuild, Fresh
  <2>5. Track(p)'
    BY <2>2, <2>4, TracksIn DEF RebuildLabels
  <2> QED
    BY <1>1, <1>3, <2>1, <2>5, LandsThere DEF CreatesTwo, CreatesNone
<1>5. CASE ~cli[p].was
  <2>1. Done(p) /\ settled' = [settled EXCEPT ![n] = New(nextId)]
    BY <1>2, <1>3, <1>5, Finished DEF Settles, Done
  <2>2. settled[n].state = "stopped" /\ WithState(New(nextId), settled[n].state) = New(nextId)
    BY <1>2, <1>5, SettledFacts DEF WasRunning
  <2>3. L!Update(n)
    BY <1>2, <1>3, <2>1, <2>2, SameNames, SameOperators DEF L!Update, WithState
  <2>4. L!Next
    BY <1>2, <2>3, LifecycleSteps
  <2> QED
    BY <1>1, <1>3, <2>1, <2>4, LandsIdle
<1> QED
  BY <1>4, <1>5

LEMMA RebuildStartLands ==
  ASSUME Inv, NEW p \in Procs, Settles(p), RebuildStart(p)
  PROVE  Lands(p)
<1> DEFINE n == Name(p)
<1>1. ~At(p, "idle") /\ cli[p].pc = "rebuildStart"
  BY DEF RebuildStart, At
<1>2. /\ n \in PlainName /\ n \in ContainerName /\ n.type # TypeData /\ cli[p].stk = <<>> /\ settled[n] # Absent
      /\ WasRunning(p) /\ Exists(n) /\ ~cont[n].running
  BY <1>1, AtWork, PlainFacts DEF Working, Track, TrackRebuild
<1>3. PICK v \in Fresh(settled) : Seen = [settled EXCEPT ![n] = New(v)]
  BY <1>1, AtWork DEF Working, Track, TrackRebuild
<1>4. SetRunning(n, TRUE) /\ Return(p)
  BY <1>2, NothingLinked, SeqAssumption DEF RebuildStart, Refused, SeqAssumption, CanStart
<1>5. ContOK' /\ nextId' = nextId /\ Seen' = [Seen EXCEPT ![n] = WithState(Seen[n], "running")]
  BY <1>2, <1>4, SeenRuns, Daemon
<1>6. Seen' = [settled EXCEPT ![n] = WithState(New(v), "running")]
  BY <1>2, <1>3, <1>5, SettledFacts, ExceptTwice
<1>7. Done(p) /\ settled' = Seen'
  BY <1>2, <1>4, Finished DEF Settles, Done
<1>8. L!Update(n)
  BY <1>2, <1>6, <1>7, SameNames, SameOperators DEF L!Update, WithState, WasRunning
<1>9. L!Next
  BY <1>2, <1>8, LifecycleSteps
<1> QED
  BY <1>1, <1>5, <1>7, <1>9, LandsIdle

-----------------------------------------------------------------------------
\* DockerPull

LEMMA PullLands ==
  ASSUME Inv, NEW p \in Procs, Settles(p), Pull(p)
  PROVE  Lands(p)
<1>1. ~At(p, "idle") /\ UNCHANGED daemon /\ cli[p].pc = "pull"
  BY DEF Pull, At
<1>2. /\ Name(p) \in PlainName /\ settled[Name(p)] # Absent /\ Lost(Name(p)) /\ cli[p].inv.kind = "rebuild"
      /\ cli[p].stk # <<>> /\ cli[p].stk = <<[back |-> "rebuildCreate", id |-> Head(cli[p].stk).id, was |-> WasRunning(p)]>>
  BY <1>1, AtWork DEF Working, Track, TrackRebuild
<1>3. \A id : id \in Lookup(Name(p), TRUE) => id = 0
  BY <1>2, LostFacts, LooksUp
<1>4. Become(p, [cli[p] EXCEPT !.pc = "pullImage", !.was = FALSE])
  BY <1>3 DEF Pull
<1>5. Now(p, "pullImage") /\ SameStk(p) /\ cli'[p].was = FALSE
  BY <1>1, <1>4, Onwards
<1>6. settled'[Name(p)'] # Absent /\ Lost(Name(p))' /\ cli'[p].inv.kind = "rebuild" /\ cli'[p].pc = "pullImage"
  BY <1>1, <1>2, <1>5, Unchanged DEF Lost
<1>7. /\ cli'[p].stk # <<>>
      /\ cli'[p].stk = <<[back |-> "rebuildCreate", id |-> Head(cli'[p].stk).id, was |-> WasRunning(p)']>>
  BY <1>1, <1>2, <1>5, Unchanged DEF SameStk, WasRunning
<1>8. TrackRebuild(p)'
  BY <1>5, <1>6, <1>7 DEF TrackRebuild
<1>9. Track(p)'
  BY <1>6, <1>8, TracksIn DEF RebuildLabels
<1> QED
  BY <1>1, <1>5, <1>9, StaysThere DEF CreatesTwo, CreatesNone

LEMMA PullImageLands ==
  ASSUME Inv, NEW p \in Procs, Settles(p), PullImage(p)
  PROVE  Lands(p)
<1> DEFINE n == Name(p)
<1>1. ~At(p, "idle") /\ UNCHANGED daemon /\ cli[p].pc = "pullImage"
  BY DEF PullImage, At
<1>2. /\ n \in PlainName /\ n.type # TypeData /\ settled[n] # Absent /\ Lost(n) /\ cli[p].inv.kind = "rebuild" /\ ~cli[p].was
      /\ cli[p].stk = <<[back |-> "rebuildCreate", id |-> Head(cli[p].stk).id, was |-> WasRunning(p)]>>
  BY <1>1, AtWork DEF Working, Track, TrackRebuild
<1>3. CASE Return(p)
  <2>1. Now(p, "rebuildCreate") /\ cli'[p].stk = <<>> /\ cli'[p].was = WasRunning(p)
    BY <1>1, <1>2, <1>3, Back
  <2>2. /\ settled'[Name(p)'] # Absent /\ Lost(Name(p))' /\ cli'[p].inv.kind = "rebuild" /\ cli'[p].pc = "rebuildCreate"
        /\ cli'[p].was = WasRunning(p)'
    BY <1>1, <1>2, <2>1, Unchanged DEF Lost, WasRunning
  <2>3. TrackRebuild(p)'
    BY <2>1, <2>2 DEF TrackRebuild
  <2>4. Track(p)'
    BY <2>2, <2>3, TracksIn DEF RebuildLabels
  <2> QED
    BY <1>1, <2>1, <2>4, StaysThere DEF CreatesTwo, CreatesNone
<1>4. CASE Fail(p)
  <2>1. Done(p) /\ ContOK' /\ nextId' = nextId /\ settled' = [settled EXCEPT ![n] = Absent]
    BY <1>1, <1>2, <1>4, Finished, SeenSame, Daemon DEF Settles, Done, Lost
  <2>2. L!UpdateFails(n)
    BY <1>2, <2>1, SameNames, SameOperators DEF L!UpdateFails
  <2>3. L!Next
    BY <1>2, <2>2, LifecycleSteps
  <2> QED
    BY <1>1, <2>1, <2>3, LandsIdle
<1> QED
  BY <1>2, <1>3, <1>4 DEF PullImage

\* The container is gone when the pull looks for it, so these never run.
LEMMA PullSkips ==
  ASSUME Inv, NEW p \in Procs
  PROVE  ~PullRunning(p) /\ ~PullRemove(p)
<1>1. ~At(p, "idle") => cli[p].pc \notin {"pullRunning", "pullRemove"}
  BY AtWork DEF Working, Track
<1> QED
  BY <1>1 DEF PullRunning, PullRemove, At

-----------------------------------------------------------------------------
\* DockerRename

LEMMA RenameLands ==
  ASSUME Inv, NEW p \in Procs, Settles(p), Rename(p)
  PROVE  Lands(p)
<1> DEFINE n == Name(p)
<1>1. ~At(p, "idle") /\ cli[p].pc = "rename" /\ UNCHANGED daemon
  BY DEF Rename, At, Refused
<1>2. n \in PlainName /\ Same /\ cli[p].stk = <<>> /\ cli[p].inv.kind = "rename"
  BY <1>1, AtWork DEF Working, Track, TrackRename
<1>3. CASE Fail(p)
  BY <1>1, <1>2, <1>3, Finished, StaysIdle
<1>4. CASE /\ Exists(n)
           /\ Become(p, [cli[p] EXCEPT !.pc = "renameTo", !.id = cont[n].id, !.src = cont[n].from])
  <2>1. Now(p, "renameTo") /\ SameStk(p) /\ cli'[p].id = cont[n].id /\ cli'[p].src = cont[n].from
    <3>1. \A i, f : Become(p, [cli[p] EXCEPT !.pc = "renameTo", !.id = i, !.src = f]) =>
            Now(p, "renameTo") /\ cli'[p].id = i /\ SameStk(p) /\ cli'[p].src = f
      BY <1>1, Onwards, ZenonT(60)
    <3> HIDE DEF n
    <3> QED
      BY <1>4, <3>1
  <2>2. settled[n] # Absent /\ settled[n].from = cont[n].from
    BY <1>2, <1>4, SeenFacts, Daemon DEF Same
  <2>3. Found(p, Name(p))' /\ settled'[Name(p)'] # Absent /\ cli'[p].src = settled'[Name(p)'].from
    BY <1>1, <1>4, <2>1, <2>2, Unchanged DEF Found, Exists
  <2>4. TrackRename(p)'
    BY <1>1, <1>2, <2>1, <2>3, Unchanged DEF TrackRename, SameStk
  <2>5. Track(p)'
    BY <2>1, <2>4, TracksIn DEF Now, RenameLabels
  <2> QED
    BY <1>1, <2>1, <2>5, StaysThere DEF CreatesTwo, CreatesNone
<1> QED
  BY <1>3, <1>4 DEF Rename, Refused

LEMMA RenameToLands ==
  ASSUME Inv, NEW p \in Procs, Settles(p), RenameTo(p)
  PROVE  Lands(p)
<1> DEFINE n == Name(p)
           to == cli[p].inv.to
<1>1. ~At(p, "idle") /\ UNCHANGED daemon /\ cli[p].pc = "renameTo"
  BY DEF RenameTo, At
<1>2. /\ n \in PlainName /\ to \in PlainName /\ Same /\ cli[p].stk = <<>> /\ cli[p].inv.kind = "rename"
      /\ settled[n] # Absent /\ Found(p, n) /\ cli[p].src = settled[n].from
  BY <1>1, AtWork DEF Working, Track, TrackRename
<1>3. CASE Fail(p)
  BY <1>1, <1>2, <1>3, Finished, StaysIdle
<1>4. CASE ~Exists(to) /\ Goto(p, "renameRunning")
  <2>1. Now(p, "renameRunning") /\ SameStk(p) /\ SameId(p) /\ SameSrc(p)
    BY <1>1, <1>4, Onwards
  <2>2. settled[to] = Absent
    BY <1>2, <1>4, SeenFacts, Daemon DEF Same
  <2>3. /\ cli'[p].pc = "renameRunning" /\ cli'[p].stk = <<>> /\ cli'[p].inv = cli[p].inv /\ Name(p)' = n /\ cont' = cont
        /\ settled' = settled /\ Same'
    BY <1>1, <1>2, <2>1, Unchanged DEF SameStk
  <2>4. Found(p, Name(p))' /\ cli'[p].src = settled'[Name(p)'].from
    BY <1>2, <2>1, <2>3 DEF Found, Exists, SameId, SameSrc
  <2>5. TrackRename(p)'
    BY <1>2, <2>2, <2>3, <2>4 DEF TrackRename
  <2>6. Track(p)'
    BY <2>3, <2>5, TracksIn DEF RenameLabels
  <2> QED
    BY <1>1, <2>1, <2>6, StaysThere DEF CreatesTwo, CreatesNone
<1>5. Fail(p) \/ (~Exists(to) /\ Goto(p, "renameRunning"))
  BY SeqAssumption DEF RenameTo, SeqAssumption
<1> QED
  BY <1>3, <1>4, <1>5

LEMMA RenameRunningLands ==
  ASSUME Inv, NEW p \in Procs, Settles(p), RenameRunning(p)
  PROVE  Lands(p)
<1> DEFINE n == Name(p)
           to == cli[p].inv.to
<1>1. ~At(p, "idle") /\ UNCHANGED daemon /\ cli[p].pc = "renameRunning"
  BY DEF RenameRunning, At
<1>2. /\ n \in PlainName /\ Same /\ cli[p].stk = <<>> /\ cli[p].inv.kind = "rename"
      /\ settled[n] # Absent /\ settled[to] = Absent /\ Found(p, n) /\ Exists(n) /\ cli[p].src = settled[n].from
  BY <1>1, AtWork DEF Working, Track, TrackRename, Found
<1>3. PICK id \in Lookup(n, FALSE) :
        Become(p, [cli[p] EXCEPT !.pc = IF id # 0 THEN "renameStop" ELSE "renameRemove", !.was = (id # 0)])
  BY DEF RenameRunning
<1> DEFINE l == IF id # 0 THEN "renameStop" ELSE "renameRemove"
<1>4. Now(p, l) /\ SameStk(p) /\ SameId(p) /\ SameSrc(p) /\ cli'[p].was = (id # 0)
  BY <1>1, <1>3, Onwards
<1>5. /\ settled[n].state = IF id # 0 THEN "running" ELSE "stopped"
      /\ id # 0 <=> WasRunning(p)
  BY <1>2, <1>3, LooksUp, SeenFacts, Daemon DEF Same, WasRunning, Exists
<1>6. id = 0 => Seen = [settled EXCEPT ![n] = WithState(settled[n], "stopped")]
  BY <1>2, <1>5, SettledFacts
<1>7. /\ cli'[p].pc = l /\ cli'[p].stk = <<>> /\ cli'[p].inv = cli[p].inv /\ Name(p)' = n /\ cont' = cont
      /\ settled' = settled /\ Same' /\ Seen' = Seen /\ cli'[p].was = WasRunning(p)'
  BY <1>1, <1>2, <1>4, <1>5, Unchanged DEF SameStk, WasRunning
<1>8. Found(p, Name(p))' /\ cli'[p].src = settled'[Name(p)'].from
  BY <1>2, <1>4, <1>7 DEF Found, Exists, SameId, SameSrc
<1>9. TrackRename(p)'
  BY <1>2, <1>6, <1>7, <1>8 DEF TrackRename
<1>10. Track(p)'
  BY <1>7, <1>9, TracksIn DEF RenameLabels
<1> QED
  BY <1>1, <1>4, <1>10, StaysThere DEF CreatesTwo, CreatesNone

LEMMA RenameStopLands ==
  ASSUME Inv, NEW p \in Procs, Settles(p), RenameStop(p)
  PROVE  Lands(p)
<1> DEFINE n == Name(p)
           to == cli[p].inv.to
<1>1. ~At(p, "idle") /\ cli[p].pc = "renameStop"
  BY DEF RenameStop, At
<1>2. /\ n \in PlainName /\ n \in ContainerName /\ Same /\ cli[p].stk = <<>> /\ cli[p].inv.kind = "rename"
      /\ settled[n] # Absent /\ settled[to] = Absent /\ Found(p, n) /\ Exists(n) /\ cli[p].src = settled[n].from
      /\ cli[p].was = WasRunning(p)
  BY <1>1, AtWork, PlainFacts DEF Working, Track, TrackRename, Found
<1>3. SetRunning(n, FALSE) /\ Goto(p, "renameRemove")
  BY <1>2, TheOne, SeqAssumption DEF RenameStop, SeqAssumption
<1>4. /\ ContOK' /\ nextId' = nextId /\ Seen' = [settled EXCEPT ![n] = WithState(settled[n], "stopped")]
      /\ cont'[n].id = cont[n].id
  BY <1>2, <1>3, SeenRuns, Daemon DEF Same
<1>5. Now(p, "renameRemove") /\ SameStk(p) /\ SameId(p) /\ SameSrc(p) /\ SameWas(p) /\ settled' = settled
  BY <1>1, <1>3, Onwards, Unsettled
<1>6. /\ cli'[p].pc = "renameRemove" /\ cli'[p].stk = <<>> /\ cli'[p].inv = cli[p].inv /\ Name(p)' = n
      /\ cli'[p].was = WasRunning(p)'
  BY <1>2, <1>5, SameCommand DEF Now, SameStk, SameWas, WasRunning
<1>7. Found(p, Name(p))' /\ cli'[p].src = settled'[Name(p)'].from
  BY <1>2, <1>4, <1>5, <1>6 DEF Found, Exists, SameId, SameSrc
<1>8. TrackRename(p)'
  BY <1>2, <1>4, <1>5, <1>6, <1>7 DEF TrackRename
<1>9. Track(p)'
  BY <1>6, <1>8, TracksIn DEF RenameLabels
<1> QED
  BY <1>1, <1>4, <1>5, <1>9, LandsThere DEF CreatesTwo, CreatesNone

LEMMA RenameRemoveLands ==
  ASSUME Inv, NEW p \in Procs, Settles(p), RenameRemove(p)
  PROVE  Lands(p)
<1> DEFINE n == Name(p)
           to == cli[p].inv.to
<1>1. ~At(p, "idle") /\ cli[p].pc = "renameRemove"
  BY DEF RenameRemove, At
<1>2. /\ n \in PlainName /\ n \in ContainerName /\ cli[p].stk = <<>> /\ cli[p].inv.kind = "rename"
      /\ settled[n] # Absent /\ settled[to] = Absent /\ Found(p, n) /\ cli[p].src = settled[n].from
      /\ cli[p].was = WasRunning(p) /\ Seen = [settled EXCEPT ![n] = WithState(settled[n], "stopped")]
  BY <1>1, AtWork, PlainFacts DEF Working, Track, TrackRename
<1>3. Remove(n, TRUE) /\ Goto(p, "renameVolumes")
  BY <1>2, TheOne, SeqAssumption DEF RenameRemove, Refused, SeqAssumption
<1>4. ContOK' /\ nextId' = nextId /\ Seen' = [Seen EXCEPT ![n] = Absent]
  BY <1>2, <1>3, SeenRemoves, Daemon
<1>5. Seen' = [settled EXCEPT ![n] = Absent]
  BY <1>2, <1>4, SettledFacts, ExceptTwice
<1>6. Now(p, "renameVolumes") /\ SameStk(p) /\ SameSrc(p) /\ SameWas(p) /\ settled' = settled
  BY <1>1, <1>3, Onwards, Unsettled
<1>7. /\ cli'[p].pc = "renameVolumes" /\ cli'[p].stk = <<>> /\ cli'[p].inv = cli[p].inv /\ Name(p)' = n
      /\ cli'[p].was = WasRunning(p)' /\ cli'[p].src = settled'[Name(p)'].from
  BY <1>2, <1>6, SameCommand DEF Now, SameStk, SameWas, SameSrc, WasRunning
<1>8. TrackRename(p)'
  BY <1>2, <1>5, <1>6, <1>7 DEF TrackRename, Lost
<1>9. Track(p)'
  BY <1>7, <1>8, TracksIn DEF RenameLabels
<1> QED
  BY <1>1, <1>4, <1>6, <1>9, LandsThere DEF CreatesTwo, CreatesNone

LEMMA RenameVolumesLands ==
  ASSUME Inv, NEW p \in Procs, Settles(p), RenameVolumes(p)
  PROVE  Lands(p)
<1> DEFINE n == Name(p)
           to == cli[p].inv.to
<1>1. ~At(p, "idle") /\ UNCHANGED daemon /\ cli[p].pc = "renameVolumes"
  BY DEF RenameVolumes, At
<1>2. /\ n \in PlainName /\ cli[p].stk = <<>> /\ cli[p].inv.kind = "rename"
      /\ settled[n] # Absent /\ settled[to] = Absent /\ cli[p].src = settled[n].from
      /\ cli[p].was = WasRunning(p) /\ Lost(n)
  BY <1>1, AtWork DEF Working, Track, TrackRename
<1>3. cli[p].src \in Existing <=> Source(p) = cli[p].src /\ cli[p].src # NoName
  <2>1. settled \in [PlainName -> SeenState] /\ cli[p].src \in PlainName \cup {NoName}
    BY <1>2, SettledFacts DEF SeenState
  <2>2. \A m \in PlainName : Exists(m) <=> m # n /\ settled[m] # Absent
    BY <1>2, <2>1, SeenFacts, Daemon DEF Lost
  <2> QED
    BY <1>2, <2>1, <2>2, PlainFacts, NameFacts DEF Source, Existing
<1>4. ~(cli[p].src \in Existing) => Source(p) = NoName
  BY <1>2, <1>3 DEF Source
<1>5. /\ Now(p, "renameCreate") /\ SameStk(p) /\ SameWas(p) /\ cli'[p].src = Source(p)
  <2>1. CASE cli[p].src \in Existing /\ Goto(p, "renameCreate")
    BY <1>1, <1>3, <2>1, Onwards DEF SameSrc
  <2>2. CASE cli[p].src \notin Existing /\ Become(p, [cli[p] EXCEPT !.pc = "renameCreate", !.src = NoName])
    BY <1>1, <1>4, <2>2, Onwards
  <2> QED
    BY <2>1, <2>2, SeqAssumption DEF RenameVolumes, SeqAssumption
<1>6. /\ cli'[p].pc = "renameCreate" /\ cli'[p].stk = <<>> /\ cli'[p].inv = cli[p].inv /\ Name(p)' = n
      /\ cli'[p].was = WasRunning(p)' /\ settled' = settled /\ Seen' = Seen
  BY <1>1, <1>2, <1>5, Unchanged DEF SameStk, SameWas, WasRunning
<1>7. cli'[p].src = Source(p)'
  BY <1>5, <1>6 DEF Source
<1>8. TrackRename(p)'
  BY <1>2, <1>6, <1>7 DEF TrackRename, Lost
<1>9. Track(p)'
  BY <1>6, <1>8, TracksIn DEF RenameLabels
<1> QED
  BY <1>1, <1>5, <1>9, StaysThere DEF CreatesTwo, CreatesNone

\* The container under its new name, in the state it was found in.
LEMMA RenamedSteps ==
  ASSUME Inv, NEW p \in Procs, ~At(p, "idle"), settled[Name(p)] # Absent, settled[cli[p].inv.to] = Absent,
         NEW v \in Fresh(settled),
         settled' = [settled EXCEPT
                       ![Name(p)] = Absent,
                       ![cli[p].inv.to] = WithState(IF Source(p) # NoName THEN NewFrom(settled, Source(p)) ELSE New(v),
                                                    settled[Name(p)].state)]
  PROVE  L!Next
<1> DEFINE n == Name(p)
           to == cli[p].inv.to
           from == settled[n].from
<1>1. n \in PlainName /\ to \in PlainName /\ to.type = n.type
  BY AtWork DEF Working
<1>2. (IF from # NoName /\ from # n /\ L!Present(from) THEN NewFrom(settled, from) ELSE New(v))
        = IF Source(p) # NoName THEN NewFrom(settled, Source(p)) ELSE New(v)
  BY SameOperators DEF Source
<1>3. L!Rename(n, to)
  BY <1>2, SameNames, SameOperators DEF L!Rename, WithState
<1> QED
  BY <1>1, <1>3, LifecycleSteps

LEMMA RenameCreateLands ==
  ASSUME Inv, NEW p \in Procs, Settles(p), RenameCreate(p)
  PROVE  Lands(p)
<1> DEFINE n == Name(p)
           to == cli[p].inv.to
           src == cli[p].src
           made(v) == IF Source(p) # NoName THEN NewFrom(settled, Source(p)) ELSE New(v)
<1>1. ~At(p, "idle") /\ cli[p].pc = "renameCreate" /\ cli[p].pc \notin CreatesNone
  BY DEF RenameCreate, At, CreatesNone
<1>2. /\ n \in PlainName /\ to \in PlainName /\ to \in ContainerName /\ cli[p].stk = <<>> /\ cli[p].inv.kind = "rename"
      /\ settled[n] # Absent /\ settled[to] = Absent /\ src = Source(p) /\ cli[p].was = WasRunning(p)
      /\ Seen = [settled EXCEPT ![n] = Absent] /\ IInv /\ ContOK /\ nextId \in Nat \ {0}
  BY <1>1, AtWork, PlainFacts, Daemon DEF Working, Track, TrackRename, Lost
<1>3. settled \in [PlainName -> SeenState] /\ src \in PlainName \cup {NoName}
  BY <1>2, SettledFacts DEF Source, SeenState
<1>4. src # NoName => src # n /\ settled[src] # Absent
  BY <1>2 DEF Source
<1>5. CanCreate(to, src)
  <2>1. Seen[to] = Absent
    BY <1>2, <1>3
  <2>2. src # NoName => Seen[src] # Absent
    BY <1>2, <1>3, <1>4
  <2>3. ~Exists(to) /\ (src # NoName => Exists(src))
    BY <1>2, <1>3, <2>1, <2>2, SeenFacts
  <2> QED
    BY <1>3, <2>3, NothingLinked, PlainFacts DEF CanCreate, Existing
<1>6. /\ Create(to, src)
      /\ IF cli[p].was THEN Become(p, [cli[p] EXCEPT !.pc = "renameStart", !.id = nextId]) ELSE Return(p)
  BY <1>5, SeqAssumption DEF RenameCreate, Refused, SeqAssumption
<1>7. /\ ContOK' /\ nextId' = nextId + 1 /\ cont'[to].id = nextId /\ ~cont'[to].running
      /\ Seen' = [Seen EXCEPT ![to] = IF src = NoName THEN New(nextId) ELSE NewFrom(Seen, src)]
  <2>1. IInv /\ ContOK /\ to \in PlainName /\ to \in ContainerName /\ src \in PlainName \cup {NoName}
    BY <1>2, <1>3
  <2>2. Create(to, src) /\ CanCreate(to, src)
    BY <1>5, <1>6
  <2> QED
    BY <2>1, <2>2, SeenCreates
<1>8. (IF src = NoName THEN New(nextId) ELSE NewFrom(Seen, src)) = made(nextId)
  BY <1>2, <1>3, <1>4 DEF NewFrom
<1>9. Seen' = [settled EXCEPT ![n] = Absent, ![to] = made(nextId)]
  BY <1>2, <1>7, <1>8
<1>10. nextId \in Fresh(settled)
  BY <1>1, FreshVolume
<1>11. CASE cli[p].was
  <2>1. Now(p, "renameStart") /\ SameStk(p) /\ SameWas(p) /\ cli'[p].id = nextId /\ settled' = settled
    BY <1>1, <1>6, <1>11, Onwards, Unsettled
  <2>2. /\ cli'[p].pc = "renameStart" /\ cli'[p].stk = <<>> /\ cli'[p].inv = cli[p].inv /\ Name(p)' = n
        /\ cli'[p].was = WasRunning(p)' /\ WasRunning(p)' /\ Found(p, to)'
    BY <1>2, <1>7, <1>11, <2>1, SameCommand DEF Now, SameStk, SameWas, WasRunning, Found, Exists
  <2>3. Source(p)' = Source(p) /\ Fresh(settled)' = Fresh(settled)
    BY <2>1, <2>2 DEF Source
  <2>4. RenamedTo(p)'
    BY <1>9, <1>10, <2>1, <2>2, <2>3 DEF RenamedTo
  <2>5. TrackRename(p)'
    BY <1>2, <1>7, <2>1, <2>2, <2>4 DEF TrackRename
  <2>6. Track(p)'
    BY <2>2, <2>5, TracksIn DEF RenameLabels
  <2> QED
    BY <1>1, <1>7, <2>1, <2>6, LandsThere DEF CreatesTwo, CreatesNone
<1>12. CASE ~cli[p].was
  <2>1. Done(p) /\ settled' = Seen'
    BY <1>2, <1>6, <1>12, Finished DEF Settles, Done
  <2>2. settled[n].state = "stopped"
    BY <1>2, <1>12, SettledFacts DEF WasRunning
  <2>3. WithState(made(nextId), settled[n].state) = made(nextId)
    BY <2>2 DEF WithState, New, NewFrom
  <2>4. L!Next
    BY <1>1, <1>2, <1>9, <1>10, <2>1, <2>3, RenamedSteps
  <2> QED
    BY <1>1, <1>7, <2>1, <2>4, LandsIdle
<1> QED
  BY <1>11, <1>12

LEMMA RenameStartLands ==
  ASSUME Inv, NEW p \in Procs, Settles(p), RenameStart(p)
  PROVE  Lands(p)
<1> DEFINE n == Name(p)
           to == cli[p].inv.to
           made(v) == IF Source(p) # NoName THEN NewFrom(settled, Source(p)) ELSE New(v)
<1>1. ~At(p, "idle") /\ cli[p].pc = "renameStart"
  BY DEF RenameStart, At
<1>2. /\ n \in PlainName /\ to \in PlainName /\ to \in ContainerName /\ cli[p].stk = <<>>
      /\ settled[n] # Absent /\ settled[to] = Absent /\ Found(p, to) /\ Exists(to) /\ ~cont[to].running /\ WasRunning(p)
  BY <1>1, AtWork, PlainFacts DEF Working, Track, TrackRename, Found
<1>3. PICK v \in Fresh(settled) : Seen = [settled EXCEPT ![n] = Absent, ![to] = made(v)]
  BY <1>1, AtWork DEF Working, Track, TrackRename, RenamedTo
<1>4. SetRunning(to, TRUE) /\ Return(p)
  BY <1>2, TheOne, NothingLinked, SeqAssumption DEF RenameStart, SeqAssumption, CanStart
<1>5. ContOK' /\ nextId' = nextId /\ Seen' = [Seen EXCEPT ![to] = WithState(Seen[to], "running")]
  BY <1>2, <1>4, SeenRuns, Daemon
<1> DEFINE w == [settled EXCEPT ![n] = Absent]
<1>6. settled \in [PlainName -> SeenState] /\ w \in [PlainName -> SeenState \cup {Absent}] /\ Seen = [w EXCEPT ![to] = made(v)]
  BY <1>2, <1>3, SettledFacts
<1>7. Seen' = [w EXCEPT ![to] = WithState(made(v), "running")]
  BY <1>2, <1>5, <1>6, ExceptTwice
<1>8. Done(p) /\ settled' = Seen'
  BY <1>2, <1>4, Finished DEF Settles, Done
<1>9. L!Next
  BY <1>1, <1>2, <1>7, <1>8, RenamedSteps DEF WasRunning
<1> QED
  BY <1>1, <1>5, <1>8, <1>9, LandsIdle

-----------------------------------------------------------------------------
\* The whole.

LEMMA StepBusy ==
  ASSUME NEW p, Step(p)
  PROVE  ~At(p, "idle")
BY DEF Step, At, CreateData, CreateDataCall, Run, RunData, RunDataCreate, RunExists, RunCreate, RunStart, RunRemove,
       ExecData, ExecDataCreate, ExecCreate, ExecStart, ExecWait, ExecRemove, EnsureData, EnsureDataCall, Stop, StopCall,
       RemoveService, RemoveCall, RemoveData, RemoveDataCall, Rebuild, RebuildRunning, RebuildRemove, RebuildCreate,
       RebuildStart, Pull, PullRunning, PullRemove, PullImage, Rename, RenameTo, RenameRunning, RenameStop, RenameRemove,
       RenameVolumes, RenameCreate, RenameStart

LEMMA StepLands ==
  ASSUME Inv, NEW p \in Procs, Settles(p), Step(p)
  PROVE  Lands(p)
BY CreateDataLands, CreateDataCallLands, RunLands, RunDataLands, RunDataCreateLands, RunExistsLands, RunCreateLands,
   RunStartLands, RunRemoveLands, ExecDataLands, ExecDataCreateLands, ExecCreateLands, ExecStartLands, ExecWaitLands,
   ExecRemoveLands, StopLands, StopCallLands, RemoveServiceLands, RemoveCallLands, RemoveDataLands, RemoveDataCallLands,
   RebuildLands, RebuildRunningLands, RebuildRemoveLands, RebuildCreateLands, RebuildStartLands, PullLands, PullSkips,
   PullImageLands, RenameLands, RenameToLands, RenameRunningLands, RenameStopLands, RenameRemoveLands, RenameVolumesLands,
   RenameCreateLands, RenameStartLands
   DEF Step

\* A world that can be settled.
LEMMA Settled ==
  ASSUME NEW c \in [ContainerName -> Container], NEW k,
         \A n \in ContainerName : /\ c[n].id = 0 => c[n] = NoContainer
                                  /\ c[n].from \in PlainName \cup {NoName}
                                  /\ c[n].vol < k,
         NEW s,
         s = [n \in PlainName |->
                [state |-> IF ~(c[n].id # 0) THEN "none" ELSE IF c[n].running THEN "running" ELSE "stopped",
                 vol   |-> c[n].vol,
                 from  |-> c[n].from]]
  PROVE  /\ s \in [PlainName -> SeenState]
         /\ \A n \in PlainName : s[n].vol < k /\ (s[n].state = "none" => s[n] = Absent)
<1>1. \A n \in PlainName : n \in ContainerName /\ c[n] \in Container
  BY PlainFacts
<1>2. s \in [PlainName -> SeenState] /\ \A n \in PlainName : s[n].vol < k
  BY <1>1 DEF SeenState, Container
<1>3. ASSUME NEW n \in PlainName, s[n].state = "none" PROVE s[n] = Absent
  <2>1. c[n].id = 0
    BY <1>3
  <2>2. c[n] = NoContainer
    BY <1>1, <2>1
  <2> QED
    BY <2>1, <2>2 DEF NoContainer, Absent
<1> QED
  BY <1>2, <1>3

LEMMA SettledNext ==
  ASSUME Inv, IInv', ContOK', nextId <= nextId', settled' = settled \/ settled' = Seen'
  PROVE  SettledOK'
<1>1. nextId \in Nat /\ nextId' \in Nat /\ cont' \in [ContainerName -> Container]
  BY DEF Inv, IInv, DaemonOK
<1>2. CASE settled' = settled
  <2>1. settled \in [PlainName -> SeenState]
    BY DEF Inv, SeqInv, SettledOK
  <2>2. \A n \in PlainName : settled[n].vol \in Nat
    BY <2>1 DEF SeenState
  <2> QED
    BY <1>1, <1>2, <2>2 DEF Inv, SeqInv, SettledOK
<1>3. CASE settled' = Seen'
  <2>1. \A n \in ContainerName :
          /\ cont'[n].id = 0 => cont'[n] = NoContainer
          /\ cont'[n].from \in PlainName \cup {NoName}
          /\ cont'[n].vol < nextId'
    BY DEF ContOK
  <2>2. Seen' = [n \in PlainName |->
                   [state |-> IF ~(cont'[n].id # 0) THEN "none" ELSE IF cont'[n].running THEN "running" ELSE "stopped",
                    vol   |-> cont'[n].vol,
                    from  |-> cont'[n].from]]
    BY DEF Seen, Exists
  <2>3. /\ Seen' \in [PlainName -> SeenState]
        /\ \A n \in PlainName : Seen'[n].vol < nextId' /\ (Seen'[n].state = "none" => Seen'[n] = Absent)
    BY <1>1, <2>1, <2>2, Settled
  <2> QED
    BY <1>3, <2>3 DEF SettledOK
<1> QED
  BY <1>2, <1>3

\* One command at a time: when it is over, everyone is idle.
LEMMA StepSettles ==
  ASSUME Inv, NEW p \in Procs, Step(p), settled' = IF AllIdle' THEN Seen' ELSE settled
  PROVE  /\ \A q \in Procs \ {p} : At(q, "idle")
         /\ (\A q \in Procs \ {p} : cli'[q] = cli[q]) => Settles(p) /\ (AllIdle' <=> cli'[p].pc = "idle")
<1>1. \A q \in Procs \ {p} : At(q, "idle")
  BY StepBusy DEF Inv, SeqInv, OneAtATime
<1> QED
  BY <1>1 DEF Settles, AllIdle, At

\* A step leaves the other processes alone.
LEMMA StepLeaves ==
  ASSUME Inv, NEW p \in Procs, Step(p)
  PROVE  \A q \in Procs \ {p} : cli'[q] = cli[q]
<1>1. ASSUME NEW r, Become(p, r)
      PROVE  \A q \in Procs \ {p} : cli'[q] = cli[q]
  BY <1>1, Turned
<1>2. \E r : Become(p, r)
  BY DEF Step, CreateData, CreateDataCall, Run, RunData, RunDataCreate, RunExists, RunCreate, RunStart, RunRemove,
         ExecData, ExecDataCreate, ExecCreate, ExecStart, ExecWait, ExecRemove, EnsureData, EnsureDataCall, Stop, StopCall,
         RemoveService, RemoveCall, RemoveData, RemoveDataCall, Rebuild, RebuildRunning, RebuildRemove, RebuildCreate,
         RebuildStart, Pull, PullRunning, PullRemove, PullImage, Rename, RenameTo, RenameRunning, RenameStop, RenameRemove,
         RenameVolumes, RenameCreate, RenameStart, Goto, Fail, Return, Refused, RemoveFound
<1> QED
  BY <1>1, <1>2

LEMMA SeqStep ==
  ASSUME Inv, IInv', NEW p \in Procs, Step(p), settled' = IF AllIdle' THEN Seen' ELSE settled
  PROVE  SeqInv' /\ (settled' = settled \/ L!Next)
<1>1. /\ Settles(p) /\ (AllIdle' <=> cli'[p].pc = "idle") /\ \A q \in Procs \ {p} : At(q, "idle")
  BY StepSettles, StepLeaves
<1>2. Lands(p)
  BY <1>1, StepLands
<1>3. ContOK' /\ SettledOK'
  BY <1>2, SettledNext DEF Lands
<1>4. \A q \in Procs \ {p} : At(q, "idle")'
  BY <1>1, <1>2 DEF Lands, At
<1>5. OneAtATime'
  BY <1>4 DEF OneAtATime
<1>6. AllIdle' => Same'
  BY DEF Same
<1>7. \A q \in Procs : Room(q)'
  BY <1>2, <1>4 DEF Lands, Room, At, CreatesTwo, CreatesNone
<1>8. \A q \in Procs : ~At(q, "idle")' => Track(q)'
  BY <1>2, <1>4 DEF Lands, At
<1>9. settled' = settled \/ L!Next
  BY <1>1, <1>2 DEF Lands, Settles
<1> QED
  BY <1>3, <1>5, <1>6, <1>7, <1>8, <1>9 DEF SeqInv

\* What happens to throw-away containers moves no process.
LEMMA SeqStill ==
  ASSUME Inv, IInv', UNCHANGED <<cli, begun, nextId, settled, Seen>>, ContOK',
         \A m \in PlainName : cont'[m] = cont[m]
  PROVE  SeqInv'
<1>1. SettledOK'
  BY SettledNext, Daemon
<1>2. OneAtATime' /\ (AllIdle' => Same') /\ \A q \in Procs : Room(q)'
  BY DEF Inv, SeqInv, OneAtATime, At, AllIdle, Same, Room
<1>3. ASSUME NEW q \in Procs, ~At(q, "idle")' PROVE Track(q)'
  <2>1. Working(q) /\ Track(q)
    BY <1>3, AtWork DEF At, Working
  <2> DEFINE r == cli[q]
  <2>2. Name(q) \in PlainName /\ DataOf(q) \in PlainName /\ r.inv.to \in PlainName
    BY <2>1 DEF Working
  <2>3. \A m \in PlainName : (Exists(m)' <=> Exists(m)) /\ (Found(q, m)' <=> Found(q, m))
    BY DEF Exists, Found
  <2>4. /\ Name(q)' = Name(q) /\ DataOf(q)' = DataOf(q) /\ (WasRunning(q)' <=> WasRunning(q))
        /\ (IsService(q)' <=> IsService(q)) /\ (Same' <=> Same) /\ \A f : Has(q, f)' <=> Has(q, f)
    BY DEF Name, DataOf, WasRunning, IsService, Same, Has
  <2>5. Fresh(settled)' = Fresh(settled) /\ (\A d : WithData(settled, d)' = WithData(settled, d)) /\ Source(q)' = Source(q)
    BY <2>4 DEF Source
  <2>6. TrackRun(q)'
    BY <2>1, <2>2, <2>3, <2>4, <2>5 DEF Track, TrackRun, DataReady, StartedAs
  <2>7. TrackData(q)' /\ TrackStop(q)' /\ TrackRemove(q)'
    BY <2>1, <2>2, <2>3, <2>4, <2>5
       DEF Track, TrackData, DataMade, TrackStop, StopBack, TrackRemove, Lost
  <2>8. TrackRebuild(q)'
    BY <2>1, <2>2, <2>3, <2>4, <2>5 DEF Track, TrackRebuild, Lost, WasRunning
  <2>9. TrackRename(q)'
    BY <2>1, <2>2, <2>3, <2>4, <2>5 DEF Track, TrackRename, Lost, RenamedTo, WasRunning
  <2> QED
    BY <2>1, <2>6, <2>7, <2>8, <2>9 DEF Track
<1> QED
  BY <1>1, <1>2, <1>3 DEF SeqInv

LEMMA SeqExit ==
  ASSUME Inv, IInv', NEW n \in ContainerName, n.type \in TempTypes, Exit(n),
         settled' = IF AllIdle' THEN Seen' ELSE settled
  PROVE  SeqInv' /\ settled' = settled
<1>1. n \notin PlainName /\ Exists(n)
  BY Daemon DEF Exit, PlainName, TempTypes, ErisTypes, TypeService, TypeChain, TypeData
<1>2. ContOK' /\ nextId' = nextId /\ Seen' = Seen /\ \A m \in PlainName : cont'[m] = cont[m]
  BY <1>1, SeenRuns, Daemon, PlainFacts DEF Exit
<1>3. cli' = cli /\ begun' = begun
  BY DEF Exit
<1>4. settled' = settled
  BY <1>2, <1>3 DEF AllIdle, At, Inv, SeqInv, Same
<1> QED
  BY <1>2, <1>3, <1>4, SeqStill

\* A command begins in the settled world.
LEMMA BeginTracks ==
  ASSUME Inv, NEW p \in Procs, NEW i \in Invocations, NEW d \in DataNames(i), UNCHANGED daemon, settled' = settled, Same,
         cli'[p].pc = Entry(i), cli'[p].inv = i, cli'[p].data = d, cli'[p].stk = <<>>
  PROVE  cli'[p].pc # "idle" /\ Track(p)'
<1>1. i \in Invocation /\ i.kind \in Kinds /\ i.name \in PlainName
  BY PerformAssumption DEF PerformAssumption, Invocation
<1>2. Same' /\ DataMade(p)'
  BY SeenSame DEF Same, DataMade
<1>3. Name(p)' = i.name /\ DataOf(p)' = ToDataContainer(i.name) /\ \A f : Has(p, f)' <=> f \in i.flags
  BY DEF Name, DataOf, Has
<1>4. "auto" \in i.flags \/ i.name.type # TypeService => d = ToDataContainer(i.name)
  BY DEF DataNames
<1>5. i.kind = "remove" /\ "data" \in i.flags => d = ToDataContainer(i.name)
  BY <1>4, SeqAssumption DEF SeqAssumption
<1>6. i.kind = "createData" => d = i.name
  <2>1. i.kind = "createData" => i.name.type = TypeData
    BY PerformAssumption DEF PerformAssumption
  <2> QED
    BY <1>1, <1>4, <2>1, PlainFacts DEF TypeData, TypeService
<1>7. CASE i.kind = "createData"
  BY <1>2, <1>3, <1>6, <1>7, TracksIn DEF Entry, TrackData, DataLabels, ExecLabels
<1>8. CASE i.kind = "run"
  BY <1>2, <1>3, <1>4, <1>8, TracksIn DEF Entry, TrackRun, RunLabels
<1>9. CASE i.kind = "exec"
  BY <1>2, <1>3, <1>4, <1>9, TracksIn DEF Entry, TrackData, DataLabels, ExecLabels, IsService
<1>10. CASE i.kind = "runData"
  BY <1>2, <1>10, TracksIn DEF Entry, TrackData, DataLabels, ExecLabels
<1>11. CASE i.kind = "stop"
  BY <1>2, <1>11, TracksIn DEF Entry, TrackStop, StopLabels
<1>12. CASE i.kind = "remove"
  BY <1>2, <1>3, <1>5, <1>12, TracksIn DEF Entry, TrackRemove, RemoveLabels
<1>13. CASE i.kind = "rebuild"
  BY <1>2, <1>13, TracksIn DEF Entry, TrackRebuild, RebuildLabels
<1>14. CASE i.kind = "rename"
  BY <1>2, <1>14, TracksIn DEF Entry, TrackRename, RenameLabels
<1> QED
  BY <1>1, <1>7, <1>8, <1>9, <1>10, <1>11, <1>12, <1>13, <1>14 DEF Kinds

LEMMA SeqBegin ==
  ASSUME Inv, IInv', NEW p \in Procs, AllIdle, Begin(p), settled' = IF AllIdle' THEN Seen' ELSE settled
  PROVE  SeqInv' /\ settled' = settled
<1>0. PICK i \in Invocations : \E d \in DataNames(i) :
        cli' = [cli EXCEPT ![p] = [Idle("none") EXCEPT !.pc = Entry(i), !.inv = i, !.data = d]]
  BY DEF Begin
<1>1. PICK d \in DataNames(i) :
        cli' = [cli EXCEPT ![p] = [Idle("none") EXCEPT !.pc = Entry(i), !.inv = i, !.data = d]]
  BY <1>0
<1> DEFINE r == [Idle("none") EXCEPT !.pc = Entry(i), !.inv = i, !.data = d]
<1>2. r.pc = Entry(i) /\ r.inv = i /\ r.data = d /\ r.stk = <<>>
  BY DEF Idle
<1> HIDE DEF r
<1>3. cli'[p] = r /\ \A q \in Procs \ {p} : cli'[q] = cli[q] /\ At(q, "idle") /\ At(q, "idle")'
  BY <1>1 DEF r, Inv, IInv, CliOK, AllIdle, At
<1>4. Same /\ Seen' = Seen /\ nextId' = nextId /\ ContOK' /\ UNCHANGED daemon /\ begun' = begun + 1 /\ begun < MaxInvocations
  BY SeenSame DEF Inv, SeqInv, Begin
<1>5. settled' = settled
  BY <1>4 DEF Same
<1>6. Track(p)' /\ cli'[p].pc # "idle"
  BY <1>2, <1>3, <1>4, <1>5, BeginTracks
<1>7. SettledOK'
  BY <1>4, <1>5, SettledNext, Daemon
<1>8. OneAtATime' /\ (AllIdle' => Same')
  BY <1>3, <1>4, <1>5 DEF OneAtATime, Same
<1>9. \A q \in Procs : Room(q)'
  <2>1. nextId <= 2 * begun + 1 /\ nextId \in Nat /\ begun \in Nat /\ MaxInvocations \in Nat
    BY PerformAssumption DEF Inv, SeqInv, IInv, DaemonOK, CliOK, Room, PerformAssumption
  <2> QED
    BY <1>4, <2>1 DEF Room
<1> QED
  BY <1>3, <1>4, <1>5, <1>6, <1>7, <1>8, <1>9 DEF SeqInv

LEMMA SeqStutters ==
  ASSUME Inv, IInv', UNCHANGED seqVars
  PROVE  SeqInv'
<1>1. UNCHANGED <<cont, volumes, nextId, cli, begun, settled>>
  BY DEF seqVars
<1>2. Seen' = Seen /\ ContOK'
  BY <1>1 DEF Seen, Exists, ContOK, Inv, SeqInv
<1> QED
  BY <1>1, <1>2, SeqStill

-----------------------------------------------------------------------------
LEMMA SeqInitial == SeqInit => Inv /\ L!Init
<1> SUFFICES ASSUME SeqInit PROVE Inv /\ L!Init
  OBVIOUS
<1>1. /\ cont = [n \in ContainerName |-> NoContainer] /\ nextId = 1 /\ begun = 0 /\ settled = Seen
      /\ \A p \in Procs : cli[p] = Idle("none")
  BY DEF SeqInit, Init
<1>2. IInv
  BY InitSafe DEF SeqInit
<1>3. ContOK
  BY <1>1 DEF ContOK, NoContainer
<1>4. \A n \in PlainName : settled[n] = Absent
  BY <1>1, PlainFacts DEF Seen, Exists, NoContainer, Absent
<1>5. settled = [n \in PlainName |-> settled[n]]
  BY <1>1 DEF Seen
<1>6. Absent \in SeenState /\ Absent.vol = 0
  BY DEF Absent, SeenState
<1>7. SettledOK
  BY <1>1, <1>4, <1>5, <1>6 DEF SettledOK
<1>8. \A p \in Procs : At(p, "idle") /\ Room(p)
  BY <1>1, PerformAssumption DEF At, Idle, Room, CreatesTwo, CreatesNone, PerformAssumption
<1>9. L!Init
  BY <1>4, <1>5, SameNames DEF L!Init
<1> QED
  BY <1>1, <1>2, <1>3, <1>7, <1>8, <1>9 DEF Inv, SeqInv, OneAtATime, Same

LEMMA SeqSafe == Inv /\ [SeqNext]_seqVars => Inv' /\ [L!Next]_settled
<1> SUFFICES ASSUME Inv, [SeqNext]_seqVars PROVE Inv' /\ [L!Next]_settled
  OBVIOUS
<1>1. [Next]_vars
  BY DEF SeqNext, Next, seqVars, vars
<1>2. IInv'
  BY <1>1, NextSafe DEF Inv
<1>3. CASE UNCHANGED seqVars
  BY <1>2, <1>3, SeqStutters DEF Inv, seqVars
<1>4. CASE SeqNext
  <2>1. settled' = IF AllIdle' THEN Seen' ELSE settled
    BY <1>4 DEF SeqNext
  <2>2. ASSUME NEW p \in Procs, AllIdle, Begin(p) PROVE SeqInv' /\ settled' = settled
    BY <1>2, <2>1, <2>2, SeqBegin
  <2>3. ASSUME NEW p \in Procs, Step(p) PROVE SeqInv' /\ (settled' = settled \/ L!Next)
    BY <1>2, <2>1, <2>3, SeqStep
  <2>4. ASSUME NEW n \in ContainerName, n.type \in TempTypes, Exit(n) PROVE SeqInv' /\ settled' = settled
    BY <1>2, <2>1, <2>4, SeqExit
  <2> QED
    BY <1>2, <1>4, <2>2, <2>3, <2>4 DEF SeqNext, Inv
<1> QED
  BY <1>3, <1>4

\* While a command is under way the process knows what the containers have
\* been made of and what it still has to do; between commands the containers
\* are the settled ones.
THEOREM Tracking == SeqSpec => []SeqInv
<1>1. Inv => SeqInv
  BY DEF Inv
<1> QED
  BY <1>1, SeqInitial, SeqSafe, PTL DEF SeqSpec

\* Every command, however many calls to the daemon it takes, changes the
\* containers by one step of Lifecycle or leaves them as it found them: what
\* the comments of docker_run.go promise of each operation.
THEOREM Undisturbed == SeqSpec => ImplementsLifecycle
<1>1. SeqSpec => L!Init /\ [][L!Next]_settled
  BY SeqInitial, SeqSafe, PTL DEF SeqSpec
<1> QED
  BY <1>1, PTL DEF ImplementsLifecycle, L!Spec
=============================================================================
