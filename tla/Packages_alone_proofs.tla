------------------------ MODULE Packages_alone_proofs ------------------------
(***************************************************************************)
(* What holds of Packages if some commands have the machine to themselves: *)
(* each theorem names the commands that other processes must not run       *)
(* meanwhile.  Where they do, the property is false: nothing in eris keeps *)
(* two processes apart.                                                    *)
(***************************************************************************)
EXTENDS Packages_proofs, FiniteSetTheorems

\* The commands that start a group of services.
Starters == {"start", "package", "action"}

Runs(p, kinds) == \E c \in Commands[p] : c.kind \in kinds

\* While a process may rename a service, no other starts or renames one.
RenamesAlone ==
  \A p, q \in Procs : p # q /\ Runs(p, {"rename"}) => ~Runs(q, Starters \cup {"rename"})

\* While a process may start services or an action, no other runs a package, or
\* removes containers together with their data.
RemovalsAlone ==
  \A p, q \in Procs : p # q /\ Runs(p, {"start", "action"}) =>
    \A c \in Commands[q] : c.kind # "package" /\ "data" \notin c.flags

-----------------------------------------------------------------------------
\* The members of a group come from good definition files

\* The definitions a process holds.
MembersOf(q) == {q.group[i] : i \in DOMAIN q.group} \cup {q.stack[i].srv : i \in DOMAIN q.stack}

FromFile(m) == m.def.file = "good" /\ \E x \in ServiceNames : m.of = Service(x)

\* A member of the next group is one of this group, perhaps with other links,
\* or has just been loaded.
Descends(p, m) ==
  \/ \E n \in MembersOf(cli[p]) : m.of = n.of /\ m.def = n.def
  \/ \E x \in ServiceNames : m.of = Service(x) /\ m.def = defs[x] /\ defs[x].file = "good"

LEMMA Became ==
  ASSUME PackInv, NEW p \in Procs, NEW r, Become(p, r)
  PROVE  cli'[p] = r
BY DEF PackInv, TypeOK, Become

LEMMA SameMembers ==
  ASSUME NEW p, NEW r, r.group = cli[p].group \/ r.group = <<>>, r.stack = cli[p].stack \/ r.stack = <<>>
  PROVE  \A m \in MembersOf(r) : Descends(p, m)
<1>1. MembersOf(r) \subseteq MembersOf(cli[p])
  BY DEF MembersOf
<1> QED
  BY <1>1 DEF Descends

LEMMA EndMembers ==
  ASSUME PackInv, NEW p \in Procs, NEW r, End(p, r)
  PROVE  \A m \in MembersOf(cli'[p]) : Descends(p, m)
<1>1. cli'[p] = Idle(r) /\ Idle(r).group = <<>> /\ Idle(r).stack = <<>>
  BY Became DEF End, Idle
<1> QED
  BY <1>1, SameMembers

LEMMA LeapMembers ==
  ASSUME PackInv, NEW p \in Procs, NEW l, NEW r, Leap(p, l, r)
  PROVE  \A m \in MembersOf(cli'[p]) : Descends(p, m)
<1> DEFINE q == [Idle(r) EXCEPT !.pc = l, !.cmd = cli[p].cmd]
<1>1. cli'[p] = q
  BY Became DEF Leap
<1>2. q.group = <<>> /\ q.stack = <<>>
  BY DEF Idle
<1> HIDE DEF q
<1> QED
  BY <1>1, <1>2, SameMembers

LEMMA FailMembers ==
  ASSUME PackInv, NEW p \in Procs, Fail(p)
  PROVE  \A m \in MembersOf(cli'[p]) : Descends(p, m)
BY EndMembers, LeapMembers DEF Fail

LEMMA GotoMembers ==
  ASSUME PackInv, NEW p \in Procs, NEW l, Goto(p, l)
  PROVE  \A m \in MembersOf(cli'[p]) : Descends(p, m)
<1> DEFINE r == [cli[p] EXCEPT !.pc = l]
<1>1. cli'[p] = r
  BY Became DEF Goto
<1>2. r.group = cli[p].group /\ r.stack = cli[p].stack
  BY Stay DEF Proc, Process
<1> HIDE DEF r
<1> QED
  BY <1>1, <1>2, SameMembers

LEMMA AdvanceMembers ==
  ASSUME PackInv, NEW p \in Procs, NEW l, Advance(p, l)
  PROVE  \A m \in MembersOf(cli'[p]) : Descends(p, m)
<1> DEFINE r == [cli[p] EXCEPT !.pc = l, !.idx = @ + 1]
<1>1. cli'[p] = r
  BY Became DEF Advance
<1>2. r.group = cli[p].group /\ r.stack = cli[p].stack
  BY Stay DEF Proc, Process
<1> HIDE DEF r
<1> QED
  BY <1>1, <1>2, SameMembers

\* A group of one that has just been loaded.
LEMMA LoadMembers ==
  ASSUME PackInv, NEW p \in Procs, NEW x \in ServiceNames, defs[x].file = "good", NEW m, m.of = Service(x), m.def = defs[x],
         NEW l, Become(p, Holding(cli[p], l, <<m>>))
  PROVE  \A n \in MembersOf(cli'[p]) : Descends(p, n)
<1> DEFINE r == Holding(cli[p], l, <<m>>)
<1>1. cli'[p] = r
  BY Became
<1>2. r.group = <<m>> /\ r.stack = cli[p].stack
  BY Stay DEF Holding, Proc, Process
<1> HIDE DEF r
<1>3. \A n \in MembersOf(r) : n = m \/ n \in MembersOf(cli[p])
  BY <1>2 DEF MembersOf
<1> QED
  BY <1>1, <1>3 DEF Descends

LEMMA VisitMembers ==
  ASSUME PackInv, NEW p \in Procs, Visit(p)
  PROVE  \A m \in MembersOf(cli'[p]) : Descends(p, m)
<1> DEFINE q == cli[p]
           x == Head(Waiting(p))
           f == [srv |-> Loaded(x), rest |-> defs[x].deps]
           t == <<f>> \o (IF q.stack = <<>> THEN q.stack ELSE [q.stack EXCEPT ![1].rest = Tail(@)])
           r == Called(p, f)
<1>1. q \in Proc /\ q.stack \in Seq(Frame) /\ q.todo \in Seq(ServiceNames) /\ Waiting(p) # <<>>
  BY Stay DEF Visit, Proc, Process
<1>2. Waiting(p) \in Seq(ServiceNames) /\ (q.stack # <<>> => q.stack[1].rest # <<>>)
  BY <1>1, TopFrame DEF Waiting
<1>3. x \in ServiceNames
  BY <1>1, <1>2, HeadTailProperties
<1>4. f \in Frame /\ f.srv.of = Service(x) /\ f.srv.def = defs[x]
  BY <1>3, LoadedOK DEF Frame
<1>5. CASE Become(p, r) /\ defs[x].file = "good"
  <2>1. /\ t \in Seq(Frame) /\ Len(t) = Len(q.stack) + 1 /\ t[1] = f
        /\ \A i \in 2..Len(t) : t[i].srv = q.stack[i - 1].srv
    <3> HIDE DEF f, x
    <3> QED
      BY <1>1, <1>2, <1>4, Pushed
  <2>2. r.group = q.group /\ r.stack = t
    BY <1>1 DEF Called, Proc, Process
  <2>3. cli'[p] = r
    BY <1>5, Became
  <2> HIDE DEF r, t, f
  <2>4. DOMAIN t = 1..Len(t) /\ DOMAIN q.stack = 1..Len(q.stack) /\ Len(q.stack) \in Nat
    BY <1>1, <2>1, LenProperties
  <2>5. \A i \in DOMAIN t : t[i].srv = f.srv \/ \E j \in DOMAIN q.stack : t[i].srv = q.stack[j].srv
    <3> SUFFICES ASSUME NEW i \in 1..Len(t), i # 1 PROVE i \in 2..Len(t) /\ i - 1 \in DOMAIN q.stack
      BY <2>1, <2>4
    <3> QED
      BY <2>1, <2>4
  <2>6. \A m \in MembersOf(r) : m = f.srv \/ m \in MembersOf(q)
    BY <2>2, <2>5 DEF MembersOf
  <2> QED
    BY <1>3, <1>4, <1>5, <2>3, <2>6 DEF Descends
<1> QED
  BY <1>5, EndMembers, FailMembers DEF Visit, Look

LEMMA ReturnMembers ==
  ASSUME PackInv, NEW p \in Procs, Return(p)
  PROVE  \A m \in MembersOf(cli'[p]) : Descends(p, m)
<1> DEFINE q == cli[p]
           m == Head(q.stack).srv
           g == Append(q.group, m)
           s == Tail(q.stack)
           r == [q EXCEPT !.group = g, !.stack = s]
<1>1. q \in Proc /\ q.stack # <<>> /\ q.stack \in Seq(Frame) /\ q.group \in Seq(Member) /\ cli'[p] = r
  BY Stay, Became DEF Return, Look, Proc, Process
<1>2. Head(q.stack) = q.stack[1] /\ 1 \in DOMAIN q.stack /\ m \in Member
  BY <1>1, TopFrame
<1>3. /\ DOMAIN g = 1..(Len(q.group) + 1) /\ g[Len(q.group) + 1] = m
      /\ \A i \in 1..Len(q.group) : g[i] = q.group[i]
      /\ Len(q.group) \in Nat /\ DOMAIN q.group = 1..Len(q.group)
  BY <1>1, <1>2, AppendProperties, LenProperties
<1>4. /\ DOMAIN s = 1..(Len(q.stack) - 1) /\ \A i \in DOMAIN s : s[i] = q.stack[i + 1]
      /\ DOMAIN q.stack = 1..Len(q.stack) /\ Len(q.stack) \in Nat
  BY <1>1, HeadTailProperties, LenProperties
<1>5. r.group = g /\ r.stack = s
  BY <1>1 DEF Proc, Process
<1>6. \A i \in DOMAIN g : g[i] = m \/ (i \in DOMAIN q.group /\ g[i] = q.group[i])
  BY <1>3
<1>7. \A i \in DOMAIN s : i + 1 \in DOMAIN q.stack
  BY <1>4
<1>8. m \in MembersOf(q)
  BY <1>2 DEF MembersOf
<1> HIDE DEF r, g, s, m
<1>9. MembersOf(r) \subseteq MembersOf(q)
  BY <1>4, <1>5, <1>6, <1>7, <1>8 DEF MembersOf
<1> QED
  BY <1>1, <1>9 DEF Descends

LEMMA ConnectMembers ==
  ASSUME PackInv, NEW p \in Procs, Connect(p)
  PROVE  \A m \in MembersOf(cli'[p]) : Descends(p, m)
<1> DEFINE q == cli[p]
           c == ChosenChain(p, Current(p).def.chain)
           m == [Current(p) EXCEPT !.links = @ \cup {Chain(c)}]
           g == [q.group EXCEPT ![q.idx] = m]
<1>1. q \in Proc /\ q.idx \in DOMAIN q.group /\ Current(p) \in Member
  BY Stay, Here DEF Connect, Look, At, Fine, Ready
<1>2. m.of = Current(p).of /\ m.def = Current(p).def
  BY <1>1 DEF Member
<1>3. DOMAIN g = DOMAIN q.group /\ \A i \in DOMAIN g : g[i].of = q.group[i].of /\ g[i].def = q.group[i].def
  BY <1>2 DEF Current
<1>4. ASSUME NEW r, cli'[p] = r, r.group \in {q.group, g}, r.stack = q.stack
      PROVE  \A n \in MembersOf(cli'[p]) : Descends(p, n)
  <2> HIDE DEF g
  <2>1. \A n \in MembersOf(r) : \E k \in MembersOf(q) : n.of = k.of /\ n.def = k.def
    BY <1>3, <1>4 DEF MembersOf
  <2> QED
    BY <1>4, <2>1 DEF Descends
<1>5. CASE Current(p).def.chain = Blank
  <2> DEFINE r == IF AtLast(p) THEN AtMember(q, "run", 1) ELSE Onto(q, q.idx + 1)
  <2>1. Become(p, r)
    BY <1>5 DEF Connect, Look, AtMember, Onto
  <2>2. r.group = q.group /\ r.stack = q.stack
    BY <1>1 DEF AtMember, Onto, Proc, Process
  <2>3. cli'[p] = r
    BY <2>1, Became
  <2> HIDE DEF r
  <2> QED
    BY <1>4, <2>2, <2>3
<1>6. CASE End(p, "err")
  BY <1>6, EndMembers
<1>7. CASE Current(p).def.chain # Blank /\ c \in chains
  <2> DEFINE n == WithGroup(q, g, c)
             r == IF AtLast(p) THEN AtMember(n, "run", 1) ELSE Onto(n, n.idx + 1)
  <2>1. [q EXCEPT !.group[q.idx].links = @ \cup {Chain(c)}, !.pending = @ \cup {c}] = n
    BY DEF Current, WithGroup
  <2>2. Become(p, r)
    BY <1>7, <2>1 DEF Connect, Look, AtMember, Onto
  <2>3. r.group = g /\ r.stack = q.stack
    BY <1>1 DEF WithGroup, AtMember, Onto, Proc, Process
  <2>4. cli'[p] = r
    BY <2>2, Became
  <2> HIDE DEF r, g, n
  <2> QED
    BY <1>4, <2>3, <2>4
<1> QED
  BY <1>5, <1>6, <1>7 DEF Connect, Look

LEMMA LoadOneMembers ==
  ASSUME PackInv, NEW p \in Procs, Exec(p) \/ Update(p) \/ RenameService(p) \/ Rm(p)
  PROVE  \A m \in MembersOf(cli'[p]) : Descends(p, m)
<1>1. /\ cli[p].pc \in Single \ {"checkout"} /\ cli[p].cmd.kind \notin GroupKinds \cup {"checkout"} /\ cli[p].pc # "idle"
      /\ cli[p].pc = "rm" => cli[p].todo # <<>>
  <2>1. cli[p].pc \in {"exec", "update", "rename", "rm"}
    BY DEF Exec, Update, RenameService, Rm, LoadOne, Load, Look, At
  <2> QED
    BY <2>1, Stay DEF Fine, Single
<1>2. Arg(p) \in ServiceNames
  BY <1>1, CommandOK DEF Arg, GroupKinds
<1>3. End(p, "err") => \A m \in MembersOf(cli'[p]) : Descends(p, m)
  BY EndMembers
<1>4. CASE Exec(p)
  <2> DEFINE m == [Loaded(Arg(p)) EXCEPT !.links = @ \cup (IF Running(Loaded(Arg(p)).of) THEN {Loaded(Arg(p)).of} ELSE {})]
  <2>1. m.of = Service(Arg(p)) /\ m.def = defs[Arg(p)]
    BY <1>2, LoadedOK DEF Member
  <2>2. (defs[Arg(p)].file = "good" /\ Become(p, Holding(cli[p], "execRun", <<m>>))) \/ End(p, "err")
    BY <1>4 DEF Exec, Load, Look, Holding
  <2> HIDE DEF m
  <2> QED
    BY <1>2, <1>3, <2>1, <2>2, LoadMembers
<1>5. ASSUME NEW l, NEW x \in ServiceNames, LoadOne(p, l, x, l) \/ \E k : LoadOne(p, k, x, l)
      PROVE  \A m \in MembersOf(cli'[p]) : Descends(p, m)
  <2>1. (defs[x].file = "good" /\ Become(p, Holding(cli[p], l, <<Loaded(x)>>))) \/ End(p, "err")
    BY <1>5 DEF LoadOne, Load, Look, Holding
  <2>2. Loaded(x).of = Service(x) /\ Loaded(x).def = defs[x]
    BY LoadedOK
  <2> QED
    BY <1>3, <2>1, <2>2, LoadMembers
<1>6. CASE Update(p)
  BY <1>2, <1>5, <1>6 DEF Update
<1>7. CASE RenameService(p)
  <2>1. \/ defs[Arg(p)].file = "good" /\ Become(p, Holding(cli[p], "renameContainer", <<Loaded(Arg(p))>>))
        \/ End(p, "err")
    BY <1>7 DEF RenameService, Load, Look, Holding
  <2>2. Loaded(Arg(p)).of = Service(Arg(p)) /\ Loaded(Arg(p)).def = defs[Arg(p)]
    BY <1>2, LoadedOK
  <2> QED
    BY <1>2, <1>3, <2>1, <2>2, LoadMembers
<1>8. CASE Rm(p)
  <2>1. Head(cli[p].todo) \in ServiceNames
    <3>1. cli[p].pc = "rm"
      BY <1>8 DEF Rm, LoadOne, Load, Look, At
    <3> QED
      BY <1>1, <3>1, Here, HeadTailProperties
  <2> QED
    BY <1>5, <1>8, <2>1 DEF Rm
<1> QED
  BY <1>4, <1>6, <1>7, <1>8

LEMMA ServiceMembers ==
  ASSUME PackInv, NEW p \in Procs, ServiceStep(p)
  PROVE  \A m \in MembersOf(cli'[p]) : Descends(p, m)
<1> DEFINE Goal == \A m \in MembersOf(cli'[p]) : Descends(p, m)
<1>1. /\ \A r : End(p, r) => Goal
      /\ Fail(p) => Goal
      /\ \A l, r : Leap(p, l, r) => Goal
      /\ \A l : (Goto(p, l) => Goal) /\ (Advance(p, l) => Goal)
  BY EndMembers, FailMembers, LeapMembers, GotoMembers, AdvanceMembers
<1> SUFFICES Goal
  OBVIOUS
<1> HIDE DEF Goal
<1>2. CASE Visit(p) \/ Return(p) \/ Connect(p) \/ Exec(p) \/ Update(p) \/ RenameService(p) \/ Rm(p)
  BY <1>2, VisitMembers, ReturnMembers, ConnectMembers, LoadOneMembers DEF Goal
<1>3. CASE RunChain(p)
  <2>1. ASSUME NEW c, Become(p, [cli[p] EXCEPT !.pending = @ \ {c}]) PROVE Goal
    <3> DEFINE r == [cli[p] EXCEPT !.pending = @ \ {c}]
    <3>1. cli'[p] = r
      BY <2>1, Became
    <3>2. r.group = cli[p].group /\ r.stack = cli[p].stack
      BY Stay DEF Proc, Process
    <3> HIDE DEF r
    <3> QED
      BY <3>1, <3>2, SameMembers DEF Goal
  <2> QED
    BY <1>1, <1>3, <2>1 DEF RunChain, Perform
<1>4. CASE RmRemove(p)
  <2>1. ASSUME Become(p, [cli[p] EXCEPT !.pc = "rm", !.todo = Tail(@), !.group = <<>>]) PROVE Goal
    <3> DEFINE r == [cli[p] EXCEPT !.pc = "rm", !.todo = Tail(@), !.group = <<>>]
    <3>1. cli'[p] = r
      BY <2>1, Became
    <3>2. r.group = <<>> /\ r.stack = cli[p].stack
      BY Stay DEF Proc, Process
    <3> HIDE DEF r
    <3> QED
      BY <3>1, <3>2, SameMembers DEF Goal
  <2> QED
    BY <1>1, <1>4, <2>1 DEF RmRemove, Perform
<1>5. CASE Built(p)
  BY <1>1, <1>5 DEF Built, Look
<1>6. CASE RunNext(p)
  BY <1>1, <1>6 DEF RunNext, Perform
<1>7. CASE Kill(p) \/ KillStop(p) \/ KillRemove(p)
  BY <1>1, <1>7 DEF Kill, KillStop, KillRemove, KillOn, Stopped, Look, Perform
<1>8. CASE ExecRun(p) \/ UpdateRebuild(p) \/ RenameContainer(p) \/ RenameWrite(p) \/ RenameData(p)
  BY <1>1, <1>8 DEF ExecRun, UpdateRebuild, RenameContainer, RenameWrite, RenameData, Perform
<1>9. CASE New(p) \/ Edit(p) \/ Import(p) \/ RenameFile(p) \/ Checkout(p)
  BY <1>1, <1>9 DEF New, Edit, Import, RenameFile, Checkout, Write
<1> QED
  BY <1>2, <1>3, <1>4, <1>5, <1>6, <1>7, <1>8, <1>9 DEF ServiceStep

LEMMA PackageMembers ==
  ASSUME PackInv, NEW p \in Procs, PackageStep(p)
  PROVE  \A m \in MembersOf(cli'[p]) : Descends(p, m)
<1> DEFINE Goal == \A m \in MembersOf(cli'[p]) : Descends(p, m)
<1>1. /\ \A r : End(p, r) => Goal
      /\ Fail(p) => Goal
      /\ \A l, r : Leap(p, l, r) => Goal
      /\ \A l : Goto(p, l) => Goal
  BY EndMembers, FailMembers, LeapMembers, GotoMembers
<1> SUFFICES Goal
  OBVIOUS
<1> HIDE DEF Goal
<1>2. CASE Boot(p) \/ BootKeys(p) \/ BootRun(p)
  BY <1>1, <1>2 DEF Boot, BootKeys, BootRun, StartKeys, Perform
<1>3. CASE Throw(p) \/ ThrowImport(p) \/ ThrowKeys(p) \/ ThrowRun(p)
  BY <1>1, <1>3 DEF Throw, ThrowImport, ThrowKeys, ThrowRun, StartKeys, Perform
<1>4. CASE ThrowRemove(p) \/ ThrowStart(p) \/ ThrowStartRun(p)
  BY <1>1, <1>4 DEF ThrowRemove, ThrowStart, ThrowStartRun, StartKeys, Perform
<1>5. CASE Define(p) \/ DefineImport(p) \/ PerformTask(p) \/ Steps(p)
  BY <1>1, <1>5 DEF Define, DefineImport, PerformTask, Steps, Look, Perform
<1>6. CASE Clean(p) \/ CleanRemove(p) \/ CleanDirs(p)
  BY <1>1, <1>6 DEF Clean, CleanRemove, CleanDirs, Perform
<1>7. CASE CleanExport(p) \/ CleanData(p) \/ CleanContainer(p)
  BY <1>1, <1>7 DEF CleanExport, CleanData, CleanContainer, Leave, Perform
<1> QED
  BY <1>2, <1>3, <1>4, <1>5, <1>6, <1>7 DEF PackageStep

LEMMA StepMembers ==
  ASSUME PackInv, NEW p \in Procs, Step(p)
  PROVE  \A m \in MembersOf(cli'[p]) : Descends(p, m)
BY ServiceMembers, PackageMembers DEF Step

\* What happens to the other processes, and to the command.
LEMMA BeginMembers ==
  ASSUME PackInv, NEW p \in Procs, BeginCommand(p)
  PROVE  /\ MembersOf(cli'[p]) = {} /\ \A q \in Procs \ {p} : cli'[q] = cli[q]
         /\ UNCHANGED <<containers, defs, chains, dirs>> /\ At(p, "idle")
         /\ cli'[p].cmd \in Commands[p] /\ cli'[p].pc \in {"build", cli'[p].cmd.kind}
<1>1. PICK c \in Commands[p] :
        cli' = [cli EXCEPT ![p] =
                 [Idle("none") EXCEPT !.pc = IF c.kind \in {"start", "stop", "package", "action"}
                                             THEN "build" ELSE c.kind,
                                      !.cmd = c, !.todo = c.args]]
  BY DEF BeginCommand, Begin
<1> DEFINE r == [Idle("none") EXCEPT !.pc = IF c.kind \in {"start", "stop", "package", "action"} THEN "build" ELSE c.kind,
                                     !.cmd = c, !.todo = c.args]
<1>2. r.group = <<>> /\ r.stack = <<>> /\ r.cmd = c /\ r.pc \in {"build", c.kind}
  BY DEF Idle
<1>3. cli'[p] = r /\ \A q \in Procs \ {p} : cli'[q] = cli[q]
  BY <1>1 DEF PackInv, TypeOK
<1> HIDE DEF r
<1>4. MembersOf(cli'[p]) = {}
  BY <1>2, <1>3 DEF MembersOf
<1>5. UNCHANGED <<containers, defs, chains, dirs>> /\ At(p, "idle")
  BY DEF BeginCommand, Begin, Keeps, disk
<1> QED
  BY <1>2, <1>3, <1>4, <1>5

-----------------------------------------------------------------------------
\* The containers

\* The container of a service is created.
Emerges(x) == containers[Service(x)] = "none" /\ containers'[Service(x)] # "none"

LEMMA ThreePlaces ==
  ASSUME NEW x \in Shorts, NEW y \in Shorts
  PROVE  /\ Service(x) \in Named /\ Chain(x) \in Named /\ Data(x) \in Named
         /\ Service(x).type = "service" /\ Chain(x).type = "chain" /\ Data(x).type = "data"
         /\ Service(x).short = x /\ Chain(x).short = x /\ Data(x).short = x
         /\ ToDataContainer(Service(x)) = Data(x) /\ ToDataContainer(Chain(x)) = Data(x)
         /\ (Service(x) = Service(y) => x = y) /\ Service(x) \notin {Chain(y), Data(y)} /\ Chain(x) # Data(y)
<1>1. 1 \in Numbers
  BY Names
<1>2. /\ Service(x) \in Named /\ Chain(x) \in Named /\ Data(x) \in Named
      /\ Service(x).type = "service" /\ Chain(x).type = "chain" /\ Data(x).type = "data"
      /\ Service(x).short = x /\ Chain(x).short = x /\ Data(x).short = x
      /\ ToDataContainer(Service(x)) = Data(x) /\ ToDataContainer(Chain(x)) = Data(x)
  BY <1>1, Assembled
<1>3. Service(y).short = y /\ Chain(y).type = "chain" /\ Data(y).type = "data"
  BY <1>1, Assembled
<1> QED
  BY <1>2, <1>3

LEMMA NoneEmerges ==
  ASSUME PackInv, NEW x \in ServiceNames, NEW S, Service(x) \notin S,
         \E o \in Within(containers, S) \cup Adding(containers, S) : containers' = o.left
  PROVE  ~Emerges(x)
<1>1. Service(x) \in Named
  BY Names, ThreePlaces
<1> QED
  BY <1>1 DEF Within, Adding, Emerges

LEMMA RunEmerges ==
  ASSUME PackInv, NEW x \in ServiceNames, NEW n \in Named, NEW b \in BOOLEAN, NEW links,
         \E o \in RunService(containers, n, b, links) : containers' = o.left, Emerges(x)
  PROVE  n = Service(x)
<1>1. containers \in Containers
  BY DEF PackInv, TypeOK
<1>2. \E o \in Within(containers, {n, ToDataContainer(n)}) : containers' = o.left
  BY <1>1, RunServiceOutcome
<1>3. Service(x) # ToDataContainer(n)
  BY NamedTypes, Names, ThreePlaces
<1> QED
  BY <1>2, <1>3, NoneEmerges

\* Whatever else is done, no service container is created.
LEMMA OthersEmerge ==
  ASSUME PackInv, NEW x \in ServiceNames, NEW n \in Named, NEW b \in BOOLEAN, NEW links, NEW y \in Shorts,
         \/ \E o \in ExecService(containers, n, b, links) : containers' = o.left
         \/ \E o \in Stop(containers, n) : containers' = o.left
         \/ \E o \in Remove(containers, n, b) : containers' = o.left
         \/ \E o \in Rebuild(containers, n, links) : containers' = o.left
         \/ \E o \in RemoveNameless(containers, b) : containers' = o.left
         \/ \E o \in RemoveWithAnyData(containers, n) : containers' = o.left
         \/ \E o \in CreateData(containers, y) \cup ImportData(containers, y) : containers' = o.left
  PROVE  ~Emerges(x)
<1>1. containers \in Containers /\ 1 \in Numbers
  BY Names DEF PackInv, TypeOK
<1>2. Service(x) \notin {ToDataContainer(n)} /\ Service(x) \notin {Data(y)} /\ Service(x) \notin {}
  BY NamedTypes, Names, ThreePlaces
<1>3. ExecService(containers, n, b, links) \subseteq Within(containers, {ToDataContainer(n)})
  BY <1>1, ExecServiceOutcome
<1>4. Stop(containers, n) \cup Remove(containers, n, b) \cup Rebuild(containers, n, links) \subseteq Adding(containers, {})
  BY <1>1, StopOutcome, RemoveOutcome, RebuildOutcome
<1>5. RemoveNameless(containers, b) \cup RemoveWithAnyData(containers, n) \subseteq Adding(containers, {})
  BY <1>1, NamelessOutcome
<1>6. CreateData(containers, y) \cup ImportData(containers, y) \subseteq Within(containers, {Data(y)})
  BY <1>1, CreateDataOutcome
<1> QED
  BY <1>2, <1>3, <1>4, <1>5, <1>6, NoneEmerges

LEMMA RenameNames ==
  ASSUME PackInv, NEW p \in Procs, cli[p].pc \in RenamePlaces
  PROVE  /\ cli[p].cmd.kind = "rename" /\ cli[p].idx = 1 /\ Current(p) \in MembersOf(cli[p])
         /\ Current(p).of = Service(Arg(p)) /\ Arg(p) # NewName(p)
         /\ Arg(p) \in ServiceNames /\ NewName(p) \in ServiceNames
<1>1. /\ cli[p].cmd.kind = "rename" /\ cli[p].idx = 1 /\ cli[p].group # <<>>
      /\ Current(p).of = Service(Arg(p)) /\ Arg(p) # NewName(p)
  BY Stay DEF Fine, Current, Arg, NewName
<1>2. 1 \in DOMAIN cli[p].group
  BY <1>1, Here, EmptySeq
<1>3. cli[p].pc # "idle"
  BY DEF RenamePlaces
<1> QED
  BY <1>1, <1>2, <1>3, CommandOK DEF Current, MembersOf, Arg, NewName

LEMMA ServiceEmerges ==
  ASSUME PackInv, NEW p \in Procs, ServiceStep(p), NEW x \in ServiceNames, Emerges(x)
  PROVE  \/ At(p, "run") /\ Current(p).of = Service(x)
         \/ At(p, "renameContainer") /\ cli'[p].pc = "renameWrite" /\ x = NewName(p)
<1> DEFINE q == cli[p]
<1>1. \A n \in Named : Has(p, "data") \in BOOLEAN /\ x \in Shorts
  BY Names DEF Has
<1>2. UNCHANGED containers => FALSE
  BY DEF Emerges
<1>3. ASSUME RunChain(p) PROVE FALSE
  <2>1. PICK c \in q.pending : \E o \in RunService(containers, Chain(c), TRUE, {Service(Keys)}) : containers' = o.left
    BY <1>3 DEF RunChain, Perform
  <2>2. c \in Shorts
    BY Here, Names
  <2>3. Chain(c) \in Named /\ Service(x) # Chain(c)
    BY <1>1, <2>2, Names, ThreePlaces
  <2> QED
    BY <2>1, <2>3, RunEmerges
<1>4. CASE RunNext(p)
  <2>1. At(p, "run") /\ \E o \in RunService(containers, Current(p).of, Current(p).def.data, Current(p).links) : containers' = o.left
    BY <1>4 DEF RunNext, Perform
  <2>2. Current(p).of \in Named /\ Current(p).def.data \in BOOLEAN
    BY <2>1, CurrentTouched DEF At, Ready
  <2> QED
    BY <2>1, <2>2, RunEmerges
<1>5. ASSUME ExecRun(p) \/ UpdateRebuild(p) \/ Kill(p) \/ KillStop(p) \/ KillRemove(p) \/ RmRemove(p) PROVE FALSE
  <2>1. q.pc \in Ready \cup RenamePlaces \cup {"execRun", "updateRebuild", "rmRemove"}
    BY <1>5 DEF ExecRun, UpdateRebuild, Kill, KillStop, KillRemove, RmRemove, Look, At, Ready
  <2>2. \/ \E o \in ExecService(containers, Current(p).of, Current(p).def.data, Current(p).links) : containers' = o.left
        \/ \E o \in Rebuild(containers, Current(p).of, Current(p).links) : containers' = o.left
        \/ \E o \in Stop(containers, Current(p).of) : containers' = o.left
        \/ \E o \in Removed(Current(p), Has(p, "data")) : containers' = o.left
        \/ UNCHANGED containers
    BY <1>5 DEF ExecRun, UpdateRebuild, Kill, KillStop, KillRemove, RmRemove, Look, Perform
  <2>3. Current(p).of \in Named /\ Current(p).def.data \in BOOLEAN
    BY <2>1, CurrentTouched
  <2> QED
    BY <1>1, <1>2, <2>2, <2>3, OthersEmerge DEF Removed
<1>6. CASE RenameContainer(p) \/ RenameData(p)
  <2>1. q.pc \in RenamePlaces
    BY <1>6 DEF RenameContainer, RenameData, At, RenamePlaces
  <2>2. /\ Current(p).of = Service(Arg(p)) /\ Arg(p) # NewName(p) /\ Arg(p) \in Shorts /\ NewName(p) \in Shorts
    BY <2>1, RenameNames, Names
  <2>3. containers \in Containers
    BY DEF PackInv, TypeOK
  <2>4. CASE RenameContainer(p)
    <3> DEFINE outcomes == Rename(containers, Current(p).of, Service(NewName(p)), Current(p).links)
    <3>1. /\ Service(Arg(p)) \in Named /\ Service(NewName(p)) \in Named /\ Service(Arg(p)) # Service(NewName(p))
          /\ (x # NewName(p) => Service(x) # Service(NewName(p)))
      BY <1>1, <2>2, ThreePlaces
    <3>2. outcomes \subseteq Adding(containers, {Service(NewName(p))}) /\ \A o \in outcomes : ~o.ok => o \in Adding(containers, {})
      BY <2>2, <2>3, <3>1, RenameOutcome
    <3>3. PICK o \in outcomes : containers' = o.left /\ (o.ok => Goto(p, "renameWrite"))
      BY <2>4 DEF RenameContainer, Perform
    <3>4. x = NewName(p) /\ o.ok
      BY <3>1, <3>2, <3>3, NoneEmerges
    <3>5. [q EXCEPT !.pc = "renameWrite"].pc = "renameWrite"
      BY Stay, Placed DEF Labels
    <3>6. cli'[p].pc = "renameWrite"
      BY <3>3, <3>4, <3>5, Became DEF Goto
    <3> QED
      BY <2>4, <3>4, <3>6 DEF RenameContainer
  <2>5. CASE RenameData(p)
    <3>1. /\ Data(Arg(p)) \in Named /\ Data(NewName(p)) \in Named /\ Data(Arg(p)) # Data(NewName(p))
          /\ Service(x) # Data(NewName(p))
      BY <1>1, <2>2, ThreePlaces
    <3>2. Rename(containers, Data(Arg(p)), Data(NewName(p)), {}) \subseteq Adding(containers, {Data(NewName(p))})
      BY <2>3, <3>1, RenameOutcome
    <3>3. \E o \in Rename(containers, Data(Arg(p)), Data(NewName(p)), {}) : containers' = o.left
      BY <2>5 DEF RenameData, Perform
    <3> QED
      BY <3>1, <3>2, <3>3, NoneEmerges
  <2> QED
    BY <1>6, <2>4, <2>5
<1>7. ASSUME Visit(p) \/ Return(p) \/ Built(p) \/ Connect(p) \/ Exec(p) \/ Update(p) \/ RenameService(p) \/ Rm(p) PROVE FALSE
  BY <1>2, <1>7 DEF Visit, Return, Built, Connect, Exec, Update, RenameService, Rm, LoadOne, Load, Look
<1>8. ASSUME New(p) \/ Edit(p) \/ Import(p) \/ RenameWrite(p) \/ RenameFile(p) \/ Checkout(p) PROVE FALSE
  BY <1>2, <1>8 DEF New, Edit, Import, RenameWrite, RenameFile, Checkout, Write
<1> QED
  BY <1>3, <1>4, <1>5, <1>6, <1>7, <1>8 DEF ServiceStep

LEMMA PackageEmerges ==
  ASSUME PackInv, NEW p \in Procs, PackageStep(p), NEW x \in ServiceNames, Emerges(x)
  PROVE  Kind(p) = "package" /\ defs[x].file = "good"
<1> DEFINE q == cli[p]
<1>1. q \in Proc /\ Fine(p, q) /\ Known(q, app[p]) /\ x \in Shorts
  BY Stay, Names
<1>2. UNCHANGED containers => FALSE
  BY DEF Emerges
<1>3. ASSUME Boot(p) \/ Define(p) \/ CleanDirs(p) \/ CleanExport(p) \/ CleanData(p) \/ Steps(p) PROVE FALSE
  BY <1>2, <1>3 DEF Boot, Define, CleanDirs, CleanExport, CleanData, Steps, Look
<1>4. CASE BootKeys(p) \/ ThrowKeys(p) \/ ThrowStart(p)
  <2>1. q.pc \in PackageLabels \ {"steps"}
    BY <1>4 DEF BootKeys, ThrowKeys, ThrowStart, StartKeys, At, PackageLabels
  <2>2. /\ defs[Keys].file = "good"
        /\ \E o \in RunService(containers, Service(Keys), Loaded(Keys).def.data, Loaded(Keys).links) : containers' = o.left
    BY <1>2, <1>4 DEF BootKeys, ThrowKeys, ThrowStart, StartKeys, Perform
  <2>3. Keys \in ServiceNames
    BY ServicesAssumption DEF ServicesAssumption
  <2>4. Loaded(Keys).def.data \in BOOLEAN /\ Service(Keys) \in Named
    BY <2>3, LoadedOK, Names, ThreePlaces DEF Definition
  <2>5. Service(x) = Service(Keys)
    BY <2>2, <2>4, RunEmerges
  <2>6. x = Keys
    BY <1>1, <2>3, <2>5, Names, ThreePlaces
  <2> QED
    BY <1>1, <2>1, <2>2, <2>6 DEF Fine, Kind
<1>5. ASSUME NEW c \in Shorts, NEW links, \E o \in RunService(containers, Chain(c), TRUE, links) : containers' = o.left PROVE FALSE
  <2>1. Chain(c) \in Named /\ Service(x) # Chain(c)
    BY <1>1, ThreePlaces
  <2> QED
    BY <1>5, <2>1, RunEmerges
<1>6. ASSUME BootRun(p) PROVE FALSE
  <2>1. app[p].chain \in Shorts
    BY <1>1, <1>6, Names DEF BootRun, At, Known
  <2> QED
    BY <1>5, <1>6, <2>1 DEF BootRun, Perform
<1>7. ASSUME Throw(p) \/ ThrowImport(p) \/ ThrowRun(p) \/ ThrowRemove(p) \/ ThrowStartRun(p) PROVE FALSE
  <2>1. app[p].made \in Shorts
    BY <1>1, <1>7, Names DEF Throw, ThrowImport, ThrowRun, ThrowRemove, ThrowStartRun, At, Known, ThrowPlaces
  <2>2. \/ \E o \in CreateData(containers, app[p].made) \cup ImportData(containers, app[p].made) : containers' = o.left
        \/ \E o \in RunService(containers, Chain(app[p].made), TRUE, {Service(Keys)}) : containers' = o.left
        \/ \E o \in Remove(containers, Chain(app[p].made), Has(p, "data")) : containers' = o.left
    BY <1>7 DEF Throw, ThrowImport, ThrowRun, ThrowRemove, ThrowStartRun, Perform
  <2>3. Chain(app[p].made) \in Named /\ Has(p, "data") \in BOOLEAN
    BY <2>1, ThreePlaces DEF Has
  <2> QED
    BY <1>5, <2>1, <2>2, <2>3, OthersEmerge
<1>8. App \in Shorts /\ Service(App) \in Named /\ Data(App) \in Named
  BY Names, ThreePlaces
<1>9. ASSUME DefineImport(p) \/ PerformTask(p) \/ CleanContainer(p) PROVE FALSE
  <2>1. \/ \E o \in CreateData(containers, App) \cup ImportData(containers, App) : containers' = o.left
        \/ \E o \in ExecService(containers, Service(App), TRUE, {ChainLink(p), Service(Keys)}) : containers' = o.left
        \/ \E o \in Remove(containers, Data(App), FALSE) : containers' = o.left
        \/ \E o \in RemoveNameless(containers, FALSE) : containers' = o.left
        \/ UNCHANGED containers
    BY <1>9 DEF DefineImport, PerformTask, CleanContainer, Perform
  <2> QED
    BY <1>2, <1>8, <2>1, OthersEmerge
<1>10. ASSUME Clean(p) \/ CleanRemove(p) PROVE FALSE
  <2>1. \/ UNCHANGED containers
        \/ /\ app[p].chain \in Shorts
           /\ \/ \E o \in Stop(containers, Chain(app[p].chain)) : containers' = o.left
              \/ \E o \in Remove(containers, Chain(app[p].chain), TRUE) : containers' = o.left
    <3>1. app[p].type = "throwaway" => app[p].made \in ThrowAways /\ app[p].chain \in {Blank, Keys, app[p].made}
      BY <1>1 DEF Known
    <3>2. app[p].chain \in chains => app[p].chain \in Shorts
      BY Names DEF PackInv, TypeOK
    <3>3. CASE Clean(p)
      BY <3>2, <3>3 DEF Clean, Perform
    <3>4. CASE CleanRemove(p)
      BY <1>1, <3>1, <3>4, Names DEF CleanRemove, Perform, At, Known
    <3> QED
      BY <1>10, <3>3, <3>4
  <2>2. app[p].chain \in Shorts => Chain(app[p].chain) \in Named
    BY ThreePlaces
  <2> QED
    BY <1>2, <1>8, <2>1, <2>2, OthersEmerge
<1> QED
  BY <1>3, <1>4, <1>6, <1>7, <1>9, <1>10 DEF PackageStep

-----------------------------------------------------------------------------
\* The definition files

LEMMA PackageDefs == ASSUME NEW p, PackageStep(p) PROVE UNCHANGED <<defs, head>>
<1>1. CASE Boot(p) \/ BootKeys(p) \/ BootRun(p)
  BY <1>1 DEF Boot, BootKeys, BootRun, StartKeys, Perform, disk
<1>2. CASE Throw(p) \/ ThrowImport(p) \/ ThrowKeys(p) \/ ThrowRun(p)
  BY <1>2 DEF Throw, ThrowImport, ThrowKeys, ThrowRun, StartKeys, Perform, disk
<1>3. CASE ThrowRemove(p) \/ ThrowStart(p) \/ ThrowStartRun(p)
  BY <1>3 DEF ThrowRemove, ThrowStart, ThrowStartRun, StartKeys, Perform, disk
<1>4. CASE Define(p) \/ DefineImport(p) \/ PerformTask(p) \/ Steps(p)
  BY <1>4 DEF Define, DefineImport, PerformTask, Steps, Look, Perform, disk
<1>5. CASE Clean(p) \/ CleanRemove(p) \/ CleanDirs(p)
  BY <1>5 DEF Clean, CleanRemove, CleanDirs, Perform, disk
<1>6. CASE CleanExport(p) \/ CleanData(p) \/ CleanContainer(p)
  BY <1>6 DEF CleanExport, CleanData, CleanContainer, Perform, disk
<1> QED
  BY <1>1, <1>2, <1>3, <1>4, <1>5, <1>6 DEF PackageStep

\* Only a rename takes away a file.
LEMMA FilesStay ==
  ASSUME PackInv, NEW p \in Procs, Step(p), \A m \in MembersOf(cli[p]) : FromFile(m),
         NEW x \in ServiceNames, defs[x].file # "none", defs'[x].file = "none"
  PROVE  At(p, "renameFile") /\ x = Arg(p)
<1> DEFINE q == cli[p]
<1>1. defs \in [ServiceNames -> Definition]
  BY DEF PackInv, TypeOK
<1>2. UNCHANGED defs => FALSE
  OBVIOUS
<1>3. ASSUME NEW y, NEW d, defs' = [defs EXCEPT ![y] = d], d.file # "none" \/ d = defs[y] PROVE FALSE
  <2>1. CASE y = x
    BY <1>1, <1>3, <2>1
  <2>2. CASE y # x
    BY <1>1, <1>3, <2>2
  <2> QED
    BY <2>1, <2>2
<1>4. NewFile.file # "none" /\ BadFile.file # "none"
  BY DEF NewFile, BadFile, NoFile
<1>5. ASSUME New(p) PROVE FALSE
  BY <1>3, <1>4, <1>5 DEF New, Write
<1>6. ASSUME Edit(p) \/ Import(p) PROVE FALSE
  <2>1. q.pc \in {"edit", "import"}
    BY <1>6 DEF Edit, Import, At
  <2>2. Arg(p) \in ServiceNames
    <3>1. q.pc # "idle" /\ q.cmd.kind \notin GroupKinds \cup {"checkout"}
      BY <2>1, Stay DEF Fine, Single
    <3> QED
      BY <3>1, CommandOK DEF Arg, GroupKinds
  <2>3. \A d \in Drafts[Arg(p)] : d.file # "none"
    BY <2>2, ServicesAssumption DEF ServicesAssumption
  <2>4. CASE Edit(p) /\ defs[Arg(p)].file = "none"
    <3>1. defs' = [defs EXCEPT ![Arg(p)] = NoFile]
      BY <2>4 DEF Edit, Write
    <3>2. Arg(p) # x
      BY <2>4
    <3> QED
      BY <1>1, <3>1, <3>2
  <2>5. CASE Edit(p) /\ defs[Arg(p)].file # "none"
    BY <1>3, <2>3, <2>5 DEF Edit, Write
  <2>6. CASE Import(p)
    BY <1>3, <1>4, <2>3, <2>6 DEF Import, Write
  <2> QED
    BY <1>6, <2>4, <2>5, <2>6
<1>7. ASSUME RenameWrite(p) PROVE FALSE
  <2>1. q.pc \in RenamePlaces
    BY <1>7 DEF RenameWrite, At, RenamePlaces
  <2>2. Current(p).def.file = "good" /\ Current(p).def \in Definition
    BY <2>1, RenameNames, CurrentTouched DEF FromFile
  <2>3. AsLoaded(Current(p).def).file # "none"
    BY <2>2 DEF AsLoaded, Definition
  <2> QED
    BY <1>3, <1>7, <2>3 DEF RenameWrite
<1>8. CASE RenameFile(p)
  <2>1. defs' = [defs EXCEPT ![Arg(p)] = NoFile] /\ At(p, "renameFile")
    BY <1>8 DEF RenameFile, Write
  <2> QED
    BY <1>1, <2>1
<1>9. ASSUME Visit(p) \/ Return(p) \/ Built(p) \/ Connect(p) \/ Exec(p) \/ Update(p) \/ RenameService(p) \/ Rm(p) PROVE FALSE
  BY <1>2, <1>9 DEF Visit, Return, Built, Connect, Exec, Update, RenameService, Rm, LoadOne, Load, Look, disk
<1>10. ASSUME RunChain(p) \/ RunNext(p) \/ ExecRun(p) \/ UpdateRebuild(p) \/ RenameContainer(p) \/ RenameData(p) PROVE FALSE
  BY <1>2, <1>10 DEF RunChain, RunNext, ExecRun, UpdateRebuild, RenameContainer, RenameData, Perform, disk
<1>11. ASSUME Kill(p) \/ KillStop(p) \/ KillRemove(p) \/ RmRemove(p) \/ Checkout(p) PROVE FALSE
  BY <1>2, <1>11 DEF Kill, KillStop, KillRemove, RmRemove, Checkout, Look, Perform, disk
<1>12. ASSUME PackageStep(p) PROVE FALSE
  BY <1>2, <1>12, PackageDefs
<1> QED
  BY <1>5, <1>6, <1>7, <1>8, <1>9, <1>10, <1>11, <1>12 DEF Step, ServiceStep

-----------------------------------------------------------------------------
\* The command of a process, the way through a rename, and the open calls

StartPlaces == {"connect", "run"}
FilePlaces  == {"new", "edit", "import"}

\* The places a process may go to, and that it does its command until it ends.
May(p, l) ==
  /\ l \in RenamePlaces => cli[p].pc \in RenamePlaces \cup {"rename"}
  /\ l \in StartPlaces => cli[p].pc \in StartPlaces \/ (At(p, "build") /\ Kind(p) # "stop")
  /\ l = "build" => At(p, "build")
  /\ l \notin FilePlaces

\* A visit finds Go's stack exhausted.
TooDeep(p) == Visit(p) /\ At(p, "build") /\ Len(cli[p].stack) >= MaxDepth

Kept(p) ==
  /\ cli'[p].cmd \in {cli[p].cmd, NoCommand} /\ May(p, cli'[p].pc)
  /\ cli'[p].stack \in {cli[p].stack, <<>>} \/ Visit(p) \/ Return(p)
  /\ cli'[p].res \in {cli[p].res, "none", "ok", "err"} \/ (TooDeep(p) /\ cli'[p].pc = "idle")

LEMMA Keeping ==
  ASSUME PackInv, NEW p \in Procs, NEW r, Become(p, r), r.cmd \in {cli[p].cmd, NoCommand}, May(p, r.pc),
         r.stack \in {cli[p].stack, <<>>} \/ Visit(p) \/ Return(p),
         r.res \in {cli[p].res, "none", "ok", "err"} \/ (TooDeep(p) /\ r.pc = "idle")
  PROVE  Kept(p)
BY Became DEF Kept

LEMMA EndKept ==
  ASSUME PackInv, NEW p \in Procs, NEW r, End(p, r), r \in {cli[p].res, "none", "ok", "err"} \/ TooDeep(p)
  PROVE  Kept(p)
<1>1. Idle(r).cmd = NoCommand /\ May(p, Idle(r).pc) /\ Idle(r).stack = <<>> /\ Idle(r).res = r /\ Idle(r).pc = "idle"
  BY DEF Idle, RenamePlaces, StartPlaces, FilePlaces, May, At
<1> QED
  BY <1>1, Keeping DEF End

LEMMA LeapKept ==
  ASSUME PackInv, NEW p \in Procs, NEW l, May(p, l), NEW r \in {cli[p].res, "none", "ok", "err"}, Leap(p, l, r)
  PROVE  Kept(p)
<1> DEFINE q == [Idle(r) EXCEPT !.pc = l, !.cmd = cli[p].cmd]
<1>1. q.cmd = cli[p].cmd /\ q.pc = l /\ q.stack = <<>> /\ q.res = r
  BY DEF Idle
<1>2. Become(p, q)
  BY DEF Leap
<1> HIDE DEF q
<1> QED
  BY <1>1, <1>2, Keeping

LEMMA FailKept == ASSUME PackInv, NEW p \in Procs, Fail(p) PROVE Kept(p)
<1>1. May(p, "clean")
  BY DEF May, RenamePlaces, StartPlaces, FilePlaces, At
<1> QED
  BY <1>1, EndKept, LeapKept DEF Fail

LEMMA GotoKept ==
  ASSUME PackInv, NEW p \in Procs, NEW l, Goto(p, l) \/ Advance(p, l), May(p, l)
  PROVE  Kept(p)
<1>1. \A r \in {[cli[p] EXCEPT !.pc = l], [cli[p] EXCEPT !.pc = l, !.idx = @ + 1]} :
        r.cmd = cli[p].cmd /\ r.pc = l /\ r.stack = cli[p].stack /\ r.res = cli[p].res
  BY Stay DEF Proc, Process
<1> QED
  BY <1>1, Keeping DEF Goto, Advance

LEMMA HoldingKept ==
  ASSUME PackInv, NEW p \in Procs, NEW l, NEW g, Become(p, Holding(cli[p], l, g)), May(p, l)
  PROVE  Kept(p)
<1>1. /\ Holding(cli[p], l, g).cmd = cli[p].cmd /\ Holding(cli[p], l, g).pc = l
      /\ Holding(cli[p], l, g).stack = cli[p].stack /\ Holding(cli[p], l, g).res = cli[p].res
  BY Stay DEF Proc, Process, Holding
<1> QED
  BY <1>1, Keeping

LEMMA ServiceKept == ASSUME PackInv, NEW p \in Procs, ServiceStep(p) PROVE Kept(p)
<1>1. /\ \A r \in {cli[p].res, "ok", "err"} : End(p, r) => Kept(p)
      /\ Fail(p) => Kept(p)
      /\ \A l \in {"boot", "steps"} : \A r \in {"none", "ok", "err"} : Leap(p, l, r) => Kept(p)
      /\ \A l \in {"kill", "killStop", "killRemove", "boot", "steps"} : (Goto(p, l) => Kept(p)) /\ (Advance(p, l) => Kept(p))
  BY EndKept, FailKept, LeapKept, GotoKept DEF May, RenamePlaces, StartPlaces, FilePlaces, At
<1>2. \A l \in {"execRun", "updateRebuild", "rmRemove"} : \A g : Become(p, Holding(cli[p], l, g)) => Kept(p)
  BY HoldingKept DEF May, RenamePlaces, StartPlaces, FilePlaces, At
<1>3. ASSUME NEW r, Become(p, r), r.cmd = cli[p].cmd, May(p, r.pc),
             r.stack = cli[p].stack \/ Visit(p) \/ Return(p), r.res = cli[p].res
      PROVE  Kept(p)
  BY <1>3, Keeping
<1>4. CASE Visit(p)
  <2>1. ASSUME NEW f, Become(p, Called(p, f)), cli[p].pc = "build" PROVE Kept(p)
    <3>1. Called(p, f).cmd = cli[p].cmd /\ Called(p, f).pc = "build" /\ Called(p, f).res = cli[p].res
      BY <2>1, Stay DEF Called, Proc, Process
    <3> QED
      BY <1>3, <1>4, <2>1, <3>1 DEF May, RenamePlaces, StartPlaces, FilePlaces, At
  <2>2. End(p, "overflow") /\ Len(cli[p].stack) >= MaxDepth => Kept(p)
    <3>1. At(p, "build")
      BY <1>4 DEF Visit, Look
    <3> QED
      BY <1>4, <3>1, EndKept DEF TooDeep
  <2> QED
    BY <1>1, <1>4, <2>1, <2>2 DEF Visit, Look, At
<1>5. CASE Return(p)
  <2> DEFINE r == [cli[p] EXCEPT !.group = Append(@, Head(cli[p].stack).srv), !.stack = Tail(@)]
  <2>1. r.cmd = cli[p].cmd /\ r.pc = cli[p].pc /\ r.res = cli[p].res
    BY Stay DEF Proc, Process
  <2>2. Become(p, r) /\ cli[p].pc = "build"
    BY <1>5 DEF Return, Look, At
  <2> HIDE DEF r
  <2> QED
    BY <1>3, <1>5, <2>1, <2>2 DEF May, RenamePlaces, StartPlaces, FilePlaces, At
<1>6. CASE Connect(p)
  <2> DEFINE q == cli[p]
             c == ChosenChain(p, Current(p).def.chain)
             n == [q EXCEPT !.group[q.idx].links = @ \cup {Chain(c)}, !.pending = @ \cup {c}]
  <2>1. cli[p].pc = "connect"
    BY <1>6 DEF Connect, Look, At
  <2>2. n.cmd = q.cmd /\ n.pc = q.pc /\ n.idx = q.idx /\ n.stack = q.stack /\ n.res = q.res
    BY Stay DEF Proc, Process
  <2>3. \A r \in {[q EXCEPT !.pc = "run", !.idx = 1], [q EXCEPT !.idx = @ + 1]} :
          r.cmd = q.cmd /\ r.pc \in {"run", q.pc} /\ r.stack = q.stack /\ r.res = q.res
    BY Stay DEF Proc, Process
  <2>4. \A r \in {[n EXCEPT !.pc = "run", !.idx = 1], [n EXCEPT !.idx = @ + 1]} :
          r.cmd = q.cmd /\ r.pc \in {"run", q.pc} /\ r.stack = q.stack /\ r.res = q.res
    <3>1. DOMAIN n = {"pc", "cmd", "todo", "stack", "group", "idx", "pending", "res"}
      BY Stay DEF Proc, Process
    <3> HIDE DEF n
    <3>2. ASSUME NEW i PROVE LET r == [n EXCEPT !.pc = "run", !.idx = i] IN
            r.cmd = q.cmd /\ r.pc = "run" /\ r.stack = q.stack /\ r.res = q.res
      BY <2>2, <3>1
    <3>3. ASSUME NEW i PROVE LET r == [n EXCEPT !.idx = i] IN
            r.cmd = q.cmd /\ r.pc = q.pc /\ r.stack = q.stack /\ r.res = q.res
      BY <2>2, <3>1
    <3> QED
      BY <3>2, <3>3
  <2>5. \/ \E r \in {[q EXCEPT !.pc = "run", !.idx = 1], [q EXCEPT !.idx = @ + 1]} : Become(p, r)
        \/ End(p, "err")
        \/ \E r \in {[n EXCEPT !.pc = "run", !.idx = 1], [n EXCEPT !.idx = @ + 1]} : Become(p, r)
    BY <1>6 DEF Connect, Look
  <2> HIDE DEF n
  <2> QED
    BY <1>1, <1>3, <2>1, <2>3, <2>4, <2>5 DEF May, RenamePlaces, StartPlaces, FilePlaces, At
<1>7. CASE RunChain(p)
  <2>1. ASSUME NEW c, Become(p, [cli[p] EXCEPT !.pending = @ \ {c}]), cli[p].pc = "run" PROVE Kept(p)
    <3>1. /\ [cli[p] EXCEPT !.pending = @ \ {c}].cmd = cli[p].cmd /\ [cli[p] EXCEPT !.pending = @ \ {c}].pc = cli[p].pc
          /\ [cli[p] EXCEPT !.pending = @ \ {c}].stack = cli[p].stack
          /\ [cli[p] EXCEPT !.pending = @ \ {c}].res = cli[p].res
      BY Stay DEF Proc, Process
    <3> QED
      BY <1>3, <2>1, <3>1 DEF May, RenamePlaces, StartPlaces, FilePlaces, At
  <2> QED
    BY <1>1, <1>7, <2>1 DEF RunChain, Perform, At
<1>8. CASE RmRemove(p)
  <2> DEFINE r == [cli[p] EXCEPT !.pc = "rm", !.todo = Tail(@), !.group = <<>>]
  <2>1. r.cmd = cli[p].cmd /\ r.pc = "rm" /\ r.stack = cli[p].stack /\ r.res = cli[p].res
    BY Stay DEF Proc, Process
  <2>2. Become(p, r) \/ \E x \in {"ok", "err"} : End(p, x)
    BY <1>8 DEF RmRemove, Perform
  <2> HIDE DEF r
  <2> QED
    BY <1>1, <1>3, <2>1, <2>2 DEF May, RenamePlaces, StartPlaces, FilePlaces, At
<1>9. CASE Built(p)
  <2>1. \E l \in {"kill", "boot", "run", "steps", "connect"} : Goto(p, l) /\ (l # "kill" => Kind(p) # "stop")
    BY <1>9 DEF Built, Look
  <2>2. \A l \in {"kill", "boot", "run", "steps", "connect"} : (l # "kill" => Kind(p) # "stop") => May(p, l)
    BY <1>9 DEF Built, Look, May, RenamePlaces, StartPlaces, FilePlaces, At
  <2> QED
    BY <2>1, <2>2, GotoKept
<1>10. CASE RunNext(p)
  <2>1. At(p, "run")
    BY <1>10 DEF RunNext
  <2>2. May(p, "run")
    BY <2>1 DEF May, RenamePlaces, StartPlaces, FilePlaces, At
  <2> QED
    BY <1>1, <1>10, <2>2, GotoKept DEF RunNext, Perform
<1>11. CASE Kill(p) \/ KillStop(p) \/ KillRemove(p)
  BY <1>1, <1>11 DEF Kill, KillStop, KillRemove, KillOn, Stopped, Look, Perform
<1>12. CASE Exec(p) \/ Update(p) \/ Rm(p)
  BY <1>1, <1>2, <1>12 DEF Exec, Update, Rm, LoadOne, Load, Look, Holding
<1>13. CASE RenameService(p)
  <2>1. cli[p].pc = "rename"
    BY <1>13 DEF RenameService, Load, Look, At
  <2>2. \A g : Become(p, Holding(cli[p], "renameContainer", g)) => Kept(p)
    BY <2>1, HoldingKept DEF May, StartPlaces, FilePlaces
  <2> QED
    BY <1>1, <1>13, <2>2 DEF RenameService, Load, Look, Holding
<1>14. CASE RenameContainer(p) \/ RenameWrite(p) \/ RenameData(p)
  <2>1. cli[p].pc \in RenamePlaces
    BY <1>14 DEF RenameContainer, RenameWrite, RenameData, At, RenamePlaces
  <2>2. \A l \in RenamePlaces : Goto(p, l) => Kept(p)
    BY <2>1, GotoKept DEF May, RenamePlaces, StartPlaces, FilePlaces, At
  <2> QED
    BY <1>1, <1>14, <2>2 DEF RenameContainer, RenameWrite, RenameData, Perform, RenamePlaces, FilePlaces
<1>15. CASE ExecRun(p) \/ UpdateRebuild(p)
  BY <1>1, <1>15 DEF ExecRun, UpdateRebuild, Perform
<1>16. CASE New(p) \/ Edit(p) \/ Import(p) \/ RenameFile(p) \/ Checkout(p)
  BY <1>1, <1>16 DEF New, Edit, Import, RenameFile, Checkout, Write
<1> QED
  BY <1>4, <1>5, <1>6, <1>7, <1>8, <1>9, <1>10, <1>11, <1>12, <1>13, <1>14, <1>15, <1>16 DEF ServiceStep

LEMMA PackageKept == ASSUME PackInv, NEW p \in Procs, PackageStep(p) PROVE Kept(p)
<1>1. /\ \A r \in {cli[p].res, "ok", "err"} : End(p, r) => Kept(p)
      /\ Fail(p) => Kept(p)
      /\ \A r \in {"none", "ok", "err"} : Leap(p, "clean", r) => Kept(p)
      /\ \A l \in PackageLabels : Goto(p, l) => Kept(p)
  BY EndKept, FailKept, LeapKept, GotoKept DEF May, RenamePlaces, StartPlaces, FilePlaces, At, PackageLabels
<1>2. CASE Boot(p) \/ BootKeys(p) \/ BootRun(p)
  BY <1>1, <1>2 DEF Boot, BootKeys, BootRun, StartKeys, Perform, PackageLabels
<1>3. CASE Throw(p) \/ ThrowImport(p) \/ ThrowKeys(p) \/ ThrowRun(p)
  BY <1>1, <1>3 DEF Throw, ThrowImport, ThrowKeys, ThrowRun, StartKeys, Perform, PackageLabels
<1>4. CASE ThrowRemove(p) \/ ThrowStart(p) \/ ThrowStartRun(p)
  BY <1>1, <1>4 DEF ThrowRemove, ThrowStart, ThrowStartRun, StartKeys, Perform, PackageLabels
<1>5. CASE Define(p) \/ DefineImport(p) \/ PerformTask(p) \/ Steps(p)
  BY <1>1, <1>5 DEF Define, DefineImport, PerformTask, Steps, Look, Perform, PackageLabels
<1>6. CASE Clean(p) \/ CleanRemove(p) \/ CleanDirs(p)
  BY <1>1, <1>6 DEF Clean, CleanRemove, CleanDirs, Perform, PackageLabels
<1>7. CASE CleanExport(p) \/ CleanData(p) \/ CleanContainer(p)
  BY <1>1, <1>7 DEF CleanExport, CleanData, CleanContainer, Leave, Perform, PackageLabels
<1> QED
  BY <1>2, <1>3, <1>4, <1>5, <1>6, <1>7 DEF PackageStep

LEMMA StepKept == ASSUME PackInv, NEW p \in Procs, Step(p) PROVE Kept(p)
BY ServiceKept, PackageKept DEF Step

-----------------------------------------------------------------------------
\* Containers and definition files

MembersInv ==
  /\ PackInv
  /\ \A p \in Procs : \A m \in MembersOf(cli[p]) : FromFile(m)
  /\ \A p \in Procs : cli[p].pc \in StartPlaces => Kind(p) \in Starters

\* A process changes its own record only.
LEMMA OnlyMine == ASSUME PackInv, NEW p \in Procs, Step(p) PROVE \A q \in Procs \ {p} : cli'[q] = cli[q] /\ app'[q] = app[q]
BY StepMoves DEF Moved

LEMMA MembersNext == MembersInv /\ [Next]_vars => MembersInv'
<1> DEFINE Good(q) == (\A m \in MembersOf(q) : FromFile(m)) /\ (q.pc \in StartPlaces => q.cmd.kind \in Starters)
<1> SUFFICES ASSUME MembersInv, [Next]_vars PROVE MembersInv'
  OBVIOUS
<1>1. PackInv /\ PackInv' /\ \A p \in Procs : Good(cli[p])
  BY Invariance DEF MembersInv, Kind
<1>2. SUFFICES \A p \in Procs : Good(cli'[p])
  BY <1>1 DEF MembersInv, MembersOf, Kind
<1>3. ASSUME NEW p \in Procs, Step(p) PROVE \A q \in Procs : Good(cli'[q])
  <2>1. \A m \in MembersOf(cli'[p]) : Descends(p, m)
    BY <1>1, <1>3, StepMembers
  <2>2. \A m \in MembersOf(cli'[p]) : FromFile(m)
    BY <1>1, <2>1 DEF Descends, FromFile
  <2>3. ASSUME cli'[p].pc \in StartPlaces PROVE cli'[p].cmd.kind \in Starters
    <3>1. Fine(p, cli'[p]) /\ Kept(p)
      BY <1>1, <1>3, StepMoves, StepKept DEF Moved
    <3>2. cli'[p].cmd.kind \in GroupKinds
      BY <2>3, <3>1 DEF Fine, StartPlaces, Ready
    <3>3. cli'[p].cmd = cli[p].cmd
      BY <3>1, <3>2 DEF Kept, NoCommand, GroupKinds
    <3> QED
      BY <1>1, <2>3, <3>1, <3>2, <3>3 DEF Kept, May, Kind, GroupKinds, Starters
  <2> QED
    BY <1>1, <1>3, <2>2, <2>3, OnlyMine
<1>4. ASSUME NEW p \in Procs, BeginCommand(p) PROVE \A q \in Procs : Good(cli'[q])
  <2>1. /\ MembersOf(cli'[p]) = {} /\ \A q \in Procs \ {p} : cli'[q] = cli[q]
        /\ cli'[p].cmd \in Commands[p] /\ cli'[p].pc \in {"build", cli'[p].cmd.kind}
    BY <1>1, <1>4, BeginMembers
  <2>2. cli'[p].cmd.kind \in Kinds
    BY <2>1, ServicesAssumption DEF ServicesAssumption, Accepted, Command
  <2>3. cli'[p].pc \notin StartPlaces
    BY <2>1, <2>2 DEF Kinds, StartPlaces
  <2> QED
    BY <1>1, <2>1, <2>3
<1>5. CASE UNCHANGED cli
  BY <1>1, <1>5
<1> QED
  BY <1>3, <1>4, <1>5 DEF Next, Exit, vars

LEMMA MembersInit == Init => MembersInv
<1> SUFFICES ASSUME Init PROVE MembersInv
  OBVIOUS
<1>1. \A p \in Procs : cli[p].group = <<>> /\ cli[p].stack = <<>> /\ cli[p].pc = "idle"
  BY DEF Init, ServicesInit, Idle
<1>2. \A p \in Procs : MembersOf(cli[p]) = {}
  BY <1>1 DEF MembersOf
<1> QED
  BY <1>1, <1>2, InitInv DEF MembersInv, StartPlaces

\* A process that starts a group still finds the files of its members, and one
\* that renames a container has left nothing under the old name.
Filed(p) ==
  Kind(p) \in Starters => \A m \in MembersOf(cli[p]) : \A x \in ServiceNames : m.of = Service(x) => defs[x].file # "none"

Moving(p) == cli[p].pc \in {"renameWrite", "renameData", "renameFile"} => containers[Service(Arg(p))] = "none"

FiledInv == MembersInv /\ ContainersKnown /\ \A p \in Procs : Filed(p) /\ Moving(p)

\* The steps of a rename.
LEMMA RenameActions ==
  ASSUME PackInv, NEW p \in Procs, Step(p), cli[p].pc \in RenamePlaces \cup {"rename"}
  PROVE  /\ app' = app
         /\ cli[p].pc = "rename" => RenameService(p)
         /\ cli[p].pc = "renameContainer" => RenameContainer(p)
         /\ cli[p].pc = "renameWrite" => RenameWrite(p)
         /\ cli[p].pc = "renameData" => RenameData(p)
         /\ cli[p].pc = "renameFile" => RenameFile(p)
<1>1. ~PackageStep(p)
  BY DEF PackageStep, Boot, BootKeys, BootRun, Throw, ThrowImport, ThrowKeys, ThrowRun, ThrowRemove, ThrowStart,
         ThrowStartRun, Define, DefineImport, PerformTask, Clean, CleanRemove, CleanDirs, CleanExport, CleanData,
         CleanContainer, Steps, StartKeys, Look, At, RenamePlaces
<1>2. ServiceStep(p) /\ Keeps
  BY <1>1 DEF Step
<1> QED
  BY <1>2 DEF ServiceStep, Keeps, Visit, Return, Built, Connect, RunChain, RunNext, Kill, KillStop, KillRemove, Exec, ExecRun, New, Edit,
       Import, Update, UpdateRebuild, RenameService, RenameContainer, RenameWrite, RenameData, RenameFile, Rm, RmRemove,
       Checkout, LoadOne, Load, Look, At, RenamePlaces

LEMMA RenameProgress ==
  ASSUME PackInv, NEW p \in Procs, Step(p), cli'[p].pc \in {"renameWrite", "renameData", "renameFile"}
  PROVE  /\ cli'[p].cmd = cli[p].cmd
         /\ \/ /\ RenameContainer(p) /\ cli'[p].pc = "renameWrite"
               /\ containers'[Service(Arg(p))] = "none" /\ containers'[Service(NewName(p))] # "none"
            \/ RenameWrite(p) /\ cli'[p].pc = "renameData"
            \/ RenameData(p) /\ cli'[p].pc = "renameFile" /\ containers'[Data(Arg(p))] = "none" /\ containers'[Data(NewName(p))] # "none"
<1>1. cli[p].pc \in RenamePlaces \cup {"rename"}
  BY StepKept DEF Kept, May, RenamePlaces
<1>2. \A r : End(p, r) => FALSE
  <2>1. \A r : Idle(r).pc = "idle"
    BY DEF Idle
  <2> QED
    BY <2>1, Became DEF End
<1>3. ASSUME NEW l, Goto(p, l) PROVE cli'[p].pc = l /\ cli'[p].cmd = cli[p].cmd
  <2>1. [cli[p] EXCEPT !.pc = l].pc = l /\ [cli[p] EXCEPT !.pc = l].cmd = cli[p].cmd
    BY Stay DEF Proc, Process
  <2>2. cli'[p] = [cli[p] EXCEPT !.pc = l]
    BY <1>3, Became DEF Goto
  <2> QED
    BY <2>1, <2>2
<1>4. CASE cli[p].pc = "rename"
  <2>1. \A g : Become(p, Holding(cli[p], "renameContainer", g)) => cli'[p].pc = "renameContainer"
    <3>1. \A g : Holding(cli[p], "renameContainer", g).pc = "renameContainer"
      BY Stay DEF Proc, Process, Holding
    <3> QED
      BY <3>1, Became
  <2>2. RenameService(p)
    BY <1>4, RenameActions
  <2> QED
    BY <1>2, <2>1, <2>2 DEF RenameService, Load, Look, Holding
<1>5. CASE cli[p].pc = "renameFile"
  <2>1. RenameFile(p)
    BY <1>5, RenameActions DEF RenamePlaces
  <2> QED
    BY <1>2, <2>1 DEF RenameFile, Write
<1>6. CASE cli[p].pc = "renameWrite"
  <2>1. RenameWrite(p)
    BY <1>6, RenameActions DEF RenamePlaces
  <2> QED
    BY <1>3, <2>1 DEF RenameWrite
<1>7. CASE cli[p].pc \in {"renameContainer", "renameData"}
  <2>1. cli[p].pc \in RenamePlaces
    BY <1>7 DEF RenamePlaces
  <2>2. Current(p).of = Service(Arg(p)) /\ Arg(p) # NewName(p) /\ Arg(p) \in Shorts /\ NewName(p) \in Shorts
    BY <2>1, RenameNames, Names
  <2>3. /\ Service(Arg(p)) \in Named /\ Service(NewName(p)) \in Named /\ Service(Arg(p)) # Service(NewName(p))
        /\ Data(Arg(p)) \in Named /\ Data(NewName(p)) \in Named /\ Data(Arg(p)) # Data(NewName(p))
    BY <2>2, ThreePlaces
  <2>4. containers \in Containers
    BY DEF PackInv, TypeOK
  <2>5. \A n, to \in Named : \A links : n # to =>
          \A o \in Rename(containers, n, to, links) : o.ok => o.left[n] = "none" /\ o.left[to] # "none"
    BY <2>4, RenameOutcome
  <2>6. CASE cli[p].pc = "renameContainer"
    <3>1. RenameContainer(p)
      BY <2>1, <2>6, RenameActions
    <3>2. PICK o \in Rename(containers, Service(Arg(p)), Service(NewName(p)), Current(p).links) :
            containers' = o.left /\ (IF o.ok THEN Goto(p, "renameWrite") ELSE End(p, "err"))
      BY <2>2, <3>1 DEF RenameContainer, Perform
    <3>3. o.ok
      BY <1>2, <3>2
    <3>4. o.left[Service(Arg(p))] = "none" /\ o.left[Service(NewName(p))] # "none"
      BY <2>3, <2>5, <3>2, <3>3
    <3> QED
      BY <1>3, <3>1, <3>2, <3>3, <3>4
  <2>7. CASE cli[p].pc = "renameData"
    <3>1. RenameData(p)
      BY <2>1, <2>7, RenameActions
    <3>2. PICK o \in Rename(containers, Data(Arg(p)), Data(NewName(p)), {}) :
            containers' = o.left /\ (IF o.ok THEN Goto(p, "renameFile") ELSE End(p, "err"))
      BY <3>1 DEF RenameData, Perform
    <3>3. o.ok
      BY <1>2, <3>2
    <3>4. o.left[Data(Arg(p))] = "none" /\ o.left[Data(NewName(p))] # "none"
      BY <2>3, <2>5, <3>2, <3>3
    <3> QED
      BY <1>3, <3>1, <3>2, <3>3, <3>4
  <2> QED
    BY <1>7, <2>6, <2>7
<1> QED
  BY <1>1, <1>4, <1>5, <1>6, <1>7 DEF RenamePlaces

LEMMA FiledNext ==
  ASSUME RenamesAlone, FiledInv, NEW p \in Procs, Step(p), MembersInv'
  PROVE  FiledInv'
<1>1. MembersInv /\ PackInv /\ defs \in [ServiceNames -> Definition]
  BY DEF FiledInv, MembersInv, PackInv, TypeOK
<1>2. Kept(p) /\ \A q \in Procs \ {p} : cli'[q] = cli[q]
  BY <1>1, StepKept, OnlyMine
<1>3. ASSUME NEW x \in ServiceNames, defs[x].file # "none", defs'[x].file = "none"
      PROVE  At(p, "renameFile") /\ x = Arg(p) /\ containers[Service(x)] = "none" /\ Kind(p) = "rename"
  <2>1. At(p, "renameFile") /\ x = Arg(p)
    BY <1>1, <1>3, FilesStay DEF MembersInv
  <2>2. Kind(p) = "rename"
    BY <1>1, <2>1, RenameNames DEF At, Kind, RenamePlaces
  <2> QED
    BY <2>1, <2>2 DEF FiledInv, Moving, At
<1>4. ASSUME NEW x \in ServiceNames, Emerges(x)
      PROVE  \/ Kind(p) \in Starters /\ defs[x].file # "none"
             \/ At(p, "renameContainer") /\ cli'[p].pc = "renameWrite" /\ x = NewName(p) /\ Kind(p) = "rename"
  <2>1. CASE At(p, "run") /\ Current(p).of = Service(x)
    <3>1. cli[p].idx \in DOMAIN cli[p].group
      BY <1>1, <2>1, Stay DEF At, Fine, Ready
    <3>2. Current(p) \in MembersOf(cli[p])
      BY <3>1 DEF Current, MembersOf
    <3>3. Kind(p) \in Starters
      BY <1>1, <2>1 DEF MembersInv, StartPlaces, At
    <3> QED
      BY <2>1, <3>2, <3>3 DEF FiledInv, Filed
  <2>2. CASE At(p, "renameContainer") /\ cli'[p].pc = "renameWrite" /\ x = NewName(p)
    BY <1>1, <2>2, RenameNames DEF At, Kind, RenamePlaces
  <2>3. PackageStep(p) => Kind(p) \in Starters /\ defs[x].file # "none"
    BY <1>1, <1>4, PackageEmerges DEF Starters
  <2> QED
    BY <1>1, <1>4, <2>1, <2>2, <2>3, ServiceEmerges DEF Step
<1>5. \A q \in Procs : Kind(q) # "none" => cli[q].cmd \in Commands[q]
  <2>1. \A q \in Procs : cli[q].pc = "idle" => cli[q].cmd = NoCommand
    BY <1>1, Stay DEF Fine
  <2>2. NoCommand.kind = "none"
    BY DEF NoCommand
  <2> QED
    BY <1>1, <2>1, <2>2, Stay DEF Fine, Kind
<1>6. ASSUME NEW q \in Procs \ {p}, Kind(q) \in Starters \cup {"rename"}, Kind(p) \in Starters \cup {"rename"},
             Kind(p) = "rename" \/ Kind(q) = "rename"
      PROVE  FALSE
  <2>1. cli[p].cmd \in Commands[p] /\ cli[q].cmd \in Commands[q]
    BY <1>5, <1>6 DEF Starters
  <2> QED
    BY <1>6, <2>1 DEF RenamesAlone, Runs, Kind
<1>7. ASSUME NEW q \in Procs PROVE Filed(q)'
  <2> SUFFICES ASSUME cli'[q].cmd.kind \in Starters, NEW m \in MembersOf(cli'[q]), NEW x \in ServiceNames, m.of = Service(x)
               PROVE  defs'[x].file # "none"
    BY DEF Filed, Kind, MembersOf
  <2>1. CASE q = p
    <3>1. cli'[p].cmd = cli[p].cmd
      BY <1>2, <2>1 DEF Kept, NoCommand, Starters
    <3>2. Kind(p) \in Starters
      BY <2>1, <3>1 DEF Kind
    <3>3. Descends(p, m)
      BY <1>1, <2>1, StepMembers
    <3>4. defs[x].file # "none"
      <4>1. CASE \E n \in MembersOf(cli[p]) : m.of = n.of /\ m.def = n.def
        BY <3>2, <4>1 DEF FiledInv, Filed
      <4>2. CASE \E y \in ServiceNames : m.of = Service(y) /\ m.def = defs[y] /\ defs[y].file = "good"
        <5>1. PICK y \in ServiceNames : m.of = Service(y) /\ defs[y].file = "good"
          BY <4>2
        <5>2. Service(x).short = x /\ Service(y).short = y
          BY Names, ThreePlaces
        <5> QED
          BY <5>1, <5>2
      <4> QED
        BY <3>3, <4>1, <4>2 DEF Descends
    <3> QED
      BY <1>3, <3>2, <3>4 DEF Starters
  <2>2. CASE q # p
    <3>1. cli'[q] = cli[q] /\ Kind(q) \in Starters
      BY <1>2, <2>2 DEF Kind
    <3>2. defs[x].file # "none"
      BY <3>1 DEF FiledInv, Filed
    <3> QED
      BY <1>3, <1>6, <2>2, <3>1, <3>2
  <2> QED
    BY <2>1, <2>2
<1>8. ASSUME NEW q \in Procs PROVE Moving(q)'
  <2> SUFFICES ASSUME cli'[q].pc \in {"renameWrite", "renameData", "renameFile"}
               PROVE  containers'[Service(Head(cli'[q].cmd.args))] = "none"
    BY DEF Moving, Arg
  <2>1. CASE q = p
    <3>1. cli'[p].cmd = cli[p].cmd
      BY <1>1, <2>1, RenameProgress
    <3>2. CASE RenameContainer(p) /\ containers'[Service(Arg(p))] = "none"
      BY <2>1, <3>1, <3>2 DEF Arg
    <3>3. CASE RenameWrite(p) \/ RenameData(p)
      <4>1. cli[p].pc \in RenamePlaces /\ containers[Service(Arg(p))] = "none" /\ ~At(p, "run") /\ ~At(p, "renameContainer")
        BY <3>3 DEF RenameWrite, RenameData, At, RenamePlaces, FiledInv, Moving
      <4>2. Arg(p) \in ServiceNames /\ Kind(p) = "rename"
        BY <1>1, <4>1, RenameNames DEF Kind
      <4>3. ~Emerges(Arg(p))
        BY <1>4, <4>1, <4>2 DEF Starters
      <4> QED
        BY <2>1, <3>1, <4>1, <4>3 DEF Emerges, Arg
    <3> QED
      BY <1>1, <2>1, <3>2, <3>3, RenameProgress
  <2>2. CASE q # p
    <3>1. cli'[q] = cli[q] /\ cli[q].pc \in RenamePlaces /\ containers[Service(Arg(q))] = "none"
      BY <1>2, <2>2 DEF FiledInv, Moving, RenamePlaces
    <3>2. Arg(q) \in ServiceNames /\ Kind(q) = "rename"
      BY <1>1, <3>1, RenameNames DEF Kind
    <3>3. ~Emerges(Arg(q))
      BY <1>4, <1>6, <2>2, <3>2
    <3> QED
      BY <3>1, <3>3 DEF Emerges, Arg
  <2> QED
    BY <2>1, <2>2
<1>9. ContainersKnown'
  <2> SUFFICES ASSUME NEW x \in ServiceNames, containers'[Service(x)] # "none", defs'[x].file = "none"
               PROVE  \E q \in Procs : cli'[q].pc = "renameWrite" /\ cli'[q].cmd.to = x
    BY DEF ContainersKnown, At, NewName
  <2>1. CASE Emerges(x)
    <3>1. CASE Kind(p) \in Starters /\ defs[x].file # "none"
      BY <1>3, <3>1 DEF Starters
    <3>2. CASE At(p, "renameContainer") /\ cli'[p].pc = "renameWrite" /\ x = NewName(p) /\ Kind(p) = "rename"
      BY <1>1, <3>2, RenameProgress DEF NewName
    <3> QED
      BY <1>4, <2>1, <3>1, <3>2
  <2>2. CASE ~Emerges(x)
    <3>1. containers[Service(x)] # "none"
      BY <2>2 DEF Emerges
    <3>2. defs[x].file = "none"
      BY <1>3, <3>1
    <3>3. PICK q \in Procs : At(q, "renameWrite") /\ NewName(q) = x
      BY <3>1, <3>2 DEF FiledInv, ContainersKnown
    <3>4. q # p
      <4> SUFFICES ASSUME q = p PROVE FALSE
        OBVIOUS
      <4>1. cli[p].pc \in RenamePlaces /\ cli[p].pc = "renameWrite"
        BY <3>3 DEF At, RenamePlaces
      <4>2. RenameWrite(p) /\ Current(p) \in MembersOf(cli[p])
        BY <1>1, <4>1, RenameActions, RenameNames DEF RenamePlaces
      <4>3. Current(p).def \in Definition /\ Current(p).def.file = "good"
        BY <1>1, <4>1, <4>2, CurrentTouched DEF MembersInv, FromFile
      <4>4. AsLoaded(Current(p).def).file = "good"
        BY <4>3 DEF AsLoaded, Definition
      <4>5. defs'[x] = AsLoaded(Current(p).def)
        BY <1>1, <3>3, <4>2 DEF RenameWrite
      <4> QED
        BY <4>4, <4>5
    <3> QED
      BY <1>2, <3>3, <3>4 DEF At, NewName
  <2> QED
    BY <2>1, <2>2
<1> QED
  BY <1>7, <1>8, <1>9 DEF FiledInv

\* A service that has a container has a definition file, as long as no service
\* is renamed while another process starts or renames one.
THEOREM ContainersStayKnown == ASSUME RenamesAlone PROVE Spec => []ContainersKnown
<1>1. Init => FiledInv
  <2> SUFFICES ASSUME Init PROVE FiledInv
    OBVIOUS
  <2>1. \A p \in Procs : cli[p].group = <<>> /\ cli[p].stack = <<>> /\ cli[p].pc = "idle"
    BY DEF Init, ServicesInit, Idle
  <2>2. \A p \in Procs : MembersOf(cli[p]) = {}
    BY <2>1 DEF MembersOf
  <2>3. MembersInv
    BY MembersInit
  <2>4. \A x \in ServiceNames : containers[Service(x)] = "none"
    BY Names, ThreePlaces DEF Init, ServicesInit
  <2> QED
    BY <2>1, <2>2, <2>3, <2>4 DEF FiledInv, ContainersKnown, Filed, Moving
<1>2. FiledInv /\ [Next]_vars => FiledInv'
  <2> SUFFICES ASSUME FiledInv, [Next]_vars PROVE FiledInv'
    OBVIOUS
  <2>1. MembersInv /\ PackInv /\ MembersInv'
    BY MembersNext DEF FiledInv, MembersInv
  <2>2. ASSUME NEW p \in Procs, Step(p) PROVE FiledInv'
    BY <2>1, <2>2, FiledNext
  <2>3. ASSUME NEW p \in Procs, BeginCommand(p) PROVE FiledInv'
    <3>1. /\ MembersOf(cli'[p]) = {} /\ \A q \in Procs \ {p} : cli'[q] = cli[q]
          /\ UNCHANGED <<containers, defs>> /\ At(p, "idle")
          /\ cli'[p].cmd \in Commands[p] /\ cli'[p].pc \in {"build", cli'[p].cmd.kind}
      BY <2>1, <2>3, BeginMembers
    <3>2. cli'[p].cmd.kind \in Kinds
      BY <3>1, ServicesAssumption DEF ServicesAssumption, Accepted, Command
    <3>3. cli'[p].pc \notin {"renameWrite", "renameData", "renameFile"}
      BY <3>1, <3>2 DEF Kinds
    <3>4. ASSUME NEW q \in Procs PROVE Filed(q)' /\ Moving(q)'
      <4>1. Filed(q) /\ Moving(q)
        BY DEF FiledInv
      <4>2. MembersOf(cli[q])' = MembersOf(cli'[q])
        BY DEF MembersOf
      <4>3. CASE q = p
        BY <3>1, <3>3, <4>2, <4>3 DEF Filed, Moving
      <4>4. CASE q # p
        <5>1. cli'[q] = cli[q] /\ MembersOf(cli[q])' = MembersOf(cli[q])
          BY <3>1, <4>2, <4>4
        <5> QED
          BY <3>1, <4>1, <5>1 DEF Filed, Moving, Kind, Arg
      <4> QED
        BY <4>3, <4>4
    <3>5. ContainersKnown'
      BY <3>1 DEF FiledInv, ContainersKnown, At, NewName
    <3> QED
      BY <2>1, <3>4, <3>5 DEF FiledInv
  <2>4. ASSUME NEW n \in Named, Exit(n), Keeps PROVE FiledInv'
    <3>1. UNCHANGED <<defs, cli>> /\ \A m \in Named : containers'[m] = "none" <=> containers[m] = "none"
      BY <2>1, <2>4 DEF Exit, Running, disk, PackInv, TypeOK, Containers
    <3>2. \A x \in ServiceNames : Service(x) \in Named
      BY Names, ThreePlaces
    <3>3. \A q \in Procs : Filed(q)'
      BY <3>1 DEF FiledInv, Filed, Kind, MembersOf
    <3>4. ASSUME NEW q \in Procs PROVE Moving(q)'
      <4>1. cli[q].pc \in {"renameWrite", "renameData", "renameFile"} => Arg(q) \in ServiceNames /\ containers[Service(Arg(q))] = "none"
        BY <2>1, RenameNames DEF RenamePlaces, FiledInv, Moving
      <4> QED
        BY <3>1, <3>2, <4>1 DEF Moving, Arg
    <3>5. ContainersKnown'
      BY <3>1, <3>2 DEF FiledInv, ContainersKnown, At, NewName
    <3> QED
      BY <2>1, <3>3, <3>4, <3>5 DEF FiledInv
  <2>5. CASE UNCHANGED vars
    BY <2>1, <2>5 DEF vars, disk, FiledInv, ContainersKnown, Filed, Moving, Kind, Arg, At, NewName, MembersOf
  <2> QED
    BY <2>2, <2>3, <2>4, <2>5 DEF Next
<1>3. FiledInv => ContainersKnown
  BY DEF FiledInv
<1> QED
  BY <1>1, <1>2, <1>3, PTL DEF Spec


-----------------------------------------------------------------------------
\* The chains a group is linked to

\* The container of a chain is removed.
Vanishes(c) == containers[Chain(c)] # "none" /\ containers'[Chain(c)] = "none"

LEMMA NoneVanishes ==
  ASSUME PackInv, NEW c \in ChainNames, NEW S, Chain(c) \notin S, \E o \in Within(containers, S) : containers' = o.left
  PROVE  ~Vanishes(c)
<1>1. Chain(c) \in Named
  BY Names, ThreePlaces
<1> QED
  BY <1>1 DEF Within, Vanishes

LEMMA RunGrows ==
  ASSUME NEW c \in Containers, NEW n \in Named, NEW managed \in BOOLEAN, NEW links, NEW o \in RunService(c, n, managed, links),
         c[n] # "none", ToDataContainer(n) # n
  PROVE  o.left[n] # "none"
<1> DEFINE d == WithData(c, n, managed)
           made == IF c[n] # "none" \/ LinksExist(c, links) THEN WithContainer(d, n) ELSE d
           up == [made EXCEPT ![n] = "running"]
<1>1. d \in Containers /\ d[n] = c[n]
  BY WithTypes
<1>2. WithContainer(d, n) \in Containers /\ WithContainer(d, n)[n] # "none"
  BY <1>1, WithTypes
<1>3. made \in Containers /\ made[n] # "none"
  BY <1>2
<1>4. up[n] = "running"
  BY <1>3 DEF Containers
<1>5. \/ o = [left |-> c, ok |-> TRUE]
      \/ o = [left |-> up, ok |-> TRUE]
      \/ \E e \in {c, d, made} : o = [left |-> e, ok |-> FALSE]
  BY DEF RunService, If, Succeeds, Fails
<1> HIDE DEF d, made, up
<1> QED
  BY <1>1, <1>3, <1>4, <1>5

LEMMA ServiceVanishes ==
  ASSUME PackInv, NEW p \in Procs, \A m \in MembersOf(cli[p]) : FromFile(m), ServiceStep(p), NEW c \in ChainNames, Vanishes(c)
  PROVE  Has(p, "data") /\ cli[p].pc \notin StartPlaces
<1>1. containers \in Containers /\ c \in Shorts /\ Chain(c) \in Named
  BY Names, ThreePlaces DEF PackInv, TypeOK
<1>2. UNCHANGED containers => FALSE
  BY DEF Vanishes
<1>3. ASSUME cli[p].pc \in Ready \cup RenamePlaces \cup {"execRun", "updateRebuild", "rmRemove"}
      PROVE  /\ Current(p).of \in Named /\ Current(p).def.data \in BOOLEAN
             /\ Chain(c) \notin {Current(p).of, ToDataContainer(Current(p).of)} /\ Chain(c) \notin {Current(p).of, Current(p).of}
  <2>1. cli[p].idx \in DOMAIN cli[p].group
    <3>1. CASE cli[p].pc \in RenamePlaces
      <4>1. cli[p].idx = 1 /\ cli[p].group # <<>>
        BY <3>1, Stay DEF Fine
      <4> QED
        BY <4>1, Here, EmptySeq
    <3>2. CASE cli[p].pc \notin RenamePlaces
      BY <1>3, <3>2, Stay DEF Fine
    <3> QED
      BY <3>1, <3>2
  <2>2. Current(p) \in MembersOf(cli[p])
    BY <2>1 DEF Current, MembersOf
  <2>3. PICK x \in ServiceNames : Current(p).of = Service(x)
    BY <2>2 DEF FromFile
  <2>4. /\ x \in Shorts
        /\ Chain(c).type = "chain" /\ Current(p).of.type = "service" /\ ToDataContainer(Current(p).of).type = "data"
    BY <1>1, <2>3, Names, ThreePlaces
  <2> QED
    BY <1>3, <2>4, CurrentTouched
<1>4. ASSUME RunChain(p) PROVE FALSE
  <2>1. PICK d \in cli[p].pending : \E o \in RunService(containers, Chain(d), TRUE, {Service(Keys)}) : containers' = o.left
    BY <1>4 DEF RunChain, Perform
  <2>2. d \in Shorts
    BY Here, Names
  <2>3. /\ Chain(d) \in Named /\ ToDataContainer(Chain(d)) = Data(d) /\ Chain(c) # Data(d) /\ Chain(d) # Data(d)
        /\ Chain(c) # ToDataContainer(Chain(d)) /\ ToDataContainer(Chain(d)) # Chain(d)
    BY <1>1, <2>2, ThreePlaces
  <2>4. PICK o \in RunService(containers, Chain(d), TRUE, {Service(Keys)}) : containers' = o.left
    BY <2>1
  <2>5. CASE Chain(c) = Chain(d)
    <3>1. o.left[Chain(d)] # "none"
      BY <1>1, <2>3, <2>4, <2>5, RunGrows DEF Vanishes
    <3> QED
      BY <2>4, <2>5, <3>1 DEF Vanishes
  <2>6. CASE Chain(c) # Chain(d)
    <3>1. o \in Within(containers, {Chain(d), ToDataContainer(Chain(d))})
      BY <1>1, <2>3, RunServiceOutcome
    <3> QED
      BY <2>3, <2>4, <2>6, <3>1, NoneVanishes
  <2> QED
    BY <2>5, <2>6
<1>5. ASSUME RunNext(p) PROVE FALSE
  <2>1. cli[p].pc = "run" /\ \E o \in RunService(containers, Current(p).of, Current(p).def.data, Current(p).links) : containers' = o.left
    BY <1>5 DEF RunNext, Perform, At
  <2>2. cli[p].pc \in Ready
    BY <2>1 DEF Ready
  <2>3. \E o \in Within(containers, {Current(p).of, ToDataContainer(Current(p).of)}) : containers' = o.left
    BY <1>1, <1>3, <2>1, <2>2, RunServiceOutcome
  <2> QED
    BY <1>3, <2>2, <2>3, NoneVanishes
<1>6. ASSUME ExecRun(p) \/ UpdateRebuild(p) \/ Kill(p) \/ KillStop(p) PROVE FALSE
  <2>1. cli[p].pc \in Ready \cup RenamePlaces \cup {"execRun", "updateRebuild", "rmRemove"}
    BY <1>6 DEF ExecRun, UpdateRebuild, Kill, KillStop, Look, At, Ready
  <2>2. \/ \E o \in ExecService(containers, Current(p).of, Current(p).def.data, Current(p).links) : containers' = o.left
        \/ \E o \in Rebuild(containers, Current(p).of, Current(p).links) : containers' = o.left
        \/ \E o \in Stop(containers, Current(p).of) : containers' = o.left
    BY <1>2, <1>6 DEF ExecRun, UpdateRebuild, Kill, KillStop, Look, Perform
  <2>3. Current(p).of \in Named /\ Current(p).def.data \in BOOLEAN
    BY <1>3, <2>1
  <2>4. \/ \E o \in Within(containers, {ToDataContainer(Current(p).of)}) : containers' = o.left
        \/ \E o \in Within(containers, {Current(p).of}) : containers' = o.left
    BY <1>1, <2>2, <2>3, ExecServiceOutcome, RebuildOutcome, StopOutcome
  <2>5. Chain(c) \notin {ToDataContainer(Current(p).of)} /\ Chain(c) \notin {Current(p).of}
    BY <1>3, <2>1
  <2> QED
    BY <2>4, <2>5, NoneVanishes
<1>7. CASE KillRemove(p) \/ RmRemove(p)
  <2>1. cli[p].pc \in Ready \cup {"rmRemove"} /\ cli[p].pc \notin StartPlaces
    BY <1>7 DEF KillRemove, RmRemove, At, Ready, StartPlaces
  <2>2. \E o \in Removed(Current(p), Has(p, "data")) : containers' = o.left
    BY <1>7 DEF KillRemove, RmRemove, Perform
  <2>3. CASE ~Has(p, "data")
    <3>0. Has(p, "data") = FALSE
      BY <2>3 DEF Has
    <3>1. \E o \in Remove(containers, Current(p).of, FALSE) : containers' = o.left
      BY <2>2, <3>0 DEF Removed
    <3>2. \E o \in Within(containers, {Current(p).of, Current(p).of}) : containers' = o.left
      BY <1>1, <1>3, <2>1, <3>1, RemoveOutcome
    <3> QED
      BY <1>3, <2>1, <3>2, NoneVanishes
  <2> QED
    BY <2>1, <2>3
<1>8. ASSUME RenameContainer(p) \/ RenameData(p) PROVE FALSE
  <2>1. cli[p].pc \in RenamePlaces
    BY <1>8 DEF RenameContainer, RenameData, At, RenamePlaces
  <2>2. Current(p).of = Service(Arg(p)) /\ Arg(p) # NewName(p) /\ Arg(p) \in Shorts /\ NewName(p) \in Shorts
    BY <2>1, RenameNames, Names
  <2>3. /\ Service(Arg(p)) \in Named /\ Service(NewName(p)) \in Named /\ Service(Arg(p)) # Service(NewName(p))
        /\ Data(Arg(p)) \in Named /\ Data(NewName(p)) \in Named /\ Data(Arg(p)) # Data(NewName(p))
        /\ Chain(c) \notin {Service(Arg(p)), Service(NewName(p))} /\ Chain(c) \notin {Data(Arg(p)), Data(NewName(p))}
    BY <1>1, <2>2, ThreePlaces
  <2>4. \A n, to \in Named : \A links : n # to => Rename(containers, n, to, links) \subseteq Within(containers, {n, to})
    BY <1>1, RenameOutcome
  <2>5. \/ \E o \in Rename(containers, Service(Arg(p)), Service(NewName(p)), Current(p).links) : containers' = o.left
        \/ \E o \in Rename(containers, Data(Arg(p)), Data(NewName(p)), {}) : containers' = o.left
    BY <1>8, <2>2 DEF RenameContainer, RenameData, Perform
  <2>6. \/ \E o \in Within(containers, {Service(Arg(p)), Service(NewName(p))}) : containers' = o.left
        \/ \E o \in Within(containers, {Data(Arg(p)), Data(NewName(p))}) : containers' = o.left
    BY <2>3, <2>4, <2>5
  <2> QED
    BY <2>3, <2>6, NoneVanishes
<1>9. ASSUME Visit(p) \/ Return(p) \/ Built(p) \/ Connect(p) \/ Exec(p) \/ Update(p) \/ RenameService(p) \/ Rm(p) PROVE FALSE
  BY <1>2, <1>9 DEF Visit, Return, Built, Connect, Exec, Update, RenameService, Rm, LoadOne, Load, Look
<1>10. ASSUME New(p) \/ Edit(p) \/ Import(p) \/ RenameWrite(p) \/ RenameFile(p) \/ Checkout(p) PROVE FALSE
  BY <1>2, <1>10 DEF New, Edit, Import, RenameWrite, RenameFile, Checkout, Write
<1> QED
  BY <1>4, <1>5, <1>6, <1>7, <1>8, <1>9, <1>10 DEF ServiceStep

LEMMA PackagePlaces == ASSUME PackInv, NEW p \in Procs, PackageStep(p), containers' # containers PROVE Kind(p) = "package" /\ cli[p].pc \notin StartPlaces
<1>1. ~Steps(p)
  BY DEF Steps, Look
<1>2. cli[p].pc \in PackageLabels \ {"steps"}
  BY <1>1 DEF PackageStep, Boot, BootKeys, BootRun, Throw, ThrowImport, ThrowKeys, ThrowRun, ThrowRemove, ThrowStart,
       ThrowStartRun, Define, DefineImport, PerformTask, Clean, CleanRemove, CleanDirs, CleanExport, CleanData,
       CleanContainer, StartKeys, Look, At, PackageLabels
<1> QED
  BY <1>2, Stay DEF Fine, Kind, PackageLabels, StartPlaces


\* The steps of a start, and how a process comes to them.
LEMMA StartActions ==
  ASSUME PackInv, NEW p \in Procs, Step(p), cli[p].pc \in StartPlaces \cup {"build"}
  PROVE  /\ cli[p].pc = "build" => Visit(p) \/ Return(p) \/ Built(p)
         /\ cli[p].pc = "connect" => Connect(p)
         /\ cli[p].pc = "run" => RunChain(p) \/ RunNext(p)
<1>1. ~PackageStep(p)
  BY DEF PackageStep, Boot, BootKeys, BootRun, Throw, ThrowImport, ThrowKeys, ThrowRun, ThrowRemove, ThrowStart,
         ThrowStartRun, Define, DefineImport, PerformTask, Clean, CleanRemove, CleanDirs, CleanExport, CleanData,
         CleanContainer, Steps, StartKeys, Look, At, StartPlaces
<1>2. ServiceStep(p)
  BY <1>1 DEF Step
<1> QED
  BY <1>2 DEF ServiceStep, Visit, Return, Built, Connect, RunChain, RunNext, Kill, KillStop, KillRemove, Exec, ExecRun, New, Edit,
       Import, Update, UpdateRebuild, RenameService, RenameContainer, RenameWrite, RenameData, RenameFile, Rm, RmRemove,
       Checkout, LoadOne, Load, Look, At, StartPlaces

\* A service that works with a chain has a link to one that is yet to be started
\* or has a container.
Linked(q, m) ==
  m.def.chain # Blank =>
    \E c \in ChainNames : Chain(c) \in m.links /\ (c \in q.pending \/ containers[Chain(c)] # "none")

\* So have the members the process has been at, and all once they are run.
LinkedSoFar(q) ==
  /\ q.pc = "connect" => \A i \in DOMAIN q.group : i < q.idx => Linked(q, q.group[i])
  /\ q.pc = "run" => \A i \in DOMAIN q.group : Linked(q, q.group[i])

LinkedInv == MembersInv /\ \A p \in Procs : Kind(p) # "package" => LinkedSoFar(cli[p])

\* The links stay as they are, and so do the chains.
LEMMA LinksKept ==
  ASSUME NEW q, NEW r, NEW m, Linked(q, m), \A c \in q.pending : c \in r.pending \/ containers'[Chain(c)] # "none",
         \A c \in ChainNames : ~Vanishes(c)
  PROVE  m.def.chain # Blank =>
           \E c \in ChainNames : Chain(c) \in m.links /\ (c \in r.pending \/ containers'[Chain(c)] # "none")
BY DEF Linked, Vanishes

LEMMA ConnectLinks ==
  ASSUME PackInv, NEW p \in Procs, Connect(p), LinkedSoFar(cli[p])
  PROVE  LinkedSoFar(cli[p])'
<1> DEFINE q == cli[p]
           c == ChosenChain(p, Current(p).def.chain)
           m == [Current(p) EXCEPT !.links = @ \cup {Chain(c)}]
           g == [q.group EXCEPT ![q.idx] = m]
<1>1. q \in Proc /\ q.idx \in DOMAIN q.group /\ Current(p) \in Member /\ q.pc = "connect" /\ containers' = containers
  BY Stay, Here DEF Connect, Look, At, Fine, Ready
<1>2. Len(q.group) \in Nat /\ DOMAIN q.group = 1..Len(q.group) /\ q.idx \in Nat
  BY Here
<1>3. \A i \in DOMAIN q.group : i < q.idx => Linked(q, q.group[i])
  BY <1>1 DEF LinkedSoFar
<1>4. ASSUME NEW r, cli'[p] = r, DOMAIN r.group = DOMAIN q.group,
             \A i \in DOMAIN q.group : i <= q.idx => Linked(r, r.group[i]),
             \/ AtLast(p) \/ (r.pc = "connect" /\ r.idx = q.idx + 1)
      PROVE  LinkedSoFar(cli[p])'
  <2>1. AtLast(p) => \A i \in DOMAIN q.group : i <= q.idx
    BY <1>2 DEF AtLast
  <2>2. r.pc = "connect" /\ r.idx = q.idx + 1 => \A i \in DOMAIN q.group : i < r.idx => i <= q.idx
    BY <1>2
  <2>3. LinkedSoFar(r)
    BY <1>4, <2>1, <2>2 DEF LinkedSoFar
  <2>4. LinkedSoFar(cli[p])' = LinkedSoFar(r)
    BY <1>1, <1>4 DEF LinkedSoFar, Linked
  <2> QED
    BY <2>3, <2>4
<1>5. CASE Current(p).def.chain = Blank
  <2> DEFINE r == IF AtLast(p) THEN AtMember(q, "run", 1) ELSE Onto(q, q.idx + 1)
  <2>1. Become(p, r)
    BY <1>5 DEF Connect, Look, AtMember, Onto
  <2>2. r.group = q.group /\ r.pending = q.pending /\ (~AtLast(p) => r.pc = "connect" /\ r.idx = q.idx + 1)
    BY <1>1 DEF AtMember, Onto, Proc, Process
  <2>3. cli'[p] = r
    BY <2>1, Became
  <2> HIDE DEF r
  <2>4. \A i \in DOMAIN q.group : i <= q.idx => i = q.idx \/ i < q.idx
    BY <1>2
  <2>5. \A i \in DOMAIN q.group : i <= q.idx => Linked(r, q.group[i])
    BY <1>3, <1>5, <2>2, <2>4 DEF Linked, Current
  <2> QED
    BY <1>4, <2>2, <2>3, <2>5
<1>6. CASE End(p, "err")
  <2>1. cli'[p].pc = "idle"
    BY <1>6, Became DEF End, Idle
  <2> QED
    BY <2>1 DEF LinkedSoFar
<1>7. CASE Current(p).def.chain # Blank /\ c \in chains
  <2> DEFINE n == WithGroup(q, g, c)
             r == IF AtLast(p) THEN AtMember(n, "run", 1) ELSE Onto(n, n.idx + 1)
  <2>1. [q EXCEPT !.group[q.idx].links = @ \cup {Chain(c)}, !.pending = @ \cup {c}] = n
    BY DEF Current, WithGroup
  <2>2. Become(p, r)
    BY <1>7, <2>1 DEF Connect, Look, AtMember, Onto
  <2>3. /\ r.group = g /\ r.pending = q.pending \cup {c} /\ (~AtLast(p) => r.pc = "connect" /\ r.idx = q.idx + 1)
    BY <1>1 DEF WithGroup, AtMember, Onto, Proc, Process
  <2>4. cli'[p] = r
    BY <2>2, Became
  <2>5. m.def = Current(p).def /\ Chain(c) \in m.links /\ c \in ChainNames
    BY <1>1, <1>7 DEF Member, PackInv, TypeOK
  <2>6. DOMAIN g = DOMAIN q.group /\ g[q.idx] = m /\ \A i \in DOMAIN q.group : i < q.idx => g[i] = q.group[i]
    BY <1>1, <1>2
  <2> HIDE DEF r, n, g, m
  <2>7. Linked(r, g[q.idx])
    BY <2>3, <2>5, <2>6 DEF Linked
  <2>8. \A i \in DOMAIN q.group : i < q.idx => Linked(r, g[i])
    BY <1>3, <2>3, <2>6 DEF Linked
  <2>9. \A i \in DOMAIN q.group : i <= q.idx => i = q.idx \/ i < q.idx
    BY <1>2
  <2>10. \A i \in DOMAIN q.group : i <= q.idx => Linked(r, r.group[i])
    BY <2>3, <2>7, <2>8, <2>9
  <2> QED
    BY <1>4, <2>3, <2>4, <2>6, <2>10
<1> QED
  BY <1>5, <1>6, <1>7 DEF Connect, Look

LEMMA RunLinks ==
  ASSUME PackInv, NEW p \in Procs, RunChain(p) \/ RunNext(p), LinkedSoFar(cli[p]), \A c \in ChainNames : ~Vanishes(c)
  PROVE  LinkedSoFar(cli[p])'
<1> DEFINE q == cli[p]
<1>1. q \in Proc /\ q.pc = "run" /\ q.pending \subseteq ChainNames /\ \A i \in DOMAIN q.group : Linked(q, q.group[i])
  BY Stay, Here DEF RunChain, RunNext, At, LinkedSoFar
<1>2. ASSUME NEW r, cli'[p] = r, r.group = q.group, r.pc = "run",
             \A c \in q.pending : c \in r.pending \/ containers'[Chain(c)] # "none"
      PROVE  LinkedSoFar(cli[p])'
  <2>1. \A i \in DOMAIN q.group : q.group[i].def.chain # Blank =>
          \E c \in ChainNames : Chain(c) \in q.group[i].links /\ (c \in r.pending \/ containers'[Chain(c)] # "none")
    BY <1>1, <1>2, LinksKept
  <2> QED
    BY <1>2, <2>1 DEF LinkedSoFar, Linked
<1>3. cli'[p].pc \notin StartPlaces => LinkedSoFar(cli[p])'
  BY DEF LinkedSoFar, StartPlaces
<1>4. \A r : End(p, r) => LinkedSoFar(cli[p])'
  <2>1. \A r : Idle(r).pc = "idle"
    BY DEF Idle
  <2> QED
    BY <1>3, <2>1, Became DEF End, StartPlaces
<1>5. ASSUME NEW l, NEW r, Leap(p, l, r), l \notin StartPlaces PROVE LinkedSoFar(cli[p])'
  <2>1. [Idle(r) EXCEPT !.pc = l, !.cmd = cli[p].cmd].pc = l
    BY DEF Idle
  <2> QED
    BY <1>3, <1>5, <2>1, Became DEF Leap
<1>6. Fail(p) => LinkedSoFar(cli[p])'
  BY <1>4, <1>5 DEF Fail, StartPlaces
<1>7. CASE RunChain(p)
  <2>1. PICK c \in q.pending : \E o \in RunService(containers, Chain(c), TRUE, {Service(Keys)}) :
          containers' = o.left /\ (IF o.ok THEN Become(p, [q EXCEPT !.pending = @ \ {c}]) ELSE Fail(p))
    BY <1>7 DEF RunChain, Perform
  <2>2. PICK o \in RunService(containers, Chain(c), TRUE, {Service(Keys)}) :
          containers' = o.left /\ (IF o.ok THEN Become(p, [q EXCEPT !.pending = @ \ {c}]) ELSE Fail(p))
    BY <2>1
  <2>3. CASE o.ok
    <3> DEFINE r == [q EXCEPT !.pending = @ \ {c}]
    <3>1. r.group = q.group /\ r.pc = "run" /\ r.pending = q.pending \ {c}
      BY <1>1 DEF Proc, Process
    <3>2. cli'[p] = r
      BY <2>2, <2>3, Became
    <3> HIDE DEF r
    <3>3. containers \in Containers /\ Chain(c) \in Named /\ c \in Shorts
      BY <1>1, Names, ThreePlaces DEF PackInv, TypeOK
    <3>4. containers'[Chain(c)] = "running"
      BY <2>2, <2>3, <3>3, RunServiceOutcome
    <3> QED
      BY <1>2, <3>1, <3>2, <3>4
  <2> QED
    BY <1>6, <2>2, <2>3
<1>8. CASE RunNext(p)
  <2>1. ASSUME Advance(p, "run") PROVE LinkedSoFar(cli[p])'
    <3> DEFINE r == [q EXCEPT !.pc = "run", !.idx = @ + 1]
    <3>1. r.group = q.group /\ r.pc = "run" /\ r.pending = q.pending
      BY <1>1 DEF Proc, Process
    <3>2. cli'[p] = r
      BY <2>1, Became DEF Advance
    <3> HIDE DEF r
    <3> QED
      BY <1>2, <3>1, <3>2
  <2>2. \A l \in {"boot", "steps"} : \A r : Leap(p, l, r) => LinkedSoFar(cli[p])'
    BY <1>5 DEF StartPlaces
  <2> QED
    BY <1>4, <1>6, <1>8, <2>1, <2>2 DEF RunNext, Perform
<1> QED
  BY <1>7, <1>8

LEMMA StepLinks ==
  ASSUME PackInv, NEW p \in Procs, Step(p), Kind(p) # "package", LinkedSoFar(cli[p]), \A m \in MembersOf(cli[p]) : FromFile(m)
  PROVE  LinkedSoFar(cli[p])'
<1> SUFFICES ASSUME cli'[p].pc \in StartPlaces PROVE LinkedSoFar(cli[p])'
  BY DEF LinkedSoFar, StartPlaces
<1>1. cli[p].pc \in StartPlaces \cup {"build"}
  BY StepKept DEF Kept, May, At
<1>2. CASE cli[p].pc = "connect"
  BY <1>1, <1>2, StartActions, ConnectLinks
<1>3. CASE cli[p].pc = "run"
  <2>1. \A c \in ChainNames : ~Vanishes(c)
    <3> SUFFICES ASSUME NEW c \in ChainNames, Vanishes(c) PROVE FALSE
      OBVIOUS
    <3>1. ServiceStep(p)
      BY <1>1, <1>3, StartActions DEF ServiceStep
    <3>2. cli[p].pc \notin StartPlaces
      BY <3>1, ServiceVanishes
    <3> QED
      BY <1>3, <3>2 DEF StartPlaces
  <2> QED
    BY <1>1, <1>3, <2>1, StartActions, RunLinks
<1>4. CASE cli[p].pc = "build"
  <2>1. cli[p].idx = 1 /\ cli[p] \in Proc
    BY <1>4, Stay DEF Fine
  <2>2. CASE Visit(p) \/ Return(p)
    <3>1. cli'[p].pc \in {"build", "idle", "clean"}
      <4>1. \A f : Called(p, f).pc = "build"
        BY <1>4, <2>1 DEF Called, Proc, Process
      <4>2. \A r : Idle(r).pc = "idle" /\ [Idle(r) EXCEPT !.pc = "clean", !.cmd = cli[p].cmd].pc = "clean"
        BY DEF Idle
      <4> DEFINE r == [cli[p] EXCEPT !.group = Append(@, Head(cli[p].stack).srv), !.stack = Tail(@)]
      <4>3. r.pc = "build"
        BY <1>4, <2>1 DEF Proc, Process
      <4>4. CASE Visit(p)
        BY <4>1, <4>2, <4>4, Became DEF Visit, Look, End, Fail, Leap
      <4>5. CASE Return(p)
        <5>1. Become(p, r)
          BY <4>5 DEF Return, Look
        <5>2. cli'[p] = r
          BY <5>1, Became
        <5> QED
          BY <4>3, <5>2
      <4> QED
        BY <2>2, <4>4, <4>5
    <3> QED
      BY <3>1 DEF StartPlaces
  <2>3. CASE Built(p)
    <3>1. PICK l \in {"kill", "boot", "run", "steps", "connect"} : Goto(p, l) /\ (l = "run" => Kind(p) = "package")
      BY <2>3 DEF Built, Look
    <3>2. cli'[p] = [cli[p] EXCEPT !.pc = l]
      BY <3>1, Became DEF Goto
    <3>3. cli'[p].pc = l /\ cli'[p].idx = 1 /\ cli'[p].group = cli[p].group
      BY <2>1, <3>2 DEF Proc, Process
    <3>4. \A i \in DOMAIN cli[p].group : ~(i < 1)
      BY Here
    <3> QED
      BY <3>1, <3>3, <3>4 DEF LinkedSoFar, StartPlaces
  <2> QED
    BY <1>1, <1>4, <2>2, <2>3, StartActions
<1> QED
  BY <1>1, <1>2, <1>3, <1>4 DEF StartPlaces

\* A service that works with a chain is not started before it is linked to a
\* chain that is known and has been started ahead of the group, as long as no
\* chain is removed by another process on the way.
THEOREM ChainsComeFirst == ASSUME RemovalsAlone PROVE Spec => []ChainsFirst
<1>1. Init => LinkedInv
  <2> SUFFICES ASSUME Init PROVE LinkedInv
    OBVIOUS
  <2>1. \A p \in Procs : cli[p].pc = "idle"
    BY DEF Init, ServicesInit, Idle
  <2> QED
    BY <2>1, MembersInit DEF LinkedInv, LinkedSoFar
<1>2. LinkedInv /\ [Next]_vars => LinkedInv'
  <2> SUFFICES ASSUME LinkedInv, [Next]_vars PROVE LinkedInv'
    OBVIOUS
  <2>1. MembersInv /\ PackInv /\ MembersInv'
    BY MembersNext DEF LinkedInv, MembersInv
  <2>2. ASSUME NEW q \in Procs, cli'[q] = cli[q], Kind(q) # "package", \A c \in ChainNames : ~Vanishes(c)
        PROVE  LinkedSoFar(cli[q])'
    <3>1. LinkedSoFar(cli[q])
      BY <2>2 DEF LinkedInv
    <3>2. \A m : Linked(cli[q], m) => Linked(cli[q], m)'
      BY <2>2 DEF Linked, Vanishes
    <3> QED
      BY <2>2, <3>1, <3>2 DEF LinkedSoFar
  <2>3. ASSUME NEW p \in Procs, Step(p) PROVE LinkedInv'
    <3> SUFFICES ASSUME NEW q \in Procs, cli'[q].cmd.kind # "package" PROVE LinkedSoFar(cli[q])'
      BY <2>1 DEF LinkedInv, Kind
    <3>1. CASE q = p
      <4>1. CASE cli'[p].pc \notin StartPlaces
        BY <3>1, <4>1 DEF LinkedSoFar, StartPlaces
      <4>2. CASE cli'[p].pc \in StartPlaces
        <5>1. cli'[p].cmd = cli[p].cmd
          <6>1. cli'[p].cmd # NoCommand
            BY <2>1, <4>2 DEF MembersInv, Kind, NoCommand, Starters
          <6> QED
            BY <2>1, <2>3, <6>1, StepKept DEF Kept
        <5>2. Kind(p) # "package"
          BY <3>1, <5>1 DEF Kind
        <5> QED
          BY <2>1, <2>3, <3>1, <5>2, StepLinks DEF LinkedInv, MembersInv
      <4> QED
        BY <4>1, <4>2
    <3>2. CASE q # p
      <4>1. cli'[q] = cli[q] /\ Kind(q) # "package"
        BY <2>1, <2>3, <3>2, OnlyMine DEF Kind
      <4>2. CASE cli[q].pc \notin StartPlaces
        BY <4>1, <4>2 DEF LinkedSoFar, StartPlaces
      <4>3. CASE cli[q].pc \in StartPlaces
        <5>1. Kind(q) \in {"start", "action"}
          BY <2>1, <4>1, <4>3 DEF MembersInv, Starters
        <5>2. cli[q].cmd \in Commands[q]
          BY <2>1, <4>3, Stay DEF Fine, StartPlaces
        <5>3. \A c \in Commands[p] : c.kind # "package" /\ "data" \notin c.flags
          BY <3>2, <5>1, <5>2 DEF RemovalsAlone, Runs, Kind
        <5>4. Kind(p) # "package" /\ ~Has(p, "data")
          <6>1. CASE cli[p].pc = "idle"
            BY <2>1, <6>1, Stay DEF Fine, Kind, Has, NoCommand
          <6>2. CASE cli[p].pc # "idle"
            BY <2>1, <5>3, <6>2, Stay DEF Fine, Kind, Has
          <6> QED
            BY <6>1, <6>2
        <5>5. ASSUME NEW c \in ChainNames, Vanishes(c) PROVE FALSE
          <6>1. containers' # containers
            BY <5>5 DEF Vanishes
          <6>2. ~PackageStep(p)
            BY <2>1, <5>4, <6>1, PackagePlaces
          <6>3. ServiceStep(p)
            BY <2>3, <6>2 DEF Step
          <6> QED
            BY <2>1, <5>4, <5>5, <6>3, ServiceVanishes DEF MembersInv
        <5> QED
          BY <2>2, <4>1, <5>5
      <4> QED
        BY <4>2, <4>3
    <3> QED
      BY <3>1, <3>2
  <2>4. ASSUME NEW p \in Procs, BeginCommand(p) PROVE LinkedInv'
    <3>1. /\ \A q \in Procs \ {p} : cli'[q] = cli[q]
          /\ UNCHANGED containers
          /\ cli'[p].cmd \in Commands[p] /\ cli'[p].pc \in {"build", cli'[p].cmd.kind}
      BY <2>1, <2>4, BeginMembers
    <3>2. cli'[p].cmd.kind \in Kinds
      BY <3>1, ServicesAssumption DEF ServicesAssumption, Accepted, Command
    <3>3. cli'[p].pc \notin StartPlaces
      BY <3>1, <3>2 DEF Kinds, StartPlaces
    <3>4. \A c \in ChainNames : ~Vanishes(c)
      BY <3>1 DEF Vanishes
    <3> SUFFICES ASSUME NEW q \in Procs, cli'[q].cmd.kind # "package" PROVE LinkedSoFar(cli[q])'
      BY <2>1 DEF LinkedInv, Kind
    <3>5. CASE q = p
      BY <3>3, <3>5 DEF LinkedSoFar, StartPlaces
    <3>6. CASE q # p
      BY <2>2, <3>1, <3>4, <3>6 DEF Kind
    <3> QED
      BY <3>5, <3>6
  <2>5. ASSUME UNCHANGED cli, \A c \in ChainNames : ~Vanishes(c) PROVE LinkedInv'
    <3> SUFFICES ASSUME NEW q \in Procs, cli'[q].cmd.kind # "package" PROVE LinkedSoFar(cli[q])'
      BY <2>1 DEF LinkedInv, Kind
    <3> QED
      BY <2>2, <2>5 DEF Kind
  <2>6. ASSUME NEW n \in Named, Exit(n), Keeps PROVE LinkedInv'
    <3>1. UNCHANGED cli /\ \A m \in Named : containers'[m] = "none" <=> containers[m] = "none"
      BY <2>1, <2>6 DEF Exit, Running, PackInv, TypeOK, Containers
    <3>2. \A c \in ChainNames : ~Vanishes(c)
      BY <3>1, Names, ThreePlaces DEF Vanishes
    <3> QED
      BY <2>5, <3>1, <3>2
  <2>7. CASE UNCHANGED vars
    BY <2>5, <2>7 DEF vars, Vanishes
  <2> QED
    BY <2>3, <2>4, <2>6, <2>7 DEF Next
<1>3. LinkedInv => ChainsFirst
  BY DEF LinkedInv, LinkedSoFar, Linked, ChainsFirst, At, Kind
<1> QED
  BY <1>1, <1>2, <1>3, PTL DEF Spec

-----------------------------------------------------------------------------
\* The calls of BuildServicesGroup that are open

\* The commands that write definition files.
Editors == {"new", "edit", "import", "rename"}

\* While a process may follow the dependencies of a group, no other writes a
\* definition file.
EditsAlone == \A p, q \in Procs : p # q /\ Runs(p, GroupKinds) => ~Runs(q, Editors)

\* A call for each service fits on Go's stack.
DeepStack == IsFiniteSet(ServiceNames) /\ MaxDepth >= Cardinality(ServiceNames)

Name(s, i) == s[i].srv.of.short

\* Each open call has been made for a dependency of the service of the call
\* below it, and has only dependencies of its own service to visit.
Path(s) ==
  \A i \in DOMAIN s :
    /\ Name(s, i) \in ServiceNames
    /\ \A k \in DOMAIN s[i].rest : Leads(Name(s, i), s[i].rest[k])
    /\ i + 1 \in DOMAIN s => Leads(Name(s, i + 1), Name(s, i))

PathInv ==
  /\ PackInv
  /\ \A p \in Procs : cli[p].pc \in FilePlaces => Kind(p) = cli[p].pc
  /\ \A p \in Procs : ~At(p, "idle") => cli[p].res # "overflow"
  /\ \A p \in Procs : At(p, "build") => Path(cli[p].stack)

LEMMA FilesChange ==
  ASSUME PackInv, NEW p \in Procs, Step(p), defs' # defs
  PROVE  New(p) \/ Edit(p) \/ Import(p) \/ RenameWrite(p) \/ RenameFile(p)
<1>1. ASSUME Visit(p) \/ Return(p) \/ Built(p) \/ Connect(p) \/ Exec(p) \/ Update(p) \/ RenameService(p) \/ Rm(p) PROVE FALSE
  BY <1>1 DEF Visit, Return, Built, Connect, Exec, Update, RenameService, Rm, LoadOne, Load, Look, disk
<1>2. ASSUME RunChain(p) \/ RunNext(p) \/ ExecRun(p) \/ UpdateRebuild(p) \/ RenameContainer(p) \/ RenameData(p) PROVE FALSE
  BY <1>2 DEF RunChain, RunNext, ExecRun, UpdateRebuild, RenameContainer, RenameData, Perform, disk
<1>3. ASSUME Kill(p) \/ KillStop(p) \/ KillRemove(p) \/ RmRemove(p) \/ Checkout(p) PROVE FALSE
  BY <1>3 DEF Kill, KillStop, KillRemove, RmRemove, Checkout, Look, Perform, disk
<1>4. ASSUME PackageStep(p) PROVE FALSE
  BY <1>4, PackageDefs
<1> QED
  BY <1>1, <1>2, <1>3, <1>4 DEF Step, ServiceStep

LEMMA EditorsEdit ==
  ASSUME PathInv, NEW p \in Procs, Step(p), defs' # defs
  PROVE  Runs(p, Editors)
<1>1. PackInv /\ (cli[p].pc \in FilePlaces => Kind(p) = cli[p].pc)
  BY DEF PathInv
<1>2. Fine(p, cli[p])
  BY <1>1, Stay
<1>3. cli[p].pc \in FilePlaces \cup RenamePlaces
  BY <1>1, FilesChange DEF New, Edit, Import, RenameWrite, RenameFile, At, FilePlaces, RenamePlaces
<1>4. cli[p].cmd.kind \in Editors
  BY <1>1, <1>2, <1>3 DEF Fine, Kind, Editors, FilePlaces
<1>5. cli[p].cmd \in Commands[p]
  BY <1>2, <1>3 DEF Fine, FilePlaces, RenamePlaces
<1> QED
  BY <1>4, <1>5 DEF Runs

\* A visit adds a call for a dependency of the innermost call's service.
LEMMA VisitPath ==
  ASSUME PackInv, NEW p \in Procs, Visit(p), Path(cli[p].stack), cli'[p].pc = "build"
  PROVE  Path(cli[p].stack)'
<1> DEFINE q == cli[p]
           x == Head(Waiting(p))
           f == [srv |-> Loaded(x), rest |-> defs[x].deps]
           s == q.stack
           t == <<f>> \o (IF q.stack = <<>> THEN q.stack ELSE [q.stack EXCEPT ![1].rest = Tail(@)])
           r == Called(p, f)
<1>1. q \in Proc /\ q.stack \in Seq(Frame) /\ q.todo \in Seq(ServiceNames) /\ Waiting(p) # <<>>
  BY Stay DEF Visit, Proc, Process
<1>2. Waiting(p) \in Seq(ServiceNames) /\ (s # <<>> => s[1].rest # <<>> /\ s[1].rest = Waiting(p) /\ 1 \in DOMAIN s)
  BY <1>1, TopFrame DEF Waiting
<1>3. x \in ServiceNames /\ x = Waiting(p)[1] /\ 1 \in DOMAIN Waiting(p)
  <2>1. Head(Waiting(p)) \in ServiceNames
    BY <1>1, <1>2, HeadTailProperties
  <2>2. Len(Waiting(p)) \in Nat \ {0} /\ DOMAIN Waiting(p) = 1..Len(Waiting(p))
    BY <1>1, <1>2, EmptySeq, LenProperties
  <2>3. 1 \in DOMAIN Waiting(p)
    BY <2>2
  <2>4. Head(Waiting(p)) = Waiting(p)[1]
    BY <1>2
  <2> QED
    BY <2>1, <2>3, <2>4
<1>4. f \in Frame /\ f.srv.of.short = x /\ f.rest = defs[x].deps
  BY <1>3, LoadedOK DEF Frame
<1>5. Become(p, r) /\ UNCHANGED defs
  <2>1. cli'[p].pc # "build" \/ Become(p, r)
    <3>1. ASSUME NEW e, End(p, e) PROVE cli'[p].pc = "idle"
      <4>1. cli'[p] = Idle(e)
        BY <3>1, Became DEF End
      <4> QED
        BY <4>1 DEF Idle
    <3>2. ASSUME Fail(p) PROVE cli'[p].pc \in {"idle", "clean"}
      <4>1. ASSUME Leap(p, "clean", "err") PROVE cli'[p].pc = "clean"
        <5> DEFINE z == [Idle("err") EXCEPT !.pc = "clean", !.cmd = cli[p].cmd]
        <5>1. z.pc = "clean"
          BY DEF Idle
        <5>2. Become(p, z)
          BY <4>1 DEF Leap
        <5> HIDE DEF z
        <5> QED
          BY <5>1, <5>2, Became
      <4> QED
        BY <3>1, <3>2, <4>1 DEF Fail
    <3> QED
      BY <3>1, <3>2 DEF Visit, Look
  <2> QED
    BY <2>1 DEF Visit, Look, disk
<1>6. cli'[p].stack = t
  <2>1. r.stack = t
    BY <1>1 DEF Called, Proc, Process
  <2> QED
    BY <1>5, <2>1, Became
<1>7. /\ t \in Seq(Frame) /\ Len(t) = Len(s) + 1 /\ t[1] = f
      /\ \A i \in 2..Len(t) : t[i].srv = s[i - 1].srv /\ (i > 2 => t[i].rest = s[i - 1].rest)
      /\ s # <<>> => t[2].rest = Tail(s[1].rest)
  <2> HIDE DEF f, x
  <2> QED
    BY <1>1, <1>2, <1>4, Pushed
<1> HIDE DEF r, t, f, x
<1>8. DOMAIN t = 1..Len(t) /\ DOMAIN s = 1..Len(s) /\ Len(s) \in Nat
  BY <1>1, <1>7, LenProperties
<1>9. s # <<>> => Leads(Name(s, 1), x)
  BY <1>2, <1>3 DEF Path
<1>10. Path(t)
  <2> SUFFICES ASSUME NEW i \in DOMAIN t
               PROVE  /\ Name(t, i) \in ServiceNames
                      /\ \A k \in DOMAIN t[i].rest : Leads(Name(t, i), t[i].rest[k])
                      /\ i + 1 \in DOMAIN t => Leads(Name(t, i + 1), Name(t, i))
    BY DEF Path
  <2>1. i \in 1..(Len(s) + 1) /\ i \in Nat
    BY <1>7, <1>8
  <2>2. CASE i = 1
    <3>1. Name(t, i) = x /\ t[i].rest = defs[x].deps
      BY <1>4, <1>7, <2>2 DEF Name
    <3>2. \A k \in DOMAIN t[i].rest : Leads(x, t[i].rest[k])
      BY <3>1 DEF Leads
    <3>3. ASSUME i + 1 \in DOMAIN t PROVE Leads(Name(t, i + 1), x)
      <4>1. i + 1 \in 2..Len(t) /\ s # <<>> /\ (i + 1) - 1 = 1
        BY <1>7, <1>8, <2>2, <3>3, EmptySeq
      <4>2. t[i + 1].srv = s[1].srv
        BY <1>7, <4>1
      <4> QED
        BY <1>9, <4>1, <4>2 DEF Name
    <3> QED
      BY <1>3, <3>1, <3>2, <3>3
  <2>3. CASE i # 1
    <3> DEFINE j == i - 1
    <3>1. i \in 2..Len(t) /\ j \in DOMAIN s /\ i = j + 1 /\ j \in Nat
      BY <1>7, <1>8, <2>1, <2>3
    <3>2. t[i].srv = s[j].srv
      BY <1>7, <3>1
    <3>3. Name(t, i) = Name(s, j)
      BY <3>2 DEF Name
    <3>4. \A k \in DOMAIN t[i].rest : Leads(Name(s, j), t[i].rest[k])
      <4>1. CASE i > 2
        <5>1. t[i].rest = s[j].rest
          BY <1>7, <3>1, <4>1
        <5> QED
          BY <3>1, <5>1 DEF Path
      <4>2. CASE i = 2
        <5>1. j = 1 /\ s # <<>>
          BY <1>8, <3>1, <4>2, EmptySeq
        <5>2. t[i].rest = Tail(s[1].rest) /\ s[1].rest \in Seq(ServiceNames) /\ s[1].rest # <<>>
          BY <1>2, <1>7, <4>2, <5>1
        <5>3. \A k \in DOMAIN t[i].rest : k + 1 \in DOMAIN s[1].rest /\ t[i].rest[k] = s[1].rest[k + 1]
          <6> DEFINE w == s[1].rest
          <6> HIDE DEF w
          <6>1. w \in Seq(ServiceNames) /\ w # <<>>
            BY <5>2 DEF w
          <6>2. /\ Tail(w) \in Seq(ServiceNames) /\ Len(Tail(w)) = Len(w) - 1
                /\ \A k \in 1..Len(Tail(w)) : Tail(w)[k] = w[k + 1]
            BY <6>1, HeadTailProperties
          <6>3. Len(w) \in Nat /\ DOMAIN w = 1..Len(w) /\ DOMAIN Tail(w) = 1..Len(Tail(w))
            BY <6>1, <6>2, LenProperties
          <6>4. \A k \in DOMAIN Tail(w) : k + 1 \in DOMAIN w /\ Tail(w)[k] = w[k + 1]
            BY <6>2, <6>3
          <6> QED
            BY <5>2, <6>4 DEF w
        <5> QED
          BY <3>1, <5>1, <5>3 DEF Path
      <4> QED
        BY <3>1, <4>1, <4>2
    <3>5. ASSUME i + 1 \in DOMAIN t PROVE Leads(Name(t, i + 1), Name(t, i))
      <4>1. i + 1 \in 2..Len(t) /\ (i + 1) - 1 = j + 1 /\ j + 1 \in DOMAIN s
        BY <1>7, <1>8, <3>1, <3>5
      <4>2. t[i + 1].srv = s[j + 1].srv
        BY <1>7, <4>1
      <4>3. Leads(Name(s, j + 1), Name(s, j))
        BY <3>1, <4>1 DEF Path
      <4> QED
        BY <3>3, <4>2, <4>3 DEF Name
    <3>6. Name(s, j) \in ServiceNames
      BY <3>1 DEF Path
    <3> QED
      BY <3>3, <3>4, <3>5, <3>6
  <2> QED
    BY <2>2, <2>3
<1> QED
  BY <1>5, <1>6, <1>10 DEF Path, Leads, Name

\* A return takes the innermost call away.
LEMMA ReturnPath ==
  ASSUME PackInv, NEW p \in Procs, Return(p), Path(cli[p].stack)
  PROVE  Path(cli[p].stack)'
<1> DEFINE q == cli[p]
           s == q.stack
           t == Tail(s)
           r == [q EXCEPT !.group = Append(@, Head(cli[p].stack).srv), !.stack = Tail(@)]
<1>1. q \in Proc /\ s # <<>> /\ s \in Seq(Frame) /\ cli'[p] = r /\ UNCHANGED defs
  BY Stay, Became DEF Return, Look, Proc, Process, disk
<1>2. r.stack = t
  BY <1>1 DEF Proc, Process
<1>3. Len(t) = Len(s) - 1 /\ t \in Seq(Frame) /\ \A i \in 1..Len(t) : t[i] = s[i + 1]
  BY <1>1, HeadTailProperties
<1>4. DOMAIN t = 1..Len(t) /\ DOMAIN s = 1..Len(s) /\ Len(s) \in Nat /\ Len(t) \in Nat
  BY <1>1, <1>3, LenProperties
<1> HIDE DEF r, t
<1>5. \A i \in DOMAIN t : i \in Nat /\ i + 1 \in DOMAIN s /\ t[i] = s[i + 1]
  BY <1>3, <1>4
<1>6. Path(t)
  BY <1>5 DEF Path, Name
<1> QED
  BY <1>1, <1>2, <1>6 DEF Path, Leads, Name


LEMMA SamePath ==
  ASSUME NEW q, Path(cli[q].stack), cli'[q].stack \in {cli[q].stack, <<>>}, defs' = defs
  PROVE  Path(cli[q].stack)'
<1> DEFINE s == cli'[q].stack
<1>1. Path(s)
  <2>1. CASE s = cli[q].stack
    BY <2>1
  <2>2. CASE s = <<>>
    <3>1. DOMAIN s = {}
      BY <2>2
    <3> QED
      BY <3>1 DEF Path
  <2> QED
    BY <2>1, <2>2
<1> QED
  BY <1>1 DEF Path, Leads, Name

LEMMA NotIdle == ASSUME NEW p \in Procs, Step(p) PROVE cli[p].pc # "idle"
<1>1. CASE Visit(p) \/ Return(p) \/ Built(p) \/ Connect(p) \/ Exec(p) \/ Update(p) \/ RenameService(p) \/ Rm(p)
  BY <1>1 DEF Visit, Return, Built, Connect, Exec, Update, RenameService, Rm, LoadOne, Load, Look, At
<1>2. CASE RunChain(p) \/ RunNext(p) \/ ExecRun(p) \/ UpdateRebuild(p) \/ RenameContainer(p) \/ RenameData(p)
  BY <1>2 DEF RunChain, RunNext, ExecRun, UpdateRebuild, RenameContainer, RenameData, At
<1>3. CASE Kill(p) \/ KillStop(p) \/ KillRemove(p) \/ RmRemove(p) \/ Checkout(p)
  BY <1>3 DEF Kill, KillStop, KillRemove, RmRemove, Checkout, Look, At
<1>4. CASE New(p) \/ Edit(p) \/ Import(p) \/ RenameWrite(p) \/ RenameFile(p)
  BY <1>4 DEF New, Edit, Import, RenameWrite, RenameFile, At
<1>5. CASE Boot(p) \/ BootKeys(p) \/ BootRun(p) \/ Throw(p) \/ ThrowImport(p) \/ ThrowKeys(p) \/ ThrowRun(p)
  BY <1>5 DEF Boot, BootKeys, BootRun, Throw, ThrowImport, ThrowKeys, ThrowRun, StartKeys, At
<1>6. CASE ThrowRemove(p) \/ ThrowStart(p) \/ ThrowStartRun(p) \/ Define(p) \/ DefineImport(p) \/ PerformTask(p) \/ Steps(p)
  BY <1>6 DEF ThrowRemove, ThrowStart, ThrowStartRun, StartKeys, Define, DefineImport, PerformTask, Steps, Look, At
<1>7. CASE Clean(p) \/ CleanRemove(p) \/ CleanDirs(p) \/ CleanExport(p) \/ CleanData(p) \/ CleanContainer(p)
  BY <1>7 DEF Clean, CleanRemove, CleanDirs, CleanExport, CleanData, CleanContainer, At
<1> QED
  BY <1>1, <1>2, <1>3, <1>4, <1>5, <1>6, <1>7 DEF Step, ServiceStep, PackageStep

LEMMA BeginsFresh == ASSUME PackInv, NEW p \in Procs, BeginCommand(p) PROVE cli'[p].res = "none"
<1>1. PICK c \in Commands[p] :
        cli' = [cli EXCEPT ![p] =
                 [Idle("none") EXCEPT !.pc = IF c.kind \in {"start", "stop", "package", "action"}
                                             THEN "build" ELSE c.kind,
                                      !.cmd = c, !.todo = c.args]]
  BY DEF BeginCommand, Begin
<1> DEFINE r == [Idle("none") EXCEPT !.pc = IF c.kind \in {"start", "stop", "package", "action"} THEN "build" ELSE c.kind,
                                     !.cmd = c, !.todo = c.args]
<1>2. r.res = "none"
  BY DEF Idle
<1>3. cli'[p] = r
  BY <1>1 DEF PackInv, TypeOK
<1> QED
  BY <1>2, <1>3

LEMMA PathNext == ASSUME EditsAlone PROVE PathInv /\ [Next]_vars => PathInv'
<1> SUFFICES ASSUME PathInv, [Next]_vars PROVE PathInv'
  OBVIOUS
<1> DEFINE Told(q) == (q.pc \in FilePlaces => q.cmd.kind = q.pc) /\ (q.pc # "idle" => q.res # "overflow")
<1>1. PackInv /\ PackInv'
  BY Invariance DEF PathInv
<1>2. SUFFICES ASSUME NEW q \in Procs
               PROVE  Told(cli'[q]) /\ (cli'[q].pc = "build" => Path(cli[q].stack)')
  BY <1>1 DEF PathInv, At, Kind
<1>3. Told(cli[q]) /\ (cli[q].pc = "build" => Path(cli[q].stack))
  BY DEF PathInv, At, Kind
<1>4. ASSUME cli'[q] = cli[q], defs' = defs
      PROVE  Told(cli'[q]) /\ (cli'[q].pc = "build" => Path(cli[q].stack)')
  BY <1>3, <1>4, SamePath
<1>5. ASSUME NEW p \in Procs, Step(p)
      PROVE  Told(cli'[q]) /\ (cli'[q].pc = "build" => Path(cli[q].stack)')
  <2>1. Kept(p) /\ \A o \in Procs \ {p} : cli'[o] = cli[o]
    BY <1>1, <1>5, StepKept, OnlyMine
  <2>2. CASE q = p
    <3>1. Told(cli'[q])
      <4>1. cli'[q].pc \notin FilePlaces
        BY <2>1, <2>2 DEF Kept, May
      <4>2. cli[q].pc # "idle"
        BY <1>5, <2>2, NotIdle
      <4>3. cli[q].res # "overflow"
        BY <1>3, <4>2
      <4>4. cli'[q].pc # "idle" => cli'[q].res # "overflow"
        BY <2>1, <2>2, <4>3 DEF Kept
      <4> QED
        BY <4>1, <4>4
    <3>2. ASSUME cli'[q].pc = "build" PROVE Path(cli[q].stack)'
      <4>1. At(p, "build") /\ Path(cli[p].stack)
        BY <1>3, <2>1, <2>2, <3>2 DEF Kept, May, At
      <4>2. CASE Visit(p)
        BY <1>1, <2>2, <3>2, <4>1, <4>2, VisitPath
      <4>3. CASE Return(p)
        BY <1>1, <2>2, <4>1, <4>3, ReturnPath
      <4>4. CASE ~Visit(p) /\ ~Return(p)
        <5>1. cli'[p].stack \in {cli[p].stack, <<>>}
          BY <2>1, <4>4 DEF Kept
        <5>2. cli[p].pc \notin FilePlaces \cup RenamePlaces
          BY <4>1 DEF At, FilePlaces, RenamePlaces
        <5>3. ~(New(p) \/ Edit(p) \/ Import(p) \/ RenameWrite(p) \/ RenameFile(p))
          BY <5>2 DEF New, Edit, Import, RenameWrite, RenameFile, At, FilePlaces, RenamePlaces
        <5>4. defs' = defs
          BY <1>1, <1>5, <5>3, FilesChange
        <5> QED
          BY <2>2, <4>1, <5>1, <5>4, SamePath
      <4> QED
        BY <4>2, <4>3, <4>4
    <3> QED
      BY <3>1, <3>2
  <2>3. CASE q # p
    <3>1. cli'[q] = cli[q]
      BY <2>1, <2>3
    <3>2. CASE defs' = defs
      BY <1>4, <3>1, <3>2
    <3>3. CASE defs' # defs
      <4>1. Runs(p, Editors)
        BY <1>5, <3>3, EditorsEdit
      <4>2. ~Runs(q, GroupKinds)
        BY <2>3, <4>1 DEF EditsAlone
      <4>3. cli[q].pc # "build"
        BY <1>1, <4>2, Stay DEF Fine, Runs
      <4> QED
        BY <1>3, <3>1, <4>3
    <3> QED
      BY <3>2, <3>3
  <2> QED
    BY <2>2, <2>3
<1>6. ASSUME NEW p \in Procs, BeginCommand(p)
      PROVE  Told(cli'[q]) /\ (cli'[q].pc = "build" => Path(cli[q].stack)')
  <2>1. /\ MembersOf(cli'[p]) = {} /\ \A o \in Procs \ {p} : cli'[o] = cli[o]
        /\ UNCHANGED <<containers, defs, chains, dirs>>
        /\ cli'[p].cmd \in Commands[p] /\ cli'[p].pc \in {"build", cli'[p].cmd.kind}
    BY <1>1, <1>6, BeginMembers
  <2>2. CASE q = p
    <3>1. DOMAIN cli'[q].stack = {}
      BY <2>1, <2>2 DEF MembersOf
    <3>2. Path(cli[q].stack)'
      BY <3>1 DEF Path
    <3>3. cli'[q].res = "none"
      BY <1>1, <1>6, <2>2, BeginsFresh
    <3>4. cli'[q].pc \in FilePlaces => cli'[q].cmd.kind = cli'[q].pc
      BY <2>1, <2>2 DEF FilePlaces
    <3> QED
      BY <3>2, <3>3, <3>4
  <2>3. CASE q # p
    BY <1>4, <2>1, <2>3
  <2> QED
    BY <2>2, <2>3
<1>7. CASE UNCHANGED <<cli, defs>>
  BY <1>4, <1>7
<1> QED
  BY <1>5, <1>6, <1>7 DEF Next, Exit, vars, disk

\* Calls open one above the other, more of them than there are services, go
\* round in a circle.
LEMMA RoundInCircle ==
  ASSUME NEW n \in Nat, NEW f \in [0..n -> ServiceNames], IsFiniteSet(ServiceNames), Cardinality(ServiceNames) <= n,
         \A i \in 1..n : Leads(f[i], f[i - 1])
  PROVE  Cyclic
<1>1. IsFiniteSet(0..n) /\ Cardinality(0..n) = n + 1
  BY FS_Interval
<1>2. Cardinality(ServiceNames) \in Nat
  BY FS_CardinalityType
<1>3. Cardinality(ServiceNames) < Cardinality(0..n)
  BY <1>1, <1>2
<1>4. \E i, j \in 0..n : i # j /\ f[i] = f[j]
  BY <1>1, <1>3, FS_PigeonHole
<1>5. \E i, j \in 0..n : i < j /\ f[i] = f[j]
  BY <1>4
<1>6. PICK i \in 0..n : \E j \in 0..n : i < j /\ f[i] = f[j]
  BY <1>5
<1>7. PICK j \in 0..n : i < j /\ f[i] = f[j]
  BY <1>6
<1> DEFINE S == {f[k] : k \in (i + 1)..j}
<1>8. \A k \in (i + 1)..j : k \in 1..n /\ k \in 0..n /\ k - 1 \in 0..n /\ (k - 1 = i \/ k - 1 \in (i + 1)..j)
  BY <1>7
<1>9. S \in SUBSET ServiceNames /\ S # {}
  <2>1. j \in (i + 1)..j
    BY <1>7
  <2> QED
    BY <1>8, <2>1
<1>10. ASSUME NEW x \in S PROVE \E y \in S : Leads(x, y)
  <2>1. PICK k \in (i + 1)..j : x = f[k]
    OBVIOUS
  <2>2. Leads(f[k], f[k - 1])
    BY <1>8
  <2>3. j \in (i + 1)..j
    BY <1>7
  <2>4. f[k - 1] \in S
    BY <1>7, <1>8, <2>3
  <2> QED
    BY <2>1, <2>2, <2>4
<1> QED
  BY <1>9, <1>10 DEF Cyclic

LEMMA OverflowStep ==
  ASSUME DeepStack, PathInv, NEW p \in Procs, Step(p), Ends(p, "overflow")
  PROVE  Cyclic
<1>1. PackInv /\ cli'[p].res = "overflow"
  BY DEF PathInv, Ends
<1>2. Visit(p) /\ Len(cli[p].stack) >= MaxDepth /\ At(p, "build")
  <2>1. cli[p].res # "overflow"
    BY DEF PathInv, Ends
  <2> QED
    BY <1>1, <2>1, StepKept DEF Kept, TooDeep
<1> DEFINE q == cli[p]
           s == q.stack
           x == Head(Waiting(p))
           n == Len(s)
           f == [k \in 0..n |-> IF k = 0 THEN x ELSE Name(s, k)]
<1>3. q \in Proc /\ s \in Seq(Frame) /\ q.todo \in Seq(ServiceNames) /\ Waiting(p) # <<>>
  BY <1>1, <1>2, Stay DEF Visit, Proc, Process
<1>4. Waiting(p) \in Seq(ServiceNames) /\ (s # <<>> => s[1].rest = Waiting(p) /\ 1 \in DOMAIN s)
  BY <1>3, TopFrame DEF Waiting
<1>5. x \in ServiceNames /\ x = Waiting(p)[1] /\ 1 \in DOMAIN Waiting(p)
  <2>1. Head(Waiting(p)) \in ServiceNames
    BY <1>3, <1>4, HeadTailProperties
  <2>2. Len(Waiting(p)) \in Nat \ {0} /\ DOMAIN Waiting(p) = 1..Len(Waiting(p))
    BY <1>3, <1>4, EmptySeq, LenProperties
  <2>3. 1 \in DOMAIN Waiting(p)
    BY <2>2
  <2>4. Head(Waiting(p)) = Waiting(p)[1]
    BY <1>4
  <2> QED
    BY <2>1, <2>3, <2>4
<1>6. n \in Nat /\ DOMAIN s = 1..n
  BY <1>3, LenProperties
<1>7. Path(s)
  BY <1>2 DEF PathInv
<1> HIDE DEF x, n
<1>8. f \in [0..n -> ServiceNames]
  <2>1. \A k \in 1..n : Name(s, k) \in ServiceNames
    BY <1>6, <1>7 DEF Path
  <2> QED
    BY <1>5, <1>6, <2>1
<1>9. ASSUME NEW k \in 1..n PROVE Leads(f[k], f[k - 1])
  <2>1. k \in 0..n /\ k - 1 \in 0..n /\ f[k] = Name(s, k)
    BY <1>6
  <2>2. CASE k = 1
    <3>1. s[1].rest = Waiting(p)
      BY <1>4, <1>6, <2>2, EmptySeq DEF n
    <3>2. Leads(Name(s, 1), x)
      BY <1>5, <1>6, <1>7, <2>2, <3>1 DEF Path
    <3> QED
      BY <2>1, <2>2, <3>2
  <2>3. CASE k # 1
    <3>1. k - 1 \in DOMAIN s /\ (k - 1) + 1 = k /\ k \in DOMAIN s /\ k - 1 # 0
      BY <1>6, <2>3
    <3>2. Leads(Name(s, k), Name(s, k - 1))
      BY <1>7, <3>1 DEF Path
    <3> QED
      BY <2>1, <3>1, <3>2
  <2> QED
    BY <2>2, <2>3
<1>10. Cardinality(ServiceNames) <= n /\ IsFiniteSet(ServiceNames)
  <2>1. Cardinality(ServiceNames) \in Nat /\ MaxDepth \in Nat
    BY ServicesAssumption, FS_CardinalityType DEF DeepStack, ServicesAssumption
  <2> QED
    BY <1>2, <1>6, <2>1 DEF DeepStack, n
<1> HIDE DEF f
<1> QED
  BY <1>6, <1>8, <1>9, <1>10, RoundInCircle

\* As long as no other process writes definition files meanwhile, and Go's stack
\* has room for a call of each service, BuildServicesGroup exhausts it only if
\* some service depends on itself: a stack as deep as that repeats a service.
THEOREM OverflowMeansCycle == ASSUME EditsAlone, DeepStack PROVE Spec => OverflowOnCycle
<1>1. Init => PathInv
  <2> SUFFICES ASSUME Init PROVE PathInv
    OBVIOUS
  <2>1. \A p \in Procs : cli[p].pc = "idle"
    BY DEF Init, ServicesInit, Idle
  <2> QED
    BY <2>1, InitInv DEF PathInv, At, FilePlaces
<1>2. PathInv /\ [Next]_vars => PathInv'
  BY PathNext
<1>3. PathInv /\ [Next]_vars => [\A p \in Procs : Ends(p, "overflow") => Cyclic]_vars
  <2> SUFFICES ASSUME PathInv, [Next]_vars, vars' # vars, NEW q \in Procs, Ends(q, "overflow") PROVE Cyclic
    BY DEF vars
  <2>1. PackInv
    BY DEF PathInv
  <2>2. cli'[q] # cli[q]
    BY DEF Ends, At
  <2>3. ASSUME NEW p \in Procs, Step(p) PROVE Cyclic
    BY <2>1, <2>2, <2>3, OnlyMine, OverflowStep
  <2>4. ASSUME NEW p \in Procs, BeginCommand(p) PROVE FALSE
    <3>1. /\ \A o \in Procs \ {p} : cli'[o] = cli[o]
          /\ cli'[p].cmd \in Commands[p] /\ cli'[p].pc \in {"build", cli'[p].cmd.kind}
      BY <2>1, <2>4, BeginMembers
    <3>2. cli'[p].cmd.kind \in Kinds
      BY <3>1, ServicesAssumption DEF ServicesAssumption, Accepted, Command
    <3> QED
      BY <2>2, <3>1, <3>2 DEF Ends, Kinds
  <2>5. CASE UNCHANGED cli
    BY <2>2, <2>5
  <2> QED
    BY <2>3, <2>4, <2>5 DEF Next, Exit, vars
<1> QED
  BY <1>1, <1>2, <1>3, PTL DEF Spec, OverflowOnCycle


-----------------------------------------------------------------------------
\* What a command has worked on when it ends

\* What is still to do of the arguments is the end of them.
Rest(t, a) == Len(t) <= Len(a) /\ \A i \in 1..Len(t) : t[i] = a[(Len(a) - Len(t)) + i]

Taken(q) == Len(q.cmd.args) - Len(q.todo)

LastArg(q) == q.cmd.args[Len(q.cmd.args)]

\* The places of the commands that report what they have done.
Course(q) ==
  /\ q.cmd.kind = "start" => q.pc \in {"build", "connect", "run"}
  /\ q.cmd.kind = "stop" => q.pc \in {"build", "kill", "killStop"} \/ (q.pc = "killRemove" /\ "rm" \in q.cmd.flags)
  /\ q.cmd.kind = "rm" => q.pc \in {"rm", "rmRemove"}
  /\ q.cmd.kind = "rename" => q.pc \in RenamePlaces \cup {"rename"}

\* The argument taken last is the service of the outermost call, or, when that
\* has returned, the last of the group; and so it is in the complete group.
LastDone(q) ==
  /\ q.pc = "build" \/ q.cmd.kind = "rm" => Rest(q.todo, q.cmd.args)
  /\ q.pc = "build" /\ q.stack # <<>> =>
       Taken(q) >= 1 /\ q.stack[Len(q.stack)].srv.of = Service(q.cmd.args[Taken(q)])
  /\ q.pc = "build" /\ q.stack = <<>> /\ Taken(q) >= 1 =>
       q.group # <<>> /\ q.group[Len(q.group)].of = Service(q.cmd.args[Taken(q)])
  /\ q.cmd.kind \in {"start", "stop"} /\ q.pc # "build" =>
       q.group # <<>> /\ q.group[Len(q.group)].of = Service(LastArg(q))
  /\ q.cmd.kind = "rm" /\ q.pc = "rmRemove" => q.group[1].of = Service(Head(q.todo))

Good(q) == Course(q) /\ LastDone(q)

LEMMA NextArg ==
  ASSUME NEW S, NEW a \in Seq(S), NEW t \in Seq(S), t # <<>>, Rest(t, a)
  PROVE  /\ Rest(Tail(t), a) /\ Len(a) - Len(Tail(t)) = (Len(a) - Len(t)) + 1
         /\ Head(t) = a[(Len(a) - Len(t)) + 1] /\ (Len(t) = 1 => Head(t) = a[Len(a)])
<1>1. Len(a) \in Nat /\ Len(t) \in Nat /\ Len(t) # 0
  BY EmptySeq, LenProperties
<1>2. Tail(t) \in Seq(S) /\ Len(Tail(t)) = Len(t) - 1 /\ \A i \in 1..Len(Tail(t)) : Tail(t)[i] = t[i + 1]
  BY HeadTailProperties
<1>3. Head(t) = t[1]
  OBVIOUS
<1> DEFINE u == Tail(t)
<1> HIDE DEF u
<1>4. Len(u) = Len(t) - 1 /\ \A i \in 1..Len(u) : u[i] = t[i + 1]
  BY <1>2 DEF u
<1>5. Len(a) - Len(u) = (Len(a) - Len(t)) + 1
  BY <1>1, <1>4
<1>6. ASSUME NEW i \in 1..Len(u) PROVE u[i] = a[(Len(a) - Len(u)) + i]
  <2>1. i + 1 \in 1..Len(t) /\ (Len(a) - Len(t)) + (i + 1) = (Len(a) - Len(u)) + i
    BY <1>1, <1>4
  <2>2. t[i + 1] = a[(Len(a) - Len(t)) + (i + 1)]
    BY <2>1 DEF Rest
  <2> QED
    BY <1>4, <2>1, <2>2
<1>7. Rest(u, a)
  BY <1>1, <1>4, <1>6 DEF Rest
<1>8. t[1] = a[(Len(a) - Len(t)) + 1]
  BY <1>1 DEF Rest
<1>9. Len(t) = 1 => (Len(a) - Len(t)) + 1 = Len(a)
  BY <1>1
<1> QED
  BY <1>3, <1>5, <1>7, <1>8, <1>9 DEF u

LEMMA OtherGood ==
  ASSUME NEW r, r.cmd.kind \notin {"start", "stop", "rm", "rename"}, r.pc # "build"
  PROVE  Good(r)
BY DEF Good, Course, LastDone

LEMMA EndGood ==
  ASSUME PackInv, NEW p \in Procs, NEW r, End(p, r)
  PROVE  cli'[p].pc = "idle" /\ cli'[p].res = r /\ Good(cli'[p])
<1>1. cli'[p] = Idle(r)
  BY Became DEF End
<1>2. Idle(r).pc = "idle" /\ Idle(r).res = r /\ Idle(r).cmd.kind = "none"
  BY DEF Idle, NoCommand
<1> QED
  BY <1>1, <1>2, OtherGood

\* An error ends a command, or has a package clean up.
LEMMA FailGood ==
  ASSUME PackInv, NEW p \in Procs, Fail(p)
  PROVE  Good(cli'[p]) /\ ~Ends(p, "ok")
<1>1. CASE End(p, "err")
  BY <1>1, EndGood DEF Ends
<1>2. CASE Leap(p, "clean", "err") /\ Kind(p) = "package"
  <2> DEFINE r == [Idle("err") EXCEPT !.pc = "clean", !.cmd = cli[p].cmd]
  <2>1. r.pc = "clean" /\ r.cmd = cli[p].cmd
    BY DEF Idle
  <2>2. cli'[p] = r
    BY <1>2, Became DEF Leap
  <2> HIDE DEF r
  <2> QED
    BY <1>2, <2>1, <2>2, OtherGood DEF Ends, Kind
<1> QED
  BY <1>1, <1>2 DEF Fail

LEMMA ArgsAre ==
  ASSUME PackInv, NEW p \in Procs, cli[p].pc # "idle"
  PROVE  /\ cli[p].cmd.args \in Seq(ServiceNames) /\ cli[p].todo \in Seq(ServiceNames)
         /\ cli[p].stack \in Seq(Frame) /\ cli[p].group \in Seq(Member)
         /\ Len(cli[p].cmd.args) \in Nat /\ Len(cli[p].todo) \in Nat
         /\ Kind(p) \in {"start", "stop", "rm", "rename"} => cli[p].cmd.args # <<>> /\ Len(cli[p].cmd.args) # 0
<1>1. cli[p].cmd \in Command
  BY CommandOK
<1>2. cli[p].cmd.args \in Seq(ServiceNames)
  BY <1>1 DEF Command
<1>3. cli[p].todo \in Seq(ServiceNames) /\ cli[p].stack \in Seq(Frame) /\ cli[p].group \in Seq(Member)
  BY Stay DEF Proc, Process
<1>4. Kind(p) \in {"start", "stop", "rm", "rename"} => cli[p].cmd.args # <<>>
  BY CommandOK DEF Kind
<1>5. Len(cli[p].cmd.args) \in Nat /\ Len(cli[p].todo) \in Nat
  BY <1>2, <1>3, LenProperties
<1>6. cli[p].cmd.args # <<>> => Len(cli[p].cmd.args) # 0
  BY <1>2, EmptySeq
<1> QED
  BY <1>2, <1>3, <1>4, <1>5, <1>6


LEMMA VisitGood ==
  ASSUME PackInv, NEW p \in Procs, Visit(p), At(p, "build"), Good(cli[p])
  PROVE  Good(cli'[p]) /\ ~Ends(p, "ok")
<1> DEFINE q == cli[p]
           x == Head(Waiting(p))
           f == [srv |-> Loaded(x), rest |-> defs[x].deps]
           s == q.stack
           t == <<f>> \o (IF q.stack = <<>> THEN q.stack ELSE [q.stack EXCEPT ![1].rest = Tail(@)])
           r == Called(p, f)
           a == q.cmd.args
<1>1. q \in Proc /\ s \in Seq(Frame) /\ q.todo \in Seq(ServiceNames) /\ Waiting(p) # <<>> /\ q.pc = "build"
  BY Stay DEF Visit, Proc, Process, At
<1>2. Waiting(p) \in Seq(ServiceNames) /\ (s # <<>> => s[1].rest # <<>>)
  BY <1>1, TopFrame DEF Waiting
<1>3. x \in ServiceNames
  BY <1>1, <1>2, HeadTailProperties
<1>4. f \in Frame /\ f.srv.of = Service(x)
  BY <1>3, LoadedOK DEF Frame
<1>5. CASE End(p, "overflow")
  BY <1>5, EndGood DEF Ends
<1>6. CASE Become(p, r)
  <2>1. r.pc = q.pc /\ r.cmd = q.cmd /\ r.stack = t /\ r.group = q.group
        /\ r.todo = IF s = <<>> THEN Tail(q.todo) ELSE q.todo
    BY <1>1 DEF Called, Proc, Process
  <2>2. cli'[p] = r
    BY <1>6, Became
  <2>3. /\ t \in Seq(Frame) /\ Len(t) = Len(s) + 1 /\ t[1] = f /\ t # <<>>
        /\ \A i \in 2..Len(t) : t[i].srv = s[i - 1].srv
    <3> HIDE DEF f, x
    <3> QED
      BY <1>1, <1>2, <1>4, Pushed
  <2>4. Rest(q.todo, a) /\ a \in Seq(ServiceNames) /\ Len(a) \in Nat /\ Len(q.todo) \in Nat
    BY <1>1, ArgsAre DEF Good, LastDone
  <2>5. s = <<>> => q.todo # <<>> /\ x = Head(q.todo)
    BY <1>1 DEF Waiting
  <2> HIDE DEF r, t, f, x
  <2>6. Len(s) \in Nat /\ (s # <<>> => Len(s) # 0) /\ (s = <<>> => Len(s) = 0)
    BY <1>1, EmptySeq
  <2>7. Course(r)
    BY <1>1, <2>1 DEF Good, Course
  <2>8. CASE s = <<>>
    <3>1. Rest(r.todo, a) /\ Taken(r) = Taken(q) + 1 /\ x = a[Taken(q) + 1]
      BY <2>1, <2>4, <2>5, <2>8, <1>1, NextArg DEF Taken
    <3>2. Taken(q) \in Nat
      BY <2>4 DEF Taken, Rest
    <3>3. t[Len(t)].srv.of = Service(x)
      BY <1>4, <2>3, <2>6, <2>8
    <3>4. Taken(r) >= 1
      BY <3>1, <3>2
    <3>5. LastDone(r)
      BY <1>1, <2>1, <2>3, <3>1, <3>3, <3>4 DEF LastDone
    <3> QED
      BY <1>1, <2>1, <2>2, <2>7, <3>5 DEF Good, Ends
  <2>9. CASE s # <<>>
    <3>1. Len(t) \in 2..Len(t) /\ Len(t) - 1 = Len(s)
      BY <2>3, <2>6, <2>9
    <3>2. t[Len(t)].srv = s[Len(s)].srv
      BY <2>3, <3>1
    <3>3. Taken(r) = Taken(q)
      BY <2>1, <2>9 DEF Taken
    <3>4. Taken(q) >= 1 /\ s[Len(s)].srv.of = Service(a[Taken(q)])
      BY <1>1, <2>9 DEF Good, LastDone
    <3>5. LastDone(r)
      BY <1>1, <2>1, <2>3, <2>4, <2>9, <3>2, <3>3, <3>4 DEF LastDone
    <3> QED
      BY <1>1, <2>1, <2>2, <2>7, <3>5 DEF Good, Ends
  <2> QED
    BY <2>8, <2>9
<1> QED
  BY <1>5, <1>6, FailGood DEF Visit, Look

LEMMA ReturnGood ==
  ASSUME PackInv, NEW p \in Procs, Return(p), At(p, "build"), Good(cli[p])
  PROVE  Good(cli'[p]) /\ ~Ends(p, "ok")
<1> DEFINE q == cli[p]
           s == q.stack
           m == Head(s).srv
           g == Append(q.group, m)
           t == Tail(s)
           r == [q EXCEPT !.group = g, !.stack = t]
           a == q.cmd.args
<1>1. /\ q \in Proc /\ s # <<>> /\ s \in Seq(Frame) /\ q.group \in Seq(Member) /\ cli'[p] = r
      /\ q.pc = "build"
  BY Stay, Became DEF Return, Look, Proc, Process, At
<1>2. Head(s) = s[1] /\ m \in Member
  BY <1>1, TopFrame
<1>3. Len(g) = Len(q.group) + 1 /\ g[Len(q.group) + 1] = m /\ g # <<>> /\ Len(q.group) \in Nat
  BY <1>1, <1>2, AppendProperties, LenProperties
<1>4. Len(t) = Len(s) - 1 /\ t \in Seq(Frame) /\ \A i \in 1..Len(t) : t[i] = s[i + 1]
  BY <1>1, HeadTailProperties
<1>5. Len(s) \in Nat \ {0} /\ Len(t) \in Nat /\ (t = <<>> <=> Len(t) = 0)
  BY <1>1, <1>4, EmptySeq, LenProperties
<1>6. r.pc = q.pc /\ r.cmd = q.cmd /\ r.stack = t /\ r.group = g /\ r.todo = q.todo
  BY <1>1 DEF Proc, Process
<1> HIDE DEF r, g, t, m
<1>7. Taken(r) = Taken(q) /\ Rest(r.todo, a)
  BY <1>1, <1>6 DEF Taken, Good, LastDone
<1>8. Taken(q) >= 1 /\ s[Len(s)].srv.of = Service(a[Taken(q)])
  BY <1>1 DEF Good, LastDone
<1>9. t # <<>> => t[Len(t)].srv.of = Service(a[Taken(q)])
  <2> SUFFICES ASSUME t # <<>> PROVE t[Len(t)] = s[Len(s)]
    BY <1>8
  <2>1. Len(t) \in 1..Len(t) /\ Len(t) + 1 = Len(s)
    BY <1>4, <1>5
  <2> QED
    BY <1>4, <2>1
<1>10. t = <<>> => g[Len(g)].of = Service(a[Taken(q)])
  <2> SUFFICES ASSUME t = <<>> PROVE g[Len(g)] = s[Len(s)].srv
    BY <1>8
  <2>1. Len(s) = 1
    BY <1>4, <1>5
  <2> QED
    BY <1>2, <1>3, <2>1 DEF m
<1>11. Course(r)
  BY <1>1, <1>6 DEF Good, Course
<1>12. LastDone(r)
  BY <1>1, <1>3, <1>6, <1>7, <1>8, <1>9, <1>10 DEF LastDone
<1> QED
  BY <1>1, <1>6, <1>11, <1>12 DEF Good, Ends

LEMMA BuiltGood ==
  ASSUME PackInv, NEW p \in Procs, Built(p), At(p, "build"), Good(cli[p])
  PROVE  Good(cli'[p]) /\ ~Ends(p, "ok")
<1> DEFINE q == cli[p]
<1>1. PICK l \in {"kill", "boot", "run", "steps", "connect"} :
        Goto(p, l) /\ (Kind(p) = "stop" => l = "kill") /\ (Kind(p) = "start" => l = "connect")
  BY DEF Built, Look
<1> DEFINE r == [q EXCEPT !.pc = l]
<1>2. r.pc = l /\ r.cmd = q.cmd /\ r.group = q.group /\ cli'[p] = r
  BY <1>1, Stay, Became DEF Goto, Proc, Process
<1> HIDE DEF r
<1>3. q.pc = "build" /\ q.cmd.kind \notin {"rm", "rename"} /\ q.stack = <<>> /\ q.todo = <<>>
  BY DEF At, Good, Course, RenamePlaces, Built
<1>4. CASE Kind(p) \in {"start", "stop"}
  <2>1. Len(q.todo) = 0 /\ Len(q.cmd.args) \in Nat /\ Len(q.cmd.args) # 0
    BY <1>3, <1>4, ArgsAre, EmptySeq
  <2>2. Taken(q) = Len(q.cmd.args) /\ Taken(q) >= 1
    BY <2>1 DEF Taken
  <2>3. q.group # <<>> /\ q.group[Len(q.group)].of = Service(LastArg(q))
    BY <1>3, <2>2 DEF Good, LastDone, LastArg
  <2>4. Course(r) /\ LastDone(r)
    BY <1>1, <1>2, <1>4, <2>3 DEF Course, LastDone, LastArg, Kind
  <2> QED
    BY <1>1, <1>2, <2>4 DEF Good, Ends
<1>5. CASE Kind(p) \notin {"start", "stop"}
  BY <1>1, <1>2, <1>3, <1>5, OtherGood DEF Ends, Kind
<1> QED
  BY <1>4, <1>5


LEMMA ConnectGood ==
  ASSUME PackInv, NEW p \in Procs, Connect(p), Kind(p) = "start", Good(cli[p])
  PROVE  Good(cli'[p]) /\ ~Ends(p, "ok")
<1> DEFINE q == cli[p]
           c == ChosenChain(p, Current(p).def.chain)
           m == [Current(p) EXCEPT !.links = @ \cup {Chain(c)}]
           g == [q.group EXCEPT ![q.idx] = m]
<1>1. q \in Proc /\ q.pc = "connect" /\ q.idx \in DOMAIN q.group /\ Current(p) \in Member
  BY Stay, Here DEF Connect, Look, At, Fine, Ready
<1>2. m.of = Current(p).of
  BY <1>1 DEF Member
<1>3. q.group # <<>> /\ Len(q.group) \in DOMAIN q.group /\ q.group \in Seq(Member)
  BY <1>1, Here, EmptySeq
<1>10. ASSUME c \in chains
       PROVE  DOMAIN g = DOMAIN q.group /\ Len(g) = Len(q.group) /\ g # <<>> /\ \A i \in DOMAIN q.group : g[i].of = q.group[i].of
  <2>1. Chain(c) \in Named
    <3>1. c \in Shorts
      BY <1>10, Names DEF PackInv, TypeOK
    <3> QED
      BY <3>1, ThreePlaces
  <2>2. m \in Member
    BY <1>1, <2>1 DEF Member
  <2> HIDE DEF m
  <2>3. g \in Seq(Member) /\ Len(g) = Len(q.group)
    BY <1>1, <1>3, <2>2, Here, ExceptSeq
  <2>4. DOMAIN g = DOMAIN q.group /\ \A i \in DOMAIN q.group : g[i].of = q.group[i].of
    BY <1>1, <1>2 DEF Current
  <2> HIDE DEF g
  <2>5. g # <<>>
    BY <1>3, <2>4
  <2> QED
    BY <2>3, <2>4, <2>5
<1>4. q.group[Len(q.group)].of = Service(LastArg(q))
  BY <1>1 DEF Good, LastDone, Kind
<1>5. ASSUME NEW r, cli'[p] = r, r.group = q.group \/ (r.group = g /\ c \in chains), r.pc \in {"connect", "run"}, r.cmd = q.cmd
      PROVE  Good(cli'[p]) /\ ~Ends(p, "ok")
  <2> HIDE DEF g
  <2>1. r.group # <<>> /\ r.group[Len(r.group)].of = Service(LastArg(q))
    BY <1>3, <1>4, <1>5, <1>10
  <2> QED
    BY <1>5, <2>1 DEF Good, Course, LastDone, LastArg, Ends, Kind
<1>6. CASE Current(p).def.chain = Blank
  <2> DEFINE r == IF AtLast(p) THEN AtMember(q, "run", 1) ELSE Onto(q, q.idx + 1)
  <2>1. Become(p, r)
    BY <1>6 DEF Connect, Look, AtMember, Onto
  <2>2. r.group = q.group /\ r.pc \in {"connect", "run"} /\ r.cmd = q.cmd
    BY <1>1 DEF AtMember, Onto, Proc, Process
  <2>3. cli'[p] = r
    BY <2>1, Became
  <2> HIDE DEF r
  <2> QED
    BY <1>5, <2>2, <2>3
<1>7. CASE End(p, "err")
  BY <1>7, EndGood DEF Ends
<1>8. CASE Current(p).def.chain # Blank /\ c \in chains
  <2> DEFINE n == WithGroup(q, g, c)
             r == IF AtLast(p) THEN AtMember(n, "run", 1) ELSE Onto(n, n.idx + 1)
  <2>1. [q EXCEPT !.group[q.idx].links = @ \cup {Chain(c)}, !.pending = @ \cup {c}] = n
    BY DEF Current, WithGroup
  <2>2. Become(p, r)
    BY <1>8, <2>1 DEF Connect, Look, AtMember, Onto
  <2>3. r.group = g /\ r.pc \in {"connect", "run"} /\ r.cmd = q.cmd
    <3> HIDE DEF g, c
    <3>1. n.group = g /\ n.pc = "connect" /\ n.cmd = q.cmd
      BY <1>1 DEF WithGroup, Proc, Process
    <3>2. DOMAIN n = DOMAIN q /\ DOMAIN q = {"pc", "cmd", "todo", "stack", "group", "idx", "pending", "res"}
      BY <1>1 DEF WithGroup, Proc, Process
    <3> HIDE DEF n
    <3> QED
      BY <3>1, <3>2 DEF AtMember, Onto
  <2>4. cli'[p] = r
    BY <2>2, Became
  <2> HIDE DEF r, g, n
  <2> QED
    BY <1>5, <1>8, <2>3, <2>4
<1> QED
  BY <1>6, <1>7, <1>8 DEF Connect, Look

\* Another place, or another member, of the same command on the same group.
LEMMA GoesGood ==
  ASSUME PackInv, NEW p \in Procs, NEW l, Goto(p, l) \/ Advance(p, l), Good(cli[p]),
         \/ Kind(p) = "start" /\ l = "run" /\ ~At(p, "build")
         \/ Kind(p) = "stop" /\ (l \in {"kill", "killStop"} \/ (l = "killRemove" /\ Has(p, "rm"))) /\ ~At(p, "build")
  PROVE  Good(cli'[p]) /\ ~Ends(p, "ok")
<1> DEFINE q == cli[p]
<1>1. \A r \in {[q EXCEPT !.pc = l], [q EXCEPT !.pc = l, !.idx = @ + 1]} :
        r.cmd = q.cmd /\ r.pc = l /\ r.group = q.group
  BY Stay DEF Proc, Process
<1>2. PICK r \in {[q EXCEPT !.pc = l], [q EXCEPT !.pc = l, !.idx = @ + 1]} : cli'[p] = r
  BY Became DEF Goto, Advance
<1>3. r.cmd = q.cmd /\ r.pc = l /\ r.group = q.group
  BY <1>1
<1>4. Course(r)
  BY <1>3 DEF Course, Kind, Has
<1>5. LastDone(r)
  BY <1>3 DEF Good, LastDone, LastArg, Kind, At
<1> QED
  BY <1>2, <1>3, <1>4, <1>5 DEF Good, Ends

LEMMA LastMember ==
  ASSUME PackInv, NEW p \in Procs, Good(cli[p]), Kind(p) \in {"start", "stop"}, ~At(p, "build"), AtLast(p)
  PROVE  Current(p).of = Service(LastArg(cli[p]))
BY DEF Good, LastDone, Current, AtLast, Kind, At

LEMMA RunGood ==
  ASSUME PackInv, NEW p \in Procs, RunChain(p) \/ RunNext(p), Kind(p) = "start", Good(cli[p])
  PROVE  Good(cli'[p]) /\ (Ends(p, "ok") => containers'[Service(LastArg(cli[p]))] = "running")
<1> DEFINE q == cli[p]
<1>1. q \in Proc /\ q.pc = "run" /\ ~At(p, "build")
  BY Stay DEF RunChain, RunNext, At
<1>2. Fail(p) => Good(cli'[p]) /\ ~Ends(p, "ok")
  BY FailGood
<1>3. CASE RunChain(p)
  <2>1. ASSUME NEW c, Become(p, [q EXCEPT !.pending = @ \ {c}]) PROVE Good(cli'[p]) /\ ~Ends(p, "ok")
    <3> DEFINE r == [q EXCEPT !.pending = @ \ {c}]
    <3>1. r.pc = q.pc /\ r.cmd = q.cmd /\ r.group = q.group
      BY <1>1 DEF Proc, Process
    <3>2. cli'[p] = r
      BY <2>1, Became
    <3> HIDE DEF r
    <3>3. Course(r)
      BY <1>1, <3>1 DEF Course, Good
    <3>4. LastDone(r)
      BY <1>1, <3>1 DEF Good, LastDone, LastArg, Kind
    <3> QED
      BY <1>1, <3>1, <3>2, <3>3, <3>4 DEF Good, Ends
  <2> QED
    BY <1>2, <1>3, <2>1 DEF RunChain, Perform
<1>4. CASE RunNext(p)
  <2>1. Advance(p, "run") => Good(cli'[p]) /\ ~Ends(p, "ok")
    BY <1>1, GoesGood
  <2>2. End(p, "ok") => Good(cli'[p])
    BY EndGood
  <2>3. Current(p).of \in Named /\ Current(p).def.data \in BOOLEAN
    BY <1>1, CurrentTouched DEF Ready
  <2>4. containers \in Containers
    BY DEF PackInv, TypeOK
  <2>5. \A o \in RunService(containers, Current(p).of, Current(p).def.data, Current(p).links) :
          o.ok => o.left[Current(p).of] = "running"
    BY <2>3, <2>4, RunServiceOutcome
  <2>6. \/ Fail(p) \/ Advance(p, "run")
        \/ End(p, "ok") /\ AtLast(p) /\ containers'[Current(p).of] = "running"
    BY <1>4, <2>5 DEF RunNext, Perform, Kind
  <2>7. AtLast(p) => Current(p).of = Service(LastArg(q))
    BY <1>1, LastMember
  <2> QED
    BY <1>2, <2>1, <2>2, <2>6, <2>7
<1> QED
  BY <1>3, <1>4

\* Whatever data is removed with it, a container that is removed is gone.
LEMMA RemovedGone ==
  ASSUME PackInv, NEW m, m.of \in Named, NEW withData \in BOOLEAN
  PROVE  \A o \in Removed(m, withData) : o.ok => o.left[m.of] = "none"
<1>1. containers \in Containers
  BY DEF PackInv, TypeOK
<1>2. \A o \in Remove(containers, m.of, withData) : o.ok => o.left[m.of] = "none"
  BY <1>1, RemoveOutcome
<1>3. \A o \in RemoveWithAnyData(containers, m.of) : o.ok => o.left[m.of] = "none"
  <2>1. Anything(containers) \subseteq Named
    BY DEF Anything
  <2>2. \A d \in Named, b \in BOOLEAN : \A o \in RemoveBoth(containers, m.of, d, b) : o.ok => o.left[m.of] = "none"
    BY <1>1, RemoveBothOutcome
  <2>3. \A o \in RemoveWithAnyData(containers, m.of) :
          \/ o = [left |-> containers, ok |-> TRUE] /\ containers[m.of] = "none"
          \/ \E d \in Named, b \in BOOLEAN : o \in RemoveBoth(containers, m.of, d, b)
    BY <2>1 DEF RemoveWithAnyData, Succeeds
  <2> QED
    BY <2>2, <2>3
<1> QED
  BY <1>2, <1>3 DEF Removed

LEMMA KillGood ==
  ASSUME PackInv, NEW p \in Procs, Kill(p) \/ KillStop(p) \/ KillRemove(p), Kind(p) = "stop", Good(cli[p])
  PROVE  /\ Good(cli'[p])
         /\ Ends(p, "ok") => containers'[Service(LastArg(cli[p]))] \in (IF Has(p, "rm") THEN {"none"} ELSE {"none", "stopped"})
<1> DEFINE q == cli[p]
           n == Current(p).of
<1>1. q \in Proc /\ q.pc \in {"kill", "killStop", "killRemove"} /\ ~At(p, "build") /\ (q.pc = "killRemove" => Has(p, "rm"))
  BY Stay DEF Kill, KillStop, KillRemove, Look, At, Good, Course, Has, Kind
<1>2. n \in Named /\ containers \in Containers
  BY <1>1, CurrentTouched DEF Ready, PackInv, TypeOK
<1>3. AtLast(p) => n = Service(LastArg(q))
  BY <1>1, LastMember
<1>4. End(p, "err") => Good(cli'[p]) /\ ~Ends(p, "ok")
  BY EndGood DEF Ends
<1>5. Goto(p, "killRemove") /\ Has(p, "rm") => Good(cli'[p]) /\ ~Ends(p, "ok")
  BY <1>1, GoesGood
<1>10. Goto(p, "killStop") => Good(cli'[p]) /\ ~Ends(p, "ok")
  BY <1>1, GoesGood
<1>6. KillOn(p) => Good(cli'[p]) /\ (AtLast(p) \/ ~Ends(p, "ok"))
  BY <1>1, GoesGood, EndGood DEF KillOn
<1>7. containers' \in Containers
  BY ServiceWorld DEF ServiceStep, World
<1>11. CASE Kill(p)
  <2>1. \/ Goto(p, "killStop")
        \/ Goto(p, "killRemove") /\ Has(p, "rm")
        \/ KillOn(p) /\ ~Has(p, "rm") /\ containers'[n] # "running"
    BY <1>11 DEF Kill, Stopped, Look, Running
  <2>2. containers'[n] \in {"none", "stopped", "running"}
    BY <1>2, <1>7 DEF Containers
  <2> QED
    BY <1>3, <1>5, <1>6, <1>10, <2>1, <2>2
<1>8. CASE KillStop(p)
  <2>1. \A o \in Stop(containers, n) : o.ok => o.left[n] # "running"
    BY <1>2, StopOutcome
  <2>2. \/ Goto(p, "killRemove") /\ Has(p, "rm")
        \/ KillOn(p) /\ ~Has(p, "rm") /\ containers'[n] # "running"
        \/ End(p, "err")
    BY <1>8, <2>1 DEF KillStop, Stopped, Perform
  <2>3. containers'[n] \in {"none", "stopped", "running"}
    BY <1>2, <1>7 DEF Containers
  <2> QED
    BY <1>3, <1>4, <1>5, <1>6, <2>2, <2>3
<1>9. CASE KillRemove(p)
  <2>1. \A b \in BOOLEAN : \A o \in Removed(Current(p), b) : o.ok => o.left[n] = "none"
    BY <1>2, RemovedGone
  <2>2. Has(p, "data") \in BOOLEAN
    BY DEF Has
  <2>3. (KillOn(p) /\ containers'[n] = "none") \/ End(p, "err")
    BY <1>9, <2>1, <2>2 DEF KillRemove, Perform
  <2>4. Has(p, "rm")
    BY <1>1, <1>9 DEF KillRemove, At
  <2> QED
    BY <1>3, <1>4, <1>6, <2>3, <2>4
<1> QED
  BY <1>8, <1>9, <1>11

LEMMA RmActions ==
  ASSUME PackInv, NEW p \in Procs, Step(p), cli[p].pc \in {"rm", "rmRemove", "kill", "killStop", "killRemove", "checkout"}
  PROVE  /\ cli[p].pc = "rm" => Rm(p)
         /\ cli[p].pc = "rmRemove" => RmRemove(p)
         /\ cli[p].pc = "kill" => Kill(p)
         /\ cli[p].pc = "killStop" => KillStop(p)
         /\ cli[p].pc = "killRemove" => KillRemove(p)
         /\ cli[p].pc = "checkout" => Checkout(p)
<1>1. ~PackageStep(p)
  BY DEF PackageStep, Boot, BootKeys, BootRun, Throw, ThrowImport, ThrowKeys, ThrowRun, ThrowRemove, ThrowStart,
         ThrowStartRun, Define, DefineImport, PerformTask, Clean, CleanRemove, CleanDirs, CleanExport, CleanData,
         CleanContainer, Steps, StartKeys, Look, At
<1>2. ServiceStep(p)
  BY <1>1 DEF Step
<1> QED
  BY <1>2 DEF ServiceStep, Visit, Return, Built, Connect, RunChain, RunNext, Kill, KillStop, KillRemove, Exec, ExecRun, New, Edit,
       Import, Update, UpdateRebuild, RenameService, RenameContainer, RenameWrite, RenameData, RenameFile, Rm, RmRemove,
       Checkout, LoadOne, Load, Look, At

LEMMA RmGood ==
  ASSUME PackInv, NEW p \in Procs, Rm(p) \/ RmRemove(p), Kind(p) = "rm", Good(cli[p])
  PROVE  /\ Good(cli'[p])
         /\ Ends(p, "ok") => containers'[Service(LastArg(cli[p]))] = "none" /\ ~Has(p, "file")
<1> DEFINE q == cli[p]
           x == Head(q.todo)
<1>1. q \in Proc /\ q.pc \in {"rm", "rmRemove"} /\ q.todo # <<>> /\ Rest(q.todo, q.cmd.args) /\ q.cmd.kind = "rm"
  BY Stay DEF Rm, RmRemove, LoadOne, Load, Look, At, Fine, Good, LastDone, Kind
<1>2. q.todo \in Seq(ServiceNames) /\ q.cmd.args \in Seq(ServiceNames)
  BY <1>1, ArgsAre
<1>3. x \in ServiceNames
  BY <1>1, <1>2, HeadTailProperties
<1>4. Rest(Tail(q.todo), q.cmd.args) /\ (Len(q.todo) = 1 => x = LastArg(q))
  BY <1>1, <1>2, NextArg DEF LastArg
<1>5. End(p, "err") => Good(cli'[p]) /\ ~Ends(p, "ok")
  BY EndGood DEF Ends
<1>6. CASE Rm(p)
  <2>1. ASSUME Become(p, Holding(q, "rmRemove", <<Loaded(x)>>)) PROVE Good(cli'[p]) /\ ~Ends(p, "ok")
    <3> DEFINE g == <<Loaded(x)>>
               r == Holding(q, "rmRemove", g)
    <3>1. g[1].of = Service(x)
      BY <1>3, LoadedOK
    <3>2. cli'[p] = r
      BY <2>1, Became
    <3> HIDE DEF g, x
    <3>3. r.pc = "rmRemove" /\ r.cmd = q.cmd /\ r.todo = q.todo /\ r.group = g
      BY <1>1 DEF Holding, Proc, Process
    <3> HIDE DEF r
    <3>4. Good(r)
      BY <1>1, <3>1, <3>3 DEF Good, Course, LastDone, x
    <3> QED
      BY <3>2, <3>3, <3>4 DEF Ends
  <2> QED
    BY <1>5, <1>6, <2>1 DEF Rm, LoadOne, Load, Look, Holding
<1>7. CASE RmRemove(p)
  <2> DEFINE r == [q EXCEPT !.pc = "rm", !.todo = Tail(@), !.group = <<>>]
  <2>1. ASSUME Become(p, r) PROVE Good(cli'[p]) /\ ~Ends(p, "ok")
    <3>1. r.pc = "rm" /\ r.cmd = q.cmd /\ r.todo = Tail(q.todo)
      BY <1>1 DEF Proc, Process
    <3>2. cli'[p] = r
      BY <2>1, Became
    <3> HIDE DEF r
    <3>3. Good(r)
      BY <1>1, <1>4, <3>1 DEF Good, Course, LastDone
    <3> QED
      BY <3>1, <3>2, <3>3 DEF Ends
  <2>2. q.pc = "rmRemove"
    BY <1>7 DEF RmRemove, At
  <2>3. Current(p).of = Service(x) /\ Current(p).of \in Named
    <3>1. q.idx = 1
      BY <2>2, Stay DEF Fine
    <3>2. q.group[1].of = Service(x)
      BY <1>1, <2>2 DEF Good, LastDone
    <3> QED
      BY <2>2, <3>1, <3>2, CurrentTouched DEF Current
  <2>4. Has(p, "data") \in BOOLEAN
    BY DEF Has
  <2>5. \A o \in Removed(Current(p), Has(p, "data")) : o.ok => o.left[Current(p).of] = "none"
    BY <2>3, <2>4, RemovedGone
  <2>6. \/ End(p, "err")
        \/ Become(p, r)
        \/ End(p, "ok") /\ ~Has(p, "file") /\ Len(q.todo) = 1 /\ containers'[Current(p).of] = "none"
    BY <1>7, <2>5 DEF RmRemove, Perform
  <2> HIDE DEF r
  <2> QED
    BY <1>4, <1>5, <2>1, <2>3, <2>6, EndGood
<1> QED
  BY <1>6, <1>7

LEMMA RenameGood ==
  ASSUME PackInv, NEW p \in Procs, Step(p), cli[p].pc \in RenamePlaces \cup {"rename"}
  PROVE  Good(cli'[p]) /\ (Ends(p, "ok") => RenameFile(p))
<1>1. Kind(p) = "rename"
  BY Stay DEF Fine, Kind
<1>2. /\ \A r : End(p, r) => Good(cli'[p])
      /\ End(p, "err") => ~Ends(p, "ok")
  BY EndGood DEF Ends
<1>3. ASSUME NEW r, cli'[p] = r, r.pc \in RenamePlaces, r.cmd = cli[p].cmd PROVE Good(cli'[p]) /\ ~Ends(p, "ok")
  BY <1>1, <1>3 DEF Good, Course, LastDone, Ends, Kind, RenamePlaces
<1>4. \A l \in RenamePlaces : Goto(p, l) => Good(cli'[p]) /\ ~Ends(p, "ok")
  <2> SUFFICES ASSUME NEW l \in RenamePlaces, Goto(p, l) PROVE Good(cli'[p]) /\ ~Ends(p, "ok")
    OBVIOUS
  <2>1. [cli[p] EXCEPT !.pc = l].pc = l /\ [cli[p] EXCEPT !.pc = l].cmd = cli[p].cmd
    BY Stay DEF Proc, Process
  <2>2. cli'[p] = [cli[p] EXCEPT !.pc = l]
    BY Became DEF Goto
  <2> QED
    BY <1>3, <2>1, <2>2
<1>5. \A g : Become(p, Holding(cli[p], "renameContainer", g)) => Good(cli'[p]) /\ ~Ends(p, "ok")
  <2> SUFFICES ASSUME NEW g, Become(p, Holding(cli[p], "renameContainer", g)) PROVE Good(cli'[p]) /\ ~Ends(p, "ok")
    OBVIOUS
  <2> DEFINE r == Holding(cli[p], "renameContainer", g)
  <2>1. r.pc = "renameContainer" /\ r.cmd = cli[p].cmd
    BY Stay DEF Proc, Process, Holding
  <2>2. cli'[p] = r
    BY Became
  <2> HIDE DEF r
  <2> QED
    BY <1>3, <2>1, <2>2 DEF RenamePlaces
<1>6. CASE RenameService(p)
  BY <1>2, <1>5, <1>6 DEF RenameService, Load, Look, Holding
<1>7. CASE RenameContainer(p) \/ RenameWrite(p) \/ RenameData(p)
  BY <1>2, <1>4, <1>7 DEF RenameContainer, RenameWrite, RenameData, Perform, RenamePlaces
<1>8. CASE RenameFile(p)
  BY <1>2, <1>8 DEF RenameFile, Write
<1> QED
  BY <1>6, <1>7, <1>8, RenameActions DEF RenamePlaces


\* What the commands that start, stop and remove report is true.
Reported(p) ==
  LET x == LastArg(cli[p]) IN
  Ends(p, "ok") =>
    /\ Kind(p) = "start" => containers'[Service(x)] = "running"
    /\ Kind(p) = "stop"  => containers'[Service(x)] \in (IF Has(p, "rm") THEN {"none"} ELSE {"none", "stopped"})
    /\ Kind(p) = "rm"    => containers'[Service(x)] = "none" /\ ~Has(p, "file")
    /\ Kind(p) = "rename" => RenameFile(p)

LEMMA StepGood ==
  ASSUME PackInv, NEW p \in Procs, Step(p), Good(cli[p])
  PROVE  Good(cli'[p]) /\ Reported(p)
<1> DEFINE q == cli[p]
<1>1. q.pc # "idle" /\ Fine(p, q)
  BY NotIdle, Stay
<1>2. CASE q.pc = "build"
  <2>1. Visit(p) \/ Return(p) \/ Built(p)
    BY <1>2, StartActions
  <2> QED
    BY <1>2, <2>1, VisitGood, ReturnGood, BuiltGood DEF At, Reported
<1>3. CASE Kind(p) = "start" /\ q.pc # "build"
  <2>1. q.pc \in {"connect", "run"}
    BY <1>3 DEF Good, Course, Kind
  <2>2. CASE q.pc = "connect"
    <3>1. Connect(p)
      BY <2>2, StartActions DEF StartPlaces
    <3> QED
      BY <1>3, <3>1, ConnectGood DEF Reported
  <2>3. CASE q.pc = "run"
    <3>1. RunChain(p) \/ RunNext(p)
      BY <2>3, StartActions DEF StartPlaces
    <3> QED
      BY <1>3, <3>1, RunGood DEF Reported
  <2> QED
    BY <2>1, <2>2, <2>3
<1>4. CASE Kind(p) = "stop" /\ q.pc # "build"
  <2>1. q.pc \in {"kill", "killStop", "killRemove"}
    BY <1>4 DEF Good, Course, Kind
  <2>2. Kill(p) \/ KillStop(p) \/ KillRemove(p)
    BY <2>1, RmActions
  <2> QED
    BY <1>4, <2>2, KillGood DEF Reported
<1>5. CASE Kind(p) = "rm"
  <2>1. q.pc \in {"rm", "rmRemove"}
    BY <1>5 DEF Good, Course, Kind
  <2>2. Rm(p) \/ RmRemove(p)
    BY <2>1, RmActions
  <2> QED
    BY <1>5, <2>2, RmGood DEF Reported
<1>6. CASE Kind(p) = "rename"
  <2>1. q.pc \in RenamePlaces \cup {"rename"}
    BY <1>6 DEF Good, Course, Kind
  <2> QED
    BY <1>6, <2>1, RenameGood DEF Reported
<1>7. CASE Kind(p) \notin {"start", "stop", "rm", "rename"} /\ q.pc # "build"
  <2>1. Kept(p)
    BY StepKept
  <2>2. cli'[p].cmd.kind \notin {"start", "stop", "rm", "rename"}
    BY <1>7, <2>1 DEF Kept, Kind, NoCommand
  <2>3. cli'[p].pc # "build"
    BY <1>7, <2>1 DEF Kept, May, At
  <2> QED
    BY <1>7, <2>2, <2>3, OtherGood DEF Reported
<1> QED
  BY <1>2, <1>3, <1>4, <1>5, <1>6, <1>7

\* A rename is given the one name, and, while a process may rename a service, no
\* other does more than check out chains and stop services.
RenamesQuiet ==
  /\ \A p \in Procs : \A c \in Commands[p] : c.kind = "rename" => Len(c.args) = 1
  /\ \A p, q \in Procs : p # q /\ Runs(p, {"rename"}) =>
       \A c \in Commands[q] : c.kind = "checkout" \/ (c.kind = "stop" /\ "rm" \notin c.flags)

\* What a rename has moved so far.
Renaming(p) ==
  LET x == Arg(p)
      y == NewName(p)
  IN
  /\ cli[p].pc \in {"renameWrite", "renameData", "renameFile"} => containers[Service(x)] = "none" /\ containers[Service(y)] # "none"
  /\ cli[p].pc \in {"renameData", "renameFile"} => defs[y].deps = Current(p).def.deps
  /\ cli[p].pc = "renameFile" => containers[Data(x)] = "none" /\ containers[Data(y)] # "none"

SuccessInv == PackInv /\ \A p \in Procs : Good(cli[p]) /\ Renaming(p)

Unmoved == defs' = defs /\ \A n \in Named : containers'[n] = "none" <=> containers[n] = "none"

LEMMA QuietStep ==
  ASSUME PackInv, NEW q \in Procs, Step(q), Good(cli[q]),
         Kind(q) = "checkout" \/ (Kind(q) = "stop" /\ ~Has(q, "rm"))
  PROVE  Unmoved
<1>1. cli[q].pc # "idle" /\ Fine(q, cli[q]) /\ cli[q].pc \in Labels \cup PackageLabels
  BY NotIdle, Stay DEF Proc, Process
<1>2. CASE Kind(q) = "checkout"
  <2>1. cli[q].pc = "checkout"
    BY <1>1, <1>2 DEF Fine, Kind, Labels, Single, Ready, GroupKinds
  <2>2. Checkout(q)
    BY <2>1, RmActions
  <2> QED
    BY <2>2 DEF Checkout, Unmoved
<1>3. CASE Kind(q) = "stop" /\ ~Has(q, "rm")
  <2>1. cli[q].pc \in {"build", "kill", "killStop"}
    BY <1>3 DEF Good, Course, Kind, Has
  <2>2. Visit(q) \/ Return(q) \/ Built(q) \/ Kill(q) \/ KillStop(q)
    BY <2>1, StartActions, RmActions
  <2>3. CASE Visit(q) \/ Return(q) \/ Built(q)
    BY <2>3 DEF Visit, Return, Built, Look, disk, Unmoved
  <2>4. CASE Kill(q) \/ KillStop(q)
    <3> DEFINE n == Current(q).of
    <3>1. containers \in Containers /\ n \in Named
      <4>1. cli[q].pc \in Ready
        BY <2>4 DEF Kill, KillStop, Look, At, Ready
      <4> QED
        BY <4>1, CurrentTouched DEF PackInv, TypeOK
    <3>2. containers' = containers \/ \E o \in Stop(containers, n) : containers' = o.left
      BY <2>4 DEF Kill, KillStop, Look, Perform
    <3>3. \A o \in Stop(containers, n) : o.left = containers \/ (containers[n] # "none" /\ o.left = [containers EXCEPT ![n] = "stopped"])
      BY DEF Stop, If, Succeeds, Fails
    <3>4. defs' = defs
      BY <2>4 DEF Kill, KillStop, Look, Perform, disk
    <3> HIDE DEF n
    <3> QED
      BY <3>1, <3>2, <3>3, <3>4 DEF Unmoved, Containers
  <2> QED
    BY <2>2, <2>3, <2>4
<1> QED
  BY <1>2, <1>3

LEMMA RenamingKept ==
  ASSUME PackInv, NEW p \in Procs, Renaming(p), cli'[p] = cli[p], Unmoved
  PROVE  Renaming(p)'
<1>1. Arg(p)' = Arg(p) /\ NewName(p)' = NewName(p) /\ Current(p)' = Current(p)
  BY DEF Arg, NewName, Current
<1>2. cli[p].pc \in RenamePlaces =>
        /\ Service(Arg(p)) \in Named /\ Service(NewName(p)) \in Named
        /\ Data(Arg(p)) \in Named /\ Data(NewName(p)) \in Named
  BY RenameNames, Names, ThreePlaces
<1> QED
  BY <1>1, <1>2 DEF Renaming, Unmoved, RenamePlaces

\* A step of a rename keeps what it has moved so far.
LEMMA RenamingStep ==
  ASSUME PackInv, NEW p \in Procs, Step(p), Renaming(p)
  PROVE  Renaming(p)'
<1> SUFFICES ASSUME cli'[p].pc \in {"renameWrite", "renameData", "renameFile"} PROVE Renaming(p)'
  BY DEF Renaming
<1> DEFINE q == cli[p]
           x == Arg(p)
           y == NewName(p)
<1>1. /\ cli'[p].cmd = q.cmd
      /\ \/ RenameContainer(p) /\ cli'[p].pc = "renameWrite" /\ containers'[Service(x)] = "none" /\ containers'[Service(y)] # "none"
         \/ RenameWrite(p) /\ cli'[p].pc = "renameData"
         \/ RenameData(p) /\ cli'[p].pc = "renameFile" /\ containers'[Data(x)] = "none" /\ containers'[Data(y)] # "none"
  BY RenameProgress
<1>2. x' = x /\ y' = y
  BY <1>1 DEF Arg, NewName
<1>3. q.pc \in RenamePlaces
  BY <1>1 DEF RenameContainer, RenameWrite, RenameData, At, RenamePlaces
<1>4. /\ x \in Shorts /\ y \in Shorts /\ x # y /\ y \in ServiceNames
      /\ Current(p).of = Service(x)
  BY <1>3, RenameNames, Names
<1>5. /\ Service(x) \in Named /\ Service(y) \in Named /\ Data(x) \in Named /\ Data(y) \in Named
      /\ Data(x) # Data(y) /\ Service(x) \notin {Data(x), Data(y)} /\ Service(y) \notin {Data(x), Data(y)}
  BY <1>4, ThreePlaces
<1>6. \A l : Goto(p, l) => Current(p)' = Current(p)
  <2> SUFFICES ASSUME NEW l, Goto(p, l) PROVE Current(p)' = Current(p)
    OBVIOUS
  <2>1. [q EXCEPT !.pc = l].group = q.group /\ [q EXCEPT !.pc = l].idx = q.idx
    BY Stay DEF Proc, Process
  <2>2. cli'[p] = [q EXCEPT !.pc = l]
    BY Became DEF Goto
  <2> QED
    BY <2>1, <2>2 DEF Current
<1>7. ~End(p, "err")
  <2>1. Idle("err").pc = "idle"
    BY DEF Idle
  <2> QED
    BY <2>1, Became DEF End
<1>8. CASE RenameContainer(p) /\ cli'[p].pc = "renameWrite" /\ containers'[Service(x)] = "none" /\ containers'[Service(y)] # "none"
  BY <1>2, <1>8 DEF Renaming
<1>9. CASE RenameWrite(p) /\ cli'[p].pc = "renameData"
  <2>1. /\ defs' = [defs EXCEPT ![y] = AsLoaded(Current(p).def)] /\ Current(p)' = Current(p)
        /\ containers' = containers /\ q.pc = "renameWrite"
    BY <1>6, <1>9 DEF RenameWrite, At
  <2>2. Current(p).def \in Definition /\ defs \in [ServiceNames -> Definition]
    BY <1>3, CurrentTouched DEF PackInv, TypeOK
  <2>3. defs'[y].deps = Current(p).def.deps
    BY <1>4, <2>1, <2>2 DEF AsLoaded, Definition
  <2>4. containers[Service(x)] = "none" /\ containers[Service(y)] # "none"
    BY <2>1 DEF Renaming
  <2> QED
    BY <1>2, <1>9, <2>1, <2>3, <2>4 DEF Renaming
<1>10. CASE RenameData(p) /\ cli'[p].pc = "renameFile" /\ containers'[Data(x)] = "none" /\ containers'[Data(y)] # "none"
  <2>1. containers[Service(x)] = "none" /\ containers[Service(y)] # "none" /\ defs[y].deps = Current(p).def.deps
    BY <1>10 DEF Renaming, RenameData, At
  <2>2. PICK o \in Rename(containers, Data(x), Data(y), {}) : containers' = o.left
    BY <1>10 DEF RenameData, Perform
  <2>3. Goto(p, "renameFile") /\ defs' = defs
    BY <1>7, <1>10 DEF RenameData, Perform, disk
  <2>4. containers \in Containers
    BY DEF PackInv, TypeOK
  <2>5. o \in Within(containers, {Data(x), Data(y)})
    BY <1>5, <2>2, <2>4, RenameOutcome
  <2>6. o.left[Service(x)] = containers[Service(x)] /\ o.left[Service(y)] = containers[Service(y)]
    BY <1>5, <2>5 DEF Within
  <2>7. Current(p)' = Current(p)
    BY <1>6, <2>3
  <2> QED
    BY <1>2, <1>10, <2>1, <2>2, <2>3, <2>6, <2>7 DEF Renaming
<1> QED
  BY <1>1, <1>8, <1>9, <1>10

\* A command that begins has taken no argument.
LEMMA BeginGood ==
  ASSUME PackInv, NEW p \in Procs, BeginCommand(p)
  PROVE  Good(cli'[p]) /\ ~Ends(p, "ok") /\ cli'[p].pc \notin RenamePlaces
<1>1. PICK c \in Commands[p] :
        cli' = [cli EXCEPT ![p] =
                 [Idle("none") EXCEPT !.pc = IF c.kind \in {"start", "stop", "package", "action"}
                                             THEN "build" ELSE c.kind,
                                      !.cmd = c, !.todo = c.args]]
  BY DEF BeginCommand, Begin
<1> DEFINE r == [Idle("none") EXCEPT !.pc = IF c.kind \in {"start", "stop", "package", "action"} THEN "build" ELSE c.kind,
                                     !.cmd = c, !.todo = c.args]
<1>2. /\ r.group = <<>> /\ r.stack = <<>> /\ r.cmd = c /\ r.todo = c.args
      /\ r.pc = IF c.kind \in {"start", "stop", "package", "action"} THEN "build" ELSE c.kind
  BY DEF Idle
<1>3. cli'[p] = r
  BY <1>1 DEF PackInv, TypeOK
<1> HIDE DEF r
<1>4. c.kind \in Kinds /\ c.args \in Seq(ServiceNames)
  BY ServicesAssumption DEF ServicesAssumption, Accepted, Command
<1>5. Len(c.args) \in Nat /\ Len(c.args) - Len(c.args) = 0
  BY <1>4, LenProperties
<1>6. Rest(c.args, c.args)
  BY <1>5 DEF Rest
<1>7. Taken(r) = 0
  BY <1>2, <1>5 DEF Taken
<1>8. Course(r)
  BY <1>2, <1>4 DEF Course, Kinds, RenamePlaces
<1>9. LastDone(r)
  <2>1. r.pc = "build" \/ r.cmd.kind = "rm" => Rest(r.todo, r.cmd.args)
    BY <1>2, <1>6
  <2>2. r.cmd.kind \in {"start", "stop"} => r.pc = "build"
    BY <1>2
  <2>3. r.cmd.kind = "rm" => r.pc # "rmRemove"
    BY <1>2
  <2> QED
    BY <1>2, <1>7, <2>1, <2>2, <2>3 DEF LastDone
<1>10. r.pc # "idle" /\ r.pc \notin RenamePlaces
  BY <1>2, <1>4 DEF Kinds, RenamePlaces
<1> QED
  BY <1>3, <1>8, <1>9, <1>10 DEF Good, Ends

LEMMA SuccessNext == ASSUME RenamesQuiet PROVE SuccessInv /\ [Next]_vars => SuccessInv'
<1> SUFFICES ASSUME SuccessInv, [Next]_vars PROVE SuccessInv'
  OBVIOUS
<1>1. PackInv /\ PackInv' /\ \A p \in Procs : Good(cli[p]) /\ Renaming(p)
  BY Invariance DEF SuccessInv
<1>2. SUFFICES \A p \in Procs : Good(cli'[p]) /\ Renaming(p)'
  <2>1. ASSUME NEW p \in Procs PROVE Good(cli[p])' <=> Good(cli'[p])
    BY DEF Good, Course, LastDone, Taken, Rest, LastArg
  <2> QED
    BY <1>1, <1>2, <2>1 DEF SuccessInv
<1>3. ASSUME NEW p \in Procs, Step(p), NEW q \in Procs PROVE Good(cli'[q]) /\ Renaming(q)'
  <2>1. CASE q = p
    BY <1>1, <1>3, <2>1, StepGood, RenamingStep
  <2>2. CASE q # p
    <3>1. cli'[q] = cli[q]
      BY <1>1, <1>3, <2>2, OnlyMine
    <3>2. CASE cli[q].pc \in RenamePlaces
      <4>1. Runs(q, {"rename"}) /\ cli[p].cmd \in Commands[p]
        <5>1. cli[q].cmd \in Commands[q] /\ cli[q].cmd.kind = "rename"
          BY <1>1, <3>2, Stay, RenameNames DEF Fine, RenamePlaces
        <5>2. cli[p].cmd \in Commands[p]
          BY <1>1, <1>3, NotIdle, Stay DEF Fine
        <5> QED
          BY <5>1, <5>2 DEF Runs
      <4>2. Kind(p) = "checkout" \/ (Kind(p) = "stop" /\ ~Has(p, "rm"))
        BY <2>2, <4>1 DEF RenamesQuiet, Kind, Has
      <4>3. Unmoved
        BY <1>1, <1>3, <4>2, QuietStep
      <4> QED
        BY <1>1, <3>1, <4>3, RenamingKept
    <3>3. CASE cli[q].pc \notin RenamePlaces
      BY <1>1, <3>1, <3>3 DEF Renaming, RenamePlaces
    <3> QED
      BY <3>2, <3>3
  <2> QED
    BY <2>1, <2>2
<1>4. ASSUME NEW p \in Procs, BeginCommand(p), NEW q \in Procs PROVE Good(cli'[q]) /\ Renaming(q)'
  <2>1. CASE q = p
    <3>1. Good(cli'[p]) /\ cli'[p].pc \notin RenamePlaces
      BY <1>1, <1>4, BeginGood
    <3> QED
      BY <2>1, <3>1 DEF Renaming, RenamePlaces
  <2>2. CASE q # p
    <3>1. cli'[q] = cli[q] /\ UNCHANGED <<containers, defs>>
      BY <1>1, <1>4, <2>2, BeginMembers
    <3> QED
      BY <1>1, <3>1, RenamingKept DEF Unmoved
  <2> QED
    BY <2>1, <2>2
<1>5. ASSUME NEW n \in Named, Exit(n), NEW q \in Procs PROVE Good(cli'[q]) /\ Renaming(q)'
  <2>1. containers \in Containers /\ containers[n] = "running" /\ containers' = [containers EXCEPT ![n] = "stopped"]
        /\ cli' = cli /\ defs' = defs
    BY <1>1, <1>5 DEF Exit, Running, PackInv, TypeOK, disk
  <2>2. \A m \in Named : containers'[m] = IF m = n THEN "stopped" ELSE containers[m]
    BY <2>1 DEF Containers
  <2>3. Unmoved
    BY <2>1, <2>2 DEF Unmoved
  <2> QED
    BY <1>1, <2>1, <2>3, RenamingKept
<1>6. CASE UNCHANGED vars
  BY <1>1, <1>6, RenamingKept DEF vars, disk, Unmoved
<1> QED
  BY <1>3, <1>4, <1>5, <1>6 DEF Next

\* What a command on services that ends well says of the service named last is
\* so at that moment: start leaves it running, stop not running and, with --rm,
\* gone, rm gone, and never when its file was to go too, and rename has moved
\* its containers, its file and what it depends on.
THEOREM ServiceSuccessIsTrue == ASSUME RenamesQuiet PROVE Spec => ServiceOkIsTrue
<1> DEFINE True(p) ==
             LET c == cli[p].cmd
                 x == c.args[Len(c.args)]
             IN
             /\ c.kind = "start" => containers'[Service(x)] = "running"
             /\ c.kind = "stop"  => containers'[Service(x)] \in (IF Has(p, "rm") THEN {"none"} ELSE {"none", "stopped"})
             /\ c.kind = "rm"    => containers'[Service(x)] = "none" /\ ~Has(p, "file")
             /\ c.kind = "rename" =>
                  /\ containers'[Service(x)] = "none" /\ containers'[Service(c.to)] # "none"
                  /\ containers'[Data(x)] = "none" /\ containers'[Data(c.to)] # "none"
                  /\ defs'[x].file = "none" /\ defs'[c.to].deps = Current(p).def.deps
<1>1. Init => SuccessInv
  <2> SUFFICES ASSUME Init PROVE SuccessInv
    OBVIOUS
  <2>1. \A p \in Procs : cli[p] = Idle("none")
    BY DEF Init, ServicesInit
  <2>2. Idle("none").pc = "idle" /\ Idle("none").cmd.kind = "none"
    BY DEF Idle, NoCommand
  <2>3. \A p \in Procs : Good(cli[p])
    BY <2>1, <2>2, OtherGood
  <2> QED
    BY <2>1, <2>2, <2>3, InitInv DEF SuccessInv, Renaming
<1>2. SuccessInv /\ [Next]_vars => SuccessInv'
  BY SuccessNext
<1>3. SuccessInv /\ [Next]_vars => [\A p \in Procs : Ends(p, "ok") => True(p)]_vars
  <2> SUFFICES ASSUME SuccessInv, [Next]_vars, vars' # vars, NEW q \in Procs, Ends(q, "ok") PROVE True(q)
    BY DEF vars
  <2>1. PackInv /\ Good(cli[q]) /\ Renaming(q)
    BY DEF SuccessInv
  <2>2. cli'[q] # cli[q]
    BY DEF Ends, At
  <2>3. CASE Step(q)
    <3>1. Reported(q)
      BY <2>1, <2>3, StepGood
    <3>2. CASE Kind(q) # "rename"
      BY <3>1, <3>2 DEF Reported, LastArg, Kind
    <3>3. CASE Kind(q) = "rename"
      <4>1. RenameFile(q)
        BY <3>1, <3>3 DEF Reported
      <4> DEFINE x == Arg(q)
                 y == NewName(q)
      <4>2. /\ cli[q].pc = "renameFile" /\ containers' = containers
            /\ defs' = [defs EXCEPT ![x] = NoFile]
        BY <4>1 DEF RenameFile, Write, At
      <4>3. x # y /\ x \in ServiceNames /\ y \in ServiceNames
        BY <2>1, <4>2, RenameNames DEF RenamePlaces
      <4>4. LastArg(cli[q]) = x
        <5>1. cli[q].cmd \in Commands[q]
          BY <2>1, <4>2, Stay DEF Fine
        <5>2. Len(cli[q].cmd.args) = 1
          BY <3>3, <5>1 DEF RenamesQuiet, Kind
        <5> QED
          BY <5>2 DEF LastArg, Arg
      <4>5. /\ containers[Service(x)] = "none" /\ containers[Service(y)] # "none"
            /\ containers[Data(x)] = "none" /\ containers[Data(y)] # "none"
            /\ defs[y].deps = Current(q).def.deps
        BY <2>1, <4>2 DEF Renaming
      <4>6. defs'[x].file = "none" /\ defs'[y] = defs[y]
        <5>1. defs \in [ServiceNames -> Definition]
          BY <2>1 DEF PackInv, TypeOK
        <5> QED
          BY <4>2, <4>3, <5>1 DEF NoFile
      <4>7. cli[q].cmd.args[Len(cli[q].cmd.args)] = x /\ cli[q].cmd.to = y /\ cli[q].cmd.kind = "rename"
        BY <3>3, <4>4 DEF LastArg, NewName, Kind
      <4> HIDE DEF x, y
      <4> QED
        BY <4>2, <4>5, <4>6, <4>7
    <3> QED
      BY <3>2, <3>3
  <2>4. ASSUME NEW p \in Procs, Step(p), p # q PROVE FALSE
    BY <2>1, <2>2, <2>4, OnlyMine
  <2>5. ASSUME NEW p \in Procs, BeginCommand(p) PROVE FALSE
    <3>1. CASE p = q
      BY <2>1, <2>5, <3>1, BeginGood
    <3>2. CASE p # q
      BY <2>1, <2>2, <2>5, <3>2, BeginMembers
    <3> QED
      BY <3>1, <3>2
  <2>6. CASE UNCHANGED cli
    BY <2>2, <2>6
  <2> QED
    BY <2>3, <2>4, <2>5, <2>6 DEF Next, Exit, vars
<1> QED
  BY <1>1, <1>2, <1>3, PTL DEF Spec, ServiceOkIsTrue

=============================================================================
