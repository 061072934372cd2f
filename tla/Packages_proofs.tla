--------------------------- MODULE Packages_proofs ---------------------------
(***************************************************************************)
(* For any services, definitions, chains, processes and commands, whatever *)
(* the daemon refuses: the types of Packages, the order of the groups      *)
(* BuildServicesGroup makes, and what commands and the clean-up of a       *)
(* package leave alone.                                                    *)
(***************************************************************************)
EXTENDS Packages, Operations_proofs, SequenceTheorems

Proc == Process(Labels \cup PackageLabels)

GroupKinds == {"start", "stop", "package", "action"}

Ready  == {"connect", "run", "kill", "killStop", "killRemove"}
Single == {"exec", "execRun", "new", "edit", "import", "rename", "renameContainer", "renameWrite",
           "renameData", "renameFile", "rm", "rmRemove", "update", "updateRebuild", "checkout"}

RenamePlaces == {"renameContainer", "renameWrite", "renameData", "renameFile"}
ThrowPlaces  == {"throw", "throwImport", "throwKeys", "throwRun", "throwRemove", "throwStart", "throwStartRun"}
CleanPlaces  == {"clean", "cleanRemove", "cleanDirs", "cleanExport", "cleanData", "cleanContainer"}

\* A service is in the group.
In(g, d) == \E j \in DOMAIN g : g[j].of = Service(d)

InOrder(g) == \A i \in DOMAIN g : \A d \in Needs(g[i].def) : \E j \in 1..(i - 1) : g[j].of = Service(d)

Listed(d, s) == \E i \in DOMAIN s : s[i] = d

\* While the group is built: a dependency of a service that is being visited is
\* in the group, or still to be visited, or being visited by the next inner call.
FramesOK(stack, g) ==
  \A i \in DOMAIN stack : \A d \in Needs(stack[i].srv.def) :
    In(g, d) \/ Listed(d, stack[i].rest) \/ (i > 1 /\ stack[i - 1].srv.of = Service(d))

\* The same for the arguments, with the outermost call.
ArgsOK(args, todo, stack, g) ==
  \A k \in DOMAIN args :
    In(g, args[k]) \/ Listed(args[k], todo) \/ (stack # <<>> /\ stack[Len(stack)].srv.of = Service(args[k]))

Complete(args, g) == \A k \in DOMAIN args : In(g, args[k])

\* What a process record says, wherever its process is ...
Fine(p, q) ==
  /\ q.pc = "idle" => q.cmd = NoCommand
  /\ q.pc # "idle" => q.cmd \in Commands[p]
  /\ q.pc \in Single => q.cmd.kind \notin GroupKinds
  /\ q.pc \in Single \ {"checkout"} => q.cmd.kind # "checkout"
  /\ q.pc \in RenamePlaces =>
       /\ q.cmd.kind = "rename" /\ q.group # <<>> /\ q.idx = 1
       /\ q.group[1].of = Service(Head(q.cmd.args)) /\ Head(q.cmd.args) # q.cmd.to
  /\ q.pc = "rename" => q.cmd.kind = "rename"
  /\ q.pc \in Ready \cup {"build", "steps"} => q.cmd.kind \in GroupKinds
  /\ q.pc \in {"kill", "killStop", "killRemove"} => q.cmd.kind = "stop"
  /\ q.pc \in PackageLabels \ {"steps"} => q.cmd.kind = "package"
  /\ q.pc \in Ready \cup {"execRun", "updateRebuild", "rmRemove"} => q.idx \in DOMAIN q.group
  /\ q.pc \in {"build", "exec", "rename", "rm", "update"} => q.idx = 1
  /\ q.pc = "rmRemove" => q.idx = 1
  /\ q.pc \in {"rm", "rmRemove"} => q.todo # <<>>
  /\ q.cmd.kind \in GroupKinds => InOrder(q.group)
  /\ q.pc = "build" => FramesOK(q.stack, q.group) /\ ArgsOK(q.cmd.args, q.todo, q.stack, q.group)
  /\ q.pc \in Ready => Complete(q.cmd.args, q.group)

\* ... and what RunPackage knows there.
Known(q, a) ==
  /\ q.pc \in ThrowPlaces => a.made \in ThrowAways
  /\ a.type = "throwaway" => a.made \in ThrowAways /\ a.chain \in {Blank, Keys, a.made}
  /\ q.pc \in {"bootKeys", "bootRun"} => a.chain = q.cmd.chain /\ a.chain \in ChainNames
  /\ q.pc \in {"cleanRemove", "cleanDirs"} => a.type = "throwaway"
  /\ q.pc = "cleanRemove" => a.chain = a.made
  /\ a.named => q.pc \in {"defineImport", "perform"} \cup CleanPlaces
  /\ q.pc \in {"defineImport", "perform"} => a.named

PackInv == TypeOK /\ \A p \in Procs : Fine(p, cli[p]) /\ Known(cli[p], app[p])

-----------------------------------------------------------------------------
\* The process that moves

Moved(p) ==
  /\ cli' \in [Procs -> Proc] /\ app' \in [Procs -> AppState] /\ begun' = begun
  /\ Fine(p, cli'[p]) /\ Known(cli'[p], app'[p])
  /\ \A q \in Procs \ {p} : cli'[q] = cli[q] /\ app'[q] = app[q]

LEMMA MoveTo ==
  ASSUME PackInv, NEW p \in Procs, NEW r \in Proc, NEW a \in AppState, Become(p, r), app' = [app EXCEPT ![p] = a],
         Fine(p, r), Known(r, a)
  PROVE  Moved(p)
BY DEF PackInv, TypeOK, Become, Moved, Proc

LEMMA Stay ==
  ASSUME PackInv, NEW p \in Procs
  PROVE  /\ cli[p] \in Proc /\ app[p] \in AppState /\ Fine(p, cli[p]) /\ Known(cli[p], app[p])
         /\ app' = app => app' = [app EXCEPT ![p] = app[p]]
         /\ Keeps => app' = app
BY DEF PackInv, TypeOK, Keeps, Proc

\* The assumptions, as far as commands go.
LEMMA CommandOK ==
  ASSUME PackInv, NEW p \in Procs, cli[p].pc # "idle"
  PROVE  LET c == cli[p].cmd IN
         /\ c \in Command
         /\ c.kind \notin {"package", "action", "checkout"} => c.args # <<>> /\ Head(c.args) \in ServiceNames
         /\ c.kind = "rename" => c.to \in ServiceNames
<1>1. cli[p].cmd \in Accepted
  BY Stay, ServicesAssumption DEF Fine, ServicesAssumption
<1>2. cli[p].cmd.args \in Seq(ServiceNames) /\ cli[p].cmd \in Command /\ cli[p].cmd.to \in ServiceNames \cup {Blank}
  BY <1>1 DEF Accepted, Command
<1> QED
  BY <1>1, <1>2, HeadTailProperties DEF Accepted

LEMMA IdleFine ==
  ASSUME NEW p \in Procs, NEW r \in Results, NEW a, ~a.named, a.type = "throwaway" => a.made \in ThrowAways /\ a.chain \in {Blank, Keys, a.made}
  PROVE  Idle(r) \in Proc /\ Fine(p, Idle(r)) /\ Known(Idle(r), a) /\ Idle(r).pc = "idle"
<1>1. /\ Idle(r).pc = "idle" /\ Idle(r).cmd = NoCommand /\ Idle(r).cmd.kind = "none"
  BY DEF Idle, NoCommand
<1>2. Idle(r) \in Proc
  BY DEF Idle, Proc, Process, Labels
<1> QED
  BY <1>1, <1>2 DEF Fine, Known, Single, RenamePlaces, Ready, PackageLabels, GroupKinds, ThrowPlaces, CleanPlaces

LEMMA Ending ==
  ASSUME PackInv, NEW p \in Procs, NEW r \in Results, End(p, r), app' = app, ~app[p].named
  PROVE  Moved(p)
<1>1. app[p].type = "throwaway" => app[p].made \in ThrowAways /\ app[p].chain \in {Blank, Keys, app[p].made}
  BY Stay DEF Known
<1> QED
  BY <1>1, IdleFine, Stay, MoveTo DEF End

LEMMA Leaving ==
  ASSUME PackInv, NEW p \in Procs, NEW r \in Results, Leave(p, r)
  PROVE  Moved(p)
<1>1. NoApp \in AppState /\ ~NoApp.named /\ NoApp.type # "throwaway"
  BY DEF NoApp, AppState, Blank
<1> QED
  BY <1>1, IdleFine, MoveTo DEF Leave, End, Knows

\* To a place after the group.
LEMMA Leaping ==
  ASSUME PackInv, NEW p \in Procs, NEW l \in {"boot", "steps", "clean"}, NEW r \in Results, Leap(p, l, r), app' = app,
         cli[p].pc # "idle", cli[p].cmd.kind \in GroupKinds, l # "steps" => cli[p].cmd.kind = "package",
         l # "clean" => ~app[p].named
  PROVE  Moved(p)
<1> DEFINE q == [Idle(r) EXCEPT !.pc = l, !.cmd = cli[p].cmd]
<1>1. Idle(r) \in Proc /\ Idle(r).group = <<>>
  BY DEF Idle, Proc, Process, Labels
<1>2. q \in Proc /\ q.pc = l /\ q.cmd = cli[p].cmd /\ q.group = <<>>
  BY <1>1, Stay DEF Proc, Process, PackageLabels
<1> HIDE DEF q
<1>3. InOrder(<<>>)
  BY DEF InOrder
<1>4. cli[p].cmd \in Commands[p]
  BY Stay DEF Fine
<1>5. Fine(p, q)
  BY <1>2, <1>3, <1>4 DEF Fine, Single, RenamePlaces, Ready, PackageLabels
<1>6. Known(q, app[p])
  BY <1>2, Stay DEF Known, ThrowPlaces, CleanPlaces
<1> QED
  BY <1>2, <1>5, <1>6, Stay, MoveTo DEF Leap, q

LEMMA Failing ==
  ASSUME PackInv, NEW p \in Procs, Fail(p), app' = app, cli[p].pc \in Ready \cup {"build"} \cup PackageLabels
  PROVE  Moved(p)
<1>1. cli[p].pc # "idle" /\ cli[p].cmd.kind \in GroupKinds
  BY Stay DEF Fine, Ready, PackageLabels, GroupKinds
<1>2. app[p].named => cli[p].cmd.kind = "package"
  BY Stay DEF Fine, Known, PackageLabels, CleanPlaces
<1> QED
  BY <1>1, <1>2, Leaping, Ending DEF Fail, Kind, Results

\* The record with nothing but its place changed.
LEMMA Going ==
  ASSUME PackInv, NEW p \in Procs, NEW l \in Labels \cup PackageLabels, Goto(p, l), NEW a \in AppState,
         app' = [app EXCEPT ![p] = a],
         Fine(p, [cli[p] EXCEPT !.pc = l]), Known([cli[p] EXCEPT !.pc = l], a)
  PROVE  Moved(p)
<1>1. [cli[p] EXCEPT !.pc = l] \in Proc
  BY Stay DEF Proc, Process
<1> QED
  BY <1>1, MoveTo DEF Goto

LEMMA Placed ==
  ASSUME NEW q \in Proc, NEW l \in Labels \cup PackageLabels
  PROVE  LET r == [q EXCEPT !.pc = l] IN
         /\ r \in Proc /\ r.pc = l /\ r.cmd = q.cmd /\ r.todo = q.todo /\ r.stack = q.stack
         /\ r.group = q.group /\ r.idx = q.idx /\ r.pending = q.pending /\ r.res = q.res
BY DEF Proc, Process

LEMMA Places == Labels \subseteq Labels \cup PackageLabels /\ {"connect", "run", "kill", "killStop", "killRemove"} \subseteq Labels
BY DEF Labels

AtMember(q, l, i)  == [q EXCEPT !.pc = l, !.idx = i]
Onto(q, i)         == [q EXCEPT !.idx = i]
Holding(q, l, g)   == [q EXCEPT !.pc = l, !.group = g]
WithGroup(q, g, c) == [q EXCEPT !.group = g, !.pending = @ \cup {c}]

LEMMA Numbered ==
  ASSUME NEW q \in Proc, NEW l \in Labels \cup PackageLabels, NEW i \in Nat
  PROVE  LET r == AtMember(q, l, i) IN
         /\ r \in Proc /\ r.pc = l /\ r.cmd = q.cmd /\ r.todo = q.todo /\ r.stack = q.stack
         /\ r.group = q.group /\ r.idx = i /\ r.pending = q.pending /\ r.res = q.res
BY DEF Proc, Process, AtMember

LEMMA Counted ==
  ASSUME NEW q \in Proc, NEW i \in Nat
  PROVE  LET r == Onto(q, i) IN
         /\ r \in Proc /\ r.pc = q.pc /\ r.cmd = q.cmd /\ r.todo = q.todo /\ r.stack = q.stack
         /\ r.group = q.group /\ r.idx = i /\ r.pending = q.pending /\ r.res = q.res
BY DEF Proc, Process, Onto

\* With another group, for chains to start.
LEMMA Held ==
  ASSUME NEW q \in Proc, NEW l \in Labels \cup PackageLabels, NEW g \in Seq(Member)
  PROVE  LET r == Holding(q, l, g) IN
         /\ r \in Proc /\ r.pc = l /\ r.cmd = q.cmd /\ r.todo = q.todo /\ r.stack = q.stack
         /\ r.group = g /\ r.idx = q.idx /\ r.pending = q.pending /\ r.res = q.res
BY DEF Proc, Process, Holding

LEMMA Grouped ==
  ASSUME NEW q \in Proc, NEW g \in Seq(Member), NEW c \in ChainNames
  PROVE  LET r == WithGroup(q, g, c) IN
         /\ r \in Proc /\ r.pc = q.pc /\ r.cmd = q.cmd /\ r.todo = q.todo /\ r.stack = q.stack
         /\ r.group = g /\ r.idx = q.idx /\ r.pending = q.pending \cup {c} /\ r.res = q.res
BY DEF Proc, Process, WithGroup

-----------------------------------------------------------------------------
\* BuildServicesGroup

LEMMA LoadedOK ==
  ASSUME PackInv, NEW x \in ServiceNames
  PROVE  /\ Loaded(x) \in Member /\ Loaded(x).of = Service(x) /\ Loaded(x).def = defs[x] /\ Loaded(x).of.short = x
         /\ defs[x] \in Definition /\ defs[x].deps \in Seq(ServiceNames)
<1>1. x \in Shorts /\ 1 \in Numbers /\ ServiceNames \subseteq Shorts
  BY ServicesAssumption DEF ServicesAssumption
<1>2. defs[x] \in Definition
  BY DEF PackInv, TypeOK
<1>3. defs[x].deps \in Seq(ServiceNames) /\ defs[x].linked \subseteq ServiceNames /\ defs[x].data \in BOOLEAN
  BY <1>2 DEF Definition
<1>4. Service(x) \in Named /\ Service(x).short = x /\ \A d \in defs[x].linked : Service(d) \in Named
  BY <1>1, <1>3, Assembled
<1>5. (defs[x].data \/ containers[Service(x)] = "none") \in BOOLEAN
  OBVIOUS
<1> QED
  BY <1>2, <1>3, <1>4, <1>5 DEF Loaded, Member

\* What has been passed on the way through the list is passed for good.
LEMMA TailLists ==
  ASSUME NEW S, NEW s \in Seq(S), s # <<>>, NEW d, Listed(d, s)
  PROVE  d = Head(s) \/ Listed(d, Tail(s))
<1>1. PICK i \in 1..Len(s) : s[i] = d
  BY LenProperties DEF Listed
<1>2. CASE i = 1
  BY <1>1, <1>2
<1>3. CASE i # 1
  <2>1. i - 1 \in 1..Len(Tail(s)) /\ Tail(s)[i - 1] = s[i] /\ DOMAIN Tail(s) = 1..Len(Tail(s))
    BY <1>1, <1>3, HeadTailProperties, LenProperties
  <2> QED
    BY <1>1, <2>1 DEF Listed
<1> QED
  BY <1>2, <1>3

LEMMA TopFrame ==
  ASSUME NEW s \in Seq(Frame), s # <<>>
  PROVE  /\ Head(s) = s[1] /\ s[1] \in Frame /\ 1 \in 1..Len(s) /\ Len(s) \in Nat /\ DOMAIN s = 1..Len(s)
         /\ s[1].rest \in Seq(ServiceNames) /\ s[1].srv \in Member
<1>1. Len(s) \in Nat \ {0} /\ DOMAIN s = 1..Len(s)
  BY EmptySeq, LenProperties
<1>2. 1 \in 1..Len(s)
  BY <1>1
<1>3. s[1] \in Frame
  BY <1>2, ElementOfSeq
<1> QED
  BY <1>1, <1>2, <1>3 DEF Frame

\* The stack after a call: the new frame on top, and one dependency less to visit
\* below it.
LEMMA Pushed ==
  ASSUME NEW s \in Seq(Frame), NEW f \in Frame,
         s # <<>> => s[1].rest # <<>>
  PROVE  LET t == <<f>> \o (IF s = <<>> THEN s ELSE [s EXCEPT ![1].rest = Tail(@)]) IN
         /\ t \in Seq(Frame) /\ Len(t) = Len(s) + 1 /\ t[1] = f /\ t # <<>>
         /\ \A i \in 2..Len(t) : t[i].srv = s[i - 1].srv /\ (i > 2 => t[i].rest = s[i - 1].rest)
         /\ s # <<>> => t[2].rest = Tail(s[1].rest)
<1> DEFINE e == [s[1] EXCEPT !.rest = Tail(@)]
           low == IF s = <<>> THEN s ELSE [s EXCEPT ![1] = e]
           t == <<f>> \o low
<1>1. Len(s) \in Nat
  OBVIOUS
<1>2. CASE s = <<>>
  <2>1. t = <<f>>
    BY <1>2
  <2> QED
    BY <1>2, <2>1
<1>3. CASE s # <<>>
  <2>1. 1 \in 1..Len(s) /\ s[1] \in Frame /\ s[1].rest \in Seq(ServiceNames)
    BY <1>3, TopFrame
  <2>2. e \in Frame /\ e.srv = s[1].srv /\ e.rest = Tail(s[1].rest)
    BY <1>3, <2>1, HeadTailProperties DEF Frame
  <2>3. /\ low \in Seq(Frame) /\ Len(low) = Len(s)
        /\ \A j \in 1..Len(s) : low[j] = IF j = 1 THEN e ELSE s[j]
    BY <1>3, <2>1, <2>2, ExceptSeq
  <2>4. <<f>> \in Seq(Frame) /\ Len(<<f>>) = 1 /\ <<f>>[1] = f
    OBVIOUS
  <2>5. /\ t \in Seq(Frame) /\ Len(t) = 1 + Len(s)
        /\ \A i \in 1..(1 + Len(s)) : t[i] = IF i <= 1 THEN f ELSE low[i - 1]
    BY <2>3, <2>4, ConcatProperties
  <2> HIDE DEF e, low, t
  <2>6. t[1] = f /\ t[2] = low[1] /\ \A i \in 2..Len(t) : t[i] = low[i - 1] /\ i - 1 \in 1..Len(s)
    BY <1>1, <2>1, <2>5
  <2>7. t # <<>>
    BY <1>1, <2>5
  <2>8. \A i \in 2..Len(t) : t[i].srv = s[i - 1].srv /\ (i > 2 => t[i].rest = s[i - 1].rest)
    BY <2>2, <2>3, <2>6
  <2>9. t[2].rest = Tail(s[1].rest)
    BY <2>1, <2>2, <2>3, <2>6
  <2> QED
    BY <2>5, <2>6, <2>7, <2>8, <2>9 DEF t, low, e
<1> QED
  BY <1>2, <1>3

LEMMA VisitMoves == ASSUME PackInv, NEW p \in Procs, Visit(p), app' = app PROVE Moved(p)
<1> DEFINE q == cli[p]
           x == Head(Waiting(p))
           f == [srv |-> Loaded(x), rest |-> defs[x].deps]
           r == Called(p, f)
<1>1. q \in Proc /\ q.pc = "build" /\ Fine(p, q) /\ Known(q, app[p])
  BY Stay DEF Visit, Look, At
<1>2. q.stack \in Seq(Frame) /\ q.todo \in Seq(ServiceNames) /\ q.group \in Seq(Member)
  BY <1>1 DEF Proc, Process
<1>3. Waiting(p) \in Seq(ServiceNames) /\ Waiting(p) # <<>> /\ (q.stack # <<>> => q.stack[1].rest = Waiting(p))
  <2>1. Waiting(p) # <<>>
    BY DEF Visit
  <2>2. CASE q.stack = <<>>
    BY <1>2, <2>1, <2>2 DEF Waiting
  <2>3. CASE q.stack # <<>>
    BY <1>2, <2>1, <2>3, TopFrame DEF Waiting
  <2> QED
    BY <2>2, <2>3
<1>4. x \in ServiceNames
  BY <1>3, HeadTailProperties
<1>5. ~app[p].named
  BY <1>1 DEF Known, CleanPlaces
<1>6. f \in Frame /\ f.srv.of = Service(x) /\ f.srv.def = defs[x] /\ f.rest = defs[x].deps
  BY <1>4, LoadedOK DEF Frame
<1> HIDE DEF f, x
<1>7. CASE Become(p, r)
  <2> DEFINE t == <<f>> \o (IF q.stack = <<>> THEN q.stack ELSE [q.stack EXCEPT ![1].rest = Tail(@)])
             todo == IF q.stack = <<>> THEN Tail(q.todo) ELSE q.todo
  <2>1. r = [q EXCEPT !.todo = todo, !.stack = t]
    BY DEF Called
  <2>2. /\ t \in Seq(Frame) /\ Len(t) = Len(q.stack) + 1 /\ t[1] = f /\ t # <<>>
        /\ \A i \in 2..Len(t) : t[i].srv = q.stack[i - 1].srv /\ (i > 2 => t[i].rest = q.stack[i - 1].rest)
        /\ q.stack # <<>> => t[2].rest = Tail(q.stack[1].rest)
    BY <1>2, <1>3, <1>6, Pushed
  <2>3. todo \in Seq(ServiceNames)
    BY <1>2, <1>3, HeadTailProperties DEF Waiting
  <2> HIDE DEF t, todo
  <2>4. /\ r \in Proc /\ r.pc = "build" /\ r.cmd = q.cmd /\ r.todo = todo /\ r.stack = t /\ r.group = q.group
        /\ r.idx = q.idx
    BY <1>1, <2>1, <2>2, <2>3 DEF Proc, Process
  <2> HIDE DEF r
  <2>5. Len(q.stack) \in Nat /\ DOMAIN q.stack = 1..Len(q.stack) /\ DOMAIN t = 1..Len(t)
    BY <1>2, <2>2, LenProperties
  <2>6. FramesOK(t, q.group)
    <3> SUFFICES ASSUME NEW i \in 1..Len(t), NEW d \in Needs(t[i].srv.def)
                 PROVE  In(q.group, d) \/ Listed(d, t[i].rest) \/ (i > 1 /\ t[i - 1].srv.of = Service(d))
      BY <2>5 DEF FramesOK
    <3>1. CASE i = 1
      BY <1>6, <2>2, <3>1 DEF Needs, Listed
    <3>2. ASSUME i # 1 PROVE i \in 2..Len(t) /\ i - 1 \in DOMAIN q.stack /\ t[i].srv = q.stack[i - 1].srv
      BY <2>2, <2>5, <3>2
    <3>3. i # 1 => In(q.group, d) \/ Listed(d, q.stack[i - 1].rest) \/ (i - 1 > 1 /\ q.stack[i - 2].srv.of = Service(d))
      <4>1. FramesOK(q.stack, q.group)
        BY <1>1 DEF Fine
      <4>2. i # 1 => (i - 1) - 1 = i - 2
        BY <2>5
      <4> QED
        BY <3>2, <4>1, <4>2 DEF FramesOK
    <3>4. CASE i = 2
      <4>1. q.stack # <<>> /\ t[2].rest = Tail(q.stack[1].rest) /\ q.stack[1].rest = Waiting(p)
        BY <1>3, <2>2, <2>5, <3>2, <3>4
      <4>2. Listed(d, q.stack[1].rest) => d = x \/ Listed(d, t[2].rest)
        BY <1>3, <4>1, TailLists DEF x
      <4> QED
        BY <1>6, <2>2, <3>3, <3>4, <4>2
    <3>5. CASE i > 2
      <4>1. t[i].rest = q.stack[i - 1].rest /\ i - 1 \in 2..Len(t)
        BY <2>2, <2>5, <3>5
      <4>2. t[i - 1].srv = q.stack[i - 2].srv
        <5>1. t[i - 1].srv = q.stack[(i - 1) - 1].srv
          BY <2>2, <4>1
        <5> QED
          BY <2>5, <5>1
      <4> QED
        BY <3>3, <3>5, <4>1, <4>2, <2>5
    <3> QED
      BY <2>2, <2>5, <3>1, <3>4, <3>5
  <2>7. ArgsOK(q.cmd.args, todo, t, q.group)
    <3> SUFFICES ASSUME NEW k \in DOMAIN q.cmd.args
                 PROVE  \/ In(q.group, q.cmd.args[k]) \/ Listed(q.cmd.args[k], todo)
                        \/ t[Len(t)].srv.of = Service(q.cmd.args[k])
      BY <2>2 DEF ArgsOK
    <3>1. \/ In(q.group, q.cmd.args[k]) \/ Listed(q.cmd.args[k], q.todo)
          \/ q.stack # <<>> /\ q.stack[Len(q.stack)].srv.of = Service(q.cmd.args[k])
      BY <1>1 DEF Fine, ArgsOK
    <3>2. CASE q.stack = <<>>
      <4>1. Len(t) = 1 /\ todo = Tail(q.todo) /\ q.todo = Waiting(p)
        BY <2>2, <3>2 DEF todo, Waiting
      <4>2. Listed(q.cmd.args[k], q.todo) => q.cmd.args[k] = x \/ Listed(q.cmd.args[k], todo)
        BY <1>3, <4>1, TailLists DEF x
      <4> QED
        BY <1>6, <2>2, <3>1, <3>2, <4>1, <4>2
    <3>3. CASE q.stack # <<>>
      <4>1. Len(t) \in 2..Len(t) /\ Len(t) - 1 = Len(q.stack) /\ todo = q.todo
        BY <1>2, <2>2, <2>5, <3>3, EmptySeq DEF todo
      <4>2. t[Len(t)].srv = q.stack[Len(q.stack)].srv
        BY <2>2, <4>1
      <4> QED
        BY <3>1, <3>3, <4>1, <4>2
    <3> QED
      BY <3>2, <3>3
  <2>8. Fine(p, r)
    BY <1>1, <2>4, <2>6, <2>7 DEF Fine, Single, RenamePlaces, Ready, PackageLabels
  <2>9. Known(r, app[p])
    BY <1>1, <2>4 DEF Known, ThrowPlaces, CleanPlaces
  <2> QED
    BY <1>7, <2>4, <2>8, <2>9, Stay, MoveTo
<1>8. CASE End(p, "overflow")
  BY <1>5, <1>8, Ending DEF Results
<1>9. CASE Fail(p)
  BY <1>1, <1>9, Failing
<1> QED
  BY <1>7, <1>8, <1>9 DEF Visit, Look, x, f

LEMMA ReturnMoves == ASSUME PackInv, NEW p \in Procs, Return(p), app' = app PROVE Moved(p)
<1> DEFINE q == cli[p]
           m == Head(q.stack).srv
           g == Append(q.group, m)
           s == Tail(q.stack)
           r == [q EXCEPT !.group = g, !.stack = s]
<1>1. q \in Proc /\ q.pc = "build" /\ Fine(p, q) /\ Known(q, app[p]) /\ q.stack # <<>> /\ Become(p, r)
  BY Stay DEF Return, Look, At
<1>2. q.stack \in Seq(Frame) /\ q.todo \in Seq(ServiceNames) /\ q.group \in Seq(Member)
  BY <1>1 DEF Proc, Process
<1>3. /\ Head(q.stack) = q.stack[1] /\ q.stack[1] \in Frame /\ DOMAIN q.stack = 1..Len(q.stack) /\ 1 \in 1..Len(q.stack)
      /\ m \in Member /\ q.stack[1].rest = <<>> /\ Len(q.stack) \in Nat
  BY <1>1, <1>2, TopFrame DEF Return, Waiting
<1>4. /\ g \in Seq(Member) /\ DOMAIN g = 1..Len(g) /\ Len(g) = Len(q.group) + 1 /\ g[Len(q.group) + 1] = m
      /\ \A i \in 1..Len(q.group) : g[i] = q.group[i]
      /\ Len(q.group) \in Nat /\ DOMAIN q.group = 1..Len(q.group)
  BY <1>2, <1>3, AppendProperties, LenProperties
<1>5. /\ s \in Seq(Frame) /\ Len(s) = Len(q.stack) - 1 /\ DOMAIN s = 1..Len(s)
      /\ \A i \in 1..Len(s) : s[i] = q.stack[i + 1]
  BY <1>1, <1>2, HeadTailProperties, LenProperties
<1> HIDE DEF m, g, s
<1>6. r \in Proc /\ r.pc = "build" /\ r.cmd = q.cmd /\ r.todo = q.todo /\ r.stack = s /\ r.group = g /\ r.idx = q.idx
  BY <1>1, <1>4, <1>5 DEF Proc, Process
<1> HIDE DEF r
<1>7. \A d : In(q.group, d) => In(g, d)
  BY <1>4 DEF In
<1>8. \A d : m.of = Service(d) => In(g, d)
  <2>1. Len(q.group) + 1 \in DOMAIN g
    BY <1>4
  <2> QED
    BY <1>4, <2>1 DEF In
<1>9. \A d : ~Listed(d, <<>>)
  BY DEF Listed
<1>10. InOrder(g)
  <2>1. InOrder(q.group) /\ FramesOK(q.stack, q.group)
    BY <1>1 DEF Fine, GroupKinds
  <2>2. ASSUME NEW i \in 1..Len(q.group), NEW d \in Needs(g[i].def) PROVE \E j \in 1..(i - 1) : g[j].of = Service(d)
    <3>1. PICK j \in 1..(i - 1) : q.group[j].of = Service(d)
      BY <1>4, <2>1, <2>2 DEF InOrder
    <3>2. j \in 1..Len(q.group)
      BY <1>4
    <3> QED
      BY <1>4, <3>1, <3>2
  <2>3. ASSUME NEW d \in Needs(m.def) PROVE \E j \in 1..Len(q.group) : g[j].of = Service(d)
    <3>1. In(q.group, d)
      BY <1>3, <1>9, <2>1, <2>3 DEF FramesOK, m
    <3> QED
      BY <1>4, <3>1 DEF In
  <2>4. ASSUME NEW i \in DOMAIN g PROVE i \in 1..Len(q.group) \/ (i = Len(q.group) + 1 /\ i - 1 = Len(q.group) /\ g[i] = m)
    BY <1>4
  <2> QED
    BY <2>2, <2>3, <2>4 DEF InOrder
<1>11. FramesOK(s, g)
  <2> SUFFICES ASSUME NEW i \in 1..Len(s), NEW d \in Needs(s[i].srv.def)
               PROVE  In(g, d) \/ Listed(d, s[i].rest) \/ (i > 1 /\ s[i - 1].srv.of = Service(d))
    BY <1>5 DEF FramesOK
  <2>1. i + 1 \in DOMAIN q.stack /\ s[i] = q.stack[i + 1] /\ (i + 1) - 1 = i
    BY <1>3, <1>5
  <2>2. In(q.group, d) \/ Listed(d, s[i].rest) \/ q.stack[i].srv.of = Service(d)
    BY <1>1, <2>1 DEF Fine, FramesOK
  <2>3. CASE i = 1
    BY <1>3, <1>7, <1>8, <2>2, <2>3 DEF m
  <2>4. CASE i > 1
    <3>1. s[i - 1] = q.stack[i]
      <4>1. i - 1 \in 1..Len(s) /\ (i - 1) + 1 = i
        BY <1>3, <1>5, <2>4
      <4> QED
        BY <1>5, <4>1
    <3> QED
      BY <1>7, <2>2, <2>4, <3>1
  <2> QED
    BY <2>3, <2>4
<1>12. ArgsOK(q.cmd.args, q.todo, s, g)
  <2> SUFFICES ASSUME NEW k \in DOMAIN q.cmd.args
               PROVE  \/ In(g, q.cmd.args[k]) \/ Listed(q.cmd.args[k], q.todo)
                      \/ (s # <<>> /\ s[Len(s)].srv.of = Service(q.cmd.args[k]))
    BY DEF ArgsOK
  <2>1. \/ In(q.group, q.cmd.args[k]) \/ Listed(q.cmd.args[k], q.todo)
        \/ q.stack[Len(q.stack)].srv.of = Service(q.cmd.args[k])
    BY <1>1 DEF Fine, ArgsOK
  <2>2. CASE s = <<>>
    <3>1. Len(q.stack) = 1
      BY <1>3, <1>5, <2>2, EmptySeq
    <3> QED
      BY <1>3, <1>7, <1>8, <2>1, <3>1 DEF m
  <2>3. CASE s # <<>>
    <3>1. Len(s) \in 1..Len(s) /\ Len(s) + 1 = Len(q.stack)
      BY <1>3, <1>5, <2>3, EmptySeq
    <3>2. s[Len(s)] = q.stack[Len(q.stack)]
      BY <1>5, <3>1
    <3> QED
      BY <1>7, <2>1, <2>3, <3>2
  <2> QED
    BY <2>2, <2>3
<1>13. Fine(p, r)
  BY <1>1, <1>6, <1>10, <1>11, <1>12 DEF Fine, Single, RenamePlaces, Ready, PackageLabels
<1>14. Known(r, app[p])
  BY <1>1, <1>6 DEF Known, ThrowPlaces, CleanPlaces
<1> QED
  BY <1>1, <1>6, <1>13, <1>14, Stay, MoveTo

LEMMA BuiltMoves == ASSUME PackInv, NEW p \in Procs, Built(p), app' = app PROVE Moved(p)
<1> DEFINE q == cli[p]
<1>1. q \in Proc /\ q.pc = "build" /\ Fine(p, q) /\ Known(q, app[p]) /\ q.stack = <<>> /\ q.todo = <<>>
  BY Stay DEF Built, Look, At
<1>2. PICK l \in {"kill", "boot", "run", "steps", "connect"} :
        /\ Goto(p, l)
        /\ l = "boot" => q.cmd.kind = "package"
        /\ l = "kill" => q.cmd.kind = "stop"
        /\ l = "connect" => q.cmd.kind # "package" /\ (q.cmd.kind = "action" => q.group # <<>>)
        /\ l = "run" => q.cmd.kind = "package" /\ q.group # <<>>
        /\ l = "steps" => q.cmd.kind = "action"
  BY DEF Built, Look, Kind
<1>3. Complete(q.cmd.args, q.group)
  <2>1. \A d : ~Listed(d, <<>>)
    BY DEF Listed
  <2> QED
    BY <1>1, <2>1 DEF Fine, ArgsOK, Complete
<1>4. l \in {"kill", "run", "connect"} => q.idx \in DOMAIN q.group
  <2>1. q.group \in Seq(Member) /\ q.idx = 1 /\ q.cmd.kind \in GroupKinds /\ q.cmd \in Command /\ q.cmd.args \in Seq(ServiceNames)
    BY <1>1, CommandOK DEF Proc, Process, Fine, Command
  <2>2. ASSUME q.group # <<>> PROVE 1 \in DOMAIN q.group
    BY <2>1, <2>2, EmptySeq, LenProperties
  <2>3. ASSUME q.cmd.kind \in {"start", "stop"} PROVE q.group # <<>>
    <3>1. q.cmd.args # <<>>
      BY <1>1, <2>3, CommandOK
    <3>2. 1 \in DOMAIN q.cmd.args
      BY <2>1, <3>1, EmptySeq, LenProperties
    <3>3. In(q.group, q.cmd.args[1])
      BY <1>3, <3>2 DEF Complete
    <3> QED
      BY <3>3 DEF In
  <2> QED
    BY <1>2, <2>1, <2>2, <2>3 DEF GroupKinds
<1>5. l \in Labels \cup PackageLabels
  BY DEF Labels, PackageLabels
<1> DEFINE r == [q EXCEPT !.pc = l]
<1>6. /\ r.pc = l /\ r.cmd = q.cmd /\ r.todo = q.todo /\ r.stack = q.stack /\ r.group = q.group /\ r.idx = q.idx
  BY <1>1, <1>5, Placed
<1> HIDE DEF r
<1>7. Fine(p, r)
  BY <1>1, <1>2, <1>3, <1>4, <1>6 DEF Fine, Single, RenamePlaces, Ready, PackageLabels, GroupKinds
<1>8. Known(r, app[p])
  BY <1>1, <1>2, <1>6 DEF Known, ThrowPlaces, CleanPlaces
<1> QED
  BY <1>2, <1>5, <1>7, <1>8, Stay, Going DEF r

-----------------------------------------------------------------------------
\* The commands of package services

\* Outside of RunPackage nothing is named.
LEMMA Unnamed ==
  ASSUME PackInv, NEW p \in Procs, cli[p].pc \notin {"defineImport", "perform"} \cup CleanPlaces
  PROVE  ~app[p].named
BY Stay DEF Known

LEMMA Here ==
  ASSUME PackInv, NEW p \in Procs
  PROVE  /\ cli[p].group \in Seq(Member) /\ cli[p].idx \in Nat /\ DOMAIN cli[p].group = 1..Len(cli[p].group)
         /\ Len(cli[p].group) \in Nat /\ cli[p].todo \in Seq(ServiceNames) /\ cli[p].pending \subseteq ChainNames
         /\ cli[p].idx \in DOMAIN cli[p].group => Current(p) \in Member
<1>1. cli[p].group \in Seq(Member) /\ cli[p].idx \in Nat /\ cli[p].todo \in Seq(ServiceNames)
      /\ cli[p].pending \subseteq ChainNames
  BY Stay DEF Proc, Process
<1>2. DOMAIN cli[p].group = 1..Len(cli[p].group) /\ Len(cli[p].group) \in Nat
  BY <1>1, LenProperties
<1>3. cli[p].idx \in DOMAIN cli[p].group => Current(p) \in Member
  BY <1>1, <1>2, ElementOfSeq DEF Current
<1> QED
  BY <1>1, <1>2, <1>3

\* On to the next member of the group.
LEMMA Advancing ==
  ASSUME PackInv, NEW p \in Procs, NEW l \in {"run", "kill"}, cli[p].pc \in Ready, Advance(p, l), ~AtLast(p), app' = app,
         l = "kill" => cli[p].cmd.kind = "stop"
  PROVE  Moved(p)
<1> DEFINE q == cli[p]
           r == AtMember(q, l, q.idx + 1)
<1>1. q \in Proc /\ Fine(p, q) /\ Known(q, app[p]) /\ Become(p, r)
  BY Stay DEF Advance, AtMember
<1>2. r \in Proc /\ r.pc = l /\ r.cmd = q.cmd /\ r.group = q.group /\ r.idx = q.idx + 1
  <2>1. l \in Labels \cup PackageLabels
    BY Places
  <2>2. q.idx + 1 \in Nat
    BY Here
  <2> QED
    BY <1>1, <2>1, <2>2, Numbered
<1> HIDE DEF r
<1>3. r.idx \in DOMAIN r.group
  BY <1>1, <1>2, Here DEF Fine, AtLast
<1>4. Fine(p, r)
  BY <1>1, <1>2, <1>3 DEF Fine, Single, RenamePlaces, Ready, PackageLabels
<1>5. Known(r, app[p])
  BY <1>1, <1>2 DEF Known, Ready, ThrowPlaces, CleanPlaces
<1> QED
  BY <1>1, <1>2, <1>4, <1>5, Stay, MoveTo

LEMMA ConnectMoves == ASSUME PackInv, NEW p \in Procs, Connect(p), app' = app PROVE Moved(p)
<1> DEFINE q == cli[p]
           c == ChosenChain(p, Current(p).def.chain)
           m == [Current(p) EXCEPT !.links = @ \cup {Chain(c)}]
           g == [q.group EXCEPT ![q.idx] = m]
<1>1. q \in Proc /\ q.pc = "connect" /\ Fine(p, q) /\ Known(q, app[p]) /\ q.idx \in DOMAIN q.group /\ Current(p) \in Member
  BY Stay, Here DEF Connect, Look, At, Fine, Ready
<1>2. ASSUME NEW r \in Proc, r.pc \in {"connect", "run"}, r.cmd = q.cmd, r.group \in {q.group, g},
             r.idx \in DOMAIN q.group, Become(p, r), r.group = g => c \in chains
      PROVE  Moved(p)
  <2>1. r.group = g =>
          DOMAIN g = DOMAIN q.group /\ \A i \in DOMAIN g : g[i].of = q.group[i].of /\ g[i].def = q.group[i].def
    <3>1. m.of = Current(p).of /\ m.def = Current(p).def
      BY <1>1 DEF Member
    <3> QED
      BY <3>1 DEF Current
  <2>2. /\ DOMAIN r.group = DOMAIN q.group
        /\ \A i \in DOMAIN q.group : r.group[i].of = q.group[i].of /\ r.group[i].def = q.group[i].def
    BY <1>2, <2>1
  <2> HIDE DEF g, m
  <2>3. InOrder(r.group)
    <3>1. InOrder(q.group)
      BY <1>1 DEF Fine, Ready
    <3> SUFFICES ASSUME NEW i \in DOMAIN q.group, NEW d \in Needs(q.group[i].def)
                 PROVE  \E j \in 1..(i - 1) : r.group[j].of = Service(d)
      BY <2>2 DEF InOrder
    <3>2. PICK j \in 1..(i - 1) : q.group[j].of = Service(d)
      BY <3>1 DEF InOrder
    <3>3. j \in DOMAIN q.group
      BY <3>2, Here
    <3> QED
      BY <2>2, <3>2, <3>3
  <2>4. Complete(r.cmd.args, r.group)
    BY <1>1, <1>2, <2>2 DEF Fine, Ready, Complete, In
  <2>5. Fine(p, r)
    BY <1>1, <1>2, <2>2, <2>3, <2>4 DEF Fine, Single, RenamePlaces, Ready, PackageLabels
  <2>6. Known(r, app[p])
    BY <1>1, <1>2 DEF Known, ThrowPlaces, CleanPlaces
  <2> QED
    BY <1>2, <2>5, <2>6, Stay, MoveTo
<1>3. Len(q.group) \in Nat /\ DOMAIN q.group = 1..Len(q.group) /\ q.idx \in Nat /\ (~AtLast(p) => q.idx + 1 \in DOMAIN q.group)
      /\ (AtLast(p) => 1 \in DOMAIN q.group)
  BY <1>1, Here DEF AtLast
<1>4. CASE Current(p).def.chain = Blank
  <2> DEFINE r == IF AtLast(p) THEN AtMember(q, "run", 1) ELSE Onto(q, q.idx + 1)
  <2>1. r \in Proc /\ r.pc \in {"connect", "run"} /\ r.cmd = q.cmd /\ r.group = q.group /\ r.idx \in DOMAIN q.group
    <3>1. CASE AtLast(p)
      <4>1. "run" \in Labels \cup PackageLabels /\ 1 \in Nat
        BY Places
      <4> QED
        BY <1>1, <1>3, <3>1, <4>1, Numbered
    <3>2. CASE ~AtLast(p)
      <4>1. q.idx + 1 \in Nat
        BY <1>3
      <4> QED
        BY <1>1, <1>3, <3>2, <4>1, Counted
    <3> QED
      BY <3>1, <3>2
  <2>2. Become(p, r)
    BY <1>4 DEF Connect, Look, AtMember, Onto
  <2>3. CASE q.group # g
    BY <1>2, <2>1, <2>2, <2>3
  <2>4. CASE q.group = g
    <3>1. Fine(p, r) /\ Known(r, app[p])
      BY <1>1, <2>1, <1>3 DEF Fine, Known, Single, RenamePlaces, Ready, PackageLabels, ThrowPlaces, CleanPlaces
    <3> QED
      BY <2>1, <2>2, <3>1, Stay, MoveTo
  <2> QED
    BY <2>3, <2>4
<1>5. CASE Current(p).def.chain # Blank /\ c \notin chains
  <2>1. End(p, "err")
    BY <1>5 DEF Connect, Look
  <2> QED
    BY <1>1, <2>1, Unnamed, Ending DEF Results, CleanPlaces
<1>6. CASE Current(p).def.chain # Blank /\ c \in chains
  <2> DEFINE n == WithGroup(q, g, c)
             r == IF AtLast(p) THEN AtMember(n, "run", 1) ELSE Onto(n, n.idx + 1)
  <2>1. c \in ChainNames /\ Chain(c) \in Named
    <3>1. c \in ChainNames
      BY <1>6 DEF PackInv, TypeOK
    <3>2. c \in Shorts /\ 1 \in Numbers
      BY <3>1, ServicesAssumption DEF ServicesAssumption
    <3> QED
      BY <3>1, <3>2, Assembled
  <2>2. m \in Member
    BY <1>1, <2>1 DEF Member
  <2>3. g \in Seq(Member)
    BY <1>1, <1>3, <2>2, Here, ExceptSeq
  <2>4. [q EXCEPT !.group[q.idx].links = @ \cup {Chain(c)}, !.pending = @ \cup {c}] = n
    BY DEF Current, WithGroup
  <2>5. Become(p, r)
    BY <1>6, <2>4 DEF Connect, Look, AtMember, Onto
  <2> HIDE DEF g, c
  <2>6. n \in Proc /\ n.pc = q.pc /\ n.cmd = q.cmd /\ n.group = g /\ n.idx = q.idx
    BY <1>1, <2>1, <2>3, Grouped
  <2>7. r \in Proc /\ r.pc \in {"connect", "run"} /\ r.cmd = q.cmd /\ r.group = g /\ r.idx \in DOMAIN q.group
    <3> HIDE DEF n
    <3>1. CASE AtLast(p)
      <4>1. "run" \in Labels \cup PackageLabels /\ 1 \in Nat
        BY Places
      <4>2. r = AtMember(n, "run", 1)
        BY <3>1
      <4> HIDE DEF r
      <4> QED
        BY <1>3, <2>6, <3>1, <4>1, <4>2, Numbered
    <3>2. CASE ~AtLast(p)
      <4>1. n.idx + 1 \in Nat /\ n.idx + 1 \in DOMAIN q.group
        BY <1>3, <2>6, <3>2
      <4>2. r = Onto(n, n.idx + 1)
        BY <3>2
      <4> HIDE DEF r
      <4> QED
        BY <1>1, <2>6, <4>1, <4>2, Counted
    <3> QED
      BY <3>1, <3>2
  <2> QED
    BY <1>2, <1>6, <2>5, <2>7
<1> QED
  BY <1>4, <1>5, <1>6

LEMMA GroupMoves ==
  ASSUME PackInv, NEW p \in Procs, RunChain(p) \/ RunNext(p) \/ Kill(p) \/ KillStop(p) \/ KillRemove(p), app' = app
  PROVE  Moved(p)
<1> DEFINE q == cli[p]
<1>1. q \in Proc /\ q.pc \in Ready /\ q.pc # "connect" /\ Fine(p, q) /\ Known(q, app[p]) /\ ~app[p].named
  <2>1. q.pc \in Ready /\ q.pc # "connect"
    BY DEF RunChain, RunNext, Kill, KillStop, KillRemove, Look, At, Ready
  <2> QED
    BY <2>1, Stay, Unnamed DEF Ready, CleanPlaces
<1>2. \A r \in Results : End(p, r) => Moved(p)
  BY <1>1, Ending
<1>3. Fail(p) => Moved(p)
  BY <1>1, Failing
<1>4. ASSUME NEW c, Become(p, [q EXCEPT !.pending = @ \ {c}]) PROVE Moved(p)
  <2> DEFINE r == [q EXCEPT !.pending = @ \ {c}]
  <2>1. r \in Proc /\ r.pc = q.pc /\ r.cmd = q.cmd /\ r.group = q.group /\ r.idx = q.idx
    BY <1>1 DEF Proc, Process
  <2> HIDE DEF r
  <2>2. Fine(p, r) /\ Known(r, app[p])
    BY <1>1, <2>1 DEF Fine, Known, Single, RenamePlaces, Ready, PackageLabels, ThrowPlaces, CleanPlaces
  <2> QED
    BY <1>4, <2>1, <2>2, Stay, MoveTo DEF r
<1>5. CASE RunChain(p)
  BY <1>3, <1>4, <1>5 DEF RunChain, Perform
<1>6. CASE RunNext(p)
  <2>1. ASSUME ~AtLast(p), Advance(p, "run") PROVE Moved(p)
    BY <1>1, <2>1, Advancing
  <2>2. ASSUME NEW l \in {"boot", "steps"}, Leap(p, l, "none"), l = "boot" => q.cmd.kind = "package" PROVE Moved(p)
    BY <1>1, <2>2, Leaping DEF Fine, Ready, Results
  <2> QED
    BY <1>2, <1>3, <1>6, <2>1, <2>2 DEF RunNext, Perform, Kind, Results
<1>7. ASSUME KillOn(p), q.cmd.kind = "stop" PROVE Moved(p)
  BY <1>1, <1>2, <1>7, Advancing DEF KillOn, Results
<1>8. ASSUME NEW l \in {"killStop", "killRemove"}, Goto(p, l), q.cmd.kind = "stop" PROVE Moved(p)
  <2> DEFINE r == [q EXCEPT !.pc = l]
  <2>1. r.pc = l /\ r.cmd = q.cmd /\ r.group = q.group /\ r.idx = q.idx
    BY <1>1, Placed DEF Labels
  <2> HIDE DEF r
  <2>2. Fine(p, r) /\ Known(r, app[p])
    BY <1>1, <1>8, <2>1 DEF Fine, Known, Single, RenamePlaces, Ready, PackageLabels, ThrowPlaces, CleanPlaces
  <2> QED
    BY <1>8, <2>2, Stay, Going DEF Labels, r
<1>9. CASE Kill(p) \/ KillStop(p) \/ KillRemove(p)
  <2>1. q.cmd.kind = "stop"
    BY <1>1, <1>9 DEF Kill, KillStop, KillRemove, Look, At, Fine
  <2> QED
    BY <1>2, <1>7, <1>8, <1>9, <2>1 DEF Kill, KillStop, KillRemove, Stopped, Look, Perform, Results
<1> QED
  BY <1>5, <1>6, <1>9

\* On to another place of a command on one service.
LEMMA SingleMoves ==
  ASSUME PackInv, NEW p \in Procs, NEW r \in Proc, Become(p, r), app' = app,
         cli[p].pc \in Single \ {"checkout"}, r.cmd = cli[p].cmd, r.idx = 1,
         r.pc \in {"execRun", "updateRebuild", "rm", "rmRemove"} \cup RenamePlaces,
         r.pc = "rm" \/ 1 \in DOMAIN r.group,
         r.pc \in {"rm", "rmRemove"} => r.todo # <<>>,
         r.pc \in RenamePlaces =>
           /\ r.cmd.kind = "rename" /\ r.group # <<>>
           /\ r.group[1].of = Service(Head(r.cmd.args)) /\ Head(r.cmd.args) # r.cmd.to
  PROVE  Moved(p)
<1>1. cli[p] \in Proc /\ Fine(p, cli[p]) /\ Known(cli[p], app[p])
  BY Stay
<1>2. cli[p].pc # "idle" /\ cli[p].cmd \in Commands[p] /\ cli[p].cmd.kind \notin GroupKinds \cup {"checkout"}
  BY <1>1 DEF Fine, Single
<1>3. Fine(p, r)
  BY <1>2 DEF Fine, Single, RenamePlaces, Ready, PackageLabels
<1>4. Known(r, app[p])
  BY <1>1 DEF Known, Single, RenamePlaces, ThrowPlaces, CleanPlaces
<1> QED
  BY <1>1, <1>3, <1>4, Stay, MoveTo

LEMMA SingleEnds ==
  ASSUME PackInv, NEW p \in Procs, NEW r \in Results, End(p, r), app' = app, cli[p].pc \in Single
  PROVE  Moved(p)
<1>1. cli[p].pc \notin {"defineImport", "perform"} \cup CleanPlaces
  BY DEF Single, CleanPlaces
<1> QED
  BY <1>1, Unnamed, Ending

LEMMA SinglePlaces == Single \subseteq Labels /\ {"ok", "err"} \subseteq Results
BY DEF Single, Labels, Results

\* A group of one.
LEMMA HoldsOne ==
  ASSUME NEW q \in Proc, NEW l \in Single, NEW m \in Member
  PROVE  LET r == Holding(q, l, <<m>>) IN
         /\ r \in Proc /\ r.pc = l /\ r.cmd = q.cmd /\ r.todo = q.todo /\ r.idx = q.idx
         /\ r.group # <<>> /\ 1 \in DOMAIN r.group /\ r.group[1] = m
<1>1. <<m>> \in Seq(Member) /\ <<m>> # <<>> /\ 1 \in DOMAIN <<m>> /\ <<m>>[1] = m
  OBVIOUS
<1>2. l \in Labels \cup PackageLabels
  BY SinglePlaces
<1> QED
  BY <1>1, <1>2, Held

LEMMA LoadOneMoves ==
  ASSUME PackInv, NEW p \in Procs, Exec(p) \/ Update(p) \/ RenameService(p) \/ Rm(p), app' = app
  PROVE  Moved(p)
<1> DEFINE q == cli[p]
<1>1. q \in Proc /\ Fine(p, q)
  BY Stay
<1>2. q.pc \in {"exec", "update", "rename", "rm"} /\ q.idx = 1 /\ q.pc \in Single \ {"checkout"}
  BY <1>1 DEF Exec, Update, RenameService, Rm, LoadOne, Load, Look, At, Fine, Single
<1>3. End(p, "err") => Moved(p)
  BY <1>2, SingleEnds, SinglePlaces
<1>4. q.cmd.kind \notin GroupKinds \cup {"checkout"} /\ q.cmd \in Commands[p] /\ q.pc # "idle"
  BY <1>1, <1>2 DEF Fine, Single
<1>5. Arg(p) \in ServiceNames
  BY <1>4, CommandOK DEF Arg, GroupKinds
<1>6. ASSUME NEW l \in {"execRun", "updateRebuild"}, NEW m \in Member, Become(p, Holding(q, l, <<m>>)) PROVE Moved(p)
  <2>1. l \in Single /\ l \in {"execRun", "updateRebuild", "rm", "rmRemove"} \cup RenamePlaces
        /\ l \notin {"rm", "rmRemove"} \cup RenamePlaces
    BY DEF Single, RenamePlaces
  <2> QED
    BY <1>1, <1>2, <1>6, <2>1, HoldsOne, SingleMoves
<1>7. CASE Exec(p)
  <2> DEFINE m == [Loaded(Arg(p)) EXCEPT !.links = @ \cup (IF Running(Loaded(Arg(p)).of) THEN {Loaded(Arg(p)).of} ELSE {})]
  <2>1. m \in Member
    BY <1>5, LoadedOK DEF Member
  <2>2. Become(p, Holding(q, "execRun", <<m>>)) \/ End(p, "err")
    BY <1>7 DEF Exec, Load, Look, Holding
  <2> HIDE DEF m
  <2> QED
    BY <1>3, <1>6, <2>1, <2>2
<1>8. CASE Update(p)
  <2>1. Become(p, Holding(q, "updateRebuild", <<Loaded(Arg(p))>>)) \/ End(p, "err")
    BY <1>8 DEF Update, LoadOne, Load, Look, Holding
  <2> QED
    BY <1>3, <1>5, <1>6, <2>1, LoadedOK
<1>9. CASE RenameService(p)
  <2>1. \/ Become(p, Holding(q, "renameContainer", <<Loaded(Arg(p))>>)) /\ Arg(p) # NewName(p)
        \/ End(p, "err")
    BY <1>9 DEF RenameService, Load, Look, Holding
  <2>2. q.cmd.kind = "rename"
    BY <1>1, <1>9 DEF RenameService, Load, Look, At, Fine
  <2>3. "renameContainer" \in Single /\ "renameContainer" \in RenamePlaces
    BY DEF Single, RenamePlaces
  <2>4. ASSUME Become(p, Holding(q, "renameContainer", <<Loaded(Arg(p))>>)), Arg(p) # NewName(p) PROVE Moved(p)
    <3> DEFINE r == Holding(q, "renameContainer", <<Loaded(Arg(p))>>)
    <3>1. /\ r \in Proc /\ r.pc = "renameContainer" /\ r.cmd = q.cmd /\ r.idx = q.idx
          /\ r.group # <<>> /\ 1 \in DOMAIN r.group /\ r.group[1] = Loaded(Arg(p))
      BY <1>1, <1>5, <2>3, LoadedOK, HoldsOne
    <3>2. r.group[1].of = Service(Head(r.cmd.args)) /\ Head(r.cmd.args) # r.cmd.to
      BY <1>5, <2>4, <3>1, LoadedOK DEF Arg, NewName
    <3> HIDE DEF r
    <3> QED
      BY <1>2, <2>2, <2>3, <2>4, <3>1, <3>2, SingleMoves DEF r
  <2> QED
    BY <1>3, <2>1, <2>4
<1>10. CASE Rm(p)
  <2>1. q.todo # <<>> /\ Head(q.todo) \in ServiceNames
    <3>1. q.todo # <<>>
      BY <1>1, <1>10 DEF Rm, LoadOne, Load, Look, At, Fine
    <3> QED
      BY <3>1, Here, HeadTailProperties
  <2>2. Become(p, Holding(q, "rmRemove", <<Loaded(Head(q.todo))>>)) \/ End(p, "err")
    BY <1>10 DEF Rm, LoadOne, Load, Look, Holding
  <2>3. "rmRemove" \in Single /\ "rmRemove" \notin RenamePlaces
    BY DEF Single, RenamePlaces
  <2>4. Loaded(Head(q.todo)) \in Member
    BY <2>1, LoadedOK
  <2> QED
    BY <1>1, <1>2, <1>3, <2>1, <2>2, <2>3, <2>4, HoldsOne, SingleMoves
<1> QED
  BY <1>7, <1>8, <1>9, <1>10

LEMMA RenameGoes ==
  ASSUME PackInv, NEW p \in Procs, NEW l \in RenamePlaces, Goto(p, l), app' = app, cli[p].pc \in RenamePlaces
  PROVE  Moved(p)
<1> DEFINE q == cli[p]
           r == [q EXCEPT !.pc = l]
<1>1. q \in Proc /\ Fine(p, q) /\ RenamePlaces \subseteq Single /\ RenamePlaces \subseteq Labels
  BY Stay DEF Single, RenamePlaces, Labels
<1>2. r \in Proc /\ r.pc = l /\ r.cmd = q.cmd /\ r.group = q.group /\ r.idx = q.idx
  BY <1>1, Placed
<1>3. /\ q.cmd.kind = "rename" /\ q.group # <<>> /\ q.idx = 1
      /\ q.group[1].of = Service(Head(q.cmd.args)) /\ Head(q.cmd.args) # q.cmd.to
  BY <1>1 DEF Fine
<1>4. 1 \in DOMAIN q.group
  BY <1>3, Here, EmptySeq
<1>5. Become(p, r)
  BY DEF Goto
<1>6. l \notin {"rm", "rmRemove"} /\ q.pc # "checkout"
  BY DEF RenamePlaces
<1> HIDE DEF r
<1> QED
  BY <1>1, <1>2, <1>3, <1>4, <1>5, <1>6, SingleMoves

LEMMA SingleStepMoves ==
  ASSUME PackInv, NEW p \in Procs, app' = app,
         \/ ExecRun(p) \/ New(p) \/ Edit(p) \/ Import(p) \/ UpdateRebuild(p) \/ RenameContainer(p) \/ RenameWrite(p)
         \/ RenameData(p) \/ RenameFile(p) \/ RmRemove(p) \/ Checkout(p)
  PROVE  Moved(p)
<1> DEFINE q == cli[p]
<1>1. q \in Proc /\ Fine(p, q)
  BY Stay
<1>2. q.pc \in Single
  BY DEF ExecRun, New, Edit, Import, UpdateRebuild, RenameContainer, RenameWrite, RenameData, RenameFile, RmRemove,
         Checkout, At, Single
<1>3. \A r \in {"ok", "err"} : End(p, r) => Moved(p)
  BY <1>2, SingleEnds, SinglePlaces
<1>4. CASE ExecRun(p) \/ UpdateRebuild(p)
  BY <1>3, <1>4 DEF ExecRun, UpdateRebuild, Perform
<1>5. CASE New(p) \/ Edit(p) \/ Import(p) \/ RenameFile(p) \/ Checkout(p)
  BY <1>3, <1>5 DEF New, Edit, Import, RenameFile, Checkout, Write
<1>6. CASE RenameContainer(p) \/ RenameWrite(p) \/ RenameData(p)
  <2>1. q.pc \in RenamePlaces
    BY <1>6 DEF RenameContainer, RenameWrite, RenameData, At, RenamePlaces
  <2>2. ASSUME NEW l \in {"renameWrite", "renameData", "renameFile"}, Goto(p, l) PROVE Moved(p)
    BY <2>1, <2>2, RenameGoes DEF RenamePlaces
  <2> QED
    BY <1>3, <1>6, <2>2 DEF RenameContainer, RenameWrite, RenameData, Perform
<1>7. CASE RmRemove(p)
  <2> DEFINE r == [q EXCEPT !.pc = "rm", !.todo = Tail(@), !.group = <<>>]
  <2>1. q.pc = "rmRemove" /\ q.todo # <<>> /\ q.todo \in Seq(ServiceNames) /\ q.idx = 1
    BY <1>1, <1>7, Here DEF RmRemove, At, Fine
  <2>2. Tail(q.todo) \in Seq(ServiceNames) /\ (Len(q.todo) # 1 => Tail(q.todo) # <<>>)
    <3>1. Tail(q.todo) \in Seq(ServiceNames) /\ Len(Tail(q.todo)) = Len(q.todo) - 1 /\ Len(q.todo) \in Nat
      BY <2>1, HeadTailProperties, LenProperties
    <3>2. Len(Tail(q.todo)) # 0 => Tail(q.todo) # <<>>
      BY <3>1, EmptySeq
    <3> QED
      BY <3>1, <3>2
  <2>3. ASSUME Become(p, r), Len(q.todo) # 1 PROVE Moved(p)
    <3>1. "rm" \in Labels \cup PackageLabels /\ <<>> \in Seq(Member)
      BY DEF Labels
    <3>2. r \in Proc /\ r.pc = "rm" /\ r.cmd = q.cmd /\ r.todo = Tail(q.todo) /\ r.idx = 1
      BY <1>1, <2>1, <2>2, <3>1 DEF Proc, Process
    <3>3. "rm" \notin RenamePlaces /\ q.pc # "checkout"
      BY <2>1 DEF RenamePlaces
    <3> HIDE DEF r
    <3> QED
      BY <1>2, <2>2, <2>3, <3>2, <3>3, SingleMoves
  <2> QED
    BY <1>3, <1>7, <2>3 DEF RmRemove, Perform
<1> QED
  BY <1>4, <1>5, <1>6, <1>7

LEMMA ServiceMoves == ASSUME PackInv, NEW p \in Procs, ServiceStep(p), Keeps PROVE Moved(p)
<1>1. app' = app
  BY DEF Keeps
<1> QED
  BY <1>1, VisitMoves, ReturnMoves, BuiltMoves, ConnectMoves, GroupMoves, LoadOneMoves, SingleStepMoves DEF ServiceStep

-----------------------------------------------------------------------------
\* Packages

InPackage == PackageLabels \ {"steps"}

LEMMA Names ==
  /\ ThrowAways \subseteq ChainNames /\ ChainNames \subseteq Shorts /\ ServiceNames \subseteq Shorts
  /\ Keys \in Shorts /\ Keys \notin ChainNames /\ Blank \notin ChainNames /\ Blank # Keys
  /\ App \in Shorts /\ App \notin ChainNames /\ App \notin ServiceNames /\ App # Blank /\ 1 \in Numbers
BY ServicesAssumption, PackagesAssumption DEF ServicesAssumption, PackagesAssumption

LEMMA PackageGoes ==
  ASSUME PackInv, NEW p \in Procs, NEW l \in InPackage, Goto(p, l), cli[p].pc \in InPackage,
         NEW a \in AppState, app' = [app EXCEPT ![p] = a], \A r : r.pc = l /\ r.cmd = cli[p].cmd => Known(r, a)
  PROVE  Moved(p)
<1> DEFINE q == cli[p]
           r == [q EXCEPT !.pc = l]
<1>1. q \in Proc /\ Fine(p, q)
  BY Stay
<1>2. r.pc = l /\ r.cmd = q.cmd /\ r.group = q.group
  BY <1>1, Placed DEF InPackage
<1>3. q.cmd.kind = "package" /\ q.cmd \in Commands[p] /\ InOrder(q.group)
  BY <1>1 DEF Fine, InPackage, PackageLabels, GroupKinds
<1> HIDE DEF r
<1>4. Fine(p, r)
  BY <1>2, <1>3 DEF Fine, InPackage, Single, RenamePlaces, Ready, PackageLabels
<1> QED
  BY <1>2, <1>4, Going DEF InPackage, r

\* What is known stays known at the next place.
LEMMA PackageKeeps ==
  ASSUME PackInv, NEW p \in Procs, NEW l \in InPackage, Goto(p, l), cli[p].pc \in InPackage, app' = app,
         \A r : r.pc = l /\ r.cmd = cli[p].cmd => Known(r, app[p])
  PROVE  Moved(p)
BY Stay, PackageGoes

LEMMA InPackagePlaces ==
  /\ ThrowPlaces \cup CleanPlaces \cup {"boot", "bootKeys", "bootRun", "define", "defineImport", "perform"} = InPackage
  /\ ThrowPlaces \cap CleanPlaces = {}
BY DEF InPackage, PackageLabels, ThrowPlaces, CleanPlaces

LEMMA BootMoves ==
  ASSUME PackInv, NEW p \in Procs, Boot(p) \/ BootKeys(p) \/ BootRun(p)
  PROVE  Moved(p)
<1> DEFINE q == cli[p]
<1>1. q \in Proc /\ Fine(p, q) /\ Known(q, app[p]) /\ app[p] \in AppState
  BY Stay
<1>2. q.pc \in {"boot", "bootKeys", "bootRun"} /\ q.pc \in InPackage
  BY DEF Boot, BootKeys, BootRun, StartKeys, At, InPackage, PackageLabels
<1>3. ~app[p].named /\ {"bootKeys", "bootRun", "define", "throw"} \subseteq InPackage
  BY <1>2, Unnamed DEF CleanPlaces, InPackage, PackageLabels
<1>4. CASE Boot(p)
  <2> DEFINE c == q.cmd.chain
  <2>1. c \in ChainNames \cup {Blank}
    BY <1>1, <1>2, CommandOK DEF Command
  <2>2. CASE c = Blank
    <3> DEFINE t == CHOOSE x \in fresh : TRUE
               a == [NoApp EXCEPT !.type = "throwaway", !.made = t]
    <3>1. t \in ThrowAways
      BY <1>4, <2>2 DEF Boot, PackInv, TypeOK
    <3>2. a \in AppState /\ a.type = "throwaway" /\ a.made = t /\ a.chain = Blank /\ ~a.named
      BY <3>1 DEF AppState, NoApp
    <3>3. Goto(p, "throw") /\ app' = [app EXCEPT ![p] = a]
      BY <1>4, <2>2 DEF Boot
    <3> HIDE DEF a, t
    <3>4. \A r : r.pc = "throw" => Known(r, a)
      BY <3>1, <3>2 DEF Known, ThrowPlaces
    <3> QED
      BY <1>2, <1>3, <3>2, <3>3, <3>4, PackageGoes
  <2>3. CASE c # Blank
    <3> DEFINE a == [NoApp EXCEPT !.type = IF c \in chains THEN "service" ELSE "chain", !.chain = c]
    <3>1. a \in AppState /\ a.type # "throwaway" /\ a.chain = c /\ ~a.named
      BY <2>1, <2>3, Names DEF AppState, NoApp
    <3>2. PICK l \in {"bootKeys", "define"} : Goto(p, l) /\ app' = [app EXCEPT ![p] = a]
      BY <1>4, <2>3 DEF Boot, Knows
    <3> HIDE DEF a
    <3>3. \A r : r.pc = l /\ r.cmd = q.cmd => Known(r, a)
      BY <2>1, <2>3, <3>1 DEF Known, ThrowPlaces
    <3> QED
      BY <1>2, <1>3, <3>1, <3>2, <3>3, PackageGoes
  <2> QED
    BY <2>2, <2>3
<1>5. CASE BootKeys(p)
  <2>1. app' = app /\ \E l \in {"bootRun", "define"} : Goto(p, l)
    BY <1>5 DEF BootKeys, StartKeys, Perform, Keeps
  <2>2. \A l \in {"bootRun", "define"} : \A r : r.pc = l /\ r.cmd = q.cmd => Known(r, app[p])
    BY <1>1, <1>3, <1>5 DEF Known, ThrowPlaces, BootKeys, StartKeys, At
  <2> QED
    BY <1>2, <1>3, <2>1, <2>2, PackageKeeps
<1>6. CASE BootRun(p)
  <2>1. Goto(p, "define") /\ (app' = app \/ app' = [app EXCEPT ![p] = [app[p] EXCEPT !.type = "chain"]])
    BY <1>6 DEF BootRun, Perform, Keeps, Knows
  <2>2. \A r : r.pc = "define" => Known(r, app[p])
    BY <1>1, <1>3 DEF Known, ThrowPlaces
  <2> DEFINE a == [app[p] EXCEPT !.type = "chain"]
  <2>3. a \in AppState /\ a.type = "chain" /\ ~a.named
    BY <1>1, <1>3 DEF AppState
  <2> HIDE DEF a
  <2>4. \A r : r.pc = "define" => Known(r, a)
    BY <2>3 DEF Known, ThrowPlaces
  <2> QED
    BY <1>2, <1>3, <2>1, <2>2, <2>3, <2>4, PackageKeeps, PackageGoes DEF a
<1> QED
  BY <1>4, <1>5, <1>6

LEMMA ThrowMoves ==
  ASSUME PackInv, NEW p \in Procs,
         Throw(p) \/ ThrowImport(p) \/ ThrowKeys(p) \/ ThrowRun(p) \/ ThrowRemove(p) \/ ThrowStart(p) \/ ThrowStartRun(p)
  PROVE  Moved(p)
<1> DEFINE q == cli[p]
<1>1. q \in Proc /\ Fine(p, q) /\ Known(q, app[p]) /\ app[p] \in AppState
  BY Stay
<1>2. q.pc \in ThrowPlaces
  BY DEF Throw, ThrowImport, ThrowKeys, ThrowRun, ThrowRemove, ThrowStart, ThrowStartRun, StartKeys, At, ThrowPlaces
<1>3. q.pc \in InPackage /\ q.pc \in PackageLabels
  BY <1>2, InPackagePlaces DEF InPackage
<1>4. ~app[p].named /\ app[p].made \in ThrowAways /\ app[p].made \in Shorts
  BY <1>1, <1>2, Unnamed, Names DEF Known, ThrowPlaces, CleanPlaces
<1>5. ASSUME Fail(p), app' = app PROVE Moved(p)
  BY <1>3, <1>5, Failing
<1>6. ASSUME NEW l \in ThrowPlaces, Goto(p, l), app' = app PROVE Moved(p)
  <2>1. \A r : r.pc = l => Known(r, app[p])
    BY <1>1, <1>4 DEF Known, ThrowPlaces
  <2> QED
    BY <1>3, <1>6, <2>1, PackageKeeps, InPackagePlaces
<1>7. ASSUME NEW c \in {Keys, app[p].made}, Goto(p, "define"), Knows(p, [app[p] EXCEPT !.chain = c]) PROVE Moved(p)
  <2> DEFINE a == [app[p] EXCEPT !.chain = c]
  <2>1. a \in AppState /\ a.type = app[p].type /\ a.made = app[p].made /\ a.chain = c /\ ~a.named
    BY <1>1, <1>4, Names DEF AppState
  <2> HIDE DEF a
  <2>2. \A r : r.pc = "define" => Known(r, a)
    BY <1>4, <2>1 DEF Known, ThrowPlaces
  <2>3. app' = [app EXCEPT ![p] = a]
    BY <1>7 DEF Knows, a
  <2> QED
    BY <1>3, <1>7, <2>1, <2>2, <2>3, PackageGoes, InPackagePlaces
<1>8. CASE Throw(p) \/ ThrowKeys(p) \/ ThrowRun(p) \/ ThrowRemove(p)
  BY <1>5, <1>6, <1>8 DEF Throw, ThrowKeys, ThrowRun, ThrowRemove, StartKeys, Perform, Keeps, ThrowPlaces
<1>9. CASE ThrowImport(p)
  BY <1>5, <1>6, <1>9 DEF ThrowImport, ThrowPlaces
<1>10. CASE ThrowStart(p) \/ ThrowStartRun(p)
  BY <1>6, <1>7, <1>10 DEF ThrowStart, ThrowStartRun, StartKeys, Perform, Keeps, ThrowPlaces
<1> QED
  BY <1>8, <1>9, <1>10

LEMMA TaskMoves ==
  ASSUME PackInv, NEW p \in Procs, Define(p) \/ DefineImport(p) \/ PerformTask(p)
  PROVE  Moved(p)
<1> DEFINE q == cli[p]
<1>1. q \in Proc /\ Fine(p, q) /\ Known(q, app[p]) /\ app[p] \in AppState
  BY Stay
<1>2. q.pc \in {"define", "defineImport", "perform"} /\ q.pc \in InPackage /\ q.pc \in PackageLabels
  BY DEF Define, DefineImport, PerformTask, At, InPackage, PackageLabels
<1>3. ASSUME Fail(p), app' = app PROVE Moved(p)
  BY <1>2, <1>3, Failing
<1>4. CASE Define(p)
  <2> DEFINE a == [app[p] EXCEPT !.named = TRUE]
  <2>1. a \in AppState /\ a.type = app[p].type /\ a.made = app[p].made /\ a.chain = app[p].chain /\ a.named
    BY <1>1 DEF AppState
  <2>2. \/ Goto(p, "defineImport") /\ app' = [app EXCEPT ![p].named = TRUE]
        \/ Fail(p) /\ app' = app
    BY <1>4 DEF Define, Keeps
  <2>3. [app EXCEPT ![p].named = TRUE] = [app EXCEPT ![p] = a]
    OBVIOUS
  <2> HIDE DEF a
  <2>4. \A r : r.pc = "defineImport" => Known(r, a)
    BY <1>1, <2>1 DEF Known, ThrowPlaces
  <2> QED
    BY <1>2, <1>3, <2>1, <2>2, <2>3, <2>4, PackageGoes, InPackagePlaces
<1>5. CASE DefineImport(p)
  <2>1. app' = app /\ (Goto(p, "perform") \/ Fail(p))
    BY <1>5 DEF DefineImport, Perform, Keeps
  <2>2. \A r : r.pc = "perform" => Known(r, app[p])
    BY <1>1, <1>5 DEF Known, ThrowPlaces, DefineImport, At
  <2> QED
    BY <1>2, <1>3, <2>1, <2>2, PackageKeeps, InPackagePlaces
<1>6. CASE PerformTask(p)
  <2>1. app' = app /\ (Leap(p, "clean", "ok") \/ Fail(p))
    BY <1>6 DEF PerformTask, Perform, Keeps
  <2>2. q.pc # "idle" /\ q.cmd.kind = "package"
    BY <1>1, <1>2 DEF Fine, PackageLabels
  <2> QED
    BY <1>3, <2>1, <2>2, Leaping DEF GroupKinds, Results
<1> QED
  BY <1>4, <1>5, <1>6

LEMMA CleanMoves ==
  ASSUME PackInv, NEW p \in Procs,
         Clean(p) \/ CleanRemove(p) \/ CleanDirs(p) \/ CleanExport(p) \/ CleanData(p) \/ CleanContainer(p)
  PROVE  Moved(p)
<1> DEFINE q == cli[p]
<1>1. q \in Proc /\ Fine(p, q) /\ Known(q, app[p]) /\ app[p] \in AppState /\ q.res \in Results
  BY Stay DEF Proc, Process
<1>2. q.pc \in CleanPlaces /\ q.pc \in InPackage
  BY InPackagePlaces DEF Clean, CleanRemove, CleanDirs, CleanExport, CleanData, CleanContainer, At, CleanPlaces
<1>3. ASSUME NEW l \in CleanPlaces, Goto(p, l), app' = app,
             l \in {"cleanRemove", "cleanDirs"} => app[p].type = "throwaway",
             l = "cleanRemove" => app[p].chain = app[p].made
      PROVE  Moved(p)
  <2>1. \A r : r.pc = l => Known(r, app[p])
    BY <1>1, <1>3 DEF Known, ThrowPlaces, CleanPlaces
  <2> QED
    BY <1>2, <1>3, <2>1, PackageKeeps, InPackagePlaces
<1>4. ASSUME Goto(p, "cleanDirs"), Refused(p), app[p].type = "throwaway" PROVE Moved(p)
  <2> DEFINE a == [app[p] EXCEPT !.refused = TRUE]
  <2>1. a \in AppState /\ a.type = app[p].type /\ a.made = app[p].made /\ a.chain = app[p].chain /\ a.named = app[p].named
    BY <1>1 DEF AppState
  <2>2. app' = [app EXCEPT ![p] = a]
    BY <1>4 DEF Refused, Knows
  <2> HIDE DEF a
  <2>3. \A r : r.pc = "cleanDirs" => Known(r, a)
    BY <1>1, <1>4, <2>1 DEF Known, ThrowPlaces, CleanPlaces
  <2> QED
    BY <1>2, <1>4, <2>1, <2>2, <2>3, PackageGoes, InPackagePlaces DEF CleanPlaces
<1>5. \A r \in Results : Leave(p, r) => Moved(p)
  BY Leaving
<1>6. CASE Clean(p)
  <2>1. app[p].type = "throwaway" /\ app[p].chain \in chains => app[p].chain = app[p].made
    BY <1>1, Names DEF Known, PackInv, TypeOK
  <2> QED
    BY <1>3, <1>4, <1>6, <2>1 DEF Clean, Perform, Keeps, CleanPlaces
<1>7. CASE CleanRemove(p)
  BY <1>1, <1>3, <1>4, <1>7 DEF CleanRemove, Perform, Keeps, CleanPlaces, At, Known
<1>8. CASE CleanDirs(p)
  BY <1>3, <1>8 DEF CleanDirs, CleanPlaces
<1>9. CASE CleanExport(p)
  BY <1>3, <1>5, <1>9 DEF CleanExport, Keeps, CleanPlaces, Results
<1>10. CASE CleanData(p)
  BY <1>3, <1>10 DEF CleanData, CleanPlaces
<1>11. CASE CleanContainer(p)
  BY <1>1, <1>5, <1>11 DEF CleanContainer, Perform, Results
<1> QED
  BY <1>6, <1>7, <1>8, <1>9, <1>10, <1>11

LEMMA PackageMoves == ASSUME PackInv, NEW p \in Procs, PackageStep(p) PROVE Moved(p)
<1>1. CASE Steps(p)
  <2>1. cli[p].pc = "steps" /\ app' = app /\ \E r \in {"ok", "err"} : End(p, r)
    BY <1>1 DEF Steps, Look, At, Keeps
  <2> QED
    BY <2>1, Unnamed, Ending DEF CleanPlaces, Results
<1> QED
  BY <1>1, BootMoves, ThrowMoves, TaskMoves, CleanMoves DEF PackageStep

LEMMA StepMoves == ASSUME PackInv, NEW p \in Procs, Step(p) PROVE Moved(p)
BY ServiceMoves, PackageMoves DEF Step

-----------------------------------------------------------------------------
\* The containers

\* Containers change with these short names at most.
Only(S) == containers' \in Containers /\ \A n \in Named : n.short \notin S => containers'[n] = containers[n]

LEMMA OnOne ==
  ASSUME PackInv, NEW n \in Named, NEW b \in BOOLEAN, NEW links,
         \/ \E o \in RunService(containers, n, b, links) : containers' = o.left
         \/ \E o \in ExecService(containers, n, b, links) : containers' = o.left
         \/ \E o \in Stop(containers, n) : containers' = o.left
         \/ \E o \in Remove(containers, n, b) : containers' = o.left
         \/ \E o \in Rebuild(containers, n, links) : containers' = o.left
  PROVE  Only({n.short})
<1>1. containers \in Containers
  BY DEF PackInv, TypeOK
<1> DEFINE S == {n, ToDataContainer(n)}
<1>2. \E o \in Within(containers, S) : containers' = o.left
  <2>1. \A o \in Within(containers, {n}) \cup Within(containers, {ToDataContainer(n)}) : o \in Within(containers, S)
    BY DEF Within
  <2> HIDE DEF S
  <2>2. /\ RunService(containers, n, b, links) \subseteq Within(containers, S)
        /\ Remove(containers, n, b) \subseteq Within(containers, S)
    BY <1>1, RunServiceOutcome, RemoveOutcome DEF S
  <2>3. /\ ExecService(containers, n, b, links) \subseteq Within(containers, {ToDataContainer(n)})
        /\ Stop(containers, n) \subseteq Within(containers, {n})
        /\ Rebuild(containers, n, links) \subseteq Within(containers, {n})
    BY <1>1, ExecServiceOutcome, StopOutcome, RebuildOutcome
  <2> QED
    BY <2>1, <2>2, <2>3
<1>3. ToDataContainer(n).short = n.short
  BY NamedTypes
<1> QED
  BY <1>2, <1>3 DEF Within, Outcome, Only

LEMMA OnNamed ==
  ASSUME PackInv, NEW x \in Shorts, \E o \in CreateData(containers, x) \cup ImportData(containers, x) : containers' = o.left
  PROVE  Only({x})
<1>1. containers \in Containers /\ 1 \in Numbers
  BY Names DEF PackInv, TypeOK
<1>2. \E o \in Within(containers, {Data(x)}) : containers' = o.left
  BY <1>1, CreateDataOutcome
<1> QED
  BY <1>1, <1>2, Assembled DEF Within, Outcome, Only

LEMMA OnTwo ==
  ASSUME PackInv, NEW n \in Named, NEW to \in Named, n # to, NEW links,
         \E o \in Rename(containers, n, to, links) : containers' = o.left
  PROVE  Only({n.short, to.short})
<1>1. containers \in Containers
  BY DEF PackInv, TypeOK
<1>2. \E o \in Within(containers, {n, to}) : containers' = o.left
  BY <1>1, RenameOutcome
<1> QED
  BY <1>2 DEF Within, Outcome, Only

LEMMA OnAny ==
  ASSUME PackInv, NEW b \in BOOLEAN,
         \/ \E o \in RemoveNameless(containers, b) : containers' = o.left
         \/ \E n \in Named : \E o \in RemoveWithAnyData(containers, n) : containers' = o.left
  PROVE  containers' \in Containers
<1>1. containers \in Containers
  BY DEF PackInv, TypeOK
<1>2. \E o \in Adding(containers, {}) : containers' = o.left
  BY <1>1, NamelessOutcome
<1> QED
  BY <1>2 DEF Adding, Outcome

\* A chain, or the keys server, is started.
LEMMA OnChain ==
  ASSUME PackInv, NEW c \in Shorts, NEW links, \E o \in RunService(containers, Chain(c), TRUE, links) : containers' = o.left
  PROVE  Only({c})
<1>1. Chain(c) \in Named /\ Chain(c).short = c
  BY Assembled, Names
<1> QED
  BY <1>1, OnOne

LEMMA OnKeys ==
  ASSUME PackInv, \E o \in RunService(containers, Service(Keys), Loaded(Keys).def.data, Loaded(Keys).links) : containers' = o.left
  PROVE  Only({Keys})
<1>1. Keys \in ServiceNames
  BY ServicesAssumption DEF ServicesAssumption
<1>2. Service(Keys) \in Named /\ Service(Keys).short = Keys
  BY Names, Assembled
<1>3. Loaded(Keys).def.data \in BOOLEAN
  BY <1>1, LoadedOK DEF Definition
<1> QED
  BY <1>2, <1>3, OnOne

TouchedShorts(p) ==
  {cli[p].group[i].of.short : i \in DOMAIN cli[p].group}
    \cup {cli[p].cmd.to, cli[p].cmd.chain, app[p].made, App, Keys} \cup cli[p].pending

World(p) == containers' \in Containers /\ (Nameless(p) \/ \A n \in Named \ Touches(p) : containers'[n] = containers[n])

LEMMA OnlyWorld ==
  ASSUME PackInv, NEW p \in Procs, NEW S, Only(S), S \subseteq TouchedShorts(p)
  PROVE  World(p)
BY DEF Only, World, Touches, TouchedShorts

LEMMA QuietWorld == ASSUME PackInv, NEW p, UNCHANGED containers PROVE World(p)
BY DEF PackInv, TypeOK, World

LEMMA CurrentTouched ==
  ASSUME PackInv, NEW p \in Procs, cli[p].pc \in Ready \cup RenamePlaces \cup {"execRun", "updateRebuild", "rmRemove"}
  PROVE  /\ Current(p) \in Member /\ Current(p).of \in Named /\ Current(p).def \in Definition /\ Current(p).def.data \in BOOLEAN
         /\ Current(p).of.short \in TouchedShorts(p)
<1>1. Fine(p, cli[p])
  BY Stay
<1>2. cli[p].idx \in DOMAIN cli[p].group
  <2>1. CASE cli[p].pc \in RenamePlaces
    BY <1>1, <2>1, Here, EmptySeq DEF Fine
  <2> QED
    BY <1>1, <2>1 DEF Fine
<1>3. Current(p) \in Member
  BY <1>2, Here
<1> QED
  BY <1>2, <1>3 DEF Member, Definition, Current, TouchedShorts

LEMMA ServiceWorld == ASSUME PackInv, NEW p \in Procs, ServiceStep(p) PROVE World(p)
<1> DEFINE q == cli[p]
<1>1. q \in Proc /\ Fine(p, q)
  BY Stay
<1>2. UNCHANGED containers => World(p)
  BY QuietWorld
<1>3. \A b : Has(p, b) \in BOOLEAN
  BY DEF Has
<1>4. CASE RunChain(p)
  <2>1. PICK c \in q.pending : \E o \in RunService(containers, Chain(c), TRUE, {Service(Keys)}) : containers' = o.left
    BY <1>4 DEF RunChain, Perform
  <2>2. c \in Shorts /\ c \in TouchedShorts(p)
    BY Here, Names DEF TouchedShorts
  <2>3. Only({c})
    BY <2>1, <2>2, OnChain
  <2> QED
    BY <2>2, <2>3, OnlyWorld
<1>5. ASSUME q.pc \in Ready \cup RenamePlaces \cup {"execRun", "updateRebuild", "rmRemove"}, Only({Current(p).of.short}) PROVE World(p)
  BY <1>5, CurrentTouched, OnlyWorld
<1>6. CASE RunNext(p) \/ ExecRun(p) \/ UpdateRebuild(p)
  <2>1. q.pc \in Ready \cup RenamePlaces \cup {"execRun", "updateRebuild", "rmRemove"}
    BY <1>6 DEF RunNext, ExecRun, UpdateRebuild, At, Ready
  <2>2. \/ \E o \in RunService(containers, Current(p).of, Current(p).def.data, Current(p).links) : containers' = o.left
        \/ \E o \in ExecService(containers, Current(p).of, Current(p).def.data, Current(p).links) : containers' = o.left
        \/ \E o \in Rebuild(containers, Current(p).of, Current(p).links) : containers' = o.left
    BY <1>6 DEF RunNext, ExecRun, UpdateRebuild, Perform
  <2>3. Only({Current(p).of.short})
    BY <2>1, <2>2, CurrentTouched, OnOne
  <2> QED
    BY <1>5, <2>1, <2>3
<1>7. CASE Kill(p) \/ KillStop(p)
  <2>1. q.pc \in Ready
    BY <1>7 DEF Kill, KillStop, Look, At, Ready
  <2>2. (\E o \in Stop(containers, Current(p).of) : containers' = o.left) \/ UNCHANGED containers
    BY <1>7 DEF Kill, KillStop, Look, Perform
  <2>3. ASSUME \E o \in Stop(containers, Current(p).of) : containers' = o.left PROVE Only({Current(p).of.short})
    BY <2>1, <2>3, CurrentTouched, OnOne
  <2> QED
    BY <1>2, <1>5, <2>1, <2>2, <2>3
<1>8. CASE KillRemove(p) \/ RmRemove(p)
  <2>1. q.pc \in {"killRemove", "rmRemove"} /\ q.pc \in Ready \cup RenamePlaces \cup {"execRun", "updateRebuild", "rmRemove"}
    BY <1>8 DEF KillRemove, RmRemove, At, Ready
  <2>2. \E o \in Removed(Current(p), Has(p, "data")) : containers' = o.left
    BY <1>8 DEF KillRemove, RmRemove, Perform
  <2>3. CASE Has(p, "data") /\ ~Current(p).named
    <3>1. \E o \in RemoveWithAnyData(containers, Current(p).of) : containers' = o.left
      BY <2>2, <2>3 DEF Removed
    <3>2. containers' \in Containers
      BY <2>1, <3>1, CurrentTouched, OnAny
    <3> QED
      BY <2>1, <2>3, <3>2 DEF World, Nameless, At
  <2>4. CASE ~(Has(p, "data") /\ ~Current(p).named)
    <3>1. \E o \in Remove(containers, Current(p).of, Has(p, "data")) : containers' = o.left
      BY <2>2, <2>4 DEF Removed
    <3>2. Only({Current(p).of.short})
      BY <1>3, <2>1, <3>1, CurrentTouched, OnOne
    <3> QED
      BY <1>5, <2>1, <3>2
  <2> QED
    BY <2>3, <2>4
<1>9. CASE RenameContainer(p) \/ RenameData(p)
  <2>1. q.pc \in RenamePlaces
    BY <1>9 DEF RenameContainer, RenameData, At, RenamePlaces
  <2>2. /\ q.cmd.kind = "rename" /\ q.idx = 1 /\ q.pc # "idle"
        /\ Current(p).of = Service(Arg(p)) /\ Arg(p) # NewName(p)
    BY <1>1, <2>1 DEF Fine, RenamePlaces, Current, Arg, NewName
  <2>3. Arg(p) \in Shorts /\ NewName(p) \in Shorts
    BY <2>2, CommandOK, Names DEF Arg, NewName
  <2>4. /\ Service(Arg(p)) \in Named /\ Service(NewName(p)) \in Named /\ Data(Arg(p)) \in Named /\ Data(NewName(p)) \in Named
        /\ Service(Arg(p)).short = Arg(p) /\ Service(NewName(p)).short = NewName(p)
        /\ Data(Arg(p)).short = Arg(p) /\ Data(NewName(p)).short = NewName(p)
    BY <2>3, Names, Assembled
  <2>5. \/ \E o \in Rename(containers, Service(Arg(p)), Service(NewName(p)), Current(p).links) : containers' = o.left
        \/ \E o \in Rename(containers, Data(Arg(p)), Data(NewName(p)), {}) : containers' = o.left
    BY <1>9, <2>2 DEF RenameContainer, RenameData, Perform
  <2>6. Only({Arg(p), NewName(p)})
    BY <2>2, <2>4, <2>5, OnTwo
  <2>7. Arg(p) \in TouchedShorts(p)
    BY <2>1, <2>2, <2>4, CurrentTouched
  <2>8. NewName(p) \in TouchedShorts(p)
    BY DEF TouchedShorts, NewName
  <2> QED
    BY <2>6, <2>7, <2>8, OnlyWorld
<1>10. CASE Visit(p) \/ Return(p) \/ Built(p) \/ Connect(p) \/ Exec(p) \/ Update(p) \/ RenameService(p) \/ Rm(p)
  BY <1>2, <1>10 DEF Visit, Return, Built, Connect, Exec, Update, RenameService, Rm, LoadOne, Load, Look
<1>11. CASE New(p) \/ Edit(p) \/ Import(p) \/ RenameWrite(p) \/ RenameFile(p) \/ Checkout(p)
  BY <1>2, <1>11 DEF New, Edit, Import, RenameWrite, RenameFile, Checkout, Write
<1> QED
  BY <1>4, <1>6, <1>7, <1>8, <1>9, <1>10, <1>11 DEF ServiceStep

\* What a package changes once its service has a name.
Spared(p) == app[p].named => Only({App, app[p].made})

LEMMA PackageWorld == ASSUME PackInv, NEW p \in Procs, PackageStep(p) PROVE World(p) /\ Spared(p)
<1> DEFINE q == cli[p]
<1>1. q \in Proc /\ Fine(p, q) /\ Known(q, app[p]) /\ containers \in Containers
  BY Stay DEF PackInv, TypeOK
<1>2. ASSUME UNCHANGED containers PROVE World(p) /\ Spared(p)
  BY <1>1, <1>2, QuietWorld DEF Spared, Only
<1>3. ASSUME ~app[p].named, NEW x \in {Keys, app[p].made, q.cmd.chain}, Only({x}) PROVE World(p) /\ Spared(p)
  <2>1. {x} \subseteq TouchedShorts(p)
    BY DEF TouchedShorts
  <2> QED
    BY <1>3, <2>1, OnlyWorld DEF Spared
<1>4. ASSUME NEW x \in {App, app[p].made}, Only({x}) PROVE World(p) /\ Spared(p)
  <2>1. {x} \subseteq TouchedShorts(p)
    BY DEF TouchedShorts
  <2> QED
    BY <1>4, <2>1, OnlyWorld DEF Spared, Only
<1>5. CASE Boot(p) \/ Define(p) \/ CleanDirs(p) \/ CleanExport(p) \/ CleanData(p) \/ Steps(p)
  BY <1>2, <1>5 DEF Boot, Define, CleanDirs, CleanExport, CleanData, Steps, Look
<1>6. CASE BootKeys(p) \/ ThrowKeys(p) \/ ThrowStart(p)
  <2>1. ~app[p].named
    BY <1>6, Unnamed DEF BootKeys, ThrowKeys, ThrowStart, StartKeys, At, CleanPlaces
  <2>2. \/ \E o \in RunService(containers, Service(Keys), Loaded(Keys).def.data, Loaded(Keys).links) : containers' = o.left
        \/ UNCHANGED containers
    BY <1>6 DEF BootKeys, ThrowKeys, ThrowStart, StartKeys, Perform
  <2> QED
    BY <1>2, <1>3, <2>1, <2>2, OnKeys
<1>7. CASE BootRun(p)
  <2>1. ~app[p].named /\ app[p].chain = q.cmd.chain /\ app[p].chain \in Shorts
    BY <1>1, <1>7, Unnamed, Names DEF BootRun, At, Known, CleanPlaces
  <2>2. \E o \in RunService(containers, Chain(app[p].chain), TRUE, {Service(Keys)}) : containers' = o.left
    BY <1>7 DEF BootRun, Perform
  <2> QED
    BY <1>3, <2>1, <2>2, OnChain
<1>8. CASE Throw(p) \/ ThrowImport(p) \/ ThrowRun(p) \/ ThrowRemove(p) \/ ThrowStartRun(p)
  <2>1. app[p].made \in Shorts
    BY <1>1, <1>8, Names DEF Throw, ThrowImport, ThrowRun, ThrowRemove, ThrowStartRun, At, Known, ThrowPlaces
  <2>2. \/ \E o \in CreateData(containers, app[p].made) \cup ImportData(containers, app[p].made) : containers' = o.left
        \/ \E o \in RunService(containers, Chain(app[p].made), TRUE, {Service(Keys)}) : containers' = o.left
        \/ \E o \in Remove(containers, Chain(app[p].made), Has(p, "data")) : containers' = o.left
    BY <1>8 DEF Throw, ThrowImport, ThrowRun, ThrowRemove, ThrowStartRun, Perform
  <2>3. Chain(app[p].made) \in Named /\ Chain(app[p].made).short = app[p].made /\ Has(p, "data") \in BOOLEAN
    BY <2>1, Names, Assembled DEF Has
  <2>4. Only({app[p].made})
    BY <2>1, <2>2, <2>3, OnNamed, OnChain, OnOne
  <2> QED
    BY <1>4, <2>4
<1>9. App \in Shorts /\ Service(App) \in Named /\ Service(App).short = App /\ Data(App) \in Named /\ Data(App).short = App
  BY Names, Assembled
<1>10. CASE DefineImport(p) \/ PerformTask(p)
  <2>1. \/ \E o \in CreateData(containers, App) \cup ImportData(containers, App) : containers' = o.left
        \/ \E o \in ExecService(containers, Service(App), TRUE, {ChainLink(p), Service(Keys)}) : containers' = o.left
    BY <1>10 DEF DefineImport, PerformTask, Perform
  <2>2. Only({App})
    BY <1>9, <2>1, OnNamed, OnOne
  <2> QED
    BY <1>4, <2>2
<1>11. CASE Clean(p) \/ CleanRemove(p)
  <2>1. \/ UNCHANGED containers
        \/ /\ app[p].chain = app[p].made /\ app[p].made \in Shorts
           /\ \/ \E o \in Stop(containers, Chain(app[p].chain)) : containers' = o.left
              \/ \E o \in Remove(containers, Chain(app[p].chain), TRUE) : containers' = o.left
    <3>1. app[p].type = "throwaway" => app[p].made \in ThrowAways /\ app[p].chain \in {Blank, Keys, app[p].made}
      BY <1>1 DEF Known
    <3>2. app[p].chain \in chains => app[p].chain \notin {Blank, Keys}
      BY Names DEF PackInv, TypeOK
    <3>3. CASE Clean(p)
      BY <3>1, <3>2, <3>3, Names DEF Clean, Perform
    <3>4. CASE CleanRemove(p)
      BY <1>1, <3>1, <3>4, Names DEF CleanRemove, Perform, At, Known
    <3> QED
      BY <1>11, <3>3, <3>4
  <2>2. ASSUME app[p].made \in Shorts, app[p].chain = app[p].made,
               \/ \E o \in Stop(containers, Chain(app[p].chain)) : containers' = o.left
               \/ \E o \in Remove(containers, Chain(app[p].chain), TRUE) : containers' = o.left
        PROVE  Only({app[p].made})
    <3>1. Chain(app[p].made) \in Named /\ Chain(app[p].made).short = app[p].made
      BY <2>2, Names, Assembled
    <3> QED
      BY <2>2, <3>1, OnOne
  <2> QED
    BY <1>2, <1>4, <2>1, <2>2
<1>12. CASE CleanContainer(p)
  <2>1. CASE UNCHANGED containers
    BY <1>2, <2>1
  <2>2. CASE app[p].named /\ \E o \in Remove(containers, Data(App), FALSE) : containers' = o.left
    <3>1. Only({App})
      BY <1>9, <2>2, OnOne
    <3> QED
      BY <1>4, <3>1
  <2>3. CASE ~app[p].named /\ \E o \in RemoveNameless(containers, FALSE) : containers' = o.left
    <3>1. containers' \in Containers
      BY <2>3, OnAny
    <3> QED
      BY <1>12, <2>3, <3>1 DEF World, Spared, Nameless, CleanContainer
  <2> QED
    BY <1>12, <2>1, <2>2, <2>3 DEF CleanContainer, Perform
<1> QED
  BY <1>5, <1>6, <1>7, <1>8, <1>10, <1>11, <1>12 DEF PackageStep

-----------------------------------------------------------------------------
\* The files

Files ==
  /\ defs' \in [ServiceNames -> Definition] /\ chains' \subseteq ChainNames /\ head' \in ChainNames \cup {Blank}
  /\ dirs' \subseteq Shorts /\ fresh' \subseteq ThrowAways

LEMMA SameFiles == ASSUME PackInv, UNCHANGED disk, UNCHANGED <<dirs, fresh>> PROVE Files
BY DEF PackInv, TypeOK, Files, disk

LEMMA NewDefinitions ==
  /\ NoFile \in Definition /\ NewFile \in Definition /\ BadFile \in Definition
  /\ \A x \in ServiceNames : Drafts[x] \subseteq Definition
<1>1. <<>> \in Seq(ServiceNames) /\ {} \in SUBSET ServiceNames
  OBVIOUS
<1>2. NoFile \in Definition
  BY <1>1 DEF NoFile, Definition
<1>3. NewFile \in Definition /\ BadFile \in Definition
  BY <1>1 DEF NewFile, BadFile, NoFile, Definition
<1> QED
  BY <1>2, <1>3, ServicesAssumption DEF ServicesAssumption

LEMMA ServiceFiles == ASSUME PackInv, NEW p \in Procs, ServiceStep(p), Keeps PROVE Files
<1> DEFINE q == cli[p]
<1>1. q \in Proc /\ Fine(p, q)
  BY Stay
<1>2. /\ UNCHANGED <<dirs, fresh>> /\ defs \in [ServiceNames -> Definition] /\ chains \subseteq ChainNames
      /\ head \in ChainNames \cup {Blank} /\ dirs \subseteq Shorts /\ fresh \subseteq ThrowAways
  BY DEF Keeps, PackInv, TypeOK
<1>3. ASSUME NEW x, NEW d \in Definition, defs' = [defs EXCEPT ![x] = d], UNCHANGED <<chains, head>> PROVE Files
  BY <1>2, <1>3 DEF Files
<1>4. CASE New(p)
  BY <1>3, <1>4, NewDefinitions DEF New, Write
<1>5. CASE Edit(p) \/ Import(p)
  <2>1. q.pc \in {"edit", "import"}
    BY <1>5 DEF Edit, Import, At
  <2>2. Arg(p) \in ServiceNames
    <3>1. q.pc # "idle" /\ q.cmd.kind \notin GroupKinds \cup {"checkout"}
      BY <1>1, <2>1 DEF Fine, Single
    <3> QED
      BY <3>1, CommandOK DEF Arg, GroupKinds
  <2>3. Drafts[Arg(p)] \subseteq Definition /\ defs[Arg(p)] \in Definition
    BY <1>2, <2>2, NewDefinitions
  <2>4. CASE Edit(p)
    <3>1. \E d \in Definition : defs' = [defs EXCEPT ![Arg(p)] = d] /\ UNCHANGED <<chains, head>>
      BY <2>3, <2>4, NewDefinitions DEF Edit, Write
    <3> QED
      BY <1>3, <3>1
  <2>5. CASE Import(p)
    <3>1. \E d \in Definition : defs' = [defs EXCEPT ![Arg(p)] = d] /\ UNCHANGED <<chains, head>>
      BY <2>3, <2>5, NewDefinitions DEF Import, Write
    <3> QED
      BY <1>3, <3>1
  <2> QED
    BY <1>5, <2>4, <2>5
<1>6. CASE RenameWrite(p)
  <2>1. Current(p).def \in Definition
    BY <1>6, CurrentTouched DEF RenameWrite, At, RenamePlaces
  <2>2. Needs(Current(p).def) \subseteq ServiceNames
    <3>1. Current(p).def.deps \in Seq(ServiceNames)
      BY <2>1 DEF Definition
    <3> QED
      BY <3>1, LenProperties, ElementOfSeq DEF Needs
  <2>3. AsLoaded(Current(p).def) \in Definition
    BY <2>1, <2>2 DEF AsLoaded, Definition
  <2> QED
    BY <1>3, <1>6, <2>3 DEF RenameWrite
<1>7. CASE RenameFile(p)
  BY <1>3, <1>7, NewDefinitions DEF RenameFile, Write
<1>8. CASE Checkout(p)
  BY <1>2, <1>8 DEF Checkout, Files
<1>9. UNCHANGED disk => Files
  BY <1>2, SameFiles
<1>10. CASE Visit(p) \/ Return(p) \/ Built(p) \/ Connect(p) \/ Kill(p) \/ Exec(p) \/ Update(p) \/ RenameService(p) \/ Rm(p)
  BY <1>9, <1>10 DEF Visit, Return, Built, Connect, Kill, Exec, Update, RenameService, Rm, LoadOne, Load, Look
<1>11. CASE RunChain(p) \/ RunNext(p) \/ ExecRun(p) \/ UpdateRebuild(p) \/ RenameContainer(p) \/ RenameData(p)
  BY <1>9, <1>11 DEF RunChain, RunNext, ExecRun, UpdateRebuild, RenameContainer, RenameData, Perform
<1>12. CASE KillStop(p) \/ KillRemove(p) \/ RmRemove(p)
  BY <1>9, <1>12 DEF KillStop, KillRemove, RmRemove, Perform
<1> QED
  BY <1>4, <1>5, <1>6, <1>7, <1>8, <1>10, <1>11, <1>12 DEF ServiceStep

\* What the clean-up of a package takes away from the disk.
SparedFiles(p) ==
  app[p].named /\ app[p].made \in {Blank, app[p].chain} =>
    /\ dirs \ dirs' \subseteq {App, app[p].made} /\ chains \ chains' \subseteq {App, app[p].made}

LEMMA PackageFiles == ASSUME PackInv, NEW p \in Procs, PackageStep(p) PROVE Files /\ SparedFiles(p)
<1> DEFINE q == cli[p]
<1>1. q \in Proc /\ Fine(p, q) /\ Known(q, app[p])
  BY Stay
<1>2. /\ defs \in [ServiceNames -> Definition] /\ chains \subseteq ChainNames
      /\ head \in ChainNames \cup {Blank} /\ dirs \subseteq Shorts /\ fresh \subseteq ThrowAways
  BY DEF PackInv, TypeOK
<1>3. ASSUME UNCHANGED disk, UNCHANGED <<dirs, fresh>> PROVE Files /\ SparedFiles(p)
  BY <1>3, SameFiles DEF SparedFiles, disk
<1>4. CASE Boot(p)
  BY <1>2, <1>4 DEF Boot, Knows, Files, SparedFiles, disk
<1>5. CASE BootKeys(p) \/ BootRun(p) \/ Throw(p) \/ ThrowKeys(p) \/ ThrowRun(p) \/ ThrowRemove(p) \/ ThrowStart(p) \/ ThrowStartRun(p)
  BY <1>3, <1>5 DEF BootKeys, BootRun, Throw, ThrowKeys, ThrowRun, ThrowRemove, ThrowStart, ThrowStartRun, StartKeys, Perform, Keeps, Knows
<1>6. CASE ThrowImport(p)
  <2>1. app[p].made \in ThrowAways
    BY <1>1, <1>6 DEF ThrowImport, At, Known, ThrowPlaces
  <2>2. /\ dirs' = dirs \cup {app[p].made} /\ (chains' = chains \cup {app[p].made} \/ chains' = chains)
        /\ UNCHANGED <<defs, head, fresh>>
    BY <1>6 DEF ThrowImport
  <2> QED
    BY <1>2, <2>1, <2>2, Names DEF Files, SparedFiles
<1>7. CASE Define(p)
  BY <1>2, <1>7, Names DEF Define, Keeps, Files, SparedFiles, disk
<1>8. CASE DefineImport(p) \/ PerformTask(p) \/ Clean(p) \/ CleanRemove(p) \/ Steps(p)
  BY <1>3, <1>8 DEF DefineImport, PerformTask, Clean, CleanRemove, Steps, Refused, Perform, Keeps, Knows, Look
<1>9. CASE CleanDirs(p)
  <2>1. dirs' = Without(app[p].chain) /\ chains' = chains \ {app[p].chain} /\ UNCHANGED <<defs, head, fresh>>
    BY <1>9 DEF CleanDirs
  <2>2. app[p].made \in ThrowAways
    BY <1>1, <1>9 DEF CleanDirs, At, Known
  <2>3. app[p].made # Blank
    BY <2>2, Names
  <2> QED
    BY <1>2, <2>1, <2>3 DEF Files, SparedFiles, Without
<1>10. CASE CleanExport(p)
  BY <1>2, <1>10, Names DEF CleanExport, Leave, Knows, Keeps, Files, SparedFiles, disk
<1>11. CASE CleanData(p)
  <2>1. (dirs' = dirs \/ dirs' = Without(AppName(p))) /\ UNCHANGED disk /\ UNCHANGED fresh
    BY <1>11 DEF CleanData
  <2> QED
    BY <1>2, <2>1, Names DEF Files, SparedFiles, Without, AppName, disk
<1>12. CASE CleanContainer(p)
  BY <1>3, <1>12 DEF CleanContainer, Leave, Knows, Perform
<1> QED
  BY <1>4, <1>5, <1>6, <1>7, <1>8, <1>9, <1>10, <1>11, <1>12 DEF PackageStep

-----------------------------------------------------------------------------
\* The invariant

LEMMA InitInv == Init => PackInv
<1> SUFFICES ASSUME Init PROVE PackInv
  OBVIOUS
<1>1. "none" \in Results /\ NoApp \in AppState /\ ~NoApp.named /\ NoApp.type # "throwaway"
  BY DEF Results, NoApp, AppState, Blank
<1>2. \A p \in Procs : cli[p] = Idle("none") /\ app[p] = NoApp
  BY DEF Init, ServicesInit
<1>3. \A p \in Procs : Idle("none") \in Proc /\ Fine(p, Idle("none")) /\ Known(Idle("none"), NoApp)
  BY <1>1, IdleFine
<1>4. cli \in [Procs -> Proc] /\ app \in [Procs -> AppState]
  BY <1>1, <1>2, <1>3 DEF Init, ServicesInit
<1>5. containers \in Containers
  BY DEF Init, ServicesInit, Containers
<1>6. defs \in [ServiceNames -> Definition] /\ begun \in 0..MaxCommands
  BY ServicesAssumption DEF Init, ServicesInit, ServicesAssumption
<1>7. /\ chains \subseteq ChainNames /\ head \in ChainNames \cup {Blank} /\ dirs \subseteq Shorts /\ fresh \subseteq ThrowAways
  BY PackagesAssumption, Names DEF Init, PackagesAssumption, Lasting
<1> QED
  BY <1>2, <1>3, <1>4, <1>5, <1>6, <1>7 DEF PackInv, TypeOK, Proc

\* The record of a command that begins.
LEMMA BeginFine ==
  ASSUME NEW p \in Procs, NEW c \in Commands[p], NEW a, Known(Idle("none"), a)
  PROVE  LET r == [Idle("none") EXCEPT !.pc = IF c.kind \in {"start", "stop", "package", "action"} THEN "build" ELSE c.kind,
                                       !.cmd = c, !.todo = c.args]
         IN  r \in Proc /\ Fine(p, r) /\ Known(r, a)
<1> DEFINE l == IF c.kind \in {"start", "stop", "package", "action"} THEN "build" ELSE c.kind
           r == [Idle("none") EXCEPT !.pc = l, !.cmd = c, !.todo = c.args]
<1>1. c \in Command /\ c.kind \in Kinds /\ c.args \in Seq(ServiceNames)
      /\ (c.kind \notin {"package", "action", "checkout"} => c.args # <<>>)
  BY ServicesAssumption DEF ServicesAssumption, Accepted, Command
<1>2. l \in Labels /\ l \in {"build"} \cup Single /\ l \notin PackageLabels
  BY <1>1 DEF Kinds, Labels, Single, PackageLabels
<1>3. Idle("none") \in Proc /\ Idle("none").group = <<>> /\ Idle("none").stack = <<>> /\ Idle("none").idx = 1
      /\ Idle("none").pc = "idle"
  BY DEF Idle, Proc, Process, Labels, Results
<1>4. r \in Proc /\ r.pc = l /\ r.cmd = c /\ r.todo = c.args /\ r.group = <<>> /\ r.stack = <<>> /\ r.idx = 1
  BY <1>1, <1>2, <1>3 DEF Proc, Process
<1>5. /\ l = "build" => c.kind \in GroupKinds
      /\ l # "build" => c.kind = l /\ c.kind \notin GroupKinds
      /\ l \notin RenamePlaces \cup Ready \cup {"execRun", "updateRebuild", "rmRemove", "idle", "steps"}
  BY <1>1 DEF Kinds, GroupKinds, RenamePlaces, Ready
<1> HIDE DEF r, l
<1>6. InOrder(<<>>) /\ FramesOK(<<>>, <<>>) /\ ArgsOK(c.args, c.args, <<>>, <<>>)
  BY DEF InOrder, FramesOK, ArgsOK, Listed
<1>7. Fine(p, r)
  <2>1. r.pc = l /\ r.cmd = c /\ r.cmd \in Commands[p] /\ r.todo = r.cmd.args
    BY <1>4
  <2>2. CASE l = "build"
    BY <1>1, <1>2, <1>4, <1>5, <1>6, <2>1, <2>2 DEF Fine, Single
  <2>3. CASE l # "build"
    <3>1. r.cmd.kind = r.pc /\ r.cmd.kind \notin GroupKinds /\ r.idx = 1
      BY <1>4, <1>5, <2>1, <2>3
    <3>2. r.pc \in {"rm", "rmRemove"} => r.todo # <<>>
      BY <1>1, <2>1, <3>1
    <3>3. r.pc \notin PackageLabels \cup RenamePlaces \cup Ready \cup {"execRun", "updateRebuild", "rmRemove", "idle", "steps", "build"}
      BY <1>2, <1>5, <2>1, <2>3
    <3> QED
      BY <2>1, <3>1, <3>2, <3>3 DEF Fine, Ready
  <2> QED
    BY <2>2, <2>3
<1>8. Known(r, a)
  BY <1>2, <1>3, <1>4 DEF Known, Single, ThrowPlaces, CleanPlaces, PackageLabels
<1> QED
  BY <1>4, <1>7, <1>8 DEF r, l

LEMMA BeginInv == ASSUME PackInv, NEW p \in Procs, BeginCommand(p) PROVE PackInv'
<1>1. cli[p].pc = "idle" /\ Known(cli[p], app[p])
  BY Stay DEF BeginCommand, Begin, At
<1>2. Known(Idle("none"), app[p])
  BY <1>1 DEF Known, Idle, ThrowPlaces, CleanPlaces
<1>3. PICK r \in Proc : cli' = [cli EXCEPT ![p] = r] /\ Fine(p, r) /\ Known(r, app[p])
  BY <1>2, BeginFine DEF BeginCommand, Begin
<1>4. /\ UNCHANGED <<containers, disk, dirs, app, fresh>> /\ begun' = begun + 1 /\ begun < MaxCommands
  BY DEF BeginCommand, Begin, Keeps
<1>5. begun' \in 0..MaxCommands
  BY <1>4, ServicesAssumption DEF PackInv, TypeOK, ServicesAssumption
<1>6. cli' \in [Procs -> Proc]
  BY <1>3 DEF PackInv, TypeOK, Proc
<1>7. TypeOK'
  BY <1>4, <1>5, <1>6 DEF PackInv, TypeOK, Proc, disk
<1>8. \A q \in Procs : Fine(q, cli'[q]) /\ Known(cli'[q], app'[q])
  BY <1>3, <1>4 DEF PackInv, TypeOK
<1> QED
  BY <1>7, <1>8 DEF PackInv

\* What a step of a process does.
LEMMA StepDoes ==
  ASSUME PackInv, NEW p \in Procs, Step(p)
  PROVE  Moved(p) /\ World(p) /\ Files /\ (cli[p].cmd.kind = "package" /\ app[p].named => Spared(p) /\ SparedFiles(p))
<1>1. Moved(p)
  BY StepMoves
<1>2. CASE ServiceStep(p) /\ Keeps
  <2>1. cli[p].pc \in Labels \ {"idle"}
    BY <1>2 DEF ServiceStep, Visit, Return, Built, Connect, RunChain, RunNext, Kill, KillStop, KillRemove, Exec, ExecRun, New, Edit,
       Import, Update, UpdateRebuild, RenameService, RenameContainer, RenameWrite, RenameData, RenameFile, Rm, RmRemove,
       Checkout, LoadOne, Load, Look, At, Labels
  <2>2. ~app[p].named
    BY <2>1, Unnamed DEF Labels, CleanPlaces
  <2> QED
    BY <1>1, <1>2, <2>2, ServiceWorld, ServiceFiles
<1>3. CASE PackageStep(p)
  BY <1>1, <1>3, PackageWorld, PackageFiles
<1> QED
  BY <1>2, <1>3 DEF Step

LEMMA Invariance == PackInv /\ [Next]_vars => PackInv'
<1> SUFFICES ASSUME PackInv, [Next]_vars PROVE PackInv'
  OBVIOUS
<1>1. ASSUME NEW p \in Procs, BeginCommand(p) PROVE PackInv'
  BY <1>1, BeginInv
<1>2. ASSUME NEW p \in Procs, Step(p) PROVE PackInv'
  <2>1. Moved(p) /\ World(p) /\ Files
    BY <1>2, StepDoes
  <2>2. TypeOK'
    BY <2>1 DEF Moved, World, Files, PackInv, TypeOK, Proc
  <2>3. \A q \in Procs : Fine(q, cli'[q]) /\ Known(cli'[q], app'[q])
    BY <2>1 DEF Moved, PackInv
  <2> QED
    BY <2>2, <2>3 DEF PackInv
<1>3. ASSUME NEW n \in Named, Exit(n), Keeps PROVE PackInv'
  <2>1. containers' \in Containers
    BY <1>3 DEF Exit, PackInv, TypeOK, Containers
  <2> QED
    BY <1>3, <2>1 DEF Exit, Keeps, PackInv, TypeOK, disk
<1>4. CASE UNCHANGED vars
  BY <1>4 DEF vars, disk, PackInv, TypeOK
<1> QED
  BY <1>1, <1>2, <1>3, <1>4 DEF Next

LEMMA Always == Spec => []PackInv
BY InitInv, Invariance, PTL DEF Spec

-----------------------------------------------------------------------------
\* Theorems

\* Every variable keeps its type.
THEOREM TypeCorrect == Spec => []TypeOK
<1>1. PackInv => TypeOK
  BY DEF PackInv
<1> QED
  BY <1>1, Always, PTL

\* BuildServicesGroup puts every service behind those it needs, over whatever
\* paths it comes to it, and leaves none out, for definitions of any shape that
\* may change while it reads them.
THEOREM GroupsInOrder == Spec => []GroupInOrder
<1>1. PackInv => GroupInOrder
  <2> SUFFICES ASSUME PackInv, NEW p \in Procs, Kind(p) \in {"start", "stop", "package", "action"}
               PROVE  /\ InOrder(cli[p].group)
                      /\ cli[p].pc \in Ready => Complete(cli[p].cmd.args, cli[p].group)
    BY DEF GroupInOrder, InOrder, Ready, Complete, In
  <2> QED
    BY Stay DEF Fine, Kind, GroupKinds
<1> QED
  BY <1>1, Always, PTL

\* A command leaves alone every container it does not work on, whatever fails,
\* except where an operation is left without a name.
THEOREM OthersLeftAlone == Spec => OthersAlone
<1>1. PackInv /\ [Next]_vars =>
        [\A p \in Procs : cli'[p] # cli[p] /\ ~Nameless(p) =>
           \A n \in Named \ Touches(p) : containers'[n] = containers[n]]_vars
  <2> SUFFICES ASSUME PackInv, Next, NEW p \in Procs, cli'[p] # cli[p], ~Nameless(p)
               PROVE  \A n \in Named \ Touches(p) : containers'[n] = containers[n]
    OBVIOUS
  <2>1. ASSUME NEW q \in Procs, Step(q) PROVE \A n \in Named \ Touches(p) : containers'[n] = containers[n]
    <3>1. Moved(q) /\ World(q)
      BY <2>1, StepDoes
    <3>2. q = p
      BY <3>1 DEF Moved
    <3> QED
      BY <3>1, <3>2 DEF World
  <2>2. ASSUME NEW q \in Procs, BeginCommand(q) PROVE UNCHANGED containers
    BY <2>2 DEF BeginCommand, Begin
  <2>3. ASSUME NEW n \in Named, Exit(n) PROVE FALSE
    BY <2>3 DEF Exit
  <2> QED
    BY <2>1, <2>2, <2>3 DEF Next
<1> QED
  BY <1>1, Always, PTL DEF Spec, OthersAlone

LEMMA PackageSpares ==
  ASSUME PackInv, NEW p \in Procs, Step(p), Kind(p) = "package", NEW n \in Named, Running(n), n # Chain(app[p].made)
  PROVE  containers'[n] = "running"
<1> DEFINE q == cli[p]
           Goal == containers'[n] = "running"
<1>1. /\ q \in Proc /\ Fine(p, q) /\ Known(q, app[p]) /\ containers \in Containers /\ 1 \in Numbers
      /\ App \in Shorts
  BY Stay, Names DEF PackInv, TypeOK
<1>10. Has(p, "data") \in BOOLEAN
  BY DEF Has
<1>2. UNCHANGED containers => Goal
  BY DEF Running
<1>3. (\E o \in LeavesRunning(containers) : containers' = o.left) => Goal
  BY DEF LeavesRunning, Running
<1>4. ASSUME NEW m \in Named, NEW b \in BOOLEAN, NEW links,
             \/ \E o \in RunService(containers, m, b, links) \cup ExecService(containers, m, b, links) : containers' = o.left
             \/ \E o \in Remove(containers, m, b) : containers' = o.left
      PROVE  Goal
  BY <1>1, <1>3, <1>4, RaisingOutcome, RunningOutcome
<1>5. ASSUME NEW x \in Shorts, \E o \in CreateData(containers, x) \cup ImportData(containers, x) : containers' = o.left PROVE Goal
  BY <1>1, <1>3, <1>5, RaisingOutcome, RunningOutcome
<1>6. ASSUME NEW x \in Shorts, NEW links, \E o \in RunService(containers, Chain(x), TRUE, links) : containers' = o.left PROVE Goal
  <2>1. Chain(x) \in Named
    BY <1>1, <1>6, Assembled
  <2> QED
    BY <1>4, <1>6, <2>1
<1>7. ASSUME \E o \in RunService(containers, Service(Keys), Loaded(Keys).def.data, Loaded(Keys).links) : containers' = o.left
      PROVE  Goal
  <2>1. Keys \in ServiceNames
    BY ServicesAssumption DEF ServicesAssumption
  <2>2. Service(Keys) \in Named /\ Loaded(Keys).def.data \in BOOLEAN
    BY <2>1, Names, Assembled, LoadedOK DEF Definition
  <2> QED
    BY <1>4, <1>7, <2>2
<1>8. CASE ServiceStep(p)
  <2>1. q.pc \notin Single /\ q.cmd.kind = "package"
    BY <1>1 DEF Kind, Fine, GroupKinds
  <2>2. CASE RunChain(p)
    <3>1. PICK c \in q.pending : \E o \in RunService(containers, Chain(c), TRUE, {Service(Keys)}) : containers' = o.left
      BY <2>2 DEF RunChain, Perform
    <3> QED
      BY <1>6, <3>1, Here, Names
  <2>3. CASE RunNext(p)
    <3>1. q.pc \in Ready
      BY <2>3 DEF RunNext, At, Ready
    <3>2. \E o \in RunService(containers, Current(p).of, Current(p).def.data, Current(p).links) : containers' = o.left
      BY <2>3 DEF RunNext, Perform
    <3> QED
      BY <1>4, <3>1, <3>2, CurrentTouched
  <2>4. CASE Visit(p) \/ Return(p) \/ Built(p) \/ Connect(p)
    BY <1>2, <2>4 DEF Visit, Return, Built, Connect, Look
  <2>5. ~(Kill(p) \/ KillStop(p) \/ KillRemove(p))
    BY <1>1, <2>1 DEF Fine, Kill, KillStop, KillRemove, Look, At
  <2>6. q.pc \in Single \/ Visit(p) \/ Return(p) \/ Built(p) \/ Connect(p) \/ RunChain(p) \/ RunNext(p)
        \/ Kill(p) \/ KillStop(p) \/ KillRemove(p)
    BY <1>8 DEF ServiceStep, Exec, ExecRun, New, Edit, Import, Update, UpdateRebuild, RenameService, RenameContainer,
       RenameWrite, RenameData, RenameFile, Rm, RmRemove, Checkout, LoadOne, Load, Look, At, Single
  <2> QED
    BY <2>1, <2>2, <2>3, <2>4, <2>5, <2>6
<1>9. CASE PackageStep(p)
  <2>1. CASE Boot(p) \/ Define(p) \/ CleanDirs(p) \/ CleanExport(p) \/ CleanData(p) \/ Steps(p)
    BY <1>2, <2>1 DEF Boot, Define, CleanDirs, CleanExport, CleanData, Steps, Look
  <2>2. CASE BootKeys(p) \/ ThrowKeys(p) \/ ThrowStart(p)
    BY <1>2, <1>7, <2>2 DEF BootKeys, ThrowKeys, ThrowStart, StartKeys, Perform
  <2>3. CASE BootRun(p)
    BY <1>1, <1>6, <2>3, Names DEF BootRun, Perform, At, Known
  <2>4. CASE Throw(p) \/ ThrowImport(p) \/ ThrowRun(p) \/ ThrowRemove(p) \/ ThrowStartRun(p)
    <3>1. app[p].made \in Shorts
      BY <1>1, <2>4, Names DEF Throw, ThrowImport, ThrowRun, ThrowRemove, ThrowStartRun, At, Known, ThrowPlaces
    <3>2. \/ \E o \in CreateData(containers, app[p].made) \cup ImportData(containers, app[p].made) : containers' = o.left
          \/ \E o \in RunService(containers, Chain(app[p].made), TRUE, {Service(Keys)}) : containers' = o.left
          \/ \E o \in Remove(containers, Chain(app[p].made), Has(p, "data")) : containers' = o.left
      BY <2>4 DEF Throw, ThrowImport, ThrowRun, ThrowRemove, ThrowStartRun, Perform
    <3>3. Chain(app[p].made) \in Named
      BY <1>1, <3>1, Assembled
    <3> QED
      BY <1>4, <1>5, <1>6, <1>10, <3>1, <3>2, <3>3
  <2>5. CASE DefineImport(p) \/ PerformTask(p)
    <3>1. \/ \E o \in CreateData(containers, App) \cup ImportData(containers, App) : containers' = o.left
          \/ \E o \in ExecService(containers, Service(App), TRUE, {ChainLink(p), Service(Keys)}) : containers' = o.left
      BY <2>5 DEF DefineImport, PerformTask, Perform
    <3>2. Service(App) \in Named
      BY <1>1, Assembled
    <3> QED
      BY <1>1, <1>4, <1>5, <3>1, <3>2
  <2>6. CASE Clean(p)
    <3>1. app[p].type = "throwaway" /\ app[p].chain \in chains => app[p].chain = app[p].made /\ app[p].made \in Shorts
      BY <1>1, Names DEF Known, PackInv, TypeOK
    <3>2. UNCHANGED containers \/ (/\ app[p].chain = app[p].made /\ app[p].made \in Shorts
                                  /\ \E o \in Stop(containers, Chain(app[p].made)) : containers' = o.left)
      BY <2>6, <3>1 DEF Clean, Perform
    <3>3. app[p].made \in Shorts => Chain(app[p].made) \in Named
      BY <1>1, Assembled
    <3>4. app[p].made \in Shorts => Stop(containers, Chain(app[p].made)) \subseteq Within(containers, {Chain(app[p].made)})
      BY <1>1, <3>3, StopOutcome
    <3> QED
      BY <1>2, <3>2, <3>4 DEF Within, Running
  <2>7. CASE CleanRemove(p)
    <3>1. app[p].chain \in Shorts /\ \E o \in Remove(containers, Chain(app[p].chain), TRUE) : containers' = o.left
      BY <1>1, <2>7, Names DEF CleanRemove, Perform, At, Known
    <3>2. Chain(app[p].chain) \in Named
      BY <1>1, <3>1, Assembled
    <3> QED
      BY <1>4, <3>1, <3>2
  <2>8. CASE CleanContainer(p)
    <3>1. \/ UNCHANGED containers
          \/ \E o \in Remove(containers, Data(App), FALSE) : containers' = o.left
          \/ \E o \in RemoveNameless(containers, FALSE) : containers' = o.left
      BY <2>8 DEF CleanContainer, Perform
    <3>2. Data(App) \in Named
      BY <1>1, Assembled
    <3> QED
      BY <1>1, <1>2, <1>3, <3>1, <3>2, RunningOutcome
  <2> QED
    BY <1>9, <2>1, <2>2, <2>3, <2>4, <2>5, <2>6, <2>7, <2>8 DEF PackageStep
<1> QED
  BY <1>8, <1>9 DEF Step

\* Whatever has failed, and even without a name to go by, a package leaves running
\* what runs, except the chain it has made itself: CleanUp removes without force
\* (perform/docker_run.go:860), and stops that chain only.
THEOREM PackagesSpareRunning == Spec => RunningSpared
<1>1. PackInv /\ [Next]_vars =>
        [\A p \in Procs : Kind(p) = "package" /\ cli'[p] # cli[p] =>
           \A n \in Named : Running(n) /\ n # Chain(app[p].made) => containers'[n] = "running"]_vars
  <2> SUFFICES ASSUME PackInv, Next, NEW p \in Procs, Kind(p) = "package", cli'[p] # cli[p],
                      NEW n \in Named, Running(n), n # Chain(app[p].made)
               PROVE  containers'[n] = "running"
    OBVIOUS
  <2>1. ASSUME NEW q \in Procs, Step(q) PROVE containers'[n] = "running"
    <3>1. q = p
      BY <2>1, StepDoes DEF Moved
    <3> QED
      BY <2>1, <3>1, PackageSpares
  <2>2. ASSUME NEW q \in Procs, BeginCommand(q) PROVE UNCHANGED containers
    BY <2>2 DEF BeginCommand, Begin
  <2>3. ASSUME NEW m \in Named, Exit(m) PROVE FALSE
    BY <2>3 DEF Exit
  <2> QED
    BY <2>1, <2>2, <2>3 DEF Next, Running
<1> QED
  BY <1>1, Always, PTL DEF Spec, RunningSpared

\* Once its service and its chain have names, the clean-up of a package takes
\* away nothing that the package has not made.
THEOREM CleanUpSpares == Spec => CleanUpSparesOthers
<1> DEFINE Sparing(p) ==
             LET own == {App, app[p].made} IN
             Kind(p) = "package" /\ cli'[p] # cli[p] /\ app[p].named /\ app[p].made \in {Blank, app[p].chain} =>
               /\ dirs \ dirs' \subseteq own /\ chains \ chains' \subseteq own
               /\ \A n \in Named : containers'[n] # containers[n] /\ n.short \notin own => containers'[n] = "running"
<1>1. PackInv /\ [Next]_vars => [\A p \in Procs : Sparing(p)]_vars
  <2> SUFFICES ASSUME PackInv, Next, NEW p \in Procs, Kind(p) = "package", cli'[p] # cli[p], app[p].named,
                      app[p].made \in {Blank, app[p].chain}
               PROVE  /\ dirs \ dirs' \subseteq {App, app[p].made} /\ chains \ chains' \subseteq {App, app[p].made}
                      /\ \A n \in Named : n.short \notin {App, app[p].made} => containers'[n] = containers[n]
    OBVIOUS
  <2>1. ASSUME NEW q \in Procs, Step(q) PROVE Spared(p) /\ SparedFiles(p)
    <3>1. Moved(q)
      BY <2>1, StepDoes
    <3>2. q = p
      BY <3>1 DEF Moved
    <3> QED
      BY <2>1, <3>2, StepDoes DEF Kind
  <2>2. ASSUME NEW q \in Procs, BeginCommand(q) PROVE UNCHANGED <<containers, chains, dirs>>
    BY <2>2 DEF BeginCommand, Begin, Keeps, disk
  <2>3. ASSUME NEW n \in Named, Exit(n) PROVE FALSE
    BY <2>3 DEF Exit
  <2> QED
    BY <2>1, <2>2, <2>3 DEF Next, Spared, SparedFiles, Only
<1> QED
  BY <1>1, Always, PTL DEF Spec, CleanUpSparesOthers
=============================================================================
