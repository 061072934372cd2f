-------------------------- MODULE Operations_proofs --------------------------
(***************************************************************************)
(* What the operations leave, for any containers: which containers they may*)
(* change, which they may add, and what their success says.                *)
(***************************************************************************)
EXTENDS Operations, TLAPS

Outcome == [left : Containers, ok : BOOLEAN]

\* Outcomes that differ from c in the containers of S at most, and that add none
\* but those of S.
Within(c, S) == {o \in Outcome : \A m \in Named \ S : o.left[m] = c[m]}
Adding(c, S) == {o \in Outcome : \A m \in Named \ S : o.left[m] # "none" => c[m] # "none"}

LEMMA FailsAre ==
  ASSUME NEW cs
  PROVE  /\ \A o \in Fails(cs) : ~o.ok
         /\ \A c, A : (\A e \in cs : e \in Containers /\ \A m \in Named \ A : e[m] = c[m]) =>
              Fails(cs) \subseteq Within(c, A)
         /\ \A c, A : (\A e \in cs : e \in Containers /\ \A m \in Named \ A : e[m] # "none" => c[m] # "none") =>
              Fails(cs) \subseteq Adding(c, A)
<1>1. \A o \in Fails(cs) : \E e \in cs : o = [left |-> e, ok |-> FALSE]
  BY DEF Fails
<1>2. ASSUME NEW c, NEW A, \A e \in cs : e \in Containers /\ \A m \in Named \ A : e[m] = c[m], NEW o \in Fails(cs)
      PROVE  o \in Within(c, A)
  <2>1. PICK e \in cs : o = [left |-> e, ok |-> FALSE]
    BY <1>1, <1>2
  <2>2. e \in Containers /\ o.left = e /\ o \in Outcome
    BY <1>2, <2>1 DEF Outcome
  <2> QED
    BY <1>2, <2>2 DEF Within
<1>3. ASSUME NEW c, NEW A, \A e \in cs : e \in Containers /\ \A m \in Named \ A : e[m] # "none" => c[m] # "none",
             NEW o \in Fails(cs)
      PROVE  o \in Adding(c, A)
  <2>1. PICK e \in cs : o = [left |-> e, ok |-> FALSE]
    BY <1>1, <1>3
  <2>2. e \in Containers /\ o.left = e /\ o \in Outcome
    BY <1>3, <2>1 DEF Outcome
  <2> QED
    BY <1>3, <2>2 DEF Adding
<1> QED
  BY <1>1, <1>2, <1>3

LEMMA NamedTypes ==
  ASSUME NEW n \in Named
  PROVE  /\ ToDataContainer(n) \in Named /\ ToDataContainer(n).short = n.short
         /\ ToDataContainer(n).type = "data" /\ n.short \in Shorts
BY DEF Named, ToDataContainer, ErisTypes, TypeData, ContainerName

LEMMA Assembled ==
  ASSUME NEW x \in Shorts, 1 \in Numbers
  PROVE  /\ Chain(x) \in Named /\ Chain(x).short = x /\ Chain(x).type = "chain"
         /\ Data(x) \in Named /\ Data(x).short = x /\ Data(x).type = "data"
         /\ Service(x) \in Named /\ Service(x).short = x /\ Service(x).type = "service"
         /\ ToDataContainer(Chain(x)) = Data(x) /\ ToDataContainer(Service(x)) = Data(x)
BY DEF Chain, Data, Service, ContainerAssemble, Named, ContainerName, ErisTypes, TypeChain, TypeData, TypeService,
       ToDataContainer

LEMMA WithTypes ==
  ASSUME NEW c \in Containers, NEW n \in Named, NEW managed \in BOOLEAN
  PROVE  /\ WithContainer(c, n) \in Containers /\ WithData(c, n, managed) \in Containers
         /\ \A m \in Named : m # n => WithContainer(c, n)[m] = c[m]
         /\ \A m \in Named : m # ToDataContainer(n) => WithData(c, n, managed)[m] = c[m]
         /\ WithContainer(c, n)[n] # "none"
BY NamedTypes DEF WithContainer, WithData, Containers

LEMMA CreateDataOutcome ==
  ASSUME NEW c \in Containers, NEW x \in Shorts, 1 \in Numbers
  PROVE  CreateData(c, x) \subseteq Within(c, {Data(x)}) /\ ImportData(c, x) \subseteq Within(c, {Data(x)})
<1>1. Data(x) \in Named
  BY Assembled
<1>2. WithContainer(c, Data(x)) \in Containers /\ \A m \in Named : m # Data(x) => WithContainer(c, Data(x))[m] = c[m]
  BY <1>1, WithTypes
<1>3. \A b \in BOOLEAN, e \in {c, WithContainer(c, Data(x))} : [left |-> e, ok |-> b] \in Within(c, {Data(x)})
  BY <1>1, <1>2 DEF Within, Outcome
<1> QED
  BY <1>3 DEF CreateData, ImportData, If, Succeeds, Fails

LEMMA RunServiceOutcome ==
  ASSUME NEW c \in Containers, NEW n \in Named, NEW managed \in BOOLEAN, NEW links
  PROVE  /\ RunService(c, n, managed, links) \subseteq Within(c, {n, ToDataContainer(n)})
         /\ \A o \in RunService(c, n, managed, links) : o.ok => o.left[n] = "running"
<1> DEFINE d == WithData(c, n, managed)
           made == IF c[n] # "none" \/ LinksExist(c, links) THEN WithContainer(d, n) ELSE d
           up == [made EXCEPT ![n] = "running"]
<1>1. d \in Containers /\ \A m \in Named : m # ToDataContainer(n) => d[m] = c[m]
  BY WithTypes
<1>2. WithContainer(d, n) \in Containers /\ \A m \in Named : m # n => WithContainer(d, n)[m] = d[m]
  BY <1>1, WithTypes
<1>3. made \in Containers /\ \A m \in Named \ {n, ToDataContainer(n)} : made[m] = c[m]
  BY <1>1, <1>2
<1>4. up \in Containers /\ up[n] = "running" /\ \A m \in Named \ {n, ToDataContainer(n)} : up[m] = c[m]
  BY <1>3 DEF Containers
<1>5. \A o \in RunService(c, n, managed, links) :
        \/ o = Succeeds(c) /\ c[n] = "running"
        \/ o = Succeeds(up)
        \/ o \in Fails({c, d, made})
  BY DEF RunService, If
<1> HIDE DEF d, made, up
<1>6. /\ Succeeds(c) \in Within(c, {n, ToDataContainer(n)})
      /\ Succeeds(up) \in Within(c, {n, ToDataContainer(n)}) /\ Succeeds(up).left[n] = "running"
      /\ Succeeds(c).left[n] = c[n]
  BY <1>4 DEF Succeeds, Within, Outcome
<1>7. Fails({c, d, made}) \subseteq Within(c, {n, ToDataContainer(n)})
      /\ \A o \in Fails({c, d, made}) : ~o.ok
  BY <1>1, <1>3, FailsAre
<1> QED
  BY <1>5, <1>6, <1>7

\* Outcomes that only make containers and start them.
Raising(c) == {o \in Outcome : \A m \in Named : o.left[m] # c[m] => c[m] = "none" \/ o.left[m] = "running"}

LEMMA RaisingOutcome ==
  ASSUME NEW c \in Containers, 1 \in Numbers
  PROVE  /\ \A links : \A n \in Named, managed \in BOOLEAN :
              RunService(c, n, managed, links) \cup ExecService(c, n, managed, links) \subseteq Raising(c)
         /\ \A x \in Shorts : CreateData(c, x) \cup ImportData(c, x) \subseteq Raising(c)
<1>1. ASSUME NEW e \in Containers, NEW b \in BOOLEAN, \A m \in Named : e[m] # c[m] => c[m] = "none" \/ e[m] = "running"
      PROVE  [left |-> e, ok |-> b] \in Raising(c)
  BY <1>1 DEF Raising, Outcome
<1>2. \A n \in Named : /\ WithContainer(c, n) \in Containers
                         /\ \A m \in Named : WithContainer(c, n)[m] # c[m] => c[m] = "none"
  BY DEF WithContainer, Containers
<1>3. \A n \in Named, managed \in BOOLEAN : /\ WithData(c, n, managed) \in Containers
                                               /\ \A m \in Named : WithData(c, n, managed)[m] # c[m] => c[m] = "none"
  BY <1>2, NamedTypes DEF WithData
<1>4. ASSUME NEW n \in Named, NEW managed \in BOOLEAN, NEW links
      PROVE  RunService(c, n, managed, links) \cup ExecService(c, n, managed, links) \subseteq Raising(c)
  <2> DEFINE d == WithData(c, n, managed)
             made == IF c[n] # "none" \/ LinksExist(c, links) THEN WithContainer(d, n) ELSE d
             up == [made EXCEPT ![n] = "running"]
  <2>1. d \in Containers /\ \A m \in Named : d[m] # c[m] => c[m] = "none"
    BY <1>3
  <2>2. made \in Containers /\ \A m \in Named : made[m] # c[m] => c[m] = "none"
    BY <2>1 DEF WithContainer, Containers
  <2>3. up \in Containers /\ \A m \in Named : up[m] # c[m] => c[m] = "none" \/ up[m] = "running"
    BY <2>2 DEF Containers
  <2>4. \A o \in RunService(c, n, managed, links) \cup ExecService(c, n, managed, links) :
          \E b \in BOOLEAN : o \in {[left |-> c, ok |-> b], [left |-> d, ok |-> b], [left |-> made, ok |-> b], [left |-> up, ok |-> b]}
    BY DEF RunService, ExecService, If, Succeeds, Fails
  <2> HIDE DEF d, made, up
  <2>5. \A b \in BOOLEAN : {[left |-> c, ok |-> b], [left |-> d, ok |-> b], [left |-> made, ok |-> b], [left |-> up, ok |-> b]}
                              \subseteq Raising(c)
    BY <1>1, <2>1, <2>2, <2>3
  <2> QED
    BY <2>4, <2>5
<1>5. ASSUME NEW x \in Shorts PROVE CreateData(c, x) \cup ImportData(c, x) \subseteq Raising(c)
  <2>1. Data(x) \in Named
    BY Assembled
  <2>2. \A b \in BOOLEAN, e \in {c, WithContainer(c, Data(x))} : [left |-> e, ok |-> b] \in Raising(c)
    BY <1>1, <1>2, <2>1
  <2> QED
    BY <2>2 DEF CreateData, ImportData, If, Succeeds, Fails
<1> QED
  BY <1>4, <1>5

LEMMA ExecServiceOutcome ==
  ASSUME NEW c \in Containers, NEW n \in Named, NEW managed \in BOOLEAN, NEW links
  PROVE  ExecService(c, n, managed, links) \subseteq Within(c, {ToDataContainer(n)})
<1>1. WithData(c, n, managed) \in Containers
      /\ \A m \in Named : m # ToDataContainer(n) => WithData(c, n, managed)[m] = c[m]
  BY WithTypes
<1>2. \A b \in BOOLEAN, e \in {c, WithData(c, n, managed)} : [left |-> e, ok |-> b] \in Within(c, {ToDataContainer(n)})
  BY <1>1 DEF Within, Outcome
<1> QED
  BY <1>2 DEF ExecService, If, Succeeds, Fails

LEMMA StopOutcome ==
  ASSUME NEW c \in Containers, NEW n \in Named
  PROVE  /\ Stop(c, n) \subseteq Within(c, {n}) \cap Adding(c, {})
         /\ \A o \in Stop(c, n) : o.ok => o.left[n] # "running"
<1> DEFINE off == [c EXCEPT ![n] = "stopped"]
<1>1. off \in Containers /\ \A m \in Named : off[m] = IF m = n THEN "stopped" ELSE c[m]
  BY DEF Containers
<1>2. \A o \in Stop(c, n) : \/ o = Succeeds(c) /\ c[n] = "none"
                            \/ o = Succeeds(off) /\ c[n] # "none"
                            \/ o \in Fails({c})
  BY DEF Stop, If
<1> HIDE DEF off
<1>3. /\ Succeeds(c) \in Within(c, {n}) \cap Adding(c, {}) /\ Succeeds(c).left = c
      /\ c[n] # "none" => Succeeds(off) \in Within(c, {n}) \cap Adding(c, {}) /\ Succeeds(off).left[n] = "stopped"
  BY <1>1 DEF Succeeds, Within, Adding, Outcome
<1>4. Fails({c}) \subseteq Within(c, {n}) \cap Adding(c, {}) /\ \A o \in Fails({c}) : ~o.ok
  BY FailsAre
<1> QED
  BY <1>2, <1>3, <1>4

LEMMA RemoveBothOutcome ==
  ASSUME NEW c \in Containers, NEW n \in Named, NEW d \in Named, NEW withData \in BOOLEAN
  PROVE  /\ RemoveBoth(c, n, d, withData) \subseteq Within(c, {n, d}) \cap Adding(c, {})
         /\ \A o \in RemoveBoth(c, n, d, withData) : o.ok => o.left[n] = "none"
         /\ \A o \in RemoveBoth(c, n, d, withData) : o.ok /\ withData => o.left[d] = "none"
<1> DEFINE first == [c EXCEPT ![n] = "none"]
           both == IF withData THEN [first EXCEPT ![d] = "none"] ELSE first
<1>1. first \in Containers /\ \A m \in Named : first[m] = IF m = n THEN "none" ELSE c[m]
  BY DEF Containers
<1>2. both \in Containers /\ \A m \in Named : both[m] = IF m = n \/ (withData /\ m = d) THEN "none" ELSE c[m]
  BY <1>1 DEF Containers
<1>3. \A o \in RemoveBoth(c, n, d, withData) : o = Succeeds(both) \/ o \in Fails({c, first})
  BY DEF RemoveBoth, If, Fails
<1> HIDE DEF first, both
<1>4. Succeeds(both) \in Within(c, {n, d}) \cap Adding(c, {}) /\ Succeeds(both).left = both
  BY <1>2 DEF Succeeds, Within, Adding, Outcome
<1>5. Fails({c, first}) \subseteq Within(c, {n, d}) \cap Adding(c, {}) /\ \A o \in Fails({c, first}) : ~o.ok
  <2>1. \A e \in {c, first}, m \in Named : (m \notin {n, d} => e[m] = c[m]) /\ (e[m] # "none" => c[m] # "none")
    BY <1>1
  <2> QED
    BY <1>1, <2>1, FailsAre
<1> QED
  BY <1>2, <1>3, <1>4, <1>5

LEMMA RemoveOutcome ==
  ASSUME NEW c \in Containers, NEW n \in Named, NEW withData \in BOOLEAN
  PROVE  /\ Remove(c, n, withData) \subseteq Within(c, {n, ToDataContainer(n)}) \cap Adding(c, {})
         /\ ~withData => Remove(c, n, withData) \subseteq Within(c, {n, n})
         /\ \A o \in Remove(c, n, withData) : o.ok => o.left[n] = "none"
<1>1. RemoveBoth(c, n, ToDataContainer(n), withData) \subseteq Within(c, {n, ToDataContainer(n)}) \cap Adding(c, {})
      /\ \A o \in RemoveBoth(c, n, ToDataContainer(n), withData) : o.ok => o.left[n] = "none"
  BY NamedTypes, RemoveBothOutcome
<1>2. [left |-> c, ok |-> TRUE] \in Within(c, {n, ToDataContainer(n)}) \cap Adding(c, {}) \cap Within(c, {n, n})
  BY DEF Within, Adding, Outcome
<1>3. ~withData => RemoveBoth(c, n, ToDataContainer(n), withData) = RemoveBoth(c, n, n, withData)
  BY DEF RemoveBoth
<1>4. RemoveBoth(c, n, n, withData) \subseteq Within(c, {n, n})
  BY RemoveBothOutcome
<1> DEFINE outs == RemoveBoth(c, n, ToDataContainer(n), withData)
<1>5. /\ Remove(c, n, withData) = IF c[n] # "none" THEN outs ELSE {Succeeds(c)}
      /\ Succeeds(c) = [left |-> c, ok |-> TRUE] /\ Succeeds(c).left = c
  BY DEF Remove, Succeeds
<1> HIDE DEF outs
<1>6. /\ outs \subseteq Within(c, {n, ToDataContainer(n)}) \cap Adding(c, {})
      /\ \A o \in outs : o.ok => o.left[n] = "none"
      /\ ~withData => outs \subseteq Within(c, {n, n})
  BY <1>1, <1>3, <1>4 DEF outs
<1> QED
  BY <1>2, <1>5, <1>6

\* Operations that have lost a name remove something, and add nothing.
LEMMA NamelessOutcome ==
  ASSUME NEW c \in Containers, NEW withData \in BOOLEAN
  PROVE  /\ RemoveNameless(c, withData) \subseteq Adding(c, {})
         /\ \A n \in Named : RemoveWithAnyData(c, n) \subseteq Adding(c, {})
<1>1. Anything(c) \subseteq Named
  BY DEF Anything
<1>2. [left |-> c, ok |-> TRUE] \in Adding(c, {})
  BY DEF Adding, Outcome
<1>3. \A n, d \in Named, b \in BOOLEAN : RemoveBoth(c, n, d, b) \subseteq Adding(c, {})
  BY RemoveBothOutcome
<1>4. RemoveNameless(c, withData) \subseteq Adding(c, {})
  <2> SUFFICES ASSUME NEW o \in RemoveNameless(c, withData) PROVE o \in Adding(c, {})
    OBVIOUS
  <2>1. \/ o = [left |-> c, ok |-> TRUE]
        \/ \E f \in Anything(c) \X Anything(c) : o \in RemoveBoth(c, f[1], f[2], withData)
    BY DEF RemoveNameless, Succeeds
  <2> QED
    BY <1>1, <1>2, <1>3, <2>1
<1>5. \A n \in Named : RemoveWithAnyData(c, n) \subseteq Adding(c, {})
  BY <1>1, <1>2, <1>3 DEF RemoveWithAnyData, Succeeds
<1> QED
  BY <1>4, <1>5

\* Outcomes that leave everything running that runs.
LeavesRunning(c) == {o \in Outcome : \A m \in Named : c[m] = "running" => o.left[m] = "running"}

LEMMA RunningOutcome ==
  ASSUME NEW c \in Containers, NEW withData \in BOOLEAN
  PROVE  /\ Raising(c) \subseteq LeavesRunning(c)
         /\ \A n \in Named : Remove(c, n, withData) \subseteq LeavesRunning(c)
         /\ RemoveNameless(c, withData) \subseteq LeavesRunning(c)
<1>1. Raising(c) \subseteq LeavesRunning(c)
  BY DEF Raising, LeavesRunning
<1>2. ASSUME NEW n \in Named, NEW d \in Named, NEW o \in RemoveBoth(c, n, d, withData) PROVE o \in LeavesRunning(c)
  <2> DEFINE first == [c EXCEPT ![n] = "none"]
             both == IF withData THEN [first EXCEPT ![d] = "none"] ELSE first
  <2>1. first \in Containers /\ both \in Containers
    BY DEF Containers
  <2>2. /\ c[n] # "running" => \A m \in Named : c[m] = "running" => first[m] = "running"
        /\ c[n] # "running" /\ (~withData \/ first[d] # "running") => \A m \in Named : c[m] = "running" => both[m] = "running"
    <3>1. \A m \in Named : first[m] = IF m = n THEN "none" ELSE c[m]
      BY DEF Containers
    <3>2. \A m \in Named : both[m] = IF withData /\ m = d THEN "none" ELSE first[m]
      BY DEF Containers
    <3> HIDE DEF first, both
    <3> QED
      BY <3>1, <3>2
  <2>3. \/ o = [left |-> c, ok |-> FALSE]
        \/ c[n] # "running" /\ o = [left |-> first, ok |-> FALSE]
        \/ c[n] # "running" /\ (~withData \/ first[d] # "running") /\ o = [left |-> both, ok |-> TRUE]
    BY DEF RemoveBoth, If, Fails, Succeeds
  <2> HIDE DEF first, both
  <2>4. \A e \in Containers, b \in BOOLEAN : (\A m \in Named : c[m] = "running" => e[m] = "running") =>
          [left |-> e, ok |-> b] \in LeavesRunning(c)
    BY DEF LeavesRunning, Outcome
  <2> QED
    BY <2>1, <2>2, <2>3, <2>4
<1>3. [left |-> c, ok |-> TRUE] \in LeavesRunning(c)
  BY DEF LeavesRunning, Outcome
<1>4. \A n \in Named : Remove(c, n, withData) \subseteq LeavesRunning(c)
  BY <1>2, <1>3, NamedTypes DEF Remove, Succeeds
<1>5. RemoveNameless(c, withData) \subseteq LeavesRunning(c)
  <2> SUFFICES ASSUME NEW o \in RemoveNameless(c, withData) PROVE o \in LeavesRunning(c)
    OBVIOUS
  <2>1. \/ o = [left |-> c, ok |-> TRUE]
        \/ \E f \in Anything(c) \X Anything(c) : o \in RemoveBoth(c, f[1], f[2], withData)
    BY DEF RemoveNameless, Succeeds
  <2>2. Anything(c) \subseteq Named
    BY DEF Anything
  <2> QED
    BY <1>2, <1>3, <2>1, <2>2
<1> QED
  BY <1>1, <1>4, <1>5

LEMMA RebuildOutcome ==
  ASSUME NEW c \in Containers, NEW n \in Named, NEW links
  PROVE  Rebuild(c, n, links) \subseteq Within(c, {n}) \cap Adding(c, {})
<1> DEFINE off == [c EXCEPT ![n] = "stopped"]
           gone == [c EXCEPT ![n] = "none"]
<1>1. /\ off \in Containers /\ \A m \in Named : off[m] = IF m = n THEN "stopped" ELSE c[m]
      /\ gone \in Containers /\ \A m \in Named : gone[m] = IF m = n THEN "none" ELSE c[m]
  BY DEF Containers
<1>2. \A o \in Rebuild(c, n, links) : o = Succeeds(c) \/ (o \in Fails({c, off, gone}) /\ c[n] # "none")
  BY DEF Rebuild, If
<1> HIDE DEF off, gone
<1>3. Succeeds(c) \in Within(c, {n}) \cap Adding(c, {})
  BY DEF Succeeds, Within, Adding, Outcome
<1>4. c[n] # "none" => Fails({c, off, gone}) \subseteq Within(c, {n}) \cap Adding(c, {})
  <2>1. \A e \in {c, off, gone}, m \in Named :
          (m # n => e[m] = c[m]) /\ (c[n] # "none" /\ e[m] # "none" => c[m] # "none")
    BY <1>1
  <2> QED
    BY <1>1, <2>1, FailsAre
<1> QED
  BY <1>2, <1>3, <1>4

LEMMA RenameOutcome ==
  ASSUME NEW c \in Containers, NEW n \in Named, NEW to \in Named, NEW links, n # to
  PROVE  /\ Rename(c, n, to, links) \subseteq Within(c, {n, to}) \cap Adding(c, {to})
         /\ \A o \in Rename(c, n, to, links) : o.ok => o.left[n] = "none" /\ o.left[to] # "none"
         /\ \A o \in Rename(c, n, to, links) : ~o.ok => o \in Adding(c, {})
<1> DEFINE gone  == [c EXCEPT ![n] = "none"]
           moved == [gone EXCEPT ![to] = c[n]]
           asleep == [moved EXCEPT ![to] = "stopped"]
           still == [c EXCEPT ![n] = "stopped"]
<1>1. gone \in Containers /\ \A m \in Named : gone[m] = IF m = n THEN "none" ELSE c[m]
  BY DEF Containers
<1>2. moved \in Containers /\ \A m \in Named : moved[m] = IF m = to THEN c[n] ELSE gone[m]
  BY <1>1 DEF Containers
<1>3. asleep \in Containers /\ \A m \in Named : asleep[m] = IF m = to THEN "stopped" ELSE gone[m]
  BY <1>2 DEF Containers
<1>4. still \in Containers /\ \A m \in Named : still[m] = IF m = n THEN "stopped" ELSE c[m]
  BY DEF Containers
<1>5. \A o \in Rename(c, n, to, links) :
        \/ \E e \in {moved, asleep} : o = Succeeds(e) /\ c[n] # "none"
        \/ o \in Fails({c})
        \/ o \in Fails({c, gone, still}) /\ c[n] # "none"
  BY DEF Rename, If, Fails
<1> HIDE DEF gone, moved, asleep, still
<1>6. \A e \in {moved, asleep} : c[n] # "none" =>
        /\ Succeeds(e) \in Within(c, {n, to}) \cap Adding(c, {to})
        /\ Succeeds(e).ok /\ Succeeds(e).left[n] = "none" /\ Succeeds(e).left[to] # "none"
  BY <1>1, <1>2, <1>3 DEF Succeeds, Within, Adding, Outcome
<1>7. \A e \in {c, gone, still}, m \in Named :
        (m # n => e[m] = c[m]) /\ (c[n] # "none" /\ e[m] # "none" => c[m] # "none")
  BY <1>1, <1>4
<1>8. c[n] # "none" => Fails({c, gone, still}) \subseteq Within(c, {n, to}) \cap Adding(c, {}) \cap Adding(c, {to})
  BY <1>1, <1>4, <1>7, FailsAre
<1>9. Fails({c}) \subseteq Within(c, {n, to}) \cap Adding(c, {}) \cap Adding(c, {to})
  BY FailsAre
<1>10. \A cs : \A o \in Fails(cs) : ~o.ok
  BY FailsAre
<1> QED
  BY <1>5, <1>6, <1>8, <1>9, <1>10
=============================================================================
