----------------------------- MODULE Operations -----------------------------
(***************************************************************************)
(* The operations of package perform as the commands of eris use them: each*)
(* is the set of its outcomes, the containers it leaves and whether it     *)
(* succeeds.  Perform.tla takes them apart, call by call; here each is one *)
(* step, and the daemon may refuse any call that changes something, so the *)
(* set has the state every error path leaves.  The throw-away containers   *)
(* of exec and import are gone in the end and not among the containers.    *)
(* Every container has number 1.                                           *)
(*                                                                         *)
(* c is the state of the containers, n the container worked on, links what *)
(* the definition just loaded links n to, managed whether it manages data. *)
(***************************************************************************)
EXTENDS ContainerNames

Chain(x)   == ContainerAssemble(TypeChain, x, 1)
Data(x)    == ContainerAssemble(TypeData, x, 1)
Service(x) == ContainerAssemble(TypeService, x, 1)

Named == {n \in ContainerName : n.type \in ErisTypes}

Containers == [Named -> {"none", "stopped", "running"}]

Succeeds(c) == [left |-> c, ok |-> TRUE]
Fails(cs)   == {[left |-> c, ok |-> FALSE] : c \in cs}
If(b, s)    == IF b THEN s ELSE {}

\* The container n, if it is not there, is created.
WithContainer(c, n) == IF c[n] = "none" THEN [c EXCEPT ![n] = "stopped"] ELSE c

\* So is the data container of n, if the definition manages data.
WithData(c, n, managed) == IF managed THEN WithContainer(c, ToDataContainer(n)) ELSE c

\* A link asks for a container that exists, when the container is created, and
\* for one that runs, when it is started.
LinksExist(c, links) == \A m \in links : c[m] # "none"
LinksRun(c, links)   == \A m \in links : c[m] = "running"

CreateData(c, x) ==
  If(c[Data(x)] = "none", {Succeeds(WithContainer(c, Data(x)))}) \cup Fails({c})

ImportData(c, x) ==
  LET made == WithContainer(c, Data(x)) IN {Succeeds(made)} \cup Fails({c, made})

\* DockerRunService
RunService(c, n, managed, links) ==
  LET data == WithData(c, n, managed)
      made == IF c[n] # "none" \/ LinksExist(c, links) THEN WithContainer(data, n) ELSE data
  IN
  IF c[n] = "running" THEN {Succeeds(c)}
  ELSE If(LinksRun(c, links), {Succeeds([made EXCEPT ![n] = "running"])})
         \cup Fails({c, data, made})

\* DockerExecService
ExecService(c, n, managed, links) ==
  LET data == WithData(c, n, managed) IN
  If(LinksRun(c, links), {Succeeds(data)}) \cup Fails({c, data})

\* DockerStop
Stop(c, n) ==
  IF c[n] = "none" THEN {Succeeds(c)}
  ELSE If(c[n] = "running", {Succeeds([c EXCEPT ![n] = "stopped"])}) \cup Fails({c})

\* Faulty variant: the daemon is told to remove what runs.
RemoveBothForced(c, n, d, withData) ==
  LET first == [c EXCEPT ![n] = "none"]
      both  == IF withData THEN [first EXCEPT ![d] = "none"] ELSE first
  IN
  {Succeeds(both)} \cup Fails({c, first})

\* Removes the container n, which must not run, and then d, if withData.
RemoveBoth(c, n, d, withData) ==
  LET first == [c EXCEPT ![n] = "none"]
      both  == IF withData THEN [first EXCEPT ![d] = "none"] ELSE first
  IN
  IF c[n] = "running" THEN Fails({c})
  ELSE If(~withData \/ first[d] # "running", {Succeeds(both)}) \cup Fails({c, first})

\* DockerRemove
Remove(c, n, withData) ==
  IF c[n] # "none" THEN RemoveBoth(c, n, ToDataContainer(n), withData) ELSE {Succeeds(c)}

\* The containers the empty name may be taken for: any, as it is found first in
\* whatever name is listed first.
Anything(c) == {n \in Named : c[n] # "none"}

\* DockerRemove of an operation without any name.
RemoveNameless(c, withData) ==
  IF Anything(c) = {} THEN {Succeeds(c)}
  ELSE UNION {RemoveBoth(c, found[1], found[2], withData) :
                found \in {f \in Anything(c) \X Anything(c) : f[1] # f[2] \/ Anything(c) = {f[1]}}}

\* DockerRemove with the data of an operation that has no name for it.
RemoveWithAnyData(c, n) ==
  LET others == Anything(c) \ {n} IN
  IF c[n] = "none" THEN {Succeeds(c)}
  ELSE IF others = {} THEN RemoveBoth(c, n, n, FALSE)
  ELSE UNION {RemoveBoth(c, n, d, TRUE) : d \in others}

\* DockerRebuild: in the end the container is as it was.
Rebuild(c, n, links) ==
  IF c[n] = "none" THEN {Succeeds(c)}
  ELSE If(LinksExist(c, links) /\ (c[n] = "running" => LinksRun(c, links)), {Succeeds(c)})
         \cup Fails({c, [c EXCEPT ![n] = "stopped"], [c EXCEPT ![n] = "none"]})

\* DockerRename: a failed restart under the new name goes unnoticed.
Rename(c, n, to, links) ==
  LET gone  == [c EXCEPT ![n] = "none"]
      moved == [gone EXCEPT ![to] = c[n]]
  IN
  IF c[n] = "none" \/ c[to] # "none" THEN Fails({c})
  ELSE If(LinksExist(c, links), {Succeeds([moved EXCEPT ![to] = "stopped"])}
                                  \cup If(LinksRun(c, links), {Succeeds(moved)}))
         \cup Fails({c, [c EXCEPT ![n] = "stopped"], gone})
=============================================================================
