----------------------------- MODULE Lifecycle -----------------------------
(***************************************************************************)
(* What the operations of package perform do to the containers of services,*)
(* chains and data when nothing comes in between: each command is one      *)
(* atomic change of the world, or no change when it is refused.  The       *)
(* comments of docker_run.go describe the operations at this level.        *)
(***************************************************************************)
EXTENDS ContainerNames

CONSTANT Volumes     \* identities of volumes

VARIABLE world       \* the container of each plain name

PlainName == {n \in ContainerName : n.type \in ErisTypes}

States == {"none", "stopped", "running"}

\* from: the data container the volume was taken from, or NoName.
World == [PlainName -> [state : States, vol : Volumes \cup {0}, from : ContainerName \cup {NoName}]]

Absent == [state |-> "none", vol |-> 0, from |-> NoName]

Present(n) == world[n] # Absent

FreshVolumes == Volumes \ {world[n].vol : n \in PlainName}

\* A new stopped container with a volume of its own, or with that of from.
New(v) == [state |-> "stopped", vol |-> v, from |-> NoName]
NewFrom(w, from) == [state |-> "stopped", vol |-> w[from].vol, from |-> from]

\* The worlds in which data container d is there.
WithData(d) ==
  IF Present(d) THEN {world} ELSE {[world EXCEPT ![d] = New(v)] : v \in FreshVolumes}

Init == world = [n \in PlainName |-> Absent]

-----------------------------------------------------------------------------
\* DockerCreateData; also all that remains of an exec on a service whose data
\* container was missing.
MakeData(d) == ~Present(d) /\ world' \in WithData(d)

\* DockerRunService for a definition that manages data: the data container is
\* made if missing, the container is made if missing on that data, and runs.
StartWithData(n) ==
  LET d == ToDataContainer(n) IN
  /\ world[n].state # "running"
  /\ \E w \in WithData(d) :
       world' = [w EXCEPT ![n] = [(IF Present(n) THEN w[n] ELSE NewFrom(w, d))
                                    EXCEPT !.state = "running"]]

\* The same for a definition that does not.
Start(n) ==
  /\ world[n].state # "running"
  /\ \E v \in FreshVolumes :
       world' = [world EXCEPT ![n] = [(IF Present(n) THEN world[n] ELSE New(v))
                                        EXCEPT !.state = "running"]]

Stop(n) ==
  /\ world[n].state = "running"
  /\ world' = [world EXCEPT ![n].state = "stopped"]

\* DockerRemove of a stopped container, alone or with its data container.
Remove(n) ==
  /\ world[n].state = "stopped"
  /\ \/ world' = [world EXCEPT ![n] = Absent]
     \/ world' = [world EXCEPT ![n] = Absent, ![ToDataContainer(n)] = Absent]

\* DockerRebuild: a new container in the same state, on a volume of its own.
Update(n) ==
  /\ Present(n)
  /\ \E v \in FreshVolumes :
       world' = [world EXCEPT ![n] = [New(v) EXCEPT !.state = world[n].state]]

\* The pull of an update fails when the old container is already gone.
UpdateFails(n) == Present(n) /\ world' = [world EXCEPT ![n] = Absent]

\* DockerRename: the same state under the new name. The volume is carried over
\* only from another container that is still there.
Rename(n, to) ==
  /\ Present(n) /\ ~Present(to)
  /\ \E v \in FreshVolumes :
       LET from == world[n].from
           new  == IF from # NoName /\ from # n /\ Present(from)
                   THEN NewFrom(world, from) ELSE New(v)
       IN world' = [world EXCEPT ![n] = Absent, ![to] = [new EXCEPT !.state = world[n].state]]

Next ==
  \E n \in PlainName :
    \/ n.type = TypeData /\ MakeData(n)
    \/ n.type # TypeData /\ (StartWithData(n) \/ Start(n) \/ Stop(n) \/ Remove(n)
                               \/ Update(n) \/ UpdateFails(n))
    \/ \E to \in PlainName : to.type = n.type /\ Rename(n, to)

Spec == Init /\ [][Next]_world

TypeOK == world \in World
=============================================================================
