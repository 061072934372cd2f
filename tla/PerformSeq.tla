----------------------------- MODULE PerformSeq -----------------------------
(***************************************************************************)
(* Commands that are not disturbed: no command begins before the one in    *)
(* progress has ended, and a service keeps running until it is stopped.    *)
(* Then every command, many calls to the daemon long, implements one step  *)
(* of Lifecycle, or changes nothing.                                       *)
(***************************************************************************)
EXTENDS Perform

CONSTANT Volumes

\* No call fails.  A name answers to itself alone: there are no links, and no
\* number begins with the digits of another.  A definition that manages no data
\* is not removed with its data, for that takes any container (DataNames).
SeqAssumption ==
  /\ ~Faults
  /\ Links = {}
  /\ \A x, y \in Numbers : DigitPrefix(x, y) <=> x = y
  /\ \A i \in Invocations :
       i.kind = "remove" /\ "data" \in i.flags => "auto" \in i.flags \/ i.name.type # TypeService
  /\ 1..(2 * MaxInvocations) \subseteq Volumes

ASSUME SeqAssumption

VARIABLE settled    \* the containers as the last ended command left them

seqVars == <<cont, volumes, nextId, cli, begun, settled>>

AllIdle == \A p \in Procs : At(p, "idle")

\* The daemon's containers, as Lifecycle sees them.
Seen ==
  [n \in PlainName |->
     [state |-> IF ~Exists(n) THEN "none" ELSE IF cont[n].running THEN "running" ELSE "stopped",
      vol   |-> cont[n].vol,
      from  |-> cont[n].from]]

SeqInit == Init /\ settled = Seen

SeqNext ==
  /\ \/ \E p \in Procs : (AllIdle /\ Begin(p)) \/ Step(p)
     \/ \E n \in ContainerName : n.type \in TempTypes /\ Exit(n)
  /\ settled' = IF AllIdle' THEN Seen' ELSE settled

SeqSpec == SeqInit /\ [][SeqNext]_seqVars

L == INSTANCE Lifecycle WITH world <- settled

\* Undisturbed commands implement Lifecycle: whatever each one finds, it
\* leaves exactly what the operation promises, or what it found.
ImplementsLifecycle == L!Spec
=============================================================================
