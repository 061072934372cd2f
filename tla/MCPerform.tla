----------------------------- MODULE MCPerform -----------------------------
(***************************************************************************)
(* Commands for the runs of Perform.                                       *)
(***************************************************************************)
EXTENDS PerformClaims

CONSTANTS a, b, p1, p2

Service(s, n) == ContainerAssemble(TypeService, s, n)
Data(s, n)    == ContainerAssemble(TypeData, s, n)

Cmd(kind, name, flags)     == [kind |-> kind, name |-> name, to |-> name, flags |-> flags]
Renaming(name, to)         == [kind |-> "rename", name |-> name, to |-> to, flags |-> {}]

NoLinks == {}

\* Two processes on a service with data, everything but renames and the removal
\* of data, and a bystander: service b.
ServiceCmds ==
  {Cmd("run", Service(a, 1), {"auto"}),
   Cmd("exec", Service(a, 1), {"auto"}),
   Cmd("stop", Service(a, 1), {"auto"}),
   Cmd("remove", Service(a, 1), {"auto", "vol"}),
   Cmd("rebuild", Service(a, 1), {"auto", "pull"}),
   Cmd("runData", Data(a, 1), {}),
   Cmd("createData", Data(a, 1), {}),
   Cmd("run", Service(b, 1), {})}

\* Commands that a kill may leave half done.
KillCmds ==
  {Cmd("run", Service(a, 1), {"auto"}),
   Cmd("exec", Service(a, 1), {"auto"}),
   Cmd("runData", Data(a, 1), {}),
   Cmd("rebuild", Service(a, 1), {"auto", "pull"}),
   Cmd("remove", Service(a, 1), {"auto", "data", "vol"}),
   Renaming(Service(a, 1), Service(b, 1)),
   Renaming(Data(a, 1), Data(b, 1))}

\* With renames and removals too, for runs where the daemon may refuse any call.
FaultCmds ==
  ServiceCmds \cup
  {Cmd("run", Service(a, 1), {"auto", "rm"}),
   Cmd("remove", Service(a, 1), {"auto", "data", "vol"}),
   Renaming(Service(a, 1), Service(b, 1))}

\* Service b's definition links to service a.
BLinksA == {<<Service(b, 1), Service(a, 1)>>}
LinkedCmds == {Cmd("run", Service(a, 1), {}), Cmd("run", Service(b, 1), {})}

\* A data container and its renaming.
DataRenameCmds == {Cmd("createData", Data(a, 1), {}), Renaming(Data(a, 1), Data(b, 1))}

UpdateCmds  == {Cmd("run", Service(a, 1), {"auto"}), Cmd("rebuild", Service(a, 1), {"auto"})}
=============================================================================
