---------------------------- MODULE MCPerformSeq ----------------------------
EXTENDS PerformSeq

CONSTANTS a, b, p1

S(s) == ContainerAssemble(TypeService, s, 1)
D(s) == ContainerAssemble(TypeData, s, 1)

Cmd(kind, name, flags) == [kind |-> kind, name |-> name, to |-> name, flags |-> flags]
Ren(name, to)          == [kind |-> "rename", name |-> name, to |-> to, flags |-> {}]

NoLinks == {}
ManyVolumes == 1..(3 * MaxInvocations)

\* Every kind of command on a service that manages data; renames from a to b.
AllCmds ==
  {Cmd("run", S(a), {"auto"}), Cmd("run", S(b), {"auto"}), Cmd("run", S(b), {}),
   Cmd("exec", S(a), {"auto"}), Cmd("runData", D(a), {}), Cmd("createData", D(a), {}),
   Cmd("stop", S(a), {"auto"}), Cmd("stop", S(b), {"auto"}),
   Cmd("remove", S(a), {"auto"}), Cmd("remove", S(a), {"auto", "data", "vol"}),
   Cmd("rebuild", S(a), {"auto"}), Cmd("rebuild", S(a), {"auto", "pull"}),
   Ren(S(a), S(b)), Ren(D(a), D(b)), Ren(S(b), S(a))}
=============================================================================
