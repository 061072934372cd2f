------------------------------ MODULE MCChains ------------------------------
(***************************************************************************)
(* Commands for the runs of Chains.                                        *)
(***************************************************************************)
EXTENDS Chains

CONSTANTS alpha, beta, gamma, p1, p2

Cmd(kind, name, flags) == [kind |-> kind, name |-> name, to |-> Default, flags |-> flags]

\* Every chain is linked to the keys server, and mounts its volumes.
LinksToKeys == {<<Chain(c), KeysServer>> : c \in ChainNames}

\* Every command on chains alpha and beta, and make-genesis.
Everything ==
  {Cmd("new", alpha, {}), Cmd("new", alpha, {"force", "badfile"}), Cmd("new", alpha, {"badopts"}),
   Cmd("start", alpha, {}), Cmd("exec", alpha, {}), Cmd("stop", alpha, {}), Cmd("stop", alpha, {"rm", "data"}),
   Cmd("rm", alpha, {"file"}), Cmd("rm", alpha, {"file", "data"}), Cmd("update", alpha, {}),
   Cmd("register", alpha, {}), Cmd("import", beta, {}), Cmd("new", beta, {}),
   [kind |-> "rename", name |-> alpha, to |-> beta, flags |-> {}],
   Cmd("genesis", Default, {})}

\* A second process: another chain, and the HEAD file.
Elsewhere == {Cmd("new", gamma, {}), Cmd("stop", gamma, {"rm"}), Cmd("checkout", gamma, {}), Cmd("checkout", Blank, {})}

TwoProcesses == [p \in Procs |-> IF p = p1 THEN Everything ELSE Elsewhere]

NewOnly     == [p \in Procs |-> {Cmd("new", alpha, {}), Cmd("new", alpha, {"badopts"})}]
=============================================================================
