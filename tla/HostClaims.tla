----------------------------- MODULE HostClaims -----------------------------
(***************************************************************************)
(* What a comment says of the interactive exec and the code does not do.   *)
(* README.md tells what the counterexample shows.                          *)
(***************************************************************************)
EXTENDS Host

\* "Trap signals so we can drop out of the container": once the handler has
\* stopped the container of an exec, the exec ends.
SignalDropsOut == (session.handler = "ended" /\ boxes[Temp] = "exited") ~> (session.handler # "ended")
=============================================================================
