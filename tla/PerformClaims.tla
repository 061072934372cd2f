---------------------------- MODULE PerformClaims ----------------------------
(***************************************************************************)
(* What comments and help texts say of the operations and the code does    *)
(* not do.  The runs of these properties are expected to find a violation; *)
(* README.md tells what each counterexample shows.                         *)
(***************************************************************************)
EXTENDS Perform

\* ContainerExists and ContainerRunning answer true only if the container
\* asked for exists and, for the second, is running.
LookupIsExact ==
  \A n \in PlainName, all \in BOOLEAN : \A id \in Lookup(n, all) \ {0} :
    cont[n].id = id /\ (all \/ cont[n].running)

\* DockerRename renames the container, by removing and recreating it: what a
\* container keeps on its volume is still there under the new name.
RenameKeepsVolumes ==
  [][\A p \in Procs : cli[p].inv.kind = "rename" /\ cli'[p] # cli[p] => volumes \subseteq volumes']_vars

\* A service that uses a data container still uses it after an update.
UpdateSparesData ==
  [][\A p \in Procs : cli[p].inv.kind = "rebuild" /\ Ends(p, "ok") =>
       (DataAttached => DataAttached')]_vars
=============================================================================
