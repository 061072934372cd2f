----------------------------- MODULE MCPackages -----------------------------
(***************************************************************************)
(* Definitions and commands for the run of Packages.                       *)
(***************************************************************************)
EXTENDS Packages

CONSTANTS keys, api, web, net, old, t1, p1, p2

\* web needs api and api the keys server; api works with the chain checked out.
\* web has no data container.
FirstDefs ==
  [x \in ServiceNames |->
     CASE x = keys -> NewFile
       [] x = api -> [NewFile EXCEPT !.deps = <<keys>>, !.linked = {keys}, !.chain = HeadChain]
       [] x = web -> [NewFile EXCEPT !.deps = <<api, keys>>, !.linked = {api}, !.data = FALSE]
       [] OTHER -> NoFile]

\* api may come to depend on web.
SomeDrafts ==
  [x \in ServiceNames |->
     IF x = api THEN {[NewFile EXCEPT !.deps = <<web>>], [NewFile EXCEPT !.chain = net]} ELSE {NewFile}]

Cmd(kind, args, chain, flags) ==
  [kind |-> kind, args |-> args, to |-> Blank, chain |-> chain, flags |-> flags]

OfServices ==
  {Cmd("start", <<web>>, Blank, {}), Cmd("start", <<keys, web>>, net, {}),
   Cmd("stop", <<web>>, Blank, {}), Cmd("stop", <<web>>, Blank, {"rm", "data"}),
   Cmd("exec", <<api>>, Blank, {}), Cmd("new", <<web>>, Blank, {}), Cmd("edit", <<api>>, Blank, {}),
   Cmd("import", <<web>>, Blank, {}),
   Cmd("rm", <<web, keys>>, Blank, {"data"}), Cmd("rm", <<api>>, Blank, {"file"}),
   Cmd("update", <<api>>, Blank, {}),
   [Cmd("rename", <<keys>>, Blank, {}) EXCEPT !.to = web]}

OfPackages ==
  {Cmd("package", <<keys>>, Blank, {}), Cmd("package", <<>>, net, {"rm", "data"}),
   Cmd("package", <<>>, old, {"notask"}), Cmd("action", <<keys>>, Blank, {})}

\* A second process: the HEAD file and the keys server.
Elsewhere == {Cmd("checkout", <<>>, net, {}), Cmd("stop", <<keys>>, Blank, {})}

TwoProcesses == [p \in Procs |-> IF p = p1 THEN OfServices \cup OfPackages ELSE Elsewhere]

NoLinks == {}
=============================================================================
