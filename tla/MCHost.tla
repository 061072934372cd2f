------------------------------- MODULE MCHost -------------------------------
(***************************************************************************)
(* Directories and commands for the runs of Host.                          *)
(***************************************************************************)
EXTENDS HostClaims

CONSTANTS temp, data, chain, other, git, keys, ipfs, spare, default, settings, head, mine

Home(ds, owners) ==
  [dirs |-> ds,
   tree |-> [d \in Dirs |-> [f \in Files |-> IF <<d, f>> \in DOMAIN owners THEN owners[<<d, f>>] ELSE "none"]]]

\* No home; one of an old version; one in which the user has both old and new.
ThreeHomes ==
  {Home({}, <<>>),
   Home({Root, "actions", "services", "blockchains", "dapps"},
        [x \in {<<"services", mine>>, <<"blockchains", mine>>, <<"dapps", mine>>} |-> "user"]),
   Home(Dirs, [x \in {<<"chains", default>>, <<"blockchains", mine>>, <<"blockchains", head>>,
                      <<"apps", mine>>, <<"dapps", mine>>} |-> "user"])}

SomeInit  == {{"yes"}, {"skip"}, {"yes", "skip"}, {}}
SomeClean == {{"dir"}, {"dir", "yes"}}

Archive == <<mine, default>>
=============================================================================
