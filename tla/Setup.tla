------------------------------- MODULE Setup -------------------------------
(***************************************************************************)
(* "eris init" makes the directories and their default files and moves the *)
(* files of deprecated directories to the new ones, as "eris update" does. *)
(* "eris clean" removes the containers and, if told so, the directories.   *)
(* One action is one change of a directory or a call to the daemon: the    *)
(* process may be killed between any two, and the command given again.     *)
(***************************************************************************)
EXTENDS Machine

\* Files by which a step goes, or which a step makes.  ChainDir: the directory of
\* the default chain's five files.
CONSTANTS Git, HeadFile, KeysFile, IpfsFile, SpareFile, DefaultFile, ChainDir

SetupAssumption == {Git, HeadFile, KeysFile, IpfsFile, SpareFile, DefaultFile, ChainDir} \subseteq Files

ASSUME SetupAssumption

VARIABLES setup

\* --yes, --skip-pull, --services and --actions of init; --dir of clean.
Options == {"yes", "skip", "services", "actions", "dir"}

\* The directories in the order in which they are made.
MajorDirs == <<Root, "actions", "chains", "data", "apps", "keys", "languages", "services", "keys/data", "keys/names",
               "scratch", "scratch/epm", "scratch/lllc", "scratch/sol", "scratch/ser">>

\* left: the pairs still to migrate, or the containers still to remove; now: the
\* pair whose files move, if any, files those still to move, taken the names
\* there were in the new directory.  migrated: something needed to move.
\* unseen: containers that a failed list or a refusal kept from being removed.
SetupState ==
  [pc : {"idle", "tools", "root", "dirs", "head", "confirm", "services", "cloneServices", "keysDefault",
         "ipfsDefault", "spareDefault", "actionDefault", "actions", "cloneActions", "chainDefault", "chainDir", "check", "pairs", "files", "install",
         "list", "containers", "home"},
   options : SUBSET Options, left : (SUBSET Pairs) \cup (SUBSET Boxes), now : Pairs \cup {<<>>},
   files : SUBSET Files, taken : SUBSET Files, migrated : BOOLEAN, unseen : BOOLEAN]

NoSetup == [pc |-> "idle", options |-> {}, left |-> {}, now |-> <<>>, files |-> {}, taken |-> {},
            migrated |-> FALSE, unseen |-> FALSE]

P == setup
Opt(o) == o \in P.options

\* From one label to the next, the command over, and both without any change.
To(s)   == setup' = s /\ GoOn
Quit(r) == setup' = NoSetup /\ Over(r)
At(l)    == [P EXCEPT !.pc = l]
Same == UNCHANGED <<boxes, disk>>

SetupBegin(j, options) ==
  /\ Start(j)
  /\ setup' = [NoSetup EXCEPT !.pc = CASE j = "clean" -> "list"
                                     [] j = "init" /\ "skip" \in options -> "root"
                                     [] OTHER -> "tools",
                              !.options = options]
  /\ Same

\* CheckGitAndGo
CheckTools ==
  /\ P.pc = "tools"
  /\ To(At(IF job = "init" THEN "root" ELSE "check")) \/ Quit("err")
  /\ Same

-----------------------------------------------------------------------------
\* Initialize

\* Only without a root are the other directories made.  Initialize panics when it
\* cannot tell.
FindRoot ==
  /\ P.pc = "root"
  /\ To(At(IF Root \in dirs THEN "confirm" ELSE "dirs")) \/ Quit("err")
  /\ Same

MakeDir ==
  /\ P.pc = "dirs"
  /\ \/ /\ \A i \in DOMAIN MajorDirs : MajorDirs[i] \in dirs
        /\ To(At("head")) /\ UNCHANGED dirs
     \/ \E i \in DOMAIN MajorDirs :
          /\ MajorDirs[i] \notin dirs /\ \A j \in 1..(i - 1) : MajorDirs[j] \in dirs
          /\ \/ dirs' = dirs \cup {MajorDirs[i]} /\ To(P)
             \/ Quit("err") /\ UNCHANGED dirs
  /\ UNCHANGED <<boxes, tree>>

MakeHead ==
  /\ P.pc = "head"
  /\ \/ /\ tree' = [tree EXCEPT !["chains"][HeadFile] = IF @ = "none" THEN "eris" ELSE @]
        /\ To(At("confirm"))
     \/ Quit("err") /\ UNCHANGED tree
  /\ UNCHANGED <<boxes, dirs>>

Confirm ==
  /\ P.pc = "confirm"
  /\ \/ To(At(IF Opt("skip") THEN "keysDefault" ELSE "services"))
     \/ ~Opt("yes") /\ Quit("err")
  /\ Same

\* cloneRepo: a repository is pulled; if the user consents anything else is
\* cleared away and cloned.
Repo(l, d, consent, clone, next, Failed) ==
  /\ P.pc = l
  /\ IF HasFile(d, Git) THEN (To(At(next)) \/ Failed) /\ UNCHANGED disk
     ELSE \/ ~consent /\ To(At(next)) /\ UNCHANGED disk
          \/ tree' = [tree EXCEPT ![d] = NoFiles] /\ To(At(clone)) /\ UNCHANGED dirs
  /\ UNCHANGED boxes

Clone(l, d, next, Failed) ==
  /\ P.pc = l
  /\ \/ Put(d, Git, "eris") /\ To(At(next))
     \/ Failed /\ UNCHANGED disk
  /\ UNCHANGED boxes

\* An error with the services goes unnoticed, one with the actions does not.
UpdateServices == Repo("services", "services", Opt("services") \/ Opt("yes"), "cloneServices", "keysDefault", To(At("keysDefault")))
CloneServices  == Clone("cloneServices", "services", "keysDefault", To(At("keysDefault")))
UpdateActions  == Repo("actions", "actions", Opt("actions") \/ Opt("yes"), "cloneActions", "chainDefault", Quit("err"))
CloneActions   == Clone("cloneActions", "actions", "chainDefault", Quit("err"))

\* dropDefaults and dropChainDefaults write over what is there, one file after
\* the other, until one cannot be written; its directory may have been made.  The
\* default chain's directory may be left without some of its files.
Drop(l, d, f, next) ==
  /\ P.pc = l
  /\ \/ Put(d, f, "eris") /\ To(At(next))
     \/ /\ Quit("err")
        /\ \/ UNCHANGED disk
           \/ MakePath(d) /\ UNCHANGED tree
           \/ f = ChainDir /\ Put(d, f, "eris")
  /\ UNCHANGED boxes

DropDefaults ==
  \/ Drop("keysDefault", "services", KeysFile, "ipfsDefault")
  \/ Drop("ipfsDefault", "services", IpfsFile, "spareDefault")
  \/ Drop("spareDefault", "services", SpareFile, "actionDefault")
  \/ Drop("actionDefault", "actions", SpareFile, IF Opt("skip") THEN "chainDefault" ELSE "actions")

DropChainDefaults ==
  \/ Drop("chainDefault", "chains", DefaultFile, "chainDir")
  \/ Drop("chainDir", "chains", ChainDir, "check")

-----------------------------------------------------------------------------
\* MigrateDeprecatedDirs.  Update goes on whatever comes of it.

Migrated(r) == IF job = "update" THEN To(At("install")) ELSE Quit(r)

\* When a directory or a file cannot be read, moved or removed, when neither the
\* old nor the new directory is there, or only the new one.
MigrationFails == Migrated("err") /\ UNCHANGED disk

\* Only the pair that comes first in a map decides whether there is something
\* to do.
CheckDirs ==
  /\ P.pc = "check"
  /\ \E first \in Pairs :
       IF first[1] \notin dirs /\ first[2] \in dirs THEN Migrated("ok")
       ELSE \/ To([P EXCEPT !.pc = "pairs", !.left = Pairs, !.migrated = TRUE])
            \/ job = "init" /\ ~Opt("yes") /\ Quit("err")
  /\ Same

\* The directory old gets the name new.
MovePair(old, new) ==
  /\ dirs' = (dirs \ {old}) \cup {new}
  /\ tree' = [tree EXCEPT ![new] = tree[old], ![old] = NoFiles]

MigrateDir ==
  /\ P.pc = "pairs"
  /\ \/ P.left = {} /\ Migrated("ok") /\ UNCHANGED disk
     \/ \E pair \in P.left :
          LET old == pair[1]  new == pair[2] IN
          \/ MigrationFails
          \/ /\ old \in dirs /\ new \notin dirs
             /\ MovePair(old, new) /\ To([P EXCEPT !.left = @ \ {pair}])
          \/ /\ old \in dirs /\ new \in dirs
             /\ To([P EXCEPT !.pc = "files", !.now = pair, !.left = @ \ {pair},
                                  !.files = {f \in Files : HasFile(old, f)},
                                  !.taken = {f \in Files : HasFile(new, f)}])
             /\ UNCHANGED disk
  /\ UNCHANGED boxes

\* Faulty variant: a name that is taken is written over.
MigrateFileAnyway ==
  /\ P.pc = "files"
  /\ \E f \in P.files :
       /\ tree' = [tree EXCEPT ![P.now[2]][f] = tree[P.now[1]][f], ![P.now[1]][f] = "none"]
       /\ To([P EXCEPT !.files = @ \ {f}])
  /\ UNCHANGED <<boxes, dirs>>

\* checkFileNamesAndMigrate
MigrateFile ==
  /\ P.pc = "files"
  /\ \E f \in P.files :
       \/ MigrationFails
       \/ /\ f \notin P.taken
          /\ tree' = [tree EXCEPT ![P.now[2]][f] = tree[P.now[1]][f], ![P.now[1]][f] = "none"]
          /\ To([P EXCEPT !.files = @ \ {f}])
          /\ UNCHANGED dirs
  /\ UNCHANGED boxes

\* Faulty variant: the old directory stays.
LeaveOld ==
  /\ P.pc = "files" /\ P.files = {}
  /\ To([P EXCEPT !.pc = "pairs", !.now = <<>>, !.taken = {}])
  /\ UNCHANGED <<boxes, disk>>

RemoveOld ==
  /\ P.pc = "files" /\ P.files = {}
  /\ \/ MigrationFails
     \/ /\ dirs' = dirs \ {P.now[1]} /\ UNCHANGED tree
        /\ To([P EXCEPT !.pc = "pairs", !.now = <<>>, !.taken = {}])
  /\ UNCHANGED boxes

\* git and go, which may exit.
Install == P.pc = "install" /\ (Quit("ok") \/ Quit("err")) /\ Same

-----------------------------------------------------------------------------
\* Clean.  It asks if --yes is given; a failed list is taken for an empty one.

ListBoxes ==
  /\ P.pc = "list"
  /\ \/ To([P EXCEPT !.pc = "containers", !.left = {b \in Boxes : boxes[b] # "none"}])
     \/ To([P EXCEPT !.pc = "containers", !.unseen = TRUE])
  /\ Same

\* Faulty variant: goes on after an error.
RemoveBoxAnyway ==
  /\ P.pc = "containers"
  /\ \E b \in P.left :
       /\ To([P EXCEPT !.left = @ \ {b}])
       /\ \/ UNCHANGED boxes
          \/ b \in Labelled /\ boxes' = [boxes EXCEPT ![b] = "none"]
  /\ UNCHANGED disk

RemoveBox ==
  /\ P.pc = "containers"
  /\ \E b \in P.left :
       IF b \notin Labelled THEN To([P EXCEPT !.left = @ \ {b}]) /\ UNCHANGED boxes
       ELSE \/ To([P EXCEPT !.left = @ \ {b}]) /\ boxes' = [boxes EXCEPT ![b] = "none"]
            \/ Quit("err") /\ UNCHANGED boxes
  /\ UNCHANGED disk

BoxesGone ==
  /\ P.pc = "containers" /\ P.left = {}
  /\ IF Opt("dir") THEN To(At("home")) ELSE Quit("ok")
  /\ Same

\* What cannot be removed stays, with the directories it is in.
RemoveHome ==
  /\ P.pc = "home"
  /\ \/ Root \notin dirs /\ Quit("err") /\ UNCHANGED disk
     \/ Root \in dirs /\ Opt("yes") /\ Quit("ok") /\ UNCHANGED disk
     \/ Root \in dirs /\ dirs' = {} /\ tree' = [d \in Dirs |-> NoFiles] /\ Quit("ok")
     \/ \E stuck \in dirs :
          /\ dirs' = Path(stuck) /\ tree' = [d \in Dirs |-> IF d = stuck THEN tree[d] ELSE NoFiles]
          /\ Quit("err")
  /\ UNCHANGED boxes

SetupStep ==
  \/ CheckTools \/ FindRoot \/ MakeDir \/ MakeHead \/ Confirm
  \/ UpdateServices \/ CloneServices \/ DropDefaults \/ UpdateActions \/ CloneActions \/ DropChainDefaults
  \/ CheckDirs \/ MigrateDir \/ MigrateFile \/ RemoveOld \/ Install
  \/ ListBoxes \/ RemoveBox \/ BoxesGone \/ RemoveHome
=============================================================================
