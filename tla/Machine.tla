------------------------------ MODULE Machine ------------------------------
(***************************************************************************)
(* What the commands "exec --interactive", "data export", "init", "update" *)
(* and "clean" work on: the containers, and the directories under ~/.eris  *)
(* with their files.  One command runs at a time; it may be killed.        *)
(* Terminal, Export and Setup model one command each, Host puts them       *)
(* together.                                                               *)
(***************************************************************************)
EXTENDS Naturals, Sequences, FiniteSets

CONSTANTS
  Boxes,        \* containers
  Labelled,     \* those with the label of eris
  Temp,         \* the container an interactive exec makes
  Files,        \* names of files, and of directories with what is in them
  Homes,        \* the directories and files there may be in the beginning
  Kept,         \* the data container of the service
  MaxCommands   \* bound: commands begun in a behaviour

Root == "root"

\* Those that are moved to their new names.
Pairs == {<<"blockchains", "chains">>, <<"dapps", "apps">>}

KeysDirs    == {"keys/data", "keys/names"}
ScratchDirs == {"scratch/epm", "scratch/lllc", "scratch/sol", "scratch/ser"}

Dirs == {Root, "actions", "chains", "data", "apps", "keys", "languages", "services", "scratch", "blockchains", "dapps"}
          \cup KeysDirs \cup ScratchDirs

\* A directory with those it is in.
Path(d) == {Root, d} \cup (IF d \in KeysDirs THEN {"keys"} ELSE IF d \in ScratchDirs THEN {"scratch"} ELSE {})

BoxStates == {"none", "created", "running", "exited"}

\* A file is the user's, or what eris puts there.
Owners == {"none", "user", "eris"}

Trees == [Dirs -> [Files -> Owners]]

NoFiles == [f \in Files |-> "none"]

\* A directory that is not there has no files.
MachineAssumption ==
  /\ Labelled \subseteq Boxes
  /\ Temp \in Labelled /\ Kept \in Labelled
  /\ \A h \in Homes : h.dirs \subseteq Dirs /\ h.tree \in Trees
                    /\ \A d \in Dirs \ h.dirs : h.tree[d] = NoFiles
  /\ MaxCommands \in Nat

ASSUME MachineAssumption

VARIABLES
  boxes,    \* the state of each container
  dirs,     \* the directories there are
  tree,     \* the files in each directory
  job,      \* the command that runs
  result,   \* of the last command
  begun     \* commands begun so far

disk    == <<dirs, tree>>
control == <<job, result, begun>>

Jobs    == {"none", "exec", "export", "init", "update", "clean"}
Results == {"none", "ok", "err", "killed"}

MachineTypeOK ==
  /\ boxes \in [Boxes -> BoxStates]
  /\ dirs \subseteq Dirs
  /\ tree \in Trees
  /\ job \in Jobs
  /\ result \in Results
  /\ begun \in 0..MaxCommands

MachineInit ==
  /\ boxes = [b \in Boxes |-> IF b = Temp THEN "none" ELSE IF b = Kept THEN "created" ELSE "running"]
  /\ \E h \in Homes : dirs = h.dirs /\ tree = h.tree
  /\ job = "none" /\ result = "none" /\ begun = 0

-----------------------------------------------------------------------------

Start(j) ==
  /\ job = "none"
  /\ begun < MaxCommands
  /\ job' = j /\ begun' = begun + 1 /\ result' = "none"

Over(r) == job' = "none" /\ result' = r /\ UNCHANGED begun

GoOn == UNCHANGED control

HasFile(d, f) == tree[d][f] # "none"

\* A file appears, with its directory.
MakePath(d) == dirs' = dirs \cup Path(d)

Put(d, f, owner) ==
  /\ MakePath(d)
  /\ tree' = [tree EXCEPT ![d][f] = owner]
=============================================================================
