--------------------------- MODULE ContainerNames ---------------------------
(***************************************************************************)
(* The names eris gives to Docker containers, and how a name is looked up  *)
(* again in the list the daemon returns.                                   *)
(*                                                                         *)
(* A container is called eris_<type>_<short>_<number>.  Two more kinds     *)
(* of names wrap such a name: eris_exec_<data name> for the throw-away     *)
(* container that mounts a data container, eris_interactive_<name> for the *)
(* one behind "exec".  Here a name is the record of its three parts; the   *)
(* wrapped families are further types.                                     *)
(*                                                                         *)
(* ParseContainers compiles the wanted name as a regular expression and    *)
(* takes the first listed container with any name that contains a match.   *)
(* Nothing anchors the end of the expression, so ..._1 also matches        *)
(* ..._10, and the empty name matches everything.  The daemon lists a      *)
(* linked container under /<parent>/<alias> as well, which is a match for  *)
(* the parent's name.                                                      *)
(***************************************************************************)
EXTENDS Naturals

CONSTANTS
  Shorts,     \* short names: the names of the definition files
  Numbers,    \* container numbers (--num)
  Links       \* pairs <<parent, child>>: parent's definition links to child

TypeService == "service"
TypeChain   == "chain"
TypeData    == "data"

\* The types the daemon's list is filtered by before any name is matched.
ErisTypes == {TypeService, TypeChain, TypeData}

\* The wrapped families; they never pass the filter above.
TempTypes == {"exec", "interactive_service", "interactive_chain"}

ContainerName == [type : ErisTypes \cup TempTypes, short : Shorts, number : Numbers]

\* The empty DataContainerName of an operation nobody filled in.
NoName == [type |-> "", short |-> "", number |-> 0]

NamesAssumption ==
  /\ Numbers \subseteq Nat
  /\ Links \subseteq ContainerName \X ContainerName

ASSUME NamesAssumption

ContainerAssemble(typ, name, num) == [type |-> typ, short |-> name, number |-> num]

\* eris_service_x_1 or eris_chain_x_1 to eris_data_x_1
ToDataContainer(n) == [n EXCEPT !.type = TypeData]

\* The throw-away container that mounts the data container n.
ExecContainer(n) == [n EXCEPT !.type = "exec"]

\* The throw-away container behind "exec" on the service or chain n.
InteractiveContainer(n) ==
  [n EXCEPT !.type = IF n.type = TypeChain THEN "interactive_chain" ELSE "interactive_service"]

-----------------------------------------------------------------------------
\* The plain name inside a wrapped name.
Plain(m) ==
  [m EXCEPT !.type = CASE m.type = "exec" -> TypeData
                       [] m.type = "interactive_service" -> TypeService
                       [] m.type = "interactive_chain" -> TypeChain
                       [] OTHER -> @]

\* The decimal digits of a are the first digits of b (at most three digits).
DigitPrefix(a, b) == \E k \in 0..2 : b \div (10 ^ k) = a

\* Faulty variant: the type is left out of the expression.
MatchesAnyType(n, m) ==
  n = NoName \/ (n.short = m.short /\ DigitPrefix(n.number, m.number))

\* Faulty variant: the short name is left out of the expression.
MatchesAnyShort(n, m) ==
  n = NoName \/ (n.type = Plain(m).type /\ DigitPrefix(n.number, m.number))

\* The regular expression made of plain name n has a match in the name m.
Matches(n, m) ==
  \/ n = NoName
  \/ /\ n.type = Plain(m).type
     /\ n.short = m.short
     /\ DigitPrefix(n.number, m.number)

\* The containers the container n is linked to: the definition's links go into
\* the service or chain container and into the one behind "exec" on it.
LinkedTo(n) == {l[2] : l \in {k \in Links : n = k[1] \/ n = InteractiveContainer(k[1])}}

\* Some name the daemon lists for container m, its own or a link name given by
\* a parent among the existing containers, contains a match of n.
Answers(n, m, existing) ==
  \/ Matches(n, m)
  \/ \E parent \in existing : m \in LinkedTo(parent) /\ Matches(n, parent)

=============================================================================
