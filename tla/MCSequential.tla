---------------------------- MODULE MCSequential ----------------------------
(***************************************************************************)
(* For TLC: the components that one thread uses at a time and that share no *)
(* state with each other, in one instance. `part` says which of them is     *)
(* used; the others rest in one initial state, so that the behaviours are   *)
(* those of each component alone. SqlStatement is extended, the others are  *)
(* instances.                                                               *)
(***************************************************************************)
EXTENDS SqlStatement, Sequences

CONSTANTS Width,                                            \* SqlNumbers
          Text, Product, Location, Size,                    \* HashMap
          Words, MaxWords, MaxCommands,                     \* CommandTree
          Numbers, Address, Word, MaxStack, MaxList, MaxDefs, \* Configuration
          Beans, MaxEntries,                                \* Context
          None

VARIABLES
    part,
    type, value, data, bytes,
    buckets, strings, names,
    tree, added, accepted,
    root, stk, parsing, file, defs, proxy, servers, process,
    entries, initialized, hashMap, constructed, answer, wired

numbers       == <<type, value, data, bytes>>
map           == <<buckets, strings, names>>
commands      == <<tree, added, accepted>>
configuration == <<root, stk, parsing, file, defs, proxy, servers, process>>
context       == <<entries, initialized, hashMap, constructed, answer, wired>>
all           == <<part, vars, numbers, map, commands, configuration, context>>

Part == {"statements", "numbers", "map", "commands", "configuration", "context"}

N == INSTANCE SqlNumbers
M == INSTANCE HashMap WITH Address <- Location, heap <- strings
T == INSTANCE CommandTree
F == INSTANCE Configuration
X == INSTANCE Context WITH Names <- Beans

ASSUME SequentialAssumption ==
    /\ CountAssumption /\ N!WidthAssumption /\ M!MapAssumption
    /\ T!BoundAssumption /\ F!FileAssumption /\ X!ContextAssumption

AllInit ==
    /\ part \in Part
    /\ Init /\ N!Init /\ M!Init /\ T!Init /\ F!Init /\ X!Init
    /\ part # "numbers" => type = "long"

AllNext ==
    \/ /\ part = "statements" /\ Next
       /\ UNCHANGED <<part, numbers, map, commands, configuration, context>>
    \/ /\ part = "numbers" /\ N!Next
       /\ UNCHANGED <<part, vars, map, commands, configuration, context>>
    \/ /\ part = "map" /\ M!Next
       /\ UNCHANGED <<part, vars, numbers, commands, configuration, context>>
    \/ /\ part = "commands" /\ T!Next
       /\ UNCHANGED <<part, vars, numbers, map, configuration, context>>
    \/ /\ part = "configuration" /\ F!Next
       /\ UNCHANGED <<part, vars, numbers, map, commands, context>>
    \/ /\ part = "context" /\ X!Next
       /\ UNCHANGED <<part, vars, numbers, map, commands, configuration>>

AllSpec == AllInit /\ [][AllNext]_all

-----------------------------------------------------------------------------
(* What each component promises while it is used; for the statements it is  *)
(* StatementsSafe.                                                          *)

\* The getters return the number of the column, whichever width it was bound with, and 0 for
\* NULL; the setters send the number they are given.
NumbersExact ==
    part = "numbers" => N!TypeOK /\ N!NullReadsZero /\ N!GettersExact /\ N!SettersExact

\* A key finds the value that was put last under it, and the map of product names holds
\* exactly the strings that are allocated.
NamesFound == part = "map" => M!TypeOK /\ M!FindsLast /\ M!StringsAccounted

\* A line runs the command that is its longest known beginning, in the right process, and the
\* help lists the words that lead on to a command.
CommandsFound == part = "commands" => T!TypeOK /\ T!RunsAccepted /\ T!HelpLeadsOn

\* A key of the configuration has the value of its last definition, lists keep the order of
\* the file, and proxy_main() listens with the servers of the file, if it understands them.
FileUnderstood ==
    part = "configuration" =>
        F!TypeOK /\ F!LastDefinitionCounts /\ F!ListsInOrder /\ F!ListensIfServersParse

\* post_construct() is called once for a component, and a name finds the first component
\* registered under it, from the registration on.
BeansWired == part = "context" => X!TypeOK /\ X!ConstructedOnce /\ X!FoundAtOnce
=============================================================================
