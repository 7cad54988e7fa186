---------------------------- MODULE CommandTree ----------------------------
(***************************************************************************)
(* The tree of commands of the command line interface                       *)
(* (src/src/cmdlintf.c): how commands are added to it and how a line is      *)
(* looked up in it. A line is a sequence of words; a node of the tree is     *)
(* known by the words that lead to it.                                      *)
(***************************************************************************)
EXTENDS Naturals, Sequences, SequencesExt, TLC

CONSTANTS Words,
          MaxWords,    \* bound on the words of a command
          MaxCommands  \* bound on the calls of add

BoundAssumption == MaxWords \in Nat /\ MaxCommands \in Nat

VARIABLES
    tree,      \* node -> its command, or NoFunc
    added,     \* number of calls of add
    accepted   \* history: the commands for which add returned 1

vars == <<tree, added, accepted>>

Commands == UNION {[1 .. n -> Words] : n \in 1 .. MaxWords}
Lines    == UNION {[1 .. n -> Words] : n \in 0 .. MaxWords + 1}
NoFunc   == [words |-> <<>>, rmt |-> FALSE]
Nodes    == DOMAIN tree

First(line, n) == SubSeq(line, 1, n)     \* nthword(line, 1) .. nthword(line, n)

Init == tree = [n \in {<<>>} |-> NoFunc] /\ added = 0 /\ accepted = {}

-----------------------------------------------------------------------------
(* cli_addcmd() makes the nodes that are missing on the way.                *)

\* A node that exists already, as a command or on the way to one, is refused.
Duplicate(cmd) == cmd \in Nodes

NewNodes(cmd) == {First(cmd, n) : n \in 1 .. Len(cmd)} \ Nodes

AddCommand(cmd, rmt) ==
    /\ added < MaxCommands
    /\ added' = added + 1
    /\ IF Duplicate(cmd)
       THEN UNCHANGED <<tree, accepted>>
       ELSE /\ tree' = [n \in Nodes \cup NewNodes(cmd) |->
                            IF n = cmd THEN [words |-> cmd, rmt |-> rmt]
                            ELSE IF n \in Nodes THEN tree[n] ELSE NoFunc]
            /\ accepted' = accepted \cup {[words |-> cmd, rmt |-> rmt]}

-----------------------------------------------------------------------------
(* Looking up a line                                                        *)

\* The children of a node, of which each word selects one.
Subcmd(node) == {w \in Words : Append(node, w) \in Nodes}

MatchLength_Last(line) ==
    LET Found(n) == First(line, n) \in Nodes
    IN  IF \A n \in 1 .. Len(line) : Found(n) THEN Len(line) ELSE 0

\* find_match_as_possible(): descends as long as the next word is a child.
MatchLength(line) ==
    LET Found(n) == line[n] \in Subcmd(First(line, n - 1))
    IN  CHOOSE n \in 0 .. Len(line) : /\ \A k \in 1 .. n : Found(k)
                                      /\ n = Len(line) \/ ~Found(n + 1)

Outcome(what, words, args, where) == [what |-> what, words |-> words, args |-> args, where |-> where]

\* execute_line(): the words after the command are its arguments; a remote command is sent to
\* the server by a client that is connected to one.
Execute(line, connected) ==
    LET i == MatchLength(line)  command == tree[First(line, i)]
    IN  CASE i = 0 -> Outcome("no such command", <<>>, <<>>, "here")
          [] i > 0 /\ command = NoFunc -> Outcome("incomplete", <<>>, <<>>, "here")
          [] i > 0 /\ command # NoFunc ->
                Outcome("run", command.words, SubSeq(line, i + 1, Len(line)),
                        IF command.rmt /\ connected THEN "server" ELSE "here")

Help_Deepest(line) == Subcmd(First(line, MatchLength(line)))

\* find_match_commands(): the words that may follow, when the line is not yet a command.
Help(line) ==
    LET i == MatchLength(line)
    IN  IF tree[First(line, i)] = NoFunc /\ i = Len(line) THEN Subcmd(line) ELSE {}

-----------------------------------------------------------------------------
\* The bound on the calls ends every behaviour.
Next == \E cmd \in Commands, rmt \in BOOLEAN : AddCommand(cmd, rmt)

Spec == Init /\ [][Next]_vars

-----------------------------------------------------------------------------
(* Properties, against the commands that were accepted                      *)

TypeOK ==
    /\ Nodes \subseteq Commands \cup {<<>>}
    /\ \A n \in Nodes : tree[n] = NoFunc \/ tree[n].words = n
    /\ \A n \in Nodes \ {<<>>} : Front(n) \in Nodes

\* The part of the line that begins an accepted command, as far as there is one.
Longest(line) ==
    First(line, Max({n \in 0 .. Len(line) : \E c \in accepted : IsPrefix(First(line, n), c.words)}))

\* A line runs the accepted command that is its longest beginning known to the tree, with the
\* rest as arguments, and in the process it was registered for - whatever commands were added
\* and in whichever order.
RunsAccepted ==
    \A line \in Lines, connected \in BOOLEAN :
        accepted # {} =>
        LET best == Longest(line)
            outcome == Execute(line, connected)
        IN  /\ (outcome.what = "run") <=> (\E c \in accepted : c.words = best)
            /\ outcome.what = "run" =>
                /\ outcome.words \o outcome.args = line
                /\ [words |-> best, rmt |-> (outcome.where = "server")] \in accepted
                   \/ (~connected /\ outcome.where = "here")
            /\ (outcome.what = "no such command") <=> (best = <<>>)

\* The help for a line lists just the words that lead on to an accepted command.
HelpLeadsOn ==
    \A line \in Lines :
        /\ \A w \in Help(line) : \E c \in accepted : IsPrefix(Append(line, w), c.words)
        /\ (\A c \in accepted : c.words # line) =>
                Help(line) = {w \in Words : \E c \in accepted : IsPrefix(Append(line, w), c.words)}
=============================================================================
