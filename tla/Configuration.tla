--------------------------- MODULE Configuration ---------------------------
(***************************************************************************)
(* The configuration (src/src/sysconf.c, src/src/parser.y) and what          *)
(* proxy_main() (src/src/proxying.c) makes of it. The parser calls one      *)
(* function for every definition; the elements of a list are reduced from   *)
(* the last one to the first, pushed on a stack of MAX_INT_STK_LEN places   *)
(* and read back from its top. Keys are compared without regard to case.    *)
(***************************************************************************)
EXTENDS Integers, Sequences, SequencesExt, TLC

CONSTANTS Numbers,  \* DIGIT tokens
          Address,  \* QSTRING tokens that match "host:port"
          Word,     \* other QSTRING tokens
          MaxStack, \* MAX_INT_STK_LEN
          MaxList,  \* bound on the length of a list in the file
          MaxDefs   \* bound on the definitions of the file

FileAssumption ==
    /\ Numbers \subseteq Nat /\ Address \cap Word = {}
    /\ {"on", "off", "NULL", "?"} \cap (Address \cup Word) = {}
    /\ {MaxStack, MaxList} \subseteq Nat \ {0} /\ MaxDefs \in Nat

Key == {"default-server", "servers"}
Name == [key: Key, upper: BOOLEAN] \* two ways to write a key
String == Address \cup Word

Lists(S) == UNION {[1 .. n -> S] : n \in 1 .. MaxList}

\* A definition: the tokens on its right side.
Definition ==
    [name: Name, type: {"Integer"}, tokens: [{1} -> Numbers]]
    \cup [name: Name, type: {"String"}, tokens: [{1} -> String]]
    \cup [name: Name, type: {"Boolean"}, tokens: [{1} -> {"on", "off"}]]
    \cup [name: Name, type: {"IntegerList"}, tokens: Lists(Numbers)]
    \cup [name: Name, type: {"StringList"}, tokens: Lists(String)]

VARIABLES
    root,      \* sysconf_root: the entries, the newest first
    stk,       \* the stack of a list
    parsing,   \* the list definition of which elements are still to be reduced, or <<>>
    file,      \* "reading", "ok", "error"
    defs,      \* history: the definitions so far
    proxy,     \* proxy_main(): "start", "returned", "listening"
    servers,   \* remote_servers
    process    \* "running", "failed" at start, "crashed"

confVars == <<root, stk, parsing, file, defs>>
vars == <<confVars, proxy, servers, process>>

Init ==
    /\ root = <<>> /\ stk = <<>> /\ parsing = <<>> /\ file = "reading" /\ defs = <<>>
    /\ proxy = "start" /\ servers = <<>> /\ process = "running"

-----------------------------------------------------------------------------
(* Entries                                                                  *)

\* Fields that addentry_int_list() and addentry_string_list() leave alone keep what malloc() gave.
Uninitialised == "?"

AddEntry_Last(e) == root' = Append(root, e)
AddEntry(e) == root' = <<e>> \o root

Entry(d) == [name |-> d.name, type |-> d.type, list |-> <<>>,
             ivalue |-> CASE d.type = "Integer" -> d.tokens[1]
                          [] d.type = "String" -> -1
                          [] d.type = "Boolean" -> IF d.tokens[1] = "on" THEN 1 ELSE 0,
             value |-> IF d.type = "Integer" THEN ToString(d.tokens[1]) ELSE d.tokens[1]]

\* addentry_integer(), addentry_string(), addentry_flag_on(), addentry_flag_off()
DefineScalar(d) ==
    /\ file = "reading" /\ parsing = <<>> /\ Len(defs) < MaxDefs
    /\ d.type \in {"Integer", "String", "Boolean"}
    /\ AddEntry(Entry(d)) /\ defs' = Append(defs, d)
    /\ UNCHANGED <<stk, parsing, file, proxy, servers, process>>

\* The parser has seen the whole list.
BeginList(d) ==
    /\ file = "reading" /\ parsing = <<>> /\ Len(defs) < MaxDefs
    /\ d.type \in {"IntegerList", "StringList"}
    /\ parsing' = <<[d |-> d, left |-> d.tokens]>>
    /\ UNCHANGED <<root, stk, file, defs, proxy, servers, process>>

ListAppend_Overrun(x) == stk' = Append(stk, x)

\* list_append_int(), list_append_str()
ListAppend(x) == stk' = IF Len(stk) < MaxStack THEN Append(stk, x) ELSE stk

ReduceElement ==
    /\ file = "reading" /\ parsing # <<>> /\ parsing[1].left # <<>>
    /\ ListAppend(Last(parsing[1].left))
    /\ parsing' = <<[parsing[1] EXCEPT !.left = Front(@)]>>
    /\ UNCHANGED <<root, file, defs, proxy, servers, process>>

PreparedList_Unreversed == stk
PreparedList == Reverse(stk)

EmptyStack == stk' = <<>>

\* add_prepared_list(), after set_list_as_integer() or set_list_as_string()
AddPreparedList ==
    /\ file = "reading" /\ parsing # <<>> /\ parsing[1].left = <<>>
    /\ LET d == parsing[1].d IN
       /\ AddEntry([name |-> d.name, type |-> d.type, list |-> PreparedList,
                    ivalue |-> Len(stk), value |-> Uninitialised])
       /\ defs' = Append(defs, d)
    /\ EmptyStack /\ parsing' = <<>>
    /\ UNCHANGED <<file, proxy, servers, process>>

\* new_system_config(): yyparse() returns at the end of the file, or with an error, which
\* ends main.
ReadFile ==
    /\ file = "reading" /\ parsing = <<>> /\ defs # <<>>
    /\ file' = "ok"
    /\ UNCHANGED <<root, stk, parsing, defs, proxy, servers, process>>

ReadError ==
    /\ file = "reading"
    /\ file' = "error" /\ process' = "failed"
    /\ UNCHANGED <<root, stk, parsing, defs, proxy, servers>>

-----------------------------------------------------------------------------
(* The functions that read the entries                                      *)

Having(k) == {i \in DOMAIN root : root[i].name.key = k}

\* sysconf_ptr(): the first entry with the key
SysconfPtr(k) == root[Min(Having(k))]

SysconfStr(k) == IF Having(k) = {} THEN "NULL" ELSE SysconfPtr(k).value

IntOrDefault(k, default) == IF Having(k) = {} THEN default ELSE SysconfPtr(k).ivalue

\* string_list(): NULL, with a size of 0 from the caller, is the empty list here.
StringList(k) ==
    IF Having(k) # {} /\ SysconfPtr(k).type = "StringList" THEN SysconfPtr(k).list ELSE <<>>

-----------------------------------------------------------------------------
(* proxy_main()                                                             *)

\* Every server must match host:port, or the thread returns and the program goes on without.
ProxyMain_Skips ==
    /\ file = "ok" /\ proxy = "start"
    /\ servers' = SelectSeq(StringList("servers"), LAMBDA s : s \in Address)
    /\ proxy' = "listening"
    /\ UNCHANGED <<confVars, process>>

ProxyMain ==
    /\ file = "ok" /\ proxy = "start"
    /\ servers' = StringList("servers")
    /\ proxy' = IF Range(servers') \subseteq Address THEN "listening" ELSE "returned"
    /\ UNCHANGED <<confVars, process>>

DefaultServer == IntOrDefault("default-server", 0)

\* The index of the server that accepting_request() takes by default.
Channel == 1 + IF DefaultServer < Len(servers) THEN DefaultServer ELSE 0

\* A client comes in on the default channel: without servers there is no remote_servers[0].
Admit ==
    /\ process = "running" /\ proxy = "listening" /\ DefaultServer >= 0
    /\ process' = IF servers = <<>> THEN "crashed" ELSE process
    /\ UNCHANGED <<confVars, proxy, servers>>

-----------------------------------------------------------------------------
Next ==
    \/ \E d \in Definition : DefineScalar(d) \/ BeginList(d)
    \/ ReduceElement \/ AddPreparedList \/ ReadFile \/ ReadError \/ ProxyMain \/ Admit

Spec == Init /\ [][Next]_vars

-----------------------------------------------------------------------------
(* Properties                                                               *)

TypeOK ==
    /\ Len(root) = Len(defs) /\ Len(stk) <= MaxStack
    /\ file \in {"reading", "ok", "error"} /\ proxy \in {"start", "returned", "listening"}
    /\ process \in {"running", "failed", "crashed"}

\* The definitions of a key, in whatever case it is written.
Given(k) == {i \in DOMAIN defs : defs[i].name.key = k}
LastGiven(k) == defs[Max(Given(k))]

\* A key has the value of its last definition; only a key that is not defined has the default.
\* A string or a list read as a number is -1 or a length, never the default.
LastDefinitionCounts ==
    \A k \in Key :
        IF Given(k) = {}
        THEN SysconfStr(k) = "NULL" /\ IntOrDefault(k, -7) = -7 /\ StringList(k) = <<>>
        ELSE LET d == LastGiven(k) IN
             /\ SysconfPtr(k).type = d.type
             /\ d.type = "Integer" => IntOrDefault(k, -7) = d.tokens[1]
             /\ d.type = "String" => SysconfStr(k) = d.tokens[1] /\ IntOrDefault(k, -7) = -1
             /\ d.type = "Boolean" =>
                    SysconfStr(k) = d.tokens[1] /\ IntOrDefault(k, -7) = IF d.tokens[1] = "on" THEN 1 ELSE 0

\* A list has the elements of the file in the order of the file, whichever way the parser
\* reduces them, and of a list that is too long the last ones: never a part of another list.
ListsInOrder ==
    \A k \in Key :
        Given(k) # {} /\ LastGiven(k).type \in {"IntegerList", "StringList"} =>
            LET given == LastGiven(k).tokens
                first == IF Len(given) > MaxStack THEN Len(given) - MaxStack + 1 ELSE 1
            IN SysconfPtr(k).list = SubSeq(given, first, Len(given))

\* The servers as they are listed in the file.
Listed ==
    IF Given("servers") # {} /\ LastGiven("servers").type = "StringList"
    THEN LastGiven("servers").tokens ELSE <<>>

\* The proxy listens with servers that it understands, stays away only because it was given one
\* that it does not understand, and crashes at a client only if it was given no list of servers.
ListensIfServersParse ==
    /\ proxy = "listening" => servers = StringList("servers") /\ Range(servers) \subseteq Address
    /\ proxy = "returned" => ~(Range(Listed) \subseteq Address)
    /\ process = "crashed" => Listed = <<>>
=============================================================================
