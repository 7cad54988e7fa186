---------------------------- MODULE SqlStatement ----------------------------
(***************************************************************************)
(* Prepared statements of the MySQL driver (src/src/db_mysql.c) and the     *)
(* memory behind them: the parameters a caller sets, the buffers a result   *)
(* is bound to, the strings of its columns. The caller is an operation of   *)
(* db_service.c, which retrieves a statement, sets parameters, executes it  *)
(* and reads and closes the result before it retrieves another one.         *)
(*                                                                          *)
(* A block is an allocation and is never reused, so that a pointer to freed *)
(* memory can be told from one to the memory allocated in its place.        *)
(***************************************************************************)
EXTENDS Naturals, FiniteSets

CONSTANTS Stmt, ParamCount, FieldCount,
          MaxBlocks   \* bound on allocations

CountAssumption == ParamCount \in Nat /\ FieldCount \in Nat /\ MaxBlocks \in Nat

Param  == 1 .. ParamCount
Field  == 1 .. FieldCount
Block  == 1 .. MaxBlocks
NoStmt == "none"    \* also: nobody
Null   == 0         \* the null pointer

VARIABLES
    stmt,    \* Stmt -> its struct db_mysql_stmt_t
    heap,    \* live blocks
    used,    \* number of blocks ever allocated
    lost,    \* history: blocks given up without being freed
    unread,  \* the statement whose rows the connection still has to deliver
    user     \* the caller

vars == <<stmt, heap, used, lost, unread, user>>

Types == {"null", "number", "string"}

Closed == [handle |-> Null, type |-> [i \in Param |-> "null"], buffer |-> [i \in Param |-> Null],
           str |-> [i \in Param |-> Null], data |-> Null, field |-> [i \in Field |-> Null],
           bound |-> Null]

Idle == [at |-> "idle", s |-> NoStmt, given |-> {}, result |-> Null, many |-> FALSE,
         row |-> FALSE, column |-> 0, held |-> {}]

Init ==
    /\ stmt = [s \in Stmt |-> Closed]
    /\ heap = {} /\ used = 0 /\ lost = {}
    /\ unread = NoStmt /\ user = Idle

Values(f) == {f[i] : i \in DOMAIN f} \ {Null}
FieldStrings(s) == Values(stmt[s].field)
ParamStrings(s) == Values(stmt[s].str)

\* n new blocks: used + 1 .. used + n
Allocate(n, freed) ==
    /\ used + n <= MaxBlocks
    /\ used' = used + n
    /\ heap' = (heap \ freed) \cup (used + 1 .. used + n)

-----------------------------------------------------------------------------
(* Statements                                                               *)

\* dbmysql_createStatement(): a statement that cannot be prepared keeps its handle.
CreateStatement(s) ==
    /\ user = Idle /\ stmt[s].handle = Null
    /\ Allocate(1, {})
    /\ \/ stmt' = [stmt EXCEPT ![s].handle = used + 1] /\ UNCHANGED lost
       \/ lost' = lost \cup {used + 1} /\ UNCHANGED stmt
    /\ UNCHANGED <<unread, user>>

StmtClose_KeepsFields(s) ==
    /\ user = Idle /\ stmt[s].handle # Null
    /\ heap' = heap \ ({stmt[s].handle, stmt[s].data} \cup ParamStrings(s))
    /\ stmt' = [stmt EXCEPT ![s] = Closed]
    /\ UNCHANGED <<used, lost, unread, user>>

StmtClose(s) ==
    /\ user = Idle /\ stmt[s].handle # Null
    /\ heap' = heap \ ({stmt[s].handle, stmt[s].data} \cup ParamStrings(s) \cup FieldStrings(s))
    /\ stmt' = [stmt EXCEPT ![s] = Closed]
    /\ UNCHANGED <<used, lost, unread, user>>

-----------------------------------------------------------------------------
(* Parameters                                                               *)

ClearParameters_KeepsTypes(s) ==
    /\ stmt' = [stmt EXCEPT ![s].str = Closed.str]
    /\ heap' = heap \ ParamStrings(s)

ClearParameters(s) ==
    /\ stmt' = [stmt EXCEPT ![s].type = Closed.type, ![s].buffer = Closed.buffer,
                            ![s].str = Closed.str]
    /\ heap' = heap \ ParamStrings(s)

\* An operation begins: retrieve_statement()
Retrieve(s) ==
    /\ user = Idle /\ stmt[s].handle # Null
    /\ ClearParameters(s)
    /\ user' = [Idle EXCEPT !.at = "set", !.s = s]
    /\ UNCHANGED <<used, lost, unread>>

\* A setter ignores an index that is out of range.
InRange(i) == i >= 1 /\ i <= ParamCount

Given(i) == user' = IF InRange(i) THEN [user EXCEPT !.given = @ \cup {i}] ELSE user

\* The value is in the structure of the parameter; a string set before stays until it is cleared.
SetValue(i, type) ==
    /\ user.at = "set"
    /\ Given(i)
    /\ stmt' = IF InRange(i) THEN [stmt EXCEPT ![user.s].type[i] = type, ![user.s].buffer[i] = Null]
                             ELSE stmt
    /\ UNCHANGED <<heap, used, lost, unread>>

SetNumber(i) == SetValue(i, "number")
SetNull(i)   == SetValue(i, "null")

SetString(i) ==
    /\ user.at = "set" /\ InRange(i)
    /\ Given(i)
    /\ Allocate(1, {stmt[user.s].str[i]})
    /\ stmt' = [stmt EXCEPT ![user.s].str[i] = used + 1, ![user.s].type[i] = "string",
                            ![user.s].buffer[i] = used + 1]
    /\ UNCHANGED <<lost, unread>>

-----------------------------------------------------------------------------
(* Execution                                                                *)

\* The library refuses a statement while another one has rows to deliver.
LocalExecute == user.at = "set" /\ unread \in {NoStmt, user.s}

ExecuteFails ==
    /\ user.at = "set"
    /\ user' = Idle
    /\ UNCHANGED <<stmt, heap, used, lost, unread>>

\* A result set the statement has is freed.
ExecuteUpdate ==
    /\ LocalExecute
    /\ unread' = NoStmt
    /\ user' = Idle
    /\ UNCHANGED <<stmt, heap, used, lost>>

Fetch_NotBound(s) ==
    /\ Allocate(2, {})
    /\ lost' = lost \cup (({stmt[s].data} \cup FieldStrings(s)) \ {Null})
    /\ stmt' = [stmt EXCEPT ![s].data = used + 2, ![s].field = Closed.field]
    /\ unread' = s

\* internal_fetch_result(): the buffers of the query before are given up, not freed; then
\* mysql_stmt_bind_result().
Fetch(s) ==
    /\ Allocate(2, {})
    /\ lost' = lost \cup (({stmt[s].data} \cup FieldStrings(s)) \ {Null})
    /\ stmt' = [stmt EXCEPT ![s].data = used + 2, ![s].field = Closed.field,
                            ![s].bound = used + 2]
    /\ unread' = s

Result(s, many) == [Idle EXCEPT !.at = "rows", !.s = s, !.result = used + 1, !.many = many]

ExecuteQuery ==
    /\ LocalExecute
    /\ Fetch(user.s)
    /\ user' = Result(user.s, FALSE)

\* A statement without a result set has no metadata: executeQuery() returns NULL.
NoMetadata ==
    /\ LocalExecute
    /\ unread' = NoStmt
    /\ user' = Idle
    /\ UNCHANGED <<stmt, heap, used, lost>>

\* executeMultipleQuery(): one result after another is handled and closed.
ExecuteMultipleQuery ==
    /\ LocalExecute
    /\ Fetch(user.s)
    /\ user' = Result(user.s, TRUE)

NextResult ==
    /\ user.at = "next"
    /\ \/ Fetch(user.s) /\ user' = Result(user.s, TRUE)
       \/ user' = Idle /\ UNCHANGED <<stmt, heap, used, lost, unread>>

-----------------------------------------------------------------------------
(* Results                                                                  *)

\* dbmysql_result_next(): a row, or the end of the rows or an error.
ResultNext ==
    /\ user.at = "rows" /\ unread = user.s
    /\ \/ user' = [user EXCEPT !.row = TRUE, !.column = 0, !.held = {}] /\ UNCHANGED unread
       \/ user' = [user EXCEPT !.row = FALSE, !.held = {}] /\ unread' = NoStmt
    /\ UNCHANGED <<stmt, heap, used, lost>>

\* getString(): NULL for a column that is NULL or empty. The string of the row before is
\* freed first, and its pointer is reset, since the new one may not come.
Reading(i) == user.at = "rows" /\ user.row /\ i \in Field /\ i > user.column

GetString_KeepsPointer(i) ==
    /\ Reading(i)
    /\ LET s == user.s  old == stmt[s].field[i] IN
       \/ /\ Allocate(1, {old})
          /\ stmt' = [stmt EXCEPT ![s].field[i] = used + 1]
          /\ user' = [user EXCEPT !.column = i, !.held = @ \cup {used + 1}]
       \/ /\ heap' = heap \ {old}
          /\ user' = [user EXCEPT !.column = i] /\ UNCHANGED <<stmt, used>>
       \/ user' = [user EXCEPT !.column = i] /\ UNCHANGED <<stmt, used, heap>>
    /\ UNCHANGED <<lost, unread>>

GetString(i) ==
    /\ Reading(i)
    /\ LET s == user.s  old == stmt[s].field[i] IN
       \/ /\ Allocate(1, {old})
          /\ stmt' = [stmt EXCEPT ![s].field[i] = used + 1]
          /\ user' = [user EXCEPT !.column = i, !.held = @ \cup {used + 1}]
       \/ /\ heap' = heap \ {old}
          /\ stmt' = [stmt EXCEPT ![s].field[i] = Null]
          /\ user' = [user EXCEPT !.column = i] /\ UNCHANGED used
       \/ user' = [user EXCEPT !.column = i] /\ UNCHANGED <<stmt, used, heap>>
    /\ UNCHANGED <<lost, unread>>

Closing == [Idle EXCEPT !.at = "next", !.s = user.s]

ResultClose_KeepsRows ==
    /\ user.at = "rows"
    /\ heap' = heap \ {user.result}
    /\ user' = IF user.many THEN Closing ELSE Idle
    /\ UNCHANGED <<stmt, used, lost, unread>>

\* mysql_stmt_free_result() drops the rows that were not read.
ResultClose ==
    /\ user.at = "rows"
    /\ heap' = heap \ {user.result}
    /\ unread' = NoStmt
    /\ user' = IF user.many THEN Closing ELSE Idle
    /\ UNCHANGED <<stmt, used, lost>>

-----------------------------------------------------------------------------
Next ==
    \/ \E s \in Stmt : CreateStatement(s) \/ StmtClose(s) \/ Retrieve(s)
    \/ \E i \in 0 .. ParamCount + 1 : SetNumber(i) \/ SetNull(i) \/ SetString(i)
    \/ ExecuteUpdate \/ ExecuteQuery \/ NoMetadata \/ ExecuteMultipleQuery \/ ExecuteFails
    \/ NextResult \/ ResultNext \/ ResultClose
    \/ \E i \in Field : GetString(i)

Spec == Init /\ [][Next]_vars

-----------------------------------------------------------------------------
(* Properties                                                               *)

Pointer == Block \cup {Null}

TypeOK ==
    /\ stmt \in [Stmt -> [handle : Pointer, type : [Param -> Types], buffer : [Param -> Pointer],
                          str : [Param -> Pointer], data : Pointer, field : [Field -> Pointer],
                          bound : Pointer]]
    /\ heap \subseteq Block /\ used \in 0 .. MaxBlocks /\ lost \subseteq Block
    /\ unread \in Stmt \cup {NoStmt}
    /\ user.at \in {"idle", "set", "rows", "next"} /\ user.s \in Stmt \cup {NoStmt}
    /\ user.given \subseteq Param /\ user.held \subseteq Block /\ user.column \in 0 .. FieldCount

\* A parameter goes to the server as NULL unless this operation has set it, whatever the
\* operations before it have left in the statement.
FreshParameters ==
    user.at = "set" => \A i \in Param : stmt[user.s].type[i] # "null" => i \in user.given

Reachable(s) ==
    ({stmt[s].handle, stmt[s].data} \cup ParamStrings(s) \cup FieldStrings(s)) \ {Null}

\* No pointer the driver follows, or has handed out for the present row, is to freed memory:
\* not after a setter, a failed getString(), a second query or a close.
NoDangling ==
    /\ \A s \in Stmt :
        /\ Reachable(s) \subseteq heap
        /\ \A i \in Param : stmt[s].type[i] = "string" => stmt[s].buffer[i] = stmt[s].str[i]
    /\ user.held \subseteq heap

\* What is allocated can be reached from a statement or a result, or is one of two leaks: the
\* handle of a statement that was not prepared, the buffers of a query that was repeated.
HeapAccounted ==
    /\ heap = (UNION {Reachable(s) : s \in Stmt}) \cup lost \cup ({user.result} \ {Null})
    /\ \A s \in Stmt : Reachable(s) \cap lost = {}

\* The library never refuses a statement because the rows of another one wait: every
\* operation, also one that reads one row of many, leaves the connection in sync.
InSync == user.at \in {"idle", "set"} => unread = NoStmt

\* The rows of a result are written where its getters read.
RowsWhereRead == user.at = "rows" => stmt[user.s].bound = stmt[user.s].data

\* A parameter that the present operation of the driver has not set is sent as NULL; the
\* driver follows and hands out no pointer to freed memory, and what it has allocated can be
\* reached, but for two leaks; no statement is refused because the rows of another one wait;
\* rows are written where the getters read.
StatementsSafe ==
    TypeOK /\ FreshParameters /\ NoDangling /\ HeapAccounted /\ InSync /\ RowsWhereRead
=============================================================================
