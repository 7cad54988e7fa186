----------------------------- MODULE DbService -----------------------------
(***************************************************************************)
(* The database service (src/src/db_service.c) over the driver's connection *)
(* (src/src/db_mysql.c): when the connection is opened and dropped, which   *)
(* prepared statements exist, and how an operation fails and retries.       *)
(*                                                                          *)
(*   worker  whoever has worker_mutex, one operation at a time: the proxy   *)
(*           thread, or the timer when it expires a connection (`by`)       *)
(*   timer   close_idle() in cron(), without worker_mutex; it is the same   *)
(*           thread as the timer above                                      *)
(*   server  goes down and up, and drops connections                        *)
(*                                                                          *)
(* A statement is used outside connection_mutex. It belongs to the          *)
(* connection it was prepared on: when that is dropped, libmysqlclient      *)
(* detaches the statement, which then fails for ever ("stale").             *)
(***************************************************************************)
EXTENDS Naturals, Sequences

CONSTANTS
    Configured,  \* queries of the configuration file (query != NULL)
    MaxTried,    \* attempts of create_statement() (60 in the code)
    MaxCounter,  \* retries of safe_reconnect_to_database() (20 in the code)
    MaxFaults,   \* bounds the faults of the server and of statements
    Slow         \* whether an operation may take longer than database_timeout

Query == {"check_available", "connection_close", "last_insert_id", "not_allowed",
          "check_vip", "established", "begin", "blacklist", "add_to_blacklist",
          "add_details", "add_machine_owner", "update_machine_access",
          "failure_guessing", "all_product_names"}

ASSUME ConstantsAssumption ==
    /\ Configured \subseteq Query
    /\ "last_insert_id" \in Configured        \* its query is a constant of the code
    /\ MaxTried \in Nat \ {0} /\ MaxCounter \in Nat /\ MaxFaults \in Nat
    /\ Slow \in BOOLEAN

\* Queries that insert rows of other tables than `connections`.
Inserts == {"not_allowed", "add_to_blacklist", "add_details", "add_machine_owner"}

VARIABLES
    enabled, connected,  \* of db_service.c
    linked,      \* driver: self->connected
    alive,       \* server: it still serves the connection
    up,          \* server: connecting succeeds
    lastId,      \* server: LAST_INSERT_ID() of the session: "zero", "mine" (inserted by
                 \* the operation under way), "other"
    stmt,        \* stmt_holder[q].stmt: "null", "current", "stale"
    idle,        \* recent_use_time is more than database_timeout ago
    aged,        \* connection_time is more than max-db-connection-time ago
    closing,     \* close_idle() has connection_mutex and closes
    by, pc, left,        \* the worker's operation: thread, place, statements still to run
    tried, counter,      \* ... locals of create_statement, safe_reconnect_to_database
    begun, answer,       \* ... the row was inserted; what last_insert_id became
    failed,      \* the last check_available() failed to execute
    faults

server == <<alive, up, lastId>>
local  == <<by, left, tried, counter, begun, answer, failed>>
vars   == <<enabled, connected, linked, server, stmt, idle, aged, closing, pc, local, faults>>

Init ==
    /\ enabled \in BOOLEAN
    /\ connected = FALSE /\ linked = FALSE /\ alive = FALSE
    /\ up \in BOOLEAN
    /\ lastId = "zero" /\ answer = "zero"
    /\ stmt = [q \in Query |-> "null"]
    /\ idle = FALSE /\ aged = FALSE /\ closing = FALSE
    /\ by = "proxy" /\ pc = "none" /\ left = <<>>
    /\ tried = 0 /\ counter = 0
    /\ begun = FALSE /\ failed = FALSE /\ faults = 0

-----------------------------------------------------------------------------
(* The driver                                                               *)

\* dbmysql_connect(): at once if there is a connection, else if the server is up.
Connectable == linked \/ up

Connect_(ok) ==
    /\ linked' = ok
    /\ alive' = IF linked THEN alive ELSE ok
    /\ lastId' = IF linked THEN lastId ELSE "zero"

\* dbmysql_disconnect(): mysql_close() detaches the statements of the connection.
Detached(s) == [q \in Query |-> IF s[q] = "current" THEN "stale" ELSE s[q]]

Disconnect == linked' = FALSE /\ alive' = FALSE /\ lastId' = "zero"

-----------------------------------------------------------------------------
(* connect_to_database(): under connection_mutex; recent_use_time is set    *)
(* whether there is a connection or not.                                    *)

ConnectToDatabase_NotTouched ==
    /\ ~closing
    /\ IF enabled /\ ~connected
         THEN /\ Connect_(Connectable) /\ connected' = Connectable
              /\ aged' = (aged /\ ~Connectable) /\ idle' = FALSE
         ELSE UNCHANGED <<linked, alive, lastId, connected, aged, idle>>
    /\ UNCHANGED <<enabled, up, stmt, closing, faults>>

ConnectToDatabase ==
    /\ ~closing
    /\ idle' = FALSE
    /\ IF enabled /\ ~connected
         THEN /\ Connect_(Connectable) /\ connected' = Connectable
              /\ aged' = (aged /\ ~Connectable)
         ELSE UNCHANGED <<linked, alive, lastId, connected, aged>>
    /\ UNCHANGED <<enabled, up, stmt, closing, faults>>

(* The beginning of every operation: its thread and its statements.         *)
Call(thread, queries) ==
    /\ pc = "none"
    /\ thread = "timer" => ~closing
    /\ by' = thread /\ left' = queries
    /\ pc' = "connect"
    /\ begun' = FALSE /\ answer' = "zero"
    /\ lastId' = IF lastId = "mine" THEN "other" ELSE lastId
    /\ UNCHANGED <<enabled, connected, linked, alive, up, stmt, idle, aged, closing, tried,
                   counter, failed, faults>>

CheckAvailable       == Call("proxy", <<"check_available">>)
ConnectionClose      == \E t \in {"proxy", "timer"} : Call(t, <<"connection_close">>)
ConnectionEstablished_IdFirst == Call("proxy", <<"established", "last_insert_id", "begin">>)
ConnectionEstablished == Call("proxy", <<"established", "begin", "last_insert_id">>)
ConnectionNotAllowed == Call("proxy", <<"not_allowed">>)
ReadAllProductNames  == Call("proxy", <<"all_product_names">>)
CheckVip             == Call("proxy", <<"check_vip">>)
ConnectionBlacklisted == Call("proxy", <<"blacklist">>)
AddIpToAutoBlacklist == Call("proxy", <<"add_to_blacklist">>)
AddKmsDetails        == Call("proxy", <<"add_details">>)
UpdateMachineOwner   == \E q \in {"add_machine_owner", "update_machine_access"} :
                            Call("proxy", <<q>>)
FailGuessing         == Call("proxy", <<"failure_guessing">>)

Open ==
    /\ pc = "connect"
    /\ ConnectToDatabase
    /\ pc' = "opened"
    /\ UNCHANGED local

\* What a worker's step outside connection_mutex leaves alone.
Outside == UNCHANGED <<enabled, connected, linked, alive, up, idle, aged, closing, by>>

\* An operation returns: without a connection, a query or a statement, or at its end.
Return ==
    /\ pc' = "none" /\ left' = <<>>
    /\ tried' = 0 /\ counter' = 0

\* `connected` is read after connection_mutex was released.
Opened ==
    /\ pc = "opened"
    /\ IF connected
         THEN pc' = "retrieve" /\ UNCHANGED <<left, tried, counter>>
         ELSE Return
    /\ Outside /\ UNCHANGED <<lastId, stmt, begun, answer, failed, faults>>

\* retrieve_statement(); the worker keeps the pointer it finds.
RetrieveStatement ==
    LET q == Head(left)
    IN  /\ pc = "retrieve"
        /\ \/ stmt[q] # "null"
              /\ pc' = "execute" /\ UNCHANGED <<left, tried, counter>>
           \/ stmt[q] = "null" /\ q \in Configured
              /\ pc' = "create" /\ UNCHANGED <<left, tried, counter>>
           \/ stmt[q] = "null" /\ q \notin Configured
              /\ Return
        /\ Outside /\ UNCHANGED <<lastId, stmt, begun, answer, failed, faults>>

\* create_statement(): prepared on the connection there is.
CreateStatement ==
    /\ pc = "create"
    /\ alive
    /\ stmt' = [stmt EXCEPT ![Head(left)] = "current"]
    /\ pc' = "execute" /\ tried' = 0
    /\ Outside /\ UNCHANGED <<lastId, left, counter, begun, answer, failed, faults>>

CreateStatementFails ==
    /\ pc = "create"
    /\ \/ ~alive /\ UNCHANGED faults
       \/ alive /\ faults < MaxFaults /\ faults' = faults + 1
    /\ tried' = tried + 1
    /\ pc' = "reconnect"
    /\ Outside /\ UNCHANGED <<lastId, stmt, left, counter, begun, answer, failed>>

\* reconnect_to_database(): the connection goes, its statements are kept.
ReconnectDrop ==
    /\ pc = "reconnect"
    /\ ~closing
    /\ Disconnect /\ stmt' = Detached(stmt)
    /\ connected' = FALSE
    /\ pc' = "again"
    /\ UNCHANGED <<enabled, up, idle, aged, closing, local, faults>>

ReconnectConnect ==
    /\ pc = "again"
    /\ ConnectToDatabase
    /\ pc' = "reconnected"
    /\ UNCHANGED local

\* safe_reconnect_to_database() tries again, or returns to create_statement() (which may
\* give up) or to check_available().
RetriesLeft_OneMore == counter <= MaxCounter
RetriesLeft == counter < MaxCounter

Reconnected_Uncounted ==
    /\ pc = "reconnected"
    /\ IF ~connected
         THEN pc' = "reconnect" /\ UNCHANGED <<counter, left, tried>>
         ELSE IF tried \in 1 .. MaxTried - 1
           THEN pc' = "create" /\ counter' = 0 /\ UNCHANGED <<left, tried>>
           ELSE Return
    /\ Outside /\ UNCHANGED <<lastId, stmt, begun, answer, failed, faults>>

Reconnected ==
    /\ pc = "reconnected"
    /\ IF ~connected /\ RetriesLeft
         THEN pc' = "reconnect" /\ counter' = counter + 1 /\ UNCHANGED <<left, tried>>
         ELSE IF tried \in 1 .. MaxTried - 1
           THEN pc' = "create" /\ counter' = 0 /\ UNCHANGED <<left, tried>>
           ELSE Return
    /\ Outside /\ UNCHANGED <<lastId, stmt, begun, answer, failed, faults>>

\* A statement is executed. Nothing but check_available() looks at the connection when it
\* fails; connection_established() goes on with its next statement.
Execute(ok) ==
    LET q == Head(left)
    IN  /\ pc = "execute"
        /\ IF ok THEN stmt[q] = "current" /\ alive /\ UNCHANGED faults
                 ELSE \/ ~(stmt[q] = "current" /\ alive) /\ UNCHANGED faults
                      \/ faults < MaxFaults /\ faults' = faults + 1
        /\ IF q = "check_available" /\ ~ok
             THEN pc' = "reconnect" /\ UNCHANGED <<left, tried, counter>>
             ELSE IF Len(left) = 1
               THEN Return
               ELSE pc' = "retrieve" /\ left' = Tail(left) /\ UNCHANGED <<tried, counter>>
        /\ failed' = IF q = "check_available" THEN ~ok ELSE failed
        /\ begun' = (begun \/ (q = "begin" /\ ok))
        /\ answer' = IF q = "last_insert_id" /\ ok THEN lastId ELSE answer
        /\ lastId' = IF ok /\ q = "begin" THEN "mine"
                     ELSE IF ok /\ q \in Inserts THEN "other" ELSE lastId
        /\ Outside /\ UNCHANGED stmt

ExecuteSucceeds == Execute(TRUE)
ExecuteFails    == Execute(FALSE)

-----------------------------------------------------------------------------
(* db_service_done(), called by close_event() with worker_mutex held.       *)
Done ==
    /\ pc = "none" /\ ~closing
    /\ connected /\ aged
    /\ stmt' = [q \in Query |-> "null"]
    /\ Disconnect /\ connected' = FALSE
    /\ UNCHANGED <<enabled, up, idle, aged, closing, pc, local, faults>>

(* close_idle(), cut between the statements it closes.                      *)
CloseIdle ==
    /\ ~closing
    /\ pc # "none" => by # "timer"
    /\ connected /\ idle
    /\ closing' = TRUE
    /\ UNCHANGED <<enabled, connected, linked, server, stmt, idle, aged, pc, local, faults>>

CloseStatement(q) ==
    /\ closing
    /\ stmt[q] # "null"
    /\ stmt' = [stmt EXCEPT ![q] = "null"]
    /\ UNCHANGED <<enabled, connected, linked, server, idle, aged, closing, pc, local, faults>>

CloseIdleEnd_StatementsKept ==
    /\ closing
    /\ closing' = FALSE
    /\ Disconnect /\ connected' = FALSE /\ stmt' = Detached(stmt)
    /\ UNCHANGED <<enabled, up, idle, aged, pc, local, faults>>

CloseIdleEnd_StillConnected ==
    /\ closing
    /\ \A q \in Query : stmt[q] = "null"
    /\ closing' = FALSE
    /\ Disconnect
    /\ UNCHANGED <<enabled, connected, up, stmt, idle, aged, pc, local, faults>>

CloseIdleEnd ==
    /\ closing
    /\ \A q \in Query : stmt[q] = "null"
    /\ closing' = FALSE
    /\ Disconnect /\ connected' = FALSE
    /\ UNCHANGED <<enabled, up, stmt, idle, aged, pc, local, faults>>

(* The clock and the server                                                 *)
TimePasses ==
    /\ pc \in {"none", "connect"} \/ Slow
    /\ \/ ~idle /\ idle' = TRUE /\ UNCHANGED aged
       \/ ~aged /\ aged' = TRUE /\ UNCHANGED idle
    /\ UNCHANGED <<enabled, connected, linked, server, stmt, closing, pc, local, faults>>

ServerFails ==
    /\ faults < MaxFaults
    /\ faults' = faults + 1
    /\ \/ up /\ up' = FALSE /\ alive' = FALSE
       \/ alive /\ alive' = FALSE /\ UNCHANGED up
    /\ UNCHANGED <<enabled, connected, linked, lastId, stmt, idle, aged, closing, pc, local>>

ServerUp ==
    /\ ~up
    /\ up' = TRUE
    /\ UNCHANGED <<enabled, connected, linked, alive, lastId, stmt, idle, aged, closing, pc,
                   local, faults>>

-----------------------------------------------------------------------------
Calls ==
    \/ CheckAvailable \/ ConnectionClose \/ ConnectionEstablished \/ ConnectionNotAllowed
    \/ ReadAllProductNames \/ CheckVip \/ ConnectionBlacklisted \/ AddIpToAutoBlacklist
    \/ AddKmsDetails \/ UpdateMachineOwner \/ FailGuessing
WorkerStep ==
    \/ Open \/ Opened \/ RetrieveStatement \/ CreateStatement \/ CreateStatementFails
    \/ ReconnectDrop \/ ReconnectConnect \/ Reconnected \/ ExecuteSucceeds \/ ExecuteFails
TimerStep == CloseIdle \/ CloseIdleEnd \/ \E q \in Query : CloseStatement(q)

Next == Calls \/ WorkerStep \/ TimerStep \/ Done \/ TimePasses \/ ServerFails \/ ServerUp

Spec == Init /\ [][Next]_vars

\* The worker and close_idle() go on (they are running threads, and sleep() ends), and
\* clients keep coming. Neither that the server comes back is assumed, nor that the
\* connection is ever idle or old.
FairSpec == Spec /\ WF_vars(WorkerStep) /\ WF_vars(TimerStep) /\ SF_vars(CheckAvailable)

-----------------------------------------------------------------------------
(* Properties                                                               *)

\* Every field has its type; the retries stay within their limits.
TypeOK ==
    /\ {enabled, connected, linked, alive, up, idle, aged, closing, begun, failed}
         \subseteq BOOLEAN
    /\ {lastId, answer} \subseteq {"zero", "mine", "other"}
    /\ stmt \in [Query -> {"null", "current", "stale"}]
    /\ \A q \in Query \ Configured : stmt[q] = "null"
    /\ by \in {"proxy", "timer"}
    /\ pc \in {"none", "connect", "opened", "retrieve", "create", "execute", "reconnect",
               "again", "reconnected"}
    /\ tried \in 0 .. MaxTried /\ counter \in 0 .. MaxCounter /\ faults \in 0 .. MaxFaults

\* The worker never uses a statement that close_idle() has closed, although it uses it
\* outside connection_mutex: connect_to_database() has renewed recent_use_time. Holds as long
\* as an operation takes less than database_timeout.
NoUseAfterClose == pc = "execute" => stmt[Head(left)] # "null"

\* The service's flag and the driver's agree whatever was dropped, refused or closed, and a
\* statement that works belongs to a connection there is; all within the types, the bounds on
\* the retries included.
ConnectionAgrees ==
    /\ TypeOK
    /\ connected = linked
    /\ (\E q \in Query : stmt[q] = "current") => linked

\* The id that connection_established() gives the connection is never the id of a row of another
\* connection or table, which connection_close() would end instead, when the INSERT of the row
\* itself succeeded - whatever reconnects happen between the three statements. It may be 0.
RightRowIfBegun == begun => answer # "other"

\* Every operation ends and worker_mutex is released, however long the server is down: the
\* two nested retries are bounded.
OperationEnds == (pc # "none") ~> (pc = "none")

\* When the server works again, check_available() works again: this is what
\* reconnect_to_database() is for.
Recovers == []<>up => <>[]~failed

\* ... which is true if the connection is closed as idle from time to time.
RecoversAfterIdle == []<>up /\ []<>closing => <>[]~failed
=============================================================================
