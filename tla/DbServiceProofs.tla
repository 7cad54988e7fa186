--------------------------- MODULE DbServiceProofs ---------------------------
(* Proofs about the database service, for any queries and any limits of the retries.        *)
EXTENDS DbService, SequenceTheorems, TLAPS

\* What an operation may still have to execute.
Lefts ==
    {<<>>, <<"established", "begin", "last_insert_id">>, <<"begin", "last_insert_id">>}
        \cup {<<q>> : q \in Query \ {"established", "begin"}}

\* Where the worker is determines what it has to do and how often it has tried.
Control ==
    /\ left \in Lefts
    /\ (pc = "none") <=> (left = <<>>)
    /\ pc \in {"none", "connect", "opened", "retrieve", "execute"} => tried = 0
    /\ pc = "create" => Head(left) \in Configured /\ tried < MaxTried
    /\ pc \in {"reconnect", "again", "reconnected"} /\ tried > 0 => Head(left) \in Configured

\* As long as operations are fast, close_idle() finds nothing to close while one is past
\* connect_to_database(), and what the worker executes is there.
Fast ==
    ~Slow =>
        /\ pc \notin {"none", "connect"} => ~idle /\ ~closing
        /\ NoUseAfterClose

\* What LAST_INSERT_ID() is about while connection_established() is under way.
RowsInOrder ==
    /\ RightRowIfBegun
    /\ pc # "none" => answer = "zero"
    /\ pc # "none" /\ begun => left = <<"last_insert_id">> /\ lastId # "other"

\* The types, one variable at a time.
Flags ==
    /\ enabled \in BOOLEAN /\ connected \in BOOLEAN /\ linked \in BOOLEAN
    /\ alive \in BOOLEAN /\ up \in BOOLEAN /\ idle \in BOOLEAN /\ aged \in BOOLEAN
    /\ closing \in BOOLEAN /\ begun \in BOOLEAN /\ failed \in BOOLEAN

Values ==
    /\ lastId \in {"zero", "mine", "other"} /\ answer \in {"zero", "mine", "other"}
    /\ stmt \in [Query -> {"null", "current", "stale"}]
    /\ \A q \in Query \ Configured : stmt[q] = "null"
    /\ by \in {"proxy", "timer"}
    /\ pc \in {"none", "connect", "opened", "retrieve", "create", "execute", "reconnect",
               "again", "reconnected"}
    /\ tried \in 0 .. MaxTried /\ counter \in 0 .. MaxCounter /\ faults \in 0 .. MaxFaults

Typed == Flags /\ Values

\* The connection of the service, of the driver and of the server, and the statements.
Agrees ==
    /\ Typed
    /\ connected = linked
    /\ alive => linked
    /\ \A q \in Query : stmt[q] = "current" => linked

\* The inductive invariant: none of the three properties is inductive by itself.
IInv == Agrees /\ Control /\ Fast /\ RowsInOrder

-----------------------------------------------------------------------------
LEMMA Types == Typed <=> TypeOK
BY DEF Typed, Flags, Values, TypeOK

\* The statements of an operation: the first and the rest.
LEMMA LeftFacts ==
    ASSUME NEW l \in Lefts, l # <<>>
    PROVE  /\ Head(l) \in Query
           /\ Len(l) = 1 => l = <<Head(l)>> /\ Head(l) \notin {"established", "begin"}
           /\ Len(l) # 1 => /\ Tail(l) \in Lefts /\ Tail(l) # <<>>
                            /\ Head(l) \in {"established", "begin"}
                            /\ Head(l) = "begin" => Tail(l) = <<"last_insert_id">>
           /\ Head(l) = "last_insert_id" => l = <<"last_insert_id">>
<1>1. CASE l = <<"established", "begin", "last_insert_id">>
  BY <1>1 DEF Lefts, Query
<1>2. CASE l = <<"begin", "last_insert_id">>
  BY <1>2 DEF Lefts, Query
<1>3. CASE \E q \in Query \ {"established", "begin"} : l = <<q>>
  BY <1>3
<1> QED
  BY <1>1, <1>2, <1>3 DEF Lefts

LEMMA InitInv == Init => IInv
<1> SUFFICES ASSUME Init PROVE IInv
  OBVIOUS
<1> USE ConstantsAssumption DEF ConstantsAssumption
<1>1. Agrees
  <2>1. /\ connected = FALSE /\ linked = FALSE /\ alive = FALSE
        /\ enabled \in BOOLEAN /\ up \in BOOLEAN /\ begun \in BOOLEAN /\ failed \in BOOLEAN
        /\ idle \in BOOLEAN /\ aged \in BOOLEAN /\ closing \in BOOLEAN
    BY Zenon DEF Init
  <2>2. /\ stmt \in [Query -> {"null", "current", "stale"}]
        /\ \A q \in Query : stmt[q] = "null"
    BY DEF Init
  <2>3. tried \in 0 .. MaxTried /\ counter \in 0 .. MaxCounter /\ faults \in 0 .. MaxFaults
    BY DEF Init
  <2>4. /\ lastId \in {"zero", "mine", "other"} /\ answer \in {"zero", "mine", "other"}
        /\ by \in {"proxy", "timer"}
        /\ pc \in {"none", "connect", "opened", "retrieve", "create", "execute", "reconnect",
                   "again", "reconnected"}
    BY DEF Init
  <2> QED
    BY <2>1, <2>2, <2>3, <2>4 DEF Agrees, Typed, Flags, Values
<1>2. Control /\ Fast /\ RowsInOrder
  BY DEF Init, Control, Lefts, Fast, NoUseAfterClose, RowsInOrder, RightRowIfBegun
<1> QED
  BY <1>1, <1>2 DEF IInv

LEMMA CallInv ==
    ASSUME IInv, NEW t \in {"proxy", "timer"}, NEW l \in Lefts, l # <<>>, Call(t, l)
    PROVE  IInv'
<1> USE DEF IInv
<1>1. Agrees'
  BY DEF Call, Agrees, Typed, Flags, Values
<1>2. Control'
  BY DEF Call, Control
<1>3. Fast' /\ RowsInOrder'
  BY DEF Call, Fast, NoUseAfterClose, RowsInOrder, RightRowIfBegun
<1> QED
  BY <1>1, <1>2, <1>3

LEMMA CallsInv == IInv /\ Calls => IInv'
<1> SUFFICES ASSUME IInv, Calls PROVE IInv'
  OBVIOUS
<1>1. \E t \in {"proxy", "timer"}, l \in Lefts \ {<<>>} : Call(t, l)
  BY DEF Calls, CheckAvailable, ConnectionClose, ConnectionEstablished, ConnectionNotAllowed,
         ReadAllProductNames, CheckVip, ConnectionBlacklisted, AddIpToAutoBlacklist,
         AddKmsDetails, UpdateMachineOwner, FailGuessing, Lefts, Query
<1> QED
  BY <1>1, CallInv

\* connect_to_database(), from either place it is called at.
LEMMA ConnectInv == IInv /\ (Open \/ ReconnectConnect) => IInv'
<1> SUFFICES ASSUME IInv, Open \/ ReconnectConnect PROVE IInv'
  OBVIOUS
<1> USE DEF IInv, local
<1>0. /\ ConnectToDatabase /\ UNCHANGED local
      /\ \/ pc = "connect" /\ pc' = "opened"
         \/ pc = "again" /\ pc' = "reconnected"
  BY DEF Open, ReconnectConnect
<1>1. Agrees'
  <2>1. Flags'
    BY <1>0, Zenon DEF ConnectToDatabase, Connect_, Connectable, Agrees, Typed, Flags
  <2>2. Values'
    BY <1>0 DEF ConnectToDatabase, Connect_, Agrees, Typed, Values
  <2>3. connected' = linked' /\ (alive' => linked') /\ (linked => linked') /\ stmt' = stmt
    BY <1>0 DEF ConnectToDatabase, Connect_, Connectable, Agrees, Typed, Flags
  <2> QED
    BY <2>1, <2>2, <2>3 DEF Agrees, Typed
<1>2. Control'
  BY <1>0 DEF Control
<1>3. Fast'
  BY <1>0 DEF ConnectToDatabase, Fast, NoUseAfterClose, Agrees, Typed, Flags, Values
<1>4. RowsInOrder'
  BY <1>0 DEF ConnectToDatabase, Connect_, RowsInOrder, RightRowIfBegun
<1> QED
  BY <1>1, <1>2, <1>3, <1>4

LEMMA OpenedInv == IInv /\ Opened => IInv'
<1> SUFFICES ASSUME IInv, Opened PROVE IInv'
  OBVIOUS
<1> USE ConstantsAssumption DEF IInv, Opened, Outside, Return, ConstantsAssumption
<1>1. Agrees'
  BY DEF Agrees, Typed, Flags, Values
<1>2. Control'
  BY DEF Control, Lefts
<1>3. Fast' /\ RowsInOrder'
  BY DEF Fast, NoUseAfterClose, RowsInOrder, RightRowIfBegun
<1> QED
  BY <1>1, <1>2, <1>3

LEMMA RetrieveInv == IInv /\ RetrieveStatement => IInv'
<1> SUFFICES ASSUME IInv, RetrieveStatement PROVE IInv'
  OBVIOUS
<1> USE ConstantsAssumption DEF IInv, RetrieveStatement, Outside, Return, ConstantsAssumption
<1>1. Agrees'
  BY DEF Agrees, Typed, Flags, Values
<1>2. Control'
  BY DEF Control, Lefts
<1>3. Fast' /\ RowsInOrder'
  BY DEF Fast, NoUseAfterClose, RowsInOrder, RightRowIfBegun
<1> QED
  BY <1>1, <1>2, <1>3

LEMMA CreateInv == IInv /\ CreateStatement => IInv'
<1> SUFFICES ASSUME IInv, CreateStatement PROVE IInv'
  OBVIOUS
<1> USE ConstantsAssumption DEF IInv, CreateStatement, Outside, ConstantsAssumption
<1>0. left # <<>> /\ left \in Lefts /\ Head(left) \in Configured
  BY DEF Control
<1>1. Agrees'
  BY <1>0 DEF Agrees, Typed, Flags, Values
<1>2. Control'
  BY DEF Control
<1>3. Fast'
  BY <1>0 DEF Fast, NoUseAfterClose, Agrees, Typed, Flags, Values
<1>4. RowsInOrder'
  BY DEF RowsInOrder, RightRowIfBegun
<1> QED
  BY <1>1, <1>2, <1>3, <1>4

LEMMA CreateFailsInv == IInv /\ CreateStatementFails => IInv'
<1> SUFFICES ASSUME IInv, CreateStatementFails PROVE IInv'
  OBVIOUS
<1> USE ConstantsAssumption DEF IInv, CreateStatementFails, Outside, ConstantsAssumption
<1>1. Agrees'
  BY DEF Agrees, Typed, Flags, Values, Control
<1>2. Control'
  BY DEF Control, Agrees, Typed, Flags, Values
<1>3. Fast' /\ RowsInOrder'
  BY DEF Fast, NoUseAfterClose, RowsInOrder, RightRowIfBegun
<1> QED
  BY <1>1, <1>2, <1>3

LEMMA DropInv == IInv /\ ReconnectDrop => IInv'
<1> SUFFICES ASSUME IInv, ReconnectDrop PROVE IInv'
  OBVIOUS
<1> USE DEF IInv, ReconnectDrop, Disconnect, local
<1>1. Agrees'
  BY DEF Agrees, Typed, Flags, Values, Detached
<1>2. Control'
  BY DEF Control
<1>3. Fast' /\ RowsInOrder'
  BY DEF Fast, NoUseAfterClose, RowsInOrder, RightRowIfBegun
<1> QED
  BY <1>1, <1>2, <1>3

LEMMA ReconnectedInv == IInv /\ Reconnected => IInv'
<1> SUFFICES ASSUME IInv, Reconnected PROVE IInv'
  OBVIOUS
<1> USE ConstantsAssumption
        DEF IInv, Reconnected, RetriesLeft, Outside, Return, ConstantsAssumption
<1>1. Agrees'
  BY DEF Agrees, Typed, Flags, Values
<1>2. Control'
  BY DEF Control, Lefts, Agrees, Typed, Flags, Values
<1>3. Fast' /\ RowsInOrder'
  BY DEF Fast, NoUseAfterClose, RowsInOrder, RightRowIfBegun
<1> QED
  BY <1>1, <1>2, <1>3

LEMMA ExecuteInv ==
    ASSUME IInv, NEW ok \in BOOLEAN, Execute(ok)
    PROVE  IInv'
<1> USE ConstantsAssumption DEF IInv, Outside, Return, ConstantsAssumption
<1>0. pc = "execute" /\ left # <<>> /\ left \in Lefts
  BY DEF Control, Execute
<1>f. /\ Head(left) \in Query
      /\ Len(left) = 1 => left = <<Head(left)>> /\ Head(left) \notin {"established", "begin"}
      /\ Len(left) # 1 => /\ Tail(left) \in Lefts /\ Tail(left) # <<>>
                          /\ Head(left) \in {"established", "begin"}
                          /\ Head(left) = "begin" => Tail(left) = <<"last_insert_id">>
      /\ Head(left) = "last_insert_id" => left = <<"last_insert_id">>
  BY <1>0, LeftFacts
<1>1. Agrees'
  <2>1. Flags'
    BY Zenon DEF Execute, Agrees, Typed, Flags
  <2>2. Values'
    BY DEF Execute, Agrees, Typed, Values
  <2> QED
    BY <2>1, <2>2 DEF Execute, Agrees, Typed
<1>e. \/ /\ pc' = "reconnect" /\ left' = left /\ tried' = tried
         /\ Head(left) = "check_available"
      \/ /\ pc' = "none" /\ left' = <<>> /\ tried' = 0
         /\ Len(left) = 1
      \/ /\ pc' = "retrieve" /\ left' = Tail(left) /\ tried' = tried
         /\ Len(left) # 1
  BY Zenon DEF Execute
<1>2. Control'
  <2>1. left' \in Lefts /\ ((pc' = "none") <=> (left' = <<>>))
    BY <1>0, <1>e, <1>f DEF Lefts
  <2>2. tried = 0
    BY <1>0 DEF Control
  <2> QED
    BY <1>e, <2>1, <2>2 DEF Control
<1>3. Fast'
  BY <1>0 DEF Execute, Fast, NoUseAfterClose
<1>4. RowsInOrder'
  <2>1. answer = "zero" /\ (begun => left = <<"last_insert_id">> /\ lastId # "other")
    BY <1>0 DEF RowsInOrder
  <2>2. /\ begun' => begun \/ Head(left) = "begin"
        /\ answer' # "zero" => Head(left) = "last_insert_id" /\ answer' = lastId
        /\ Head(left) = "begin" => lastId' # "other" \/ lastId' = lastId
        /\ Head(left) = "begin" /\ begun' => begun \/ lastId' = "mine"
        /\ Head(left) = "last_insert_id" => lastId' = lastId
    BY <2>1 DEF Execute, Inserts
  <2>3. RightRowIfBegun'
    BY <1>f, <2>1, <2>2 DEF RightRowIfBegun
  <2>4. pc' # "none" => answer' = "zero"
    BY <1>e, <1>f, <2>2
  <2>5. pc' # "none" /\ begun' => left' = <<"last_insert_id">> /\ lastId' # "other"
    <3>1. CASE Head(left) = "begin"
      BY <3>1, <1>e, <1>f, <2>1, <2>2
    <3>2. CASE begun /\ left = <<"last_insert_id">>
      BY <3>2, <1>e
    <3> QED
      BY <3>1, <3>2, <2>1, <2>2
  <2> QED
    BY <2>3, <2>4, <2>5 DEF RowsInOrder
<1> QED
  BY <1>1, <1>2, <1>3, <1>4

LEMMA DoneInv == IInv /\ Done => IInv'
<1> SUFFICES ASSUME IInv, Done PROVE IInv'
  OBVIOUS
<1> USE DEF IInv, Done, Disconnect, local
<1>1. Agrees'
  BY DEF Agrees, Typed, Flags, Values
<1>2. Control' /\ Fast' /\ RowsInOrder'
  BY DEF Control, Fast, NoUseAfterClose, RowsInOrder, RightRowIfBegun
<1> QED
  BY <1>1, <1>2

LEMMA TimerInv == IInv /\ TimerStep => IInv'
<1> SUFFICES ASSUME IInv, TimerStep PROVE IInv'
  OBVIOUS
<1> USE DEF IInv, local, server
<1>1. CASE CloseIdle
  <2>1. Agrees'
    <3>1. Flags'
      BY <1>1, Zenon DEF CloseIdle, Agrees, Typed, Flags
    <3> QED
      BY <1>1, <3>1 DEF CloseIdle, Agrees, Typed, Values
  <2>2. Control' /\ Fast' /\ RowsInOrder'
    BY <1>1 DEF CloseIdle, Control, Fast, NoUseAfterClose, RowsInOrder, RightRowIfBegun
  <2> QED
    BY <2>1, <2>2
<1>2. CASE \E q \in Query : CloseStatement(q)
  <2> PICK q \in Query : CloseStatement(q)
    BY <1>2
  <2>1. Agrees'
    BY DEF CloseStatement, Agrees, Typed, Flags, Values
  <2>2. Control' /\ RowsInOrder'
    BY DEF CloseStatement, Control, RowsInOrder, RightRowIfBegun
  <2>3. Fast'
    BY DEF CloseStatement, Fast, NoUseAfterClose
  <2> QED
    BY <2>1, <2>2, <2>3
<1>3. CASE CloseIdleEnd
  <2>1. Agrees'
    BY <1>3, ZenonT(30) DEF CloseIdleEnd, Disconnect, Agrees, Typed, Flags, Values
  <2>2. Control' /\ Fast' /\ RowsInOrder'
    BY <1>3 DEF CloseIdleEnd, Disconnect, Control, Fast, NoUseAfterClose, RowsInOrder,
                RightRowIfBegun
  <2> QED
    BY <2>1, <2>2
<1> QED
  BY <1>1, <1>2, <1>3 DEF TimerStep

LEMMA WorldInv == IInv /\ (TimePasses \/ ServerFails \/ ServerUp) => IInv'
<1> SUFFICES ASSUME IInv, TimePasses \/ ServerFails \/ ServerUp PROVE IInv'
  OBVIOUS
<1> USE ConstantsAssumption
        DEF IInv, local, server, TimePasses, ServerFails, ServerUp, ConstantsAssumption
<1>1. Agrees'
  <2>1. Flags'
    BY Zenon DEF Agrees, Typed, Flags
  <2> QED
    BY <2>1 DEF Agrees, Typed, Values
<1>2. Control' /\ Fast' /\ RowsInOrder'
  BY DEF Control, Fast, NoUseAfterClose, RowsInOrder, RightRowIfBegun
<1> QED
  BY <1>1, <1>2

LEMMA NextInv == IInv /\ [Next]_vars => IInv'
<1> SUFFICES ASSUME IInv, [Next]_vars PROVE IInv'
  OBVIOUS
<1>1. CASE Next
  <2>1. CASE WorkerStep
    BY <2>1, ConnectInv, OpenedInv, RetrieveInv, CreateInv, CreateFailsInv, DropInv,
       ReconnectedInv, ExecuteInv DEF WorkerStep, ExecuteSucceeds, ExecuteFails
  <2> QED
    BY <1>1, <2>1, CallsInv, TimerInv, DoneInv, WorldInv DEF Next
<1>2. CASE UNCHANGED vars
  <2> USE <1>2 DEF vars, local, server
  <2>1. Agrees'
    BY DEF IInv, Agrees, Typed, Flags, Values
  <2>2. Control' /\ Fast' /\ RowsInOrder'
    BY DEF IInv, Control, Fast, NoUseAfterClose, RowsInOrder, RightRowIfBegun
  <2> QED
    BY <2>1, <2>2 DEF IInv
<1> QED
  BY <1>1, <1>2

-----------------------------------------------------------------------------
\* The inductive invariant holds: the three facts above, for every value of the constants.
THEOREM Inductive == Spec => []IInv
BY InitInv, NextInv, PTL DEF Spec

\* The flag of the service and the driver's connection agree in every state of every run,
\* however the server, the retries of create_statement() and safe_reconnect_to_database(), the
\* timer's close_idle() and db_service_done() interleave, and no statement outlives its
\* connection as a usable one.
THEOREM ConnectionSafe == Spec => []ConnectionAgrees
<1>1. IInv => ConnectionAgrees
  BY Types DEF IInv, Agrees, ConnectionAgrees
<1> QED
  BY <1>1, Inductive, PTL

\* connection_established() never takes the id of another connection's row, or another table's,
\* for the row it inserted, whatever fails or reconnects between its three statements.
THEOREM RowSafe == Spec => []RightRowIfBegun
<1>1. IInv => RightRowIfBegun
  BY DEF IInv, RowsInOrder
<1> QED
  BY <1>1, Inductive, PTL

\* A statement is not used after close_idle() closed it, although it is used without
\* connection_mutex - provided that no operation takes longer than database_timeout.
THEOREM UseSafe ==
    ASSUME ~Slow
    PROVE  Spec => []NoUseAfterClose
<1>1. IInv => NoUseAfterClose
  BY DEF IInv, Fast
<1> QED
  BY <1>1, Inductive, PTL
=============================================================================
